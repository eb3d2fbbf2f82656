SPECIFICATION Spec
CONSTANTS
  FrameRates = {r24, r30}
  ZeroFrameRate = r0
  NoFrameRate = none
  RawCommands <- MCRawCommands
  communicationInterface = TRUE
CHECK_DEADLOCK TRUE
INVARIANT CurrentRateIsReported
