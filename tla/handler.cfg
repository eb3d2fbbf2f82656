SPECIFICATION FairSpec
CONSTANTS
  FrameRates = {r24}
  ZeroFrameRate = r0
  NoFrameRate = none
  RawCommands <- MCRawCommands
  communicationInterface = TRUE
CHECK_DEADLOCK TRUE
INVARIANTS
  TypeOK
  SnapshotTracksReply
  RepliesAreOwed
  RequestedRateApplied
PROPERTY CommandsServed
