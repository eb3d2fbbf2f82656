SPECIFICATION Spec
CONSTANTS
  r24 = r24
  r30 = r30
  Scripts <- MCScripts
  FrameRates = {r24, r30}
  ZeroFrameRate = r0
  NoFrameRate = none
  RawCommands = {1, 2, 3}
  communicationInterface = TRUE
  Requests <- MCRequests
  MaxTc = 3
  MaxSteps = 0
  Slots = {s1}
  NoSlot = noSlot
  FIFO_DEPTH = 2
  HandlerQueueDepth = 1
  ReplyQueueDepth = 1
  handlerPresent = TRUE
CHECK_DEADLOCK TRUE
INVARIANT DumpTellsTheRate
PROPERTIES ServiceContract
  AcceptedRateApplied
