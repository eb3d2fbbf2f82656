SPECIFICATION FairSpec
CONSTANTS
  Requests <- MCOddRequests
  MaxTc = 3
  MaxSteps = 0
  Slots = {s1}
  NoSlot = noSlot
  FIFO_DEPTH = 1
  HandlerQueueDepth = 1
  ReplyQueueDepth = 1
  handlerPresent = TRUE
CHECK_DEADLOCK TRUE
PROPERTY EveryTelecommandEnds
