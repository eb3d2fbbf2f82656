SPECIFICATION Spec
CONSTANTS
  Requests <- MCRequests
  MaxTc = 3
  MaxSteps = 1
  Slots = {s1, s2}
  NoSlot = noSlot
  FIFO_DEPTH = 1
  HandlerQueueDepth = 1
  ReplyQueueDepth = 2
  handlerPresent = TRUE
SYMMETRY SlotSymmetry
CHECK_DEADLOCK TRUE
INVARIANTS
  TypeOK
  EveryTelecommandAccounted
  RepliesMatchUnlessGivenUp
  SuccessIsEarned
  StoreElementsOwned
