SPECIFICATION FairSpec
CONSTANTS
  TcElements = {c1, c2, c3}
  TmElements = {m1, m2}
  RequestQueueDepth = 2
  SinkQueueDepth = 2
  ReceiverQueueDepth = 1
  MaxCalls = 4
  MaxTm = 2
  MaxReports = 2
CHECK_DEADLOCK TRUE
INVARIANTS
  TypeOK
  TcElementsOwned
  TmElementsOwned
PROPERTIES
  TcDelivery
  TmDelivery
  EverythingDelivered
