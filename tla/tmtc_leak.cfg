SPECIFICATION Spec
CONSTANTS
  TcElements = {c1, c2}
  TmElements = {m1, m2}
  RequestQueueDepth = 1
  SinkQueueDepth = 2
  ReceiverQueueDepth = 1
  MaxCalls = 3
  MaxTm = 2
  MaxReports = 0
CHECK_DEADLOCK TRUE
INVARIANT NothingLeaks
