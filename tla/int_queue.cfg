SPECIFICATION Spec
CONSTANT MaxInts = 5
CHECK_DEADLOCK TRUE
INVARIANTS
  TypeOK
  QueueHoldsLatest
  AccessesExclusive
