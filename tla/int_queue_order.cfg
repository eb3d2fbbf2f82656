SPECIFICATION Spec
CONSTANT MaxInts = 3
CHECK_DEADLOCK TRUE
INVARIANT MessageQueueOrder
