SPECIFICATION Spec
CONSTANTS
  MaxCreations = 2
  MainCommands = 3
CHECK_DEADLOCK TRUE
INVARIANTS
  TypeOK
  QueuesHaveReaders
  CreatedOnce
PROPERTY MainCommandsAccepted
