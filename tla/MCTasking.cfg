SPECIFICATION Spec
CONSTANTS
  MaxTasks = 3
  MaxPids = 4
  MESSAGE_QUEUE_SIZE = 2
  Type = {app}
  InputType = input
  Kmain = kmain
  NULL = NULL
  NoMessage = NoMessage
  Message <- MCMessage
INVARIANTS
  TypeOK
  TaskRing
  ProcessRing
  OwnStack
  NoLostWakeup
PROPERTY
  ReadyTaskRuns
CHECK_DEADLOCK FALSE
