SPECIFICATION Spec
CONSTANTS
  t1 = t1
  t2 = t2
  t3 = t3
  Tasks <- MCTasks
  SCHED_MAX_TASKS = 4
  SCHED_PRIORITY_LEVELS = 2
  SCHED_PRIORITY_NORMAL = 1
  SCHED_TIME_SLICE = 2
  Priorities <- MCPriorities
  Sleeps <- MCSleeps
  MaxTicks = 1
SYMMETRY Symmetric
PROPERTY TicksDispatch
