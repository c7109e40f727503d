SPECIFICATION FairSpec
CONSTANTS
  NULL = NULL
  HEAD = HEAD
  k = k
  a = a
  Thread = {k, a}
  KThread = k
  kt = kt
  Task = {kt}
  KTask = kt
  MaxThreadId = 2
  Serial = TRUE
  TickInTrampoline = FALSE
PROPERTY SchedulerFindsActive
