SPECIFICATION MainSpec
CONSTANTS
  NULL = NULL
  HEAD = HEAD
  k = k
  a = a
  b = b
  Thread = {k, a, b}
  KThread = k
  kt = kt
  ut = ut
  Task = {kt, ut}
  KTask = kt
  MaxThreadId = 2
  Serial = TRUE
  TickInTrampoline = FALSE
  DestroyAt = 5
INVARIANTS MainRunsOn
PROPERTIES TestThreadDestroyed KThreadRuns
