SPECIFICATION Spec
CONSTANTS
  NULL = NULL
  HEAD = HEAD
  k = k
  a = a
  b = b
  Thread = {k, a, b}
  KThread = k
  kt = kt
  ut = ut
  Task = {kt, ut}
  KTask = kt
  MaxThreadId = 4
  Serial = TRUE
  TickInTrampoline = TRUE
SYMMETRY Symmetry
INVARIANTS RunningThreadLive ThreadListSound UniqueThreadIds
PROPERTIES SavedContextKept BlockHolds
