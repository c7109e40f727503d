SPECIFICATION Spec
CONSTANTS
  MemBase = 1048576
  PhysBase = 1048576
  MemSize = 36864
  KernSize = 5003
  VmSection = 5120
  Base = 131072
  TT_L2_SIZE = 32768
  Size = {100, 4096, 8192}
  MaxEntries = 6
  MAX_NUM_ZONES = 2
  Request <- MCRequest
  StackRequest <- MCStackRequest
  Client = {c1, user}
  PageUser = user
  UserPages = 1
  UserUntil = 1
  MapCalls = 1
  Thread = {t1, t2}
  Serial = TRUE
INVARIANTS AllocationsAccessible
