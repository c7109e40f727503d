SPECIFICATION LibkernSpec
CONSTANTS
  NULL = NULL
  ListHead = {h1, h2}
  ListEntry = {e1, e2, e3}
  WORD_SIZE = 2
  ULONG_MAX = 255
  FREE = FREE
  USED = USED
  Elem = {z1, z2, z3, z4}
  Client = {c1, c2}
  Serial = TRUE
  Exhaust = FALSE
  UINT32_MAX = 15
  kPropNameLength = 4
  Blobs <- MCBlobs
  NodeName <- MCNodeName
  PropName <- MCPropName
  PropVal <- MCPropVal
  Reserve <- MCReserve
  AddrRange <- MCAddrRange
  BufSize <- MCBufSize
  Shift <- MCShift
  Overlay <- MCOverlay
CHECK_DEADLOCK FALSE
INVARIANTS
  WalksAgree
  SafeWalkComplete
  LibcExact
  ZoneAccounted
  LookupsExact
  NavigationExact
  KernelWalksAgree
  SearchesExact
  WellFormed
  PhandlesUnique
PROPERTIES
  Refines
  
  FailedCallKeeps
  EarlierOffsetsStay
  HalfAppliedUnreadable
