SPECIFICATION FdtSpec
CONSTANTS
  UINT32_MAX = 15
  kPropNameLength = 4
  Blobs <- MCBlobs
  NodeName <- MCNodeName
  PropName <- MCPropName
  PropVal <- MCPropVal
  Reserve <- MCReserve
  AddrRange <- MCAddrRange
  BufSize <- MCBufSize
  Shift <- MCShift
  Overlay <- MCOverlay
CHECK_DEADLOCK FALSE
INVARIANT StringlistsExact
