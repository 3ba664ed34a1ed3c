\* The stream fails part way through a record.
CONSTANTS
  IE <- MCIE
  Image <- MCImage
  ProcIds <- MCProcIds
  Proc <- MCProc
  Passwd <- MCPasswd
  GroupDb <- MCGroupDb
  UidBits <- MCUidBits
  SizeBits <- MCSizeBits
  LogevtSize = 3
  NDEBUG = FALSE
  Configs <- StructureConfigs
  ExecImages <- MCExecImages
  AccessEvts <- MCAccessEvts
  LaunchdEvts <- MCLaunchdEvts
  SocketEvts <- MCSocketEvts
  SinkMayFail = TRUE

SPECIFICATION Spec

INVARIANTS
  FailurePropagated
