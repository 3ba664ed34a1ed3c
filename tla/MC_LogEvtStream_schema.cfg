\* The serializer implements the record-level EventSchema specification.
CONSTANTS
  IE <- MCIE
  Image <- MCImage
  ProcIds <- MCProcIds
  Proc <- MCProc
  Passwd <- MCPasswd
  GroupDb <- MCGroupDb
  UidBits <- MCUidBits
  SizeBits <- MCSizeBits
  LogevtSize = 3
  NDEBUG = FALSE
  Configs <- SchemaConfigs
  ExecImages <- MCExecImages
  AccessEvts <- MCAccessEvts
  LaunchdEvts <- MCLaunchdEvts
  SocketEvts <- MCSocketEvts
  SinkMayFail = FALSE

SPECIFICATION StreamSpec

PROPERTY
  SchemaRefined
