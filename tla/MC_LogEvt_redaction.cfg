\* Redaction switches and identity resolution over every switch combination.
CONSTANTS
  IE <- MCIE
  Image <- MCImage
  ProcIds <- MCProcIds
  Proc <- MCProc
  Passwd <- MCPasswd
  GroupDb <- MCGroupDb
  UidBits <- MCUidBits
  SizeBits <- MCSizeBits
  LogevtSize = 3
  NDEBUG = FALSE
  Configs <- RedactionConfigs
  ExecImages <- MCExecImages
  AccessEvts <- MCAccessEvts
  LaunchdEvts <- MCLaunchdEvts
  SocketEvts <- MCSocketEvts
  SinkMayFail = FALSE

SPECIFICATION Spec

INVARIANTS
  RedactionExact
  IdentityResolution
