\* The subject of an image_exec record of a reconstructed image names no process.
CONSTANTS
  IE <- MCIE
  Image <- MCImage
  ProcIds <- MCProcIds
  Proc <- MCProc
  Passwd <- MCPasswd
  GroupDb <- MCGroupDb
  UidBits <- MCUidBits
  SizeBits <- MCSizeBits
  LogevtSize = 3
  NDEBUG = FALSE
  Configs <- StructureConfigs
  ExecImages <- MCExecImages
  AccessEvts <- MCAccessEvts
  LaunchdEvts <- MCLaunchdEvts
  SocketEvts <- MCSocketEvts
  SinkMayFail = FALSE

SPECIFICATION Spec

INVARIANT
  SubjectIdentified
