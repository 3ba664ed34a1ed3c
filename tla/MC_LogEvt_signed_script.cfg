\* A script carrying a signature reaches the object-image rendering.
CONSTANTS
  IE <- MCIE
  Image <- MCImageSignedScript
  ProcIds <- MCProcIds
  Proc <- MCProc
  Passwd <- MCPasswd
  GroupDb <- MCGroupDb
  UidBits <- MCUidBits
  SizeBits <- MCSizeBits
  LogevtSize = 3
  NDEBUG = FALSE
  Configs <- StructureConfigs
  ExecImages <- MCExecImages
  AccessEvts <- MCAccessEvts
  LaunchdEvts <- MCLaunchdEvts
  SocketEvts <- MCSocketEvts
  SinkMayFail = FALSE

SPECIFICATION Spec

INVARIANTS
  ScriptSignatureFatal
