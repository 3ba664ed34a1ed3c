\* Record structure and ancestry over every hash selection and ancestor depth.
CONSTANTS
  IE <- MCIE
  Image <- MCImage
  ProcIds <- MCProcIds
  Proc <- MCProc
  Passwd <- MCPasswd
  GroupDb <- MCGroupDb
  UidBits <- MCUidBits
  SizeBits <- MCSizeBits
  LogevtSize = 3
  NDEBUG = FALSE
  Configs <- StructureConfigs
  ExecImages <- MCExecImages
  AccessEvts <- MCAccessEvts
  LaunchdEvts <- MCLaunchdEvts
  SocketEvts <- MCSocketEvts
  SinkMayFail = FALSE

SPECIFICATION Spec

INVARIANTS
  TypeOK
  EnvelopeProtocol
  NoDuplicateKeys
  AncestryFaithful
  PlatformHashPolicy
  SignatureFields
  ProcessPidFaithful
