SPECIFICATION Spec
CONSTANTS
  S1 = "S1"
  S2 = "S2"
  S3 = "S3"
  None = None
  Absent = Absent
  NoSession = NoSession
  FileIds = {11, 12, 13, 14, 15}
  MARKER = "#"
  Whitespace = {" "}
  MIN_REDACT_LENGTH = 2
  AMBIENT = {"FNOX_AGE_KEY"}
  FileNames = {"home", "proj", "ssh", "aws", "fnox", "age", "local", "mnt", "keys", "k", "key", "tmp", "var", "run", "git", "hooks", "config"}
  CREDENTIAL_PATHS <- MCCredentialPaths
  ProxyInputs <- MCProxyInputs
  Conns = {c1}
  Targets <- MCTargets
  Requests <- MCRequests
  Answers <- MCAnswers
  Generated <- MCGenerated
  ExecInputs <- MCExecInputs
  Streams = {out, err}
  Bytes = {"a", "b"}
  MaxBytes = 3
  Calls = {m1, m2}
  McpSecrets <- MCMcpSecrets
  McpTools = {"get_secret", "exec"}
  McpInherited = {"A", "U"}
  MaxVersion = 2
  Dirs = {"up", "down"}
  Visible <- MCVisible
  Configured <- MCConfigured
  HookSecrets <- MCHookSecrets
  MaxEdits = 2
  MaxEvents = 2
  MaxLeft = 1
  Profiles <- MCProfiles
  StartProfiles = {"stack"}
  ProfileSecrets <- MCProfileSecrets
  ProfileProviders <- MCProfileProviders
  BrokenProfiles = {"broken"}
  ClipboardWorks = TRUE
  MaxLoads = 2
  MaxText = 1
  MaxFilter = 1
  NoValue = NoValue
CHECK_DEADLOCK FALSE
PROPERTIES DeliveryEnds
INVARIANTS ProxySound BlindChild NothingEchoed EnvironmentRight OutputRight CleanedUp McpSound HookFresh ViewSound
