SPECIFICATION Spec
CONSTANTS
    t1 = t1  t2 = t2  None = None
    Task = {t1, t2}
    Kind = {"aws-sts", "gcp-iam", "vault", "azure-token", "cloudflare", "github-app", "github-oauth", "gitlab", "kubernetes", "oauth2", "tailscale", "command"}
    Durations = {1, 2}
    Ttls = {2}
    Day = 2
    Hour = 2
    MinDuration = 2
    Buffer = 1
    HttpTimeout = 1
    DeviceTtl = 2
    CacheTtl = 1
    LastStart = 1
    MaxTime = 5
    MaxGrants = 2
    MaxToken = 2
    MaxCommands = 3
CHECK_DEADLOCK FALSE
INVARIANTS ReportsTrue TokensSound
PROPERTIES Ends
