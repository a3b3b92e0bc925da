SPECIFICATION FairSpec
CONSTANTS
    c1 = c1  c2 = c2  A = A  B = B  old = old  new = new
    plain = plain  check = check  s0 = s0  None = None
    Client = {c1, c2}
    Secret = {A}
    Config = {old, new}
    Context = {plain}
    CheckContext = {}
    SecretSpec = {s0}
    Defined <- AllDefined
    DaemonCached <- OnlyOldCached
    SpecOf <- SameSpec
    Operations <- Reads
    MaxVersion = 0
    MaxEpoch = 0
    MaxIncarnation = 0
INVARIANT ResolvedAsKeyed
PROPERTY Answered
