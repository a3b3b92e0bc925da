SPECIFICATION Spec
CONSTANTS
    c1 = c1  c2 = c2  A = A  B = B  old = old  new = new
    plain = plain  check = check  s0 = s0  None = None
    Client = {c1, c2}
    Secret = {A}
    Config = {old}
    Context = {plain, check}
    CheckContext = {check}
    SecretSpec = {s0}
    Defined <- AllDefined
    DaemonCached <- AllDefined
    SpecOf <- SameSpec
    Operations <- OneSecret
    MaxVersion = 2
    MaxEpoch = 2
    MaxIncarnation = 1
SYMMETRY Symmetry
INVARIANTS NoStaleEntry FreshAnswer
PROPERTY RefinesClearableCache
