SPECIFICATION Spec
CONSTANTS
    p1 = p1  p2 = p2  k1 = k1  k2 = k2  prod = prod  stg = stg
    age = age  vault = vault  plain = plain  Default = Default  None = None
    Proc = {p1, p2}
    Profile = {prod, stg}
    Key = {k1, k2}
    Provider = {age, vault, plain}
    Cap <- CapDef
    Elsewhere <- Imported
    Start <- Starts
    Command <- Commands
    MaxCommands = 2
CHECK_DEADLOCK FALSE
INVARIANTS LoadsSound Precedence
PROPERTIES EditsSound Ends
