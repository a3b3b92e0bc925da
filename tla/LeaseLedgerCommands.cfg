SPECIFICATION Spec
CONSTANTS
    p1 = p1  p2 = p2  aws = aws
    id1 = id1  id2 = id2  h1 = h1  h2 = h2  None = None
    Process = {p1, p2}
    Backend = {aws}
    LeaseId = {id1, id2}
    IdsOf <- SomeIds
    Hash = {h1}
    Versions = {"new"}
    Operations <- Commands
    Buffer = 0
    Retention = 1
    Duration = 1
    MaxClock = 1
    MaxLease = 2
SYMMETRY Symmetry
INVARIANTS RevokedForGood OfferedIsLive
PROPERTIES RecordsKept
