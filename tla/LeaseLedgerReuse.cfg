SPECIFICATION FairSpec
CONSTANTS
    p1 = p1  p2 = p2  aws = aws
    id1 = id1  id2 = id2  h1 = h1  h2 = h2  None = None
    Process = {p1, p2}
    Backend = {aws}
    LeaseId = {id1, id2}
    IdsOf <- SomeIds
    Hash = {h1, h2}
    Versions = {"old", "new"}
    Operations <- Readers
    Buffer = 1
    Retention = 1
    Duration = 0
    MaxClock = 0
    MaxLease = 1
INVARIANT ReuseSound
PROPERTY Finishes
