SPECIFICATION FairLifecycle
CONSTANTS
    c1 = c1  c2 = c2  d1 = d1  d2 = d2  Nobody = Nobody
    Caller = {c1, c2}
    Daemon = {d1, d2}
    Commands = {"read", "start", "stop"}
    MaxPolls = 1
    MaxKills = 1
INVARIANTS OwnsSocket
PROPERTIES AllComeToEnd
