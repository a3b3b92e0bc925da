SPECIFICATION Spec
CONSTANTS
    a = a  b = b  main = main  note = note  url = url  one = one  pem = pem  env = env
    w1 = w1  w2 = w2  w3 = w3  None = None  Absent = Absent  Malformed = Malformed
    Name = {a, b}
    Field = {main, note, url}
    Main = main
    Value = {one, pem, env}
    Ref <- References
    Lines <- TextLines
    Similar <- Contains
    BATCH_SIZE = 2
    Batches <- UpToThree
    Stores <- SomeStores
    Items <- SomeItems
    MaxChanges = 1
    Writer = {w1, w2, w3}
    Jobs <- SomeJobs
    MaxFaults = 2
CHECK_DEADLOCK FALSE
INVARIANTS ReadsAgree PutsSound
