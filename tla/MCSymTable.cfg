CONSTANTS
    a = a
    b = b
    c = c
    d = d
    e = e
    NoVal = NoVal
    Key = {a, b, c, d}
    Val = {v1, v2}
    Hash <- MCHash
    InitialCapacity = 5
    MaxCapacity = 10
SPECIFICATION SpecNoRemove
INVARIANT EntriesReachable
PROPERTY ImplementsMap
CHECK_DEADLOCK FALSE
