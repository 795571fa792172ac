CONSTANTS
    a = a
    b = b
    c = c
    d = d
    e = e
    NoVal = NoVal
    Key = {a, b, c}
    Val = {v1}
    Hash <- MCHash
    InitialCapacity = 5
    MaxCapacity = 10
SPECIFICATION Spec
INVARIANTS TypeOK OperationsReturn CountCoversEntries
CHECK_DEADLOCK FALSE
