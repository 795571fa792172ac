SPECIFICATION Spec
CONSTANTS
    Programs <- Programs_
    MaxBlocks = 26
INVARIANTS
    SingleOwner
    NothingDangles
    ScopesFree
    FlatIsAccepted
CHECK_DEADLOCK FALSE
