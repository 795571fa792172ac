SPECIFICATION Spec
CONSTANTS
    Width = 6
    Depth = 2
    BitAnd <- AndOf
    BitOr <- OrOf
    BitXor <- XorOf
INVARIANTS
    LockStep
    PrintsAlike
CHECK_DEADLOCK FALSE
