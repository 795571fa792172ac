CONSTANTS
    Inputs <- LastSlot
    Language = {}
    VecCapacity = 64
    MaxParams = 64
    WindowLength = 8
    SizeRange = 256
SPECIFICATION Spec
INVARIANT NeverGoesBack
CHECK_DEADLOCK FALSE
