CONSTANTS
    Programs <- NestedRecursion
    CaptureSet <- Captures
    Node <- Node_
    StackSize = 16
SPECIFICATION Spec
INVARIANT RecursionResolves
CHECK_DEADLOCK FALSE
