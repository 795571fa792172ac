CONSTANTS
    Programs <- EarlyReturn
    CaptureSet <- Captures
    Node <- Node_
    StackSize = 16
SPECIFICATION Spec
INVARIANT CallLeavesResult
CHECK_DEADLOCK FALSE
