CONSTANTS
    Programs <- Programs_
    CaptureSet <- Captures
    Node <- Node_
    StackSize = 24
SPECIFICATION FairSpec
INVARIANTS ComputesMeaning CallLeavesResult StatusIsOK CleanEnd VoidsAreStatements
PROPERTY Terminates
CHECK_DEADLOCK FALSE
