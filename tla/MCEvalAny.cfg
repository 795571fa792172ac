CONSTANTS
    Programs <- Programs_
    CaptureSet <- Captures
    Node <- Node_
    StackSize = 12
SPECIFICATION FairSpec
INVARIANTS TypeOK FrameFloor LvalueAlive
PROPERTIES QuietAfterError CallersUntouched ErrorEnds
CHECK_DEADLOCK FALSE
