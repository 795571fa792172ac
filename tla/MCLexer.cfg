CONSTANT
    Sources <- MCSources
SPECIFICATION FairSpec
INVARIANTS TypeOK InOrder LongestMatch KindsRight
PROPERTIES EndIsFinal ReachesEnd
