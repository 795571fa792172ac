CONSTANTS
    Inputs <- Inputs_
    Language <- Language_
    VecCapacity = 2
    MaxParams = 2
    WindowLength = 4
    SizeRange = 256
SPECIFICATION FairSpec
INVARIANTS
    TypeOK
    NeverGoesBack
    ScopeIsInnermost
    BlocksKnowDecls
    TreeOfSource
    BindsByLevel
    EveryStatementEats
    Accepted
PROPERTY Terminates
CHECK_DEADLOCK FALSE
