CONSTANTS
    WindowLength = 8
    SizeRange = 256
    SourceLength = 60
SPECIFICATION Spec
INVARIANT OneToken
PROPERTY ImplementsStream
