SPECIFICATION Spec
CONSTANTS
    NWords = 2
    SwTicks = 2
    Holds = TRUE
    NoCall = NoCall
INVARIANTS
    NoContention
PROPERTY ImplementsPort
