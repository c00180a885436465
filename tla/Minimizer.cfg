SPECIFICATION Spec
CONSTANTS
    Graphs <- MCGraphs
    Words <- MCWords
    Invalid = Invalid
INVARIANTS
    Coarsest
    CountersExact
PROPERTY
    Reduced
CHECK_DEADLOCK FALSE
