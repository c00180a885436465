SPECIFICATION Spec
CONSTANTS
    Radix = 4
    ConcreteSizes = {1, 2, 3}
    ReadSize = 8
    Overshoot = 3
    Graphs <- MCEmptyBlocks
    Words <- MCWords
    Names <- MCNames
    Losses = {1, 2, 13}
    Foreign <- MCForeign
INVARIANTS
    PushInFrame
