SPECIFICATION Spec
CONSTANTS
    Maps = {m, n}
    Keys = {a, b, c}
    Values = {v, w}
    None = None
    Addresses = {0, 2, 3}
    Oldest = 1
    Sizes = {0}
    MaxEntries = 3
SYMMETRY Symmetry
INVARIANTS
    TypeOK
    EachEntryOnce
    IsDictionary
