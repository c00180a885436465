CONSTANTS
  Obj = {m, a}
  Table = {tm, t}
  RootObj = r
  StartupMap = m
  StartupTable = tm
  Arity = 1
  RootArity = 2
  KeyCount = 1
  Labels = {"BLOCK", "HOLE", "WEAK_MAP"}
  AnyValue = FALSE
  Resurrect = FALSE
  LabelClash = TRUE
  FinSetSize = 100
  Collections = {0, 1, 2}
  Integer = Integer
  Empty = Empty
  None = None

SPECIFICATION FairSpec

PROPERTIES
  CollectionEnds
  IsMemory
