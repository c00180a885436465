CONSTANTS
  Obj = {m, a}
  Table = {tm}
  RootObj = r
  StartupMap = m
  StartupTable = tm
  Arity = 1
  RootArity = 2
  KeyCount = 2
  Labels = {"BLOCK"}
  AnyValue = TRUE
  Resurrect = TRUE
  LabelClash = TRUE
  FinSetSize = 100
  Collections = {0, 1, 2}
  Integer = Integer
  Empty = Empty
  None = None

SPECIFICATION Spec

INVARIANTS
  TypeOK
  MajorReclaims
  EntriesFinalized
  FinalizersGetLiveValues
