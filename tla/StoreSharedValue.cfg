CONSTANTS
  Obj = {m, w, a}
  Table = {tm, t}
  RootObj = r
  StartupMap = m
  StartupTable = tm
  Arity = 1
  RootArity = 3
  KeyCount = 1
  Labels = {"BLOCK", "WEAK_MAP"}
  AnyValue = TRUE
  Resurrect = FALSE
  LabelClash = FALSE
  FinSetSize = 100
  Collections = {0, 1, 2}
  Integer = Integer
  Empty = Empty
  None = None

SPECIFICATION Spec

INVARIANTS
  NoEntryOfFinalizedValue
