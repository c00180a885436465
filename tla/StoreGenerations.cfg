CONSTANTS
  Obj = {a, b}
  Table = {}
  RootObj = r
  StartupMap = None
  StartupTable = None
  Arity = 1
  RootArity = 2
  KeyCount = 1
  Labels = {"BLOCK", "HOLE"}
  AnyValue = FALSE
  Resurrect = FALSE
  LabelClash = FALSE
  FinSetSize = 100
  Collections = {0, 1, 2}
  Integer = Integer
  Empty = Empty
  None = None

SPECIFICATION Spec

INVARIANTS
  NoStalePointer
  Remembered
SYMMETRY Symmetry
