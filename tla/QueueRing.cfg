CONSTANTS
  Word = {a, b}
  Zero = Zero
  Junk = Junk
  None = None
  InitialSize = 2
  MaxBlockSize = 100
  SizeShift = 4
  MaxEntries = 5

SPECIFICATION Spec

INVARIANTS
  LayoutOK
  BlankForgets
PROPERTY
  IsFifo
