SPECIFICATION Spec
CONSTANTS
  Keys = {zero, eq}
  zero = zero
  eq = eq
  a = a
  b = b
  Zero = zero
  NoKey = nokey
  Fields = {a, b}
  Reported = {"module", "heap"}
  Nodes <- MCNodes
  CoresShown = 2
  Timeout = 1
  MaxRecords = 3
SYMMETRY FieldSymmetry
INVARIANTS RowsTellRecords SilentShowsNothing
