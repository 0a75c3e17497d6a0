SPECIFICATION Spec
CONSTANTS
  Procs = {p1, p2, p3}
  None = None
  Vals = {a}
  PIPESIZE = 1
  Wrap = 2
  MaxLen = 2
  Killable = {p1, p2, p3}
SYMMETRY Symmetric
INVARIANTS
  ReaderWaitsForData
CHECK_DEADLOCK FALSE
