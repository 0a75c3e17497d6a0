SPECIFICATION Spec
CONSTANTS
  Procs = {p1, p2}
  None = None
  Vals = {a, b}
  PIPESIZE = 2
  Wrap = 4
  MaxLen = 3
  Killable = {p1}
INVARIANTS
  WriterWaitsForRoom
  OnlyKilledForget
  FreedAfterUse
PROPERTIES
  ImplementsFifo
CHECK_DEADLOCK FALSE
