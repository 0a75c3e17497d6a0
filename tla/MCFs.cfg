SPECIFICATION Spec
CONSTANTS
  Procs = {p1, p2}
  None = None
  Inums = {i1, i2, i3}
  Root = i1
  Names = {"a", "b"}
  Calls <- SomeCalls
  MaxLinks = 2
SYMMETRY Symmetric
INVARIANTS
  RefsKept
  NamesAreLinks
  WriteThrough
  NoPanic
CHECK_DEADLOCK FALSE
