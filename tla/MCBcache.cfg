SPECIFICATION Spec
CONSTANTS
  Procs = {p1, p2}
  None = None
  Bufs = {b1, b2}
  Blocks = {k1, k2, k3}
  Vals = {u, v}
  Zero = u
  MaxPinned = 1
  Outcomes = {TRUE}
INVARIANTS
  BuffersCounted
  QueueOwned
PROPERTIES
  BreadReturns
  ImplementsBlocks
CHECK_DEADLOCK FALSE
