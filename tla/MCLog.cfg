SPECIFICATION Spec
CONSTANTS
  Procs = {p1, p2}
  Blocks = {b1, b2, b3}
  AfterLog = b1
  Vals = {v1, v2}
  Uncached = Uncached
  NoBlock = NoBlock
  LOGSIZE = 4
  MAXOPBLOCKS = 2
  NLOG = 4
  OpMax = 1
SYMMETRY Symmetric
INVARIANTS
  CommitAlone
  NoTooBigPanic
  QuiescentIsDurable
  SleeperHasWaker
PROPERTIES
  CrashAtomicity
