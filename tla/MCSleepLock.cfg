SPECIFICATION MCSpec
CONSTANTS
  Procs = {p1, p2, p3}
  None = None
  Two = {p1, p2}
  first = p1
  CPUs = {c1, c2}
  Locks = {1, 2}
  ptablelock = 2
  Wrap = 4
  Lens = {2}
  Lag = 1
  INPUT_BUF = 3
  Counters = 6
  Letters = {"a"}
  Sizes = {2}
  Cores = {c1}
  NPROC = 4
  NotKilled = NotKilled
  NPAGES = 8
  MaxPid = 4
INVARIANTS
  HolderIsInside
  NoLostWakeup
  LocksSafe
  InterruptsKept
  SleepTimed
  InputKept
PROPERTIES
  SleeperIsWoken
  ImplementsMutex
  SleepersReturn
  RunnableRuns
  OrphansReaped
