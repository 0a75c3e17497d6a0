CONSTANTS
  NPROC = 4
  CPUs = {c1, c2}
  NoCPU = NoCPU
  NotKilled = NotKilled
  Chans = {io}
  NPAGES = 8
  MaxPid = 4
  KillPids = {3}
SPECIFICATION Spec
SYMMETRY Symmetric
INVARIANTS
  FamiliesKept
  OneCpuEach
  PagesConserved
