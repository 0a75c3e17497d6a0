CONSTANTS
  NPROC = 3
  CPUs = {c1, c2}
  NoCPU = NoCPU
  NotKilled = NotKilled
  Chans = {io}
  NPAGES = 5
  MaxPid = 4
  KillPids = {0, 3}
SPECIFICATION Spec


INVARIANTS KilledByPid
