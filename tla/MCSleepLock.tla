----------------------------- MODULE MCSleepLock -----------------------------
(* The kernel's small machines of locks, sleep and wakeup for TLC, side by     *)
(* side: a behaviour is one of the machine that Init chooses, and the others   *)
(* stay as they are.                                                           *)
EXTENDS SleepLock

CONSTANTS
  Two, first,                           \* processes of the other machines
  CPUs, Locks, ptablelock,              \* of Cpu
  Wrap, Lens, Lag,                      \* of Ticks
  INPUT_BUF, Counters, Letters, Sizes,  \* of Console
  Cores, NPROC, NotKilled, NPAGES, MaxPid  \* of Proc

VARIABLES
  machine,
  lock, fl_if, ncli, intena, spin, run, irq, under, parked, born,
  ticks, tickslock, sleeper, n, ticks0, stopped, elapsed, waited, late,
  buf, r, w, e, conslock, reader, left, target, gone, ready, line,
  slot, slotpid, parent, slotchan, slotkilled, kstack, pgdir, nextpid, free,
  tablelock, cpuproc, scan, thread, ret, np

cpuVars == <<lock, fl_if, ncli, intena, spin, run, irq, under, parked, born>>
ticksVars == <<ticks, tickslock, sleeper, n, ticks0, stopped, elapsed, waited, late>>
consoleVars == <<buf, r, w, e, conslock, reader, left, target, gone, ready, line>>
procVars == <<slot, slotpid, parent, slotchan, slotkilled, kstack, pgdir, nextpid, free,
              tablelock, cpuproc, scan, thread, ret, np>>

C == INSTANCE Cpu WITH Procs <- Two, ptable <- ptablelock, initproc <- first

T == INSTANCE Ticks WITH Procs <- Two, pc <- sleeper, killed <- stopped

K == INSTANCE Console WITH
  Readers <- Two, Wrap <- Counters, lock <- conslock, pc <- reader, n <- left, killed <- gone

(* The process table without kill() and without sleeps other than wait()'s. *)
P == INSTANCE Proc WITH
  CPUs <- Cores, NoCPU <- None, Chans <- {}, KillPids <- {},
  state <- slot, pid <- slotpid, chan <- slotchan, killed <- slotkilled,
  lock <- tablelock, pc <- thread

ASSUME CpuConstants == C!CpuAssumption
ASSUME TicksConstants == T!TicksAssumption
ASSUME ConsoleConstants == K!ConsoleAssumption

MCInit ==
  /\ machine \in {"sleeplock", "cpu", "ticks", "console", "proc"}
  /\ Init /\ C!Init /\ T!Init /\ K!Init /\ P!Init

MCNext ==
  /\ UNCHANGED machine
  /\ \/ machine = "sleeplock" /\ Next /\ UNCHANGED <<cpuVars, ticksVars, consoleVars, procVars>>
     \/ machine = "cpu" /\ C!Next /\ UNCHANGED <<vars, ticksVars, consoleVars, procVars>>
     \/ machine = "ticks" /\ T!Next /\ UNCHANGED <<vars, cpuVars, consoleVars, procVars>>
     \/ machine = "console" /\ K!Next /\ UNCHANGED <<vars, cpuVars, ticksVars, procVars>>
     \/ machine = "proc" /\ P!Next /\ UNCHANGED <<vars, cpuVars, ticksVars, consoleVars>>

all == <<machine, vars, cpuVars, ticksVars, consoleVars, procVars>>

(* The steps that the fairness of Proc is about, in a behaviour of Proc. *)
Runs(A) == machine = "proc" /\ A

InitRuns(c, A) == cpuproc[c] = P!initproc /\ Runs(A)

(* The fairness of SleepLock, of Ticks and of Proc, for the behaviours of each. *)
MCSpec ==
  /\ MCInit /\ [][MCNext]_all
  /\ \A p \in Procs : WF_vars(machine = "sleeplock" /\ Step(p))
  /\ WF_ticksVars(machine = "ticks" /\ T!Timer)
  /\ \A p \in Two : WF_ticksVars(machine = "ticks" /\ T!Step(p))
  /\ \A c \in Cores :
       /\ WF_procVars(Runs(P!InKernel(c)))
       /\ SF_procVars(Runs(P!Spins(c)))
       /\ SF_procVars(Runs(P!Yield(c)))
       /\ SF_procVars(InitRuns(c, P!AllocStack(c) \/ P!CopyUvm(c) \/ P!Publish(c)))
       /\ SF_procVars(InitRuns(c, P!WaitStart(c)))

------------------------------------------------------------------------------
(* acquire() never finds the lock held by its own CPU, a panic, and ncli        *)
(* counts the acquires without a release on the CPU, across sched().           *)
LocksSafe == C!NeverOwnLock /\ C!NcliCounts

(* A thread without locks takes interrupts unless it is in a handler, as       *)
(* sched() keeps intena with the thread; and the first process takes them      *)
(* when forkret() goes on to wait for the disk.                                *)
InterruptsKept == C!InterruptsRestored /\ C!FirstTakesInterrupts

(* sys_sleep(n) returns 0 only after n ticks, also when ticks wraps around,    *)
(* and a killed process leaves it within a tick and the time it waits for a    *)
(* CPU, at most Lag ticks, wherever kill() came.                               *)
SleepTimed == T!SleptEnough /\ T!KilledLeaves

(* A call of sys_sleep() that can see its end in time returns. *)
SleepersReturn == T!SleepersReturn

(* input.buf and its counters are an ideal line editor, whatever wraps around; *)
(* a full buffer can be read; a consoleread() sleeps only while there is       *)
(* nothing to read.                                                            *)
InputKept == K!EditorAgrees /\ K!FullIsReadable /\ K!AsleepMeansEmpty

(* Round-robin scheduling in scheduler() starves no process that could run. *)
RunnableRuns == machine = "proc" => P!RunnableRuns

(* An exited process whose parent is init, orphans included, is reaped. *)
OrphansReaped == machine = "proc" => P!OrphansReaped
==============================================================================
