--------------------------------- MODULE Proc ---------------------------------
(* proc.c: the life of processes in the process table, from fork() through     *)
(* scheduler(), sleep(), kill() and exit() to wait(), on several CPUs.         *)
(* ptable.lock is explicit because it is handed over from a process to its     *)
(* CPU's scheduler and on to the next process; a step is what happens between  *)
(* two points where another CPU may interfere.                                 *)
EXTENDS Integers, FiniteSets, FiniteSetsExt

CONSTANTS
  NPROC,     \* slots of ptable.proc
  CPUs,
  NoCPU,     \* ptable.lock is free
  NotKilled, \* p->killed == 0
  Chans,     \* channels other than those of wait()
  NPAGES,    \* pages kalloc() has to give
  MaxPid,    \* bound: pids handed out by allocproc()
  KillPids   \* pids that are passed to kill()

ASSUME ProcAssumption ==
  /\ NPROC \in Nat \ {0} /\ NPAGES \in Nat /\ NPAGES >= 2 /\ MaxPid \in Nat \ {0}
  /\ NoCPU \notin CPUs
  /\ KillPids \subseteq Nat \ {1}
  /\ NotKilled \notin Nat
  /\ \A ch \in Chans : ch \notin 0..NPROC

Slots == 1..NPROC

null == 0

initproc == 1

VARIABLES
  state,    \* p->state
  pid,      \* p->pid
  parent,   \* p->parent
  chan,     \* p->chan
  killed,   \* p->killed: NotKilled, or the pid that kill() was called with
  kstack,   \* p->kstack holds a page
  pgdir,    \* p->pgdir holds a page
  nextpid,
  free,     \* pages on the free list
  lock,     \* CPU that holds ptable.lock
  cpuproc,  \* c->proc
  scan,     \* where c's scheduler() goes on scanning the table
  pc,       \* where the kernel thread of a process is
  ret,      \* where yield() or sleep() will return to
  np        \* np of a process inside fork()

table == <<state, pid, parent, chan, killed, kstack, pgdir, nextpid, free>>
threads == <<pc, ret, np>>
vars == <<table, lock, cpuproc, scan, threads>>

(* Where interrupts are on and the timer may strike. *)
Interruptible == {"run", "allocproc", "copyuvm", "publish", "closing"}

(* Threads that gave up their CPU, or are about to, inside sched(). *)
InSched == {"yield", "sleep", "wait", "exit"}

(* The table as userinit() leaves it, with every CPU in scheduler(). *)
Init ==
  /\ state = [s \in Slots |-> IF s = initproc THEN "RUNNABLE" ELSE "UNUSED"]
  /\ pid = [s \in Slots |-> IF s = initproc THEN 1 ELSE 0]
  /\ parent = [s \in Slots |-> null]
  /\ chan = [s \in Slots |-> null]
  /\ killed = [s \in Slots |-> NotKilled]
  /\ kstack = [s \in Slots |-> s = initproc]
  /\ pgdir = [s \in Slots |-> s = initproc]
  /\ nextpid = 2
  /\ free = NPAGES - 2
  /\ lock = NoCPU
  /\ cpuproc = [c \in CPUs |-> null]
  /\ scan = [c \in CPUs |-> 1]
  /\ pc = [s \in Slots |-> IF s = initproc THEN "forkret" ELSE "none"]
  /\ ret = [s \in Slots |-> "run"]
  /\ np = [s \in Slots |-> null]

(* The process on CPU c executes kernel or user code at this place. *)
At(c, place) == cpuproc[c] # null /\ pc[cpuproc[c]] = place

Goto(p, place) == pc' = [pc EXCEPT ![p] = place]

------------------------------------------------------------------------------
(* fork() *)

(* allocproc() finds a slot; without one fork() fails and nothing changes. *)
AllocProc(c) ==
  LET p == cpuproc[c]
      unused == {s \in Slots : state[s] = "UNUSED"}
      s == Min(unused) IN
  /\ At(c, "run") /\ lock = NoCPU
  /\ unused # {}
  /\ nextpid <= MaxPid
  /\ state' = [state EXCEPT ![s] = "EMBRYO"]
  /\ pid' = [pid EXCEPT ![s] = nextpid]
  /\ nextpid' = nextpid + 1
  /\ np' = [np EXCEPT ![p] = s]
  /\ Goto(p, "allocproc")
  /\ UNCHANGED <<parent, chan, killed, kstack, pgdir, free, lock, cpuproc, scan, ret>>

(* fork() gives the slot back, without ptable.lock; pid stays. *)
ForkFails(p) ==
  /\ state' = [state EXCEPT ![np[p]] = "UNUSED"]
  /\ np' = [np EXCEPT ![p] = null]
  /\ Goto(p, "run")
  /\ UNCHANGED <<pid, parent, chan, killed, pgdir, nextpid, lock, cpuproc, scan, ret>>

(* kalloc() may fail at any time, as the rest of the kernel takes pages too. *)
AllocStack(c) ==
  LET p == cpuproc[c] IN
  /\ At(c, "allocproc")
  /\ \/ ForkFails(p) /\ UNCHANGED <<kstack, free>>
     \/ /\ free > 0
        /\ kstack' = [kstack EXCEPT ![np[p]] = TRUE]
        /\ free' = free - 1
        /\ Goto(p, "copyuvm")
        /\ UNCHANGED <<state, pid, parent, chan, killed, pgdir, nextpid, lock,
                       cpuproc, scan, ret, np>>

CopyUvmLeaks(c) ==
  LET p == cpuproc[c] IN
  /\ At(c, "copyuvm")
  /\ \/ /\ ForkFails(p)
        /\ kstack' = [kstack EXCEPT ![np[p]] = FALSE]
        /\ UNCHANGED free
     \/ /\ free > 0
        /\ pgdir' = [pgdir EXCEPT ![np[p]] = TRUE]
        /\ free' = free - 1
        /\ parent' = [parent EXCEPT ![np[p]] = p]
        /\ Goto(p, "publish")
        /\ UNCHANGED <<state, pid, chan, killed, kstack, nextpid, lock, cpuproc,
                       scan, ret, np>>

(* copyuvm() and what follows up to the lock. *)
CopyUvm(c) ==
  LET p == cpuproc[c] IN
  /\ At(c, "copyuvm")
  /\ \/ /\ ForkFails(p)
        /\ kstack' = [kstack EXCEPT ![np[p]] = FALSE]
        /\ free' = free + 1
     \/ /\ free > 0
        /\ pgdir' = [pgdir EXCEPT ![np[p]] = TRUE]
        /\ free' = free - 1
        /\ parent' = [parent EXCEPT ![np[p]] = p]
        /\ Goto(p, "publish")
        /\ UNCHANGED <<state, pid, chan, killed, kstack, nextpid, lock, cpuproc,
                       scan, ret, np>>

Publish(c) ==
  LET p == cpuproc[c] IN
  /\ At(c, "publish") /\ lock = NoCPU
  /\ state' = [state EXCEPT ![np[p]] = "RUNNABLE"]
  /\ pc' = [pc EXCEPT ![p] = "run", ![np[p]] = "forkret"]
  /\ np' = [np EXCEPT ![p] = null]
  /\ UNCHANGED <<pid, parent, chan, killed, kstack, pgdir, nextpid, free, lock,
                 cpuproc, scan, ret>>

------------------------------------------------------------------------------
(* yield(), sleep() and wakeup() *)

YieldUnlocked(c) ==
  LET p == cpuproc[c] IN
  /\ cpuproc[c] # null /\ pc[p] \in Interruptible /\ lock = NoCPU
  /\ state' = [state EXCEPT ![p] = "RUNNABLE"]
  /\ ret' = [ret EXCEPT ![p] = pc[p]]
  /\ Goto(p, "yield")
  /\ UNCHANGED <<pid, parent, chan, killed, kstack, pgdir, nextpid, free, lock,
                 cpuproc, scan, np>>

(* A timer interrupt makes trap() call yield(). *)
Yield(c) ==
  LET p == cpuproc[c] IN
  /\ cpuproc[c] # null /\ pc[p] \in Interruptible /\ lock = NoCPU
  /\ lock' = c
  /\ state' = [state EXCEPT ![p] = "RUNNABLE"]
  /\ ret' = [ret EXCEPT ![p] = pc[p]]
  /\ Goto(p, "yield")
  /\ UNCHANGED <<pid, parent, chan, killed, kstack, pgdir, nextpid, free,
                 cpuproc, scan, np>>

(* sleep() on a channel protected by another lock than ptable.lock. *)
Sleep(c, ch) ==
  LET p == cpuproc[c] IN
  /\ (At(c, "run") \/ At(c, "closing")) /\ lock = NoCPU
  /\ lock' = c
  /\ chan' = [chan EXCEPT ![p] = ch]
  /\ state' = [state EXCEPT ![p] = "SLEEPING"]
  /\ ret' = [ret EXCEPT ![p] = pc[p]]
  /\ Goto(p, "sleep")
  /\ UNCHANGED <<pid, parent, killed, kstack, pgdir, nextpid, free, cpuproc,
                 scan, np>>

Wakeup1(st, ch) ==
  [s \in Slots |-> IF st[s] = "SLEEPING" /\ chan[s] = ch THEN "RUNNABLE" ELSE st[s]]

(* wakeup(), by a process or an interrupt handler on any CPU. *)
Wakeup(ch) ==
  /\ lock = NoCPU
  /\ state' = Wakeup1(state, ch)
  /\ UNCHANGED <<pid, parent, chan, killed, kstack, pgdir, nextpid, free, lock,
                 cpuproc, scan, threads>>

(* kill(); a pid that is not in the table changes nothing. *)
Kill(c, k) ==
  LET hits == {s \in Slots : pid[s] = k}
      s == Min(hits) IN
  /\ At(c, "run") /\ lock = NoCPU
  /\ hits # {}
  /\ killed' = [killed EXCEPT ![s] = k]
  /\ state' = IF state[s] = "SLEEPING" THEN [state EXCEPT ![s] = "RUNNABLE"] ELSE state
  /\ UNCHANGED <<pid, parent, chan, kstack, pgdir, nextpid, free, lock, cpuproc,
                 scan, threads>>

------------------------------------------------------------------------------
(* exit() and wait() *)

(* trap() or sys_exit() calls exit(), which closes the files of the process.   *)
(* init never does ("init exiting" panics).                                    *)
ExitStart(c) ==
  /\ At(c, "run") /\ cpuproc[c] # initproc
  /\ Goto(cpuproc[c], "closing")
  /\ UNCHANGED <<table, lock, cpuproc, scan, ret, np>>

ExitNoInitWakeup(c) ==
  LET p == cpuproc[c] IN
  /\ At(c, "closing") /\ lock = NoCPU
  /\ lock' = c
  /\ state' = [Wakeup1(state, parent[p]) EXCEPT ![p] = "ZOMBIE"]
  /\ parent' = [s \in Slots |-> IF parent[s] = p THEN initproc ELSE parent[s]]
  /\ Goto(p, "exit")
  /\ UNCHANGED <<pid, chan, killed, kstack, pgdir, nextpid, free, cpuproc, scan, ret, np>>

ExitNoReparent(c) ==
  LET p == cpuproc[c] IN
  /\ At(c, "closing") /\ lock = NoCPU
  /\ lock' = c
  /\ state' = [Wakeup1(state, parent[p]) EXCEPT ![p] = "ZOMBIE"]
  /\ Goto(p, "exit")
  /\ UNCHANGED <<pid, parent, chan, killed, kstack, pgdir, nextpid, free,
                 cpuproc, scan, ret, np>>

ExitNoWakeup(c) ==
  LET p == cpuproc[c] IN
  /\ At(c, "closing") /\ lock = NoCPU
  /\ lock' = c
  /\ state' = [state EXCEPT ![p] = "ZOMBIE"]
  /\ parent' = [s \in Slots |-> IF parent[s] = p THEN initproc ELSE parent[s]]
  /\ Goto(p, "exit")
  /\ UNCHANGED <<pid, chan, killed, kstack, pgdir, nextpid, free, cpuproc, scan, ret, np>>

Exit(c) ==
  LET p == cpuproc[c]
      kids == {s \in Slots : parent[s] = p}
      woken == Wakeup1(state, parent[p]) IN
  /\ At(c, "closing") /\ lock = NoCPU
  /\ lock' = c
  /\ state' = [(IF \E s \in kids : state[s] = "ZOMBIE"
                THEN Wakeup1(woken, initproc) ELSE woken) EXCEPT ![p] = "ZOMBIE"]
  /\ parent' = [s \in Slots |-> IF s \in kids THEN initproc ELSE parent[s]]
  /\ Goto(p, "exit")
  /\ UNCHANGED <<pid, chan, killed, kstack, pgdir, nextpid, free, cpuproc, scan, ret, np>>

WaitStart(c) ==
  /\ At(c, "run") /\ lock = NoCPU
  /\ lock' = c
  /\ Goto(cpuproc[c], "wait_loop")
  /\ UNCHANGED <<table, cpuproc, scan, ret, np>>

Zombies(p) == {s \in Slots : parent[s] = p /\ state[s] = "ZOMBIE"}

(* The scan of wait() finds an exited child. *)
WaitReap(c) ==
  LET p == cpuproc[c]
      s == Min(Zombies(p)) IN
  /\ At(c, "wait_loop")
  /\ Zombies(p) # {}
  /\ kstack' = [kstack EXCEPT ![s] = FALSE]
  /\ pgdir' = [pgdir EXCEPT ![s] = FALSE]
  /\ free' = free + 2
  /\ pid' = [pid EXCEPT ![s] = 0]
  /\ parent' = [parent EXCEPT ![s] = null]
  /\ killed' = [killed EXCEPT ![s] = NotKilled]
  /\ state' = [state EXCEPT ![s] = "UNUSED"]
  /\ pc' = [pc EXCEPT ![s] = "none", ![p] = "run"]
  /\ lock' = NoCPU
  /\ UNCHANGED <<chan, nextpid, cpuproc, scan, ret, np>>

NoPointWaiting(p) == killed[p] # NotKilled \/ \A s \in Slots : parent[s] # p

WaitFails(c) ==
  LET p == cpuproc[c] IN
  /\ At(c, "wait_loop")
  /\ Zombies(p) = {} /\ NoPointWaiting(p)
  /\ Goto(p, "run")
  /\ lock' = NoCPU
  /\ UNCHANGED <<table, cpuproc, scan, ret, np>>

(* sleep(curproc, &ptable.lock) *)
WaitSleeps(c) ==
  LET p == cpuproc[c] IN
  /\ At(c, "wait_loop")
  /\ Zombies(p) = {} /\ ~NoPointWaiting(p)
  /\ chan' = [chan EXCEPT ![p] = p]
  /\ state' = [state EXCEPT ![p] = "SLEEPING"]
  /\ Goto(p, "wait")
  /\ UNCHANGED <<pid, parent, killed, kstack, pgdir, nextpid, free, lock,
                 cpuproc, scan, ret, np>>

------------------------------------------------------------------------------
(* sched() and scheduler() *)

(* swtch() saves the thread; scheduler() resumes behind its own swtch().  *)
Swtch(c) ==
  LET p == cpuproc[c] IN
  /\ p # null /\ pc[p] \in InSched
  /\ cpuproc' = [cpuproc EXCEPT ![c] = null]
  /\ scan' = [scan EXCEPT ![c] = p + 1]
  /\ UNCHANGED <<table, lock, threads>>

ScanStart(c) ==
  /\ cpuproc[c] = null /\ lock = NoCPU
  /\ lock' = c
  /\ scan' = [scan EXCEPT ![c] = 1]
  /\ UNCHANGED <<table, cpuproc, threads>>

Candidates(c) == {s \in Slots : s >= scan[c] /\ state[s] = "RUNNABLE"}

DispatchFromStart(c) ==
  LET p == Min({s \in Slots : state[s] = "RUNNABLE"}) IN
  /\ cpuproc[c] = null /\ lock = c
  /\ {s \in Slots : state[s] = "RUNNABLE"} # {}
  /\ cpuproc' = [cpuproc EXCEPT ![c] = p]
  /\ state' = [state EXCEPT ![p] = "RUNNING"]
  /\ chan' = [chan EXCEPT ![p] = null]
  /\ Goto(p, IF pc[p] = "wait" THEN "wait_loop" ELSE ret[p])
  /\ ret' = [ret EXCEPT ![p] = "run"]
  /\ lock' = IF pc[p] = "wait" THEN c ELSE NoCPU
  /\ UNCHANGED <<pid, parent, killed, kstack, pgdir, nextpid, free, scan, np>>

(* The scan picks a process.  The thread resumes in forkret(), yield() or      *)
(* sleep(), which release ptable.lock, or in the sleep() of wait(), which goes *)
(* on holding it; sleep() clears chan.                                         *)
Dispatch(c) ==
  LET p == Min(Candidates(c)) IN
  /\ cpuproc[c] = null /\ lock = c
  /\ Candidates(c) # {}
  /\ cpuproc' = [cpuproc EXCEPT ![c] = p]
  /\ state' = [state EXCEPT ![p] = "RUNNING"]
  /\ chan' = [chan EXCEPT ![p] = null]
  /\ Goto(p, IF pc[p] = "wait" THEN "wait_loop" ELSE ret[p])
  /\ ret' = [ret EXCEPT ![p] = "run"]
  /\ lock' = IF pc[p] = "wait" THEN c ELSE NoCPU
  /\ UNCHANGED <<pid, parent, killed, kstack, pgdir, nextpid, free, scan, np>>

ScanEnd(c) ==
  /\ cpuproc[c] = null /\ lock = c
  /\ Candidates(c) = {}
  /\ lock' = NoCPU
  /\ UNCHANGED <<table, cpuproc, scan, threads>>

------------------------------------------------------------------------------
(* Steps a CPU cannot put off: inside the kernel, and in scheduler(). *)
InKernel(c) ==
  \/ AllocStack(c) \/ CopyUvm(c) \/ WaitReap(c) \/ WaitFails(c) \/ WaitSleeps(c)
  \/ Swtch(c) \/ Dispatch(c) \/ ScanEnd(c)

(* Steps that first spin for ptable.lock. *)
Spins(c) == Publish(c) \/ Exit(c) \/ ScanStart(c)

Next ==
  \/ \E c \in CPUs :
       \/ InKernel(c) \/ Spins(c)
       \/ AllocProc(c) \/ Yield(c) \/ ExitStart(c) \/ WaitStart(c)
       \/ \E ch \in Chans : Sleep(c, ch)
       \/ \E k \in KillPids : Kill(c, k)
  \/ \E ch \in Chans : Wakeup(ch)

(* A CPU goes on executing; one that spins for a lock that is released over    *)
(* and over gets it; the timer interrupts whatever runs.  init calls wait()    *)
(* over and over (init.c), however often it is interrupted, and what other     *)
(* sleeps wait for happens.  Nothing else has to.                              *)
Fairness ==
  /\ \A c \in CPUs :
       /\ WF_vars(InKernel(c))
       /\ SF_vars(Spins(c))
       /\ SF_vars(Yield(c))
       /\ SF_vars(cpuproc[c] = initproc /\ (AllocStack(c) \/ CopyUvm(c) \/ Publish(c)))
       /\ SF_vars(cpuproc[c] = initproc /\ WaitStart(c))
  /\ \A ch \in Chans : SF_vars(Wakeup(ch))

Spec == Init /\ [][Next]_vars /\ Fairness

------------------------------------------------------------------------------
(* Every variable has its type. *)
TypeOK ==
  /\ state \in [Slots -> {"UNUSED", "EMBRYO", "SLEEPING", "RUNNABLE", "RUNNING", "ZOMBIE"}]
  /\ pid \in [Slots -> 0..MaxPid]
  /\ parent \in [Slots -> 0..NPROC]
  /\ chan \in [Slots -> Chans \cup 0..NPROC]
  /\ killed \in [Slots -> KillPids \cup {NotKilled}]
  /\ kstack \in [Slots -> BOOLEAN] /\ pgdir \in [Slots -> BOOLEAN]
  /\ nextpid \in 1..(MaxPid + 1)
  /\ free \in 0..NPAGES
  /\ lock \in CPUs \cup {NoCPU}
  /\ cpuproc \in [CPUs -> 0..NPROC]
  /\ scan \in [CPUs -> 1..(NPROC + 1)]
  /\ pc \in [Slots -> InSched \cup {"none", "forkret", "run", "allocproc", "copyuvm",
                                    "publish", "closing", "wait_loop"}]
  /\ ret \in [Slots -> Interruptible]
  /\ np \in [Slots -> 0..NPROC]

(* Two CPUs never execute the same process, so never share a kernel stack; a   *)
(* process that executes has a kernel stack and a page table, which wait() of  *)
(* its parent would free; and when ptable.lock is free, exactly the processes  *)
(* on a CPU are RUNNING.                                                       *)
OneCpuEach ==
  /\ \A c, d \in CPUs : cpuproc[c] = cpuproc[d] /\ cpuproc[c] # null => c = d
  /\ \A c \in CPUs : cpuproc[c] # null => kstack[cpuproc[c]] /\ pgdir[cpuproc[c]]
  /\ lock = NoCPU =>
       \A s \in Slots : state[s] = "RUNNING" <=> \E c \in CPUs : cpuproc[c] = s

(* A process has its pages until wait() frees them: none is leaked or freed    *)
(* twice by a fork() that fails halfway or by an exit.                         *)
PagesConserved ==
  /\ free + Cardinality({s \in Slots : kstack[s]}) + Cardinality({s \in Slots : pgdir[s]})
       = NPAGES
  /\ \A s \in Slots : state[s] = "UNUSED" => ~kstack[s] /\ ~pgdir[s]

(* No exit is missed: while a process sleeps in wait() none of its children    *)
(* has exited, it has a child that will, and it has not been killed.           *)
NoLostExit ==
  lock = NoCPU =>
    \A p \in Slots : state[p] = "SLEEPING" /\ pc[p] = "wait" =>
      /\ Zombies(p) = {}
      /\ ~NoPointWaiting(p)

(* Every process but init has a parent that can still call wait() for it: exit *)
(* hands children over before anyone can see their parent gone.                *)
ParentAlive ==
  \A s \in Slots \ {initproc} :
    state[s] \notin {"UNUSED", "EMBRYO"} /\ lock = NoCPU =>
      /\ parent[s] # null
      /\ state[parent[s]] \notin {"UNUSED", "EMBRYO", "ZOMBIE"}

(* The two, on a table that is well formed. *)
FamiliesKept == TypeOK /\ NoLostExit /\ ParentAlive

(* kill() kills the process with the given pid, and no other that is created   *)
(* later.                                                                      *)
KilledByPid ==
  \A s \in Slots : state[s] # "UNUSED" => killed[s] \in {NotKilled, pid[s]}

(* Round-robin scheduling starves no process that could run. *)
RunnableRuns == \A s \in Slots : state[s] = "RUNNABLE" ~> state[s] = "RUNNING"

(* An exited process whose parent is init, orphans included, is reaped. *)
OrphansReaped ==
  \A s \in Slots : state[s] = "ZOMBIE" /\ parent[s] = initproc ~> state[s] = "UNUSED"
==============================================================================
