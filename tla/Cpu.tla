--------------------------------- MODULE Cpu ---------------------------------
(* Spinlocks and interrupts: acquire, release, pushcli and popcli of           *)
(* spinlock.c, the entry to and the return from an interrupt (trap.c), and the *)
(* switch between a process and the scheduler (proc.c), which carries ncli and *)
(* ptable.lock from one thread to another and intena on the stack of each.     *)
(* Memory that the locks protect is in the other modules.                      *)
EXTENDS Integers, FiniteSets

CONSTANTS
  CPUs, Procs, None,
  initproc, \* the process that userinit() makes
  Locks,   \* numbers: a CPU acquires locks in rising order
  ptable   \* ptable.lock, the last of them

CpuAssumption ==
  /\ IsFiniteSet(Locks) /\ Locks \subseteq Nat /\ ptable \in Locks
  /\ None \notin Locks \cup CPUs
  /\ CPUs \cap Procs = {}

VARIABLES
  lock,     \* the CPU that holds a lock (lk->locked, lk->cpu), or None
  fl_if,    \* FL_IF: whether the CPU takes interrupts
  ncli, intena,
  spin,     \* the lock the CPU waits for in acquire(), or None
  run,      \* the thread the CPU runs: a process, or its scheduler, named as the CPU
  irq,      \* the threads that are inside an interrupt handler
  under,    \* the locks that the code below the handler held when it was entered
  parked,   \* intena, as a process that is not running has saved it in sched()
  born      \* "no", "new" until its first run, "forkret" during it, then "yes"

vars == <<lock, fl_if, ncli, intena, spin, run, irq, under, parked, born>>

Threads == CPUs \cup Procs

Held(c) == {l \in Locks : lock[l] = c}

(* What the code that runs has acquired itself: a handler does not know of     *)
(* the locks of the code it interrupted.                                       *)
Own(c) == Held(c) \ under[run[c]]

Init ==
  /\ lock = [l \in Locks |-> None]
  /\ fl_if = [c \in CPUs |-> TRUE]
  /\ ncli = [c \in CPUs |-> 0]
  /\ intena = [c \in CPUs |-> FALSE]
  /\ spin = [c \in CPUs |-> None]
  /\ run = [c \in CPUs |-> c]
  /\ irq = {}
  /\ under = [t \in Threads |-> {}]
  /\ parked = [p \in Procs |-> FALSE]
  /\ born = [p \in Procs |-> IF p = initproc THEN "new" ELSE "no"]

PushcliStaysOn(c) ==
  /\ intena' = IF ncli[c] = 0 THEN [intena EXCEPT ![c] = fl_if[c]] ELSE intena
  /\ ncli' = [ncli EXCEPT ![c] = @ + 1]
  /\ UNCHANGED fl_if

PushcliAlways(c) ==
  /\ intena' = [intena EXCEPT ![c] = fl_if[c]]
  /\ ncli' = [ncli EXCEPT ![c] = @ + 1]
  /\ fl_if' = [fl_if EXCEPT ![c] = FALSE]

Pushcli(c) ==
  /\ intena' = IF ncli[c] = 0 THEN [intena EXCEPT ![c] = fl_if[c]] ELSE intena
  /\ ncli' = [ncli EXCEPT ![c] = @ + 1]
  /\ fl_if' = [fl_if EXCEPT ![c] = FALSE]

PopcliAtOnce(c) ==
  /\ ncli' = [ncli EXCEPT ![c] = 0]
  /\ fl_if' = [fl_if EXCEPT ![c] = intena[c]]

Popcli(c) ==
  /\ ncli' = [ncli EXCEPT ![c] = @ - 1]
  /\ fl_if' = IF ncli[c] = 1 /\ intena[c] THEN [fl_if EXCEPT ![c] = TRUE] ELSE fl_if

(* acquire() up to the loop, ... *)
Acquire(c, l) ==
  /\ spin[c] = None
  /\ \A k \in Own(c) : k < l
  /\ Pushcli(c)
  /\ spin' = [spin EXCEPT ![c] = l]
  /\ UNCHANGED <<lock, run, irq, under, parked, born>>

(* ... and the xchg that ends it. *)
Xchg(c) ==
  /\ spin[c] # None /\ lock[spin[c]] = None
  /\ lock' = [lock EXCEPT ![spin[c]] = c]
  /\ spin' = [spin EXCEPT ![c] = None]
  /\ UNCHANGED <<fl_if, ncli, intena, run, irq, under, parked, born>>

(* release() *)
Release(c, l) ==
  /\ spin[c] = None /\ l \in Own(c)
  /\ lock' = [lock EXCEPT ![l] = None]
  /\ Popcli(c)
  /\ UNCHANGED <<intena, spin, run, irq, under, parked, born>>

(* An interrupt gate clears FL_IF; iret restores it.  A handler leaves with    *)
(* the locks released.                                                         *)
Interrupt(c) ==
  /\ fl_if[c]
  /\ fl_if' = [fl_if EXCEPT ![c] = FALSE]
  /\ irq' = irq \cup {run[c]}
  /\ under' = [under EXCEPT ![run[c]] = Held(c)]
  /\ UNCHANGED <<lock, ncli, intena, spin, run, parked, born>>

Iret(c) ==
  /\ run[c] \in irq /\ Own(c) = {} /\ spin[c] = None
  /\ fl_if' = [fl_if EXCEPT ![c] = TRUE]
  /\ irq' = irq \ {run[c]}
  /\ under' = [under EXCEPT ![run[c]] = {}]
  /\ UNCHANGED <<lock, ncli, intena, spin, run, parked, born>>

(* trapret at the end of forkret(): iret to user space. *)
Trapret(c) ==
  /\ run[c] \in Procs \ irq /\ born[run[c]] = "forkret"
  /\ Held(c) = {} /\ spin[c] = None
  /\ fl_if' = [fl_if EXCEPT ![c] = TRUE]
  /\ born' = [born EXCEPT ![run[c]] = "yes"]
  /\ UNCHANGED <<lock, ncli, intena, spin, run, irq, under, parked>>

(* fork() makes a child RUNNABLE, with ptable.lock held. *)
Fork(c) ==
  /\ run[c] \in Procs \ irq /\ born[run[c]] = "yes"
  /\ lock[ptable] = c /\ spin[c] = None
  /\ \E q \in Procs : born[q] = "no" /\ born' = [born EXCEPT ![q] = "new"]
  /\ UNCHANGED <<lock, fl_if, ncli, intena, spin, run, irq, under, parked>>

(* p is the first process, and alone: no process has been forked yet. *)
Boot(p) == \A q \in Procs \ {p} : born[q] = "no"

(* sched(): the process must hold ptable.lock and nothing else. *)
Sched(c) ==
  /\ run[c] \in Procs
  /\ run[c] \in irq \/ born[run[c]] = "yes" \/ Boot(run[c])
  /\ Held(c) = {ptable} /\ spin[c] = None
  /\ parked' = [parked EXCEPT ![run[c]] = intena[c]]
  /\ run' = [run EXCEPT ![c] = c]
  /\ UNCHANGED <<lock, fl_if, ncli, intena, spin, irq, under, born>>

Waiting(p) == born[p] # "no" /\ \A c \in CPUs : run[c] # p

(* scheduler() switches to a process, which goes on behind its swtch() in      *)
(* sched(), or in forkret() the first time.                                    *)
ResumeKeepsIntena(c, p) ==
  /\ run' = [run EXCEPT ![c] = p]
  /\ born' = IF born[p] = "new" THEN [born EXCEPT ![p] = "forkret"] ELSE born
  /\ UNCHANGED intena

Resume(c, p) ==
  /\ run' = [run EXCEPT ![c] = p]
  /\ born' = IF born[p] = "new" THEN [born EXCEPT ![p] = "forkret"] ELSE born
  /\ intena' = IF born[p] = "new" THEN intena ELSE [intena EXCEPT ![c] = parked[p]]

Dispatch(c, p) ==
  /\ run[c] = c /\ c \notin irq /\ lock[ptable] = c /\ spin[c] = None
  /\ Waiting(p)
  /\ Resume(c, p)
  /\ UNCHANGED <<lock, fl_if, ncli, spin, irq, under, parked>>

(* The sti() at the top of scheduler's loop. *)
Sti(c) ==
  /\ run[c] = c /\ c \notin irq /\ Held(c) = {} /\ spin[c] = None /\ ~fl_if[c]
  /\ fl_if' = [fl_if EXCEPT ![c] = TRUE]
  /\ UNCHANGED <<lock, ncli, intena, spin, run, irq, under, parked, born>>

(* Who acquires what: the scheduler outside of a handler takes ptable.lock     *)
(* only, and with interrupts on; forkret() takes locks in the first process.   *)
MayAcquire(c, l) ==
  /\ run[c] = c /\ c \notin irq => l = ptable /\ fl_if[c]
  /\ run[c] \in Procs \ irq /\ born[run[c]] = "forkret" => Boot(run[c])

Step(c) ==
  \/ \E l \in Locks : MayAcquire(c, l) /\ Acquire(c, l)
  \/ \E l \in Locks : Release(c, l)
  \/ Xchg(c) \/ Interrupt(c) \/ Iret(c) \/ Trapret(c) \/ Fork(c) \/ Sched(c) \/ Sti(c)
  \/ \E p \in Procs : Dispatch(c, p)

Next == \E c \in CPUs : Step(c)

Spec == Init /\ [][Next]_vars

------------------------------------------------------------------------------
(* acquire() never finds the lock held by its own CPU, where it would panic:   *)
(* as interrupts are off while a CPU holds a lock, no handler runs on top of   *)
(* code that has the lock it needs.                                            *)
NeverOwnLock == \A c \in CPUs : spin[c] # None => lock[spin[c]] # c

(* ncli counts the acquires without a release on the CPU, though threads come  *)
(* and go with ptable.lock held: sched() finds it 1 and popcli() above 0.      *)
NcliCounts ==
  \A c \in CPUs :
    ncli[c] = Cardinality(Held(c)) + (IF spin[c] = None THEN 0 ELSE 1)

(* A thread that holds no lock takes interrupts exactly when it is not in a    *)
(* handler, whichever CPU it was interrupted on and whichever it resumed on:   *)
(* sched() keeps intena with the thread.  Two places are exempt: the scheduler *)
(* until its sti(), and forkret() until iret, as the scheduler may have        *)
(* intena from the process that it ran before.                                 *)
InterruptsRestored ==
  \A c \in CPUs : ncli[c] = 0 =>
    /\ run[c] \in irq => ~fl_if[c]
    /\ run[c] \in Procs /\ run[c] \notin irq /\ born[run[c]] = "yes" => fl_if[c]

(* The first process leaves forkret()'s release with interrupts on: it goes on *)
(* to iinit() and initlog(), which wait for the disk's interrupt.              *)
FirstTakesInterrupts ==
  \A c \in CPUs :
    run[c] \in Procs \ irq /\ ncli[c] = 0 /\ Boot(run[c]) => fl_if[c]
==============================================================================
