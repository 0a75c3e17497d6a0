------------------------------ MODULE SleepLock ------------------------------
(* sleeplock.c over sleep() and wakeup() of proc.c, one step per access to a   *)
(* spinlock.  A process that spins in acquire() is one whose next step is not  *)
(* enabled.  Every process may run on a CPU of its own; the scheduler only     *)
(* appears as the step that hands ptable.lock to a process it resumes.         *)
CONSTANTS Procs, None

ASSUME NoneAssumption == None \notin Procs

VARIABLES
  locked,   \* lk->locked
  pid,      \* lk->pid, None for 0
  lk,       \* who holds the spinlock lk->lk
  ptable,   \* who holds ptable.lock
  state,    \* p->state
  chan,     \* TRUE when p->chan is this lock, FALSE when it is 0
  killed,   \* p->killed
  pc        \* where p is in acquiresleep, sleep, releasesleep or wakeup

vars == <<locked, pid, lk, ptable, state, chan, killed, pc>>

Init ==
  /\ locked = FALSE
  /\ pid = None
  /\ lk = None
  /\ ptable = None
  /\ state = [p \in Procs |-> "RUNNING"]
  /\ chan = [p \in Procs |-> FALSE]
  /\ killed = [p \in Procs |-> FALSE]
  /\ pc = [p \in Procs |-> "idle"]

Goto(p, from, to) == pc[p] = from /\ pc' = [pc EXCEPT ![p] = to]

HoldingSleep(p) == locked /\ pid = p

------------------------------------------------------------------------------
(* acquiresleep() *)

AcquireLk(p) ==
  /\ Goto(p, "idle", "as_test")
  /\ lk = None /\ lk' = p
  /\ UNCHANGED <<locked, pid, ptable, state, chan, killed>>

TakeLock(p) ==
  /\ ~locked
  /\ Goto(p, "as_test", "crit")
  /\ locked' = TRUE /\ pid' = p
  /\ lk' = None
  /\ UNCHANGED <<ptable, state, chan, killed>>

MustSleep(p) ==
  /\ locked
  /\ Goto(p, "as_test", "sl_enter")
  /\ UNCHANGED <<locked, pid, lk, ptable, state, chan, killed>>

------------------------------------------------------------------------------
(* sleep(lk, &lk->lk) *)

LockPtable(p, from, to) ==
  /\ Goto(p, from, to)
  /\ ptable = None /\ ptable' = p
  /\ UNCHANGED <<locked, pid, lk, state, chan, killed>>

ReleaseLk(p, from, to) ==
  /\ Goto(p, from, to)
  /\ lk' = None
  /\ UNCHANGED <<locked, pid, ptable, state, chan, killed>>

SleepSwapLocksReversed(p) ==
  \/ ReleaseLk(p, "sl_enter", "sl_release")
  \/ LockPtable(p, "sl_release", "sl_sched")

SleepSwapLocks(p) ==
  \/ LockPtable(p, "sl_enter", "sl_release")
  \/ ReleaseLk(p, "sl_release", "sl_sched")

(* p->chan and p->state are set and sched() gives the CPU, and with it         *)
(* ptable.lock, to the scheduler, which releases it.                           *)
SleepSched(p) ==
  /\ Goto(p, "sl_sched", "sl_resume")
  /\ chan' = [chan EXCEPT ![p] = TRUE]
  /\ state' = [state EXCEPT ![p] = "SLEEPING"]
  /\ ptable' = None
  /\ UNCHANGED <<locked, pid, lk, killed>>

SleepResume(p) ==
  /\ state[p] = "RUNNABLE"
  /\ Goto(p, "sl_resume", "sl_tidy")
  /\ ptable = None /\ ptable' = p
  /\ state' = [state EXCEPT ![p] = "RUNNING"]
  /\ UNCHANGED <<locked, pid, lk, chan, killed>>

SleepTidy(p) ==
  /\ Goto(p, "sl_tidy", "sl_reacquire")
  /\ chan' = [chan EXCEPT ![p] = FALSE]
  /\ ptable' = None
  /\ UNCHANGED <<locked, pid, lk, state, killed>>

SleepReacquireNoRetest(p) ==
  /\ Goto(p, "sl_reacquire", "crit")
  /\ lk = None
  /\ locked' = TRUE /\ pid' = p
  /\ UNCHANGED <<lk, ptable, state, chan, killed>>

SleepReacquire(p) ==
  /\ Goto(p, "sl_reacquire", "as_test")
  /\ lk = None /\ lk' = p
  /\ UNCHANGED <<locked, pid, ptable, state, chan, killed>>

------------------------------------------------------------------------------
(* releasesleep() *)

ReleaseStart(p) ==
  /\ Goto(p, "crit", "rs_clear")
  /\ lk = None /\ lk' = p
  /\ UNCHANGED <<locked, pid, ptable, state, chan, killed>>

ClearLockedNoWakeup(p) ==
  /\ Goto(p, "rs_clear", "rs_release")
  /\ locked' = FALSE /\ pid' = None
  /\ UNCHANGED <<lk, ptable, state, chan, killed>>

ClearLocked(p) ==
  /\ Goto(p, "rs_clear", "wk_acquire")
  /\ locked' = FALSE /\ pid' = None
  /\ UNCHANGED <<lk, ptable, state, chan, killed>>

WakeupAcquire(p) == LockPtable(p, "wk_acquire", "wk_scan")

Wakeup1 ==
  state' = [q \in Procs |-> IF state[q] = "SLEEPING" /\ chan[q]
                            THEN "RUNNABLE" ELSE state[q]]

WakeupScan(p) ==
  /\ Goto(p, "wk_scan", "rs_release")
  /\ Wakeup1
  /\ ptable' = None
  /\ UNCHANGED <<locked, pid, lk, chan, killed>>

ReleaseEnd(p) == ReleaseLk(p, "rs_release", "idle")

(* kill() of proc.c by a process that plays no other part here.  A process can *)
(* be killed again and again; the model kills each one once (bound).           *)
Kill(p) ==
  /\ ~killed[p]
  /\ ptable = None
  /\ killed' = [killed EXCEPT ![p] = TRUE]
  /\ state' = [state EXCEPT ![p] = IF @ = "SLEEPING" THEN "RUNNABLE" ELSE @]
  /\ UNCHANGED <<locked, pid, lk, ptable, chan, pc>>

------------------------------------------------------------------------------
Step(p) ==
  \/ TakeLock(p) \/ MustSleep(p)
  \/ SleepSwapLocks(p) \/ SleepSched(p) \/ SleepResume(p) \/ SleepTidy(p)
  \/ SleepReacquire(p)
  \/ ReleaseStart(p) \/ ClearLocked(p) \/ WakeupAcquire(p) \/ WakeupScan(p)
  \/ ReleaseEnd(p)

Next == \E p \in Procs : AcquireLk(p) \/ Step(p) \/ Kill(p)

(* A process that is inside the code keeps going (it has a CPU, or the         *)
(* scheduler gives it one), and one that holds the lock eventually releases    *)
(* it.  Nothing obliges a process to ask for the lock, or anybody to kill.     *)
Spec == Init /\ [][Next]_vars /\ \A p \in Procs : WF_vars(Step(p))

------------------------------------------------------------------------------
Pcs == {"idle", "as_test", "crit", "sl_enter", "sl_release", "sl_sched",
        "sl_resume", "sl_tidy", "sl_reacquire", "rs_clear", "wk_acquire",
        "wk_scan", "rs_release"}

(* Every variable has its type. *)
TypeOK ==
  /\ locked \in BOOLEAN
  /\ pid \in Procs \cup {None}
  /\ lk \in Procs \cup {None}
  /\ ptable \in Procs \cup {None}
  /\ state \in [Procs -> {"RUNNING", "RUNNABLE", "SLEEPING"}]
  /\ chan \in [Procs -> BOOLEAN]
  /\ killed \in [Procs -> BOOLEAN]
  /\ pc \in [Procs -> Pcs]

Inside(p) == pc[p] \in {"crit", "rs_clear"}

(* holdingsleep() answers truly: it is 1 for the process that is between       *)
(* acquiresleep and the moment releasesleep clears the lock, and 0 for every   *)
(* other.  As pid names one process, at most one is inside.  bwrite, brelse    *)
(* and iunlock panic on the answer.                                            *)
HolderIsInside == \A p \in Procs : HoldingSleep(p) <=> Inside(p)

(* sleep() holds ptable.lock before it lets lk->lk go, so no wakeup is missed: *)
(* while a process sleeps on the lock either somebody has the lock, or the     *)
(* process that gave it up has still to run wakeup1.                           *)
NoLostWakeup ==
  \A p \in Procs : state[p] = "SLEEPING" =>
     locked \/ \E q \in Procs : pc[q] \in {"wk_acquire", "wk_scan"}

(* The inductive invariant behind the two: who holds which spinlock where, and *)
(* what a process on its way to sleep may rely on.                             *)
SpinlocksHeld ==
  \A p \in Procs :
    /\ lk = p <=> pc[p] \in {"as_test", "sl_enter", "sl_release", "rs_clear",
                             "wk_acquire", "wk_scan", "rs_release"}
    /\ ptable = p <=> pc[p] \in {"sl_release", "sl_sched", "sl_tidy", "wk_scan"}

SleepersWait ==
  \A p \in Procs :
    /\ state[p] # "RUNNING" => pc[p] = "sl_resume"
    /\ pc[p] = "sl_resume" => chan[p]

WakeupPending ==
  \A p \in Procs :
    /\ pc[p] \in {"sl_enter", "sl_release"} => locked
    /\ pc[p] = "sl_sched" => locked \/ \E q \in Procs : pc[q] = "wk_acquire"

IInv ==
  /\ TypeOK
  /\ locked <=> pid # None
  /\ HolderIsInside
  /\ SpinlocksHeld
  /\ SleepersWait
  /\ WakeupPending
  /\ NoLostWakeup

(* A process that sleeps on the lock is eventually made RUNNABLE.              *)
SleeperIsWoken ==
  \A p \in Procs : (state[p] = "SLEEPING") ~> (state[p] # "SLEEPING")

(* The sleep lock implements a mutex whose holder is lk->pid.                  *)
Abs == INSTANCE Mutex WITH holder <- IF locked THEN pid ELSE None

ImplementsMutex == Abs!Spec
==============================================================================
