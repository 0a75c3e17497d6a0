-------------------------------- MODULE Ticks --------------------------------
(* sleep(n): sys_sleep() of sysproc.c with the timer interrupt of trap.c and   *)
(* kill() of proc.c.  tickslock is held from the test of the loop until        *)
(* sleep() has made the process SLEEPING; kill() takes ptable.lock only, so    *)
(* it comes in between.                                                        *)
EXTENDS Integers

CONSTANTS
  Procs, None,
  Wrap,   \* 2^32: ticks is a uint, and so is n in the comparison
  Lens,   \* the arguments of sleep()
  Lag     \* a RUNNABLE process has run after this many ticks

TicksAssumption ==
  /\ None \notin Procs
  /\ Wrap \in Nat \ {0} /\ Lens \subseteq 0..(Wrap - 1) /\ Lag \in Nat

VARIABLES
  ticks,
  tickslock,   \* the process that holds it between two steps, or None
  pc,          \* "user", "entering" sleep(), "asleep", "woken", "slept" or "failed"
  n, ticks0,
  killed,
  elapsed,     \* the ticks since the call, counted up to Wrap
  waited,      \* the ticks since the process was woken
  late         \* the ticks that a killed process has stayed in the call

vars == <<ticks, tickslock, pc, n, ticks0, killed, elapsed, waited, late>>

InCall == {"entering", "asleep", "woken"}

Zero == [p \in Procs |-> 0]

Init ==
  /\ ticks = 0
  /\ tickslock = None
  /\ pc = [p \in Procs |-> "user"]
  /\ n = Zero /\ ticks0 = Zero
  /\ killed = {}
  /\ elapsed = Zero /\ waited = Zero /\ late = Zero

TimeLeftNoWrap(now, start, len) == now < (start + len) % Wrap

TimeLeftNotEqual(now, start, len) == (now - start) % Wrap # len

(* ticks - ticks0 < n *)
TimeLeft(now, start, len) == (now - start) % Wrap < len

LoopDeafToKill(p, start, len) ==
  IF TimeLeft(ticks, start, len)
  THEN tickslock' = p /\ pc' = [pc EXCEPT ![p] = "entering"]
  ELSE tickslock' = None /\ pc' = [pc EXCEPT ![p] = "slept"]

(* One turn of the loop up to the call of sleep(), with tickslock. *)
Loop(p, start, len) ==
  CASE ~TimeLeft(ticks, start, len) ->
         tickslock' = None /\ pc' = [pc EXCEPT ![p] = "slept"]
    [] TimeLeft(ticks, start, len) /\ p \in killed ->
         tickslock' = None /\ pc' = [pc EXCEPT ![p] = "failed"]
    [] OTHER -> tickslock' = p /\ pc' = [pc EXCEPT ![p] = "entering"]

sys_sleep(p, len) ==
  /\ pc[p] \in {"user", "slept"} /\ p \notin killed
  /\ tickslock = None
  /\ n' = [n EXCEPT ![p] = len]
  /\ ticks0' = [ticks0 EXCEPT ![p] = ticks]
  /\ elapsed' = [elapsed EXCEPT ![p] = 0]
  /\ Loop(p, ticks, len)
  /\ UNCHANGED <<ticks, killed, waited, late>>

(* sleep(): SLEEPING and tickslock released, under ptable.lock. *)
Sleep(p) ==
  /\ pc[p] = "entering"
  /\ pc' = [pc EXCEPT ![p] = "asleep"]
  /\ tickslock' = None
  /\ UNCHANGED <<ticks, n, ticks0, killed, elapsed, waited, late>>

(* The end of sleep() takes tickslock again. *)
Wake(p) ==
  /\ pc[p] = "woken" /\ tickslock = None
  /\ Loop(p, ticks0[p], n[p])
  /\ UNCHANGED <<ticks, n, ticks0, killed, elapsed, waited, late>>

wakeup(was) == [p \in Procs |-> IF was[p] = "asleep" THEN "woken" ELSE was[p]]

(* The timer interrupt of CPU 0. *)
Timer ==
  /\ tickslock = None
  /\ \A p \in Procs : pc[p] = "woken" => waited[p] < Lag
  /\ ticks' = (ticks + 1) % Wrap
  /\ pc' = wakeup(pc)
  /\ waited' = [p \in Procs |-> IF pc[p] = "woken" THEN waited[p] + 1 ELSE 0]
  /\ elapsed' = [p \in Procs |-> IF pc[p] \in InCall /\ elapsed[p] < Wrap
                                 THEN elapsed[p] + 1 ELSE elapsed[p]]
  /\ late' = [p \in Procs |-> IF pc[p] \in InCall /\ p \in killed /\ late[p] < Lag + 2
                              THEN late[p] + 1 ELSE late[p]]
  /\ UNCHANGED <<tickslock, n, ticks0, killed>>

(* kill() of a process in the call: it wakes it whatever it sleeps on. *)
kill(p) ==
  /\ p \notin killed /\ pc[p] \in InCall
  /\ killed' = killed \cup {p}
  /\ pc' = IF pc[p] = "asleep" THEN [pc EXCEPT ![p] = "woken"] ELSE pc
  /\ waited' = IF pc[p] = "asleep" THEN [waited EXCEPT ![p] = 0] ELSE waited
  /\ UNCHANGED <<ticks, tickslock, n, ticks0, elapsed, late>>

Step(p) == Sleep(p) \/ Wake(p)

Next ==
  \/ Timer
  \/ \E p \in Procs :
       \/ \E len \in Lens : sys_sleep(p, len)
       \/ Step(p)
       \/ kill(p)

(* The timer goes on ticking, and a runnable process runs. *)
Fairness == WF_vars(Timer) /\ \A p \in Procs : WF_vars(Step(p))

Spec == Init /\ [][Next]_vars

------------------------------------------------------------------------------
(* sleep(n) returns 0 only after n ticks of the clock, also when ticks wraps   *)
(* around during the call.                                                     *)
SleptEnough == \A p \in Procs : pc[p] = "slept" => elapsed[p] >= n[p]

(* A killed process leaves sleep() within a tick of the clock and the time it  *)
(* waits for a CPU, also when kill() came after its test of killed and before  *)
(* it was SLEEPING, and so woke nobody.                                        *)
KilledLeaves == \A p \in Procs : late[p] <= Lag + 1

(* A call that leaves the process time to see the end of it returns.  (For a   *)
(* larger n, and so for a negative one, ticks - ticks0 can wrap around before  *)
(* the process has looked at it.)                                              *)
SleepersReturn ==
  \A p \in Procs : (pc[p] \in InCall /\ n[p] + Lag < Wrap) ~> (pc[p] \notin InCall)
==============================================================================
