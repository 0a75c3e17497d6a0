------------------------------ MODULE AtomicDisk -----------------------------
(* What log.c promises to the file system: system calls write blocks between   *)
(* begin_op and end_op and see each other's writes at once; what is durable    *)
(* only ever moves, in one step and while no system call is active, to all     *)
(* that has been written; a crash falls back on what is durable.               *)
CONSTANTS Procs, Blocks, Vals

VARIABLES durable, view, active

vars == <<durable, view, active>>

Init ==
  /\ durable \in [Blocks -> Vals]
  /\ view = durable
  /\ active = {}

Begin(p) == p \notin active /\ active' = active \cup {p} /\ UNCHANGED <<durable, view>>

Write(p, b, v) ==
  /\ p \in active
  /\ view' = [view EXCEPT ![b] = v]
  /\ UNCHANGED <<durable, active>>

End(p) == p \in active /\ active' = active \ {p} /\ UNCHANGED <<durable, view>>

Commit == active = {} /\ durable' = view /\ UNCHANGED <<view, active>>

Crash == view' = durable /\ active' = {} /\ UNCHANGED durable

Next ==
  \/ \E p \in Procs : Begin(p) \/ End(p) \/ \E b \in Blocks, v \in Vals : Write(p, b, v)
  \/ Commit
  \/ Crash

Spec == Init /\ [][Next]_vars
==============================================================================
