------------------------------ MODULE BlockStore ------------------------------
(* What the buffer cache promises the file system: every block is one cell,    *)
(* used by one process at a time, that keeps what was last put into it.        *)
CONSTANTS Procs, None, Blocks, Vals

VARIABLES
  holder,   \* process that has the block between bread and brelse
  content

vars == <<holder, content>>

Init == holder = [k \in Blocks |-> None] /\ content \in [Blocks -> Vals]

Get(p, k) ==
  /\ holder[k] = None
  /\ holder' = [holder EXCEPT ![k] = p]
  /\ UNCHANGED content

Put(p, k, v) ==
  /\ holder[k] = p
  /\ content' = [content EXCEPT ![k] = v]
  /\ UNCHANGED holder

Release(p, k) ==
  /\ holder[k] = p
  /\ holder' = [holder EXCEPT ![k] = None]
  /\ UNCHANGED content

Next ==
  \E p \in Procs, k \in Blocks : Get(p, k) \/ Release(p, k) \/ \E v \in Vals : Put(p, k, v)

Spec == Init /\ [][Next]_vars
==============================================================================
