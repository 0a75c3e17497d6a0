-------------------------------- MODULE Mutex --------------------------------
(* What a sleep lock promises to the code that uses it (bio.c, fs.c): at most  *)
(* one process holds it, only its holder gives it up, and a holder that keeps  *)
(* its side of the bargain does give it up.                                    *)
CONSTANTS Procs, None

VARIABLE holder

Init == holder = None

Acquire(p) == holder = None /\ holder' = p

Release(p) == holder = p /\ holder' = None

Next == \E p \in Procs : Acquire(p) \/ Release(p)

Safety == Init /\ [][Next]_holder

Spec == Safety /\ \A p \in Procs : WF_holder(Release(p))
==============================================================================
