-------------------------------- MODULE MCLog --------------------------------
EXTENDS Log, TLC

(* Processes, block contents, and the home locations other than AfterLog are   *)
(* interchangeable.                                                            *)
Symmetric ==
  Permutations(Procs) \cup Permutations(Vals) \cup Permutations(Blocks \ {AfterLog})
==============================================================================
