-------------------------------- MODULE MCProc --------------------------------
EXTENDS Proc, TLC

(* CPUs run the same code. *)
Symmetric == Permutations(CPUs)
==============================================================================
