--------------------------------- MODULE MCFs ---------------------------------
EXTENDS Fs, TLC

(* Processes and the inodes other than the root are interchangeable. *)
Symmetric == Permutations(Procs) \cup Permutations(Inums \ {Root})

On(op, name) == [op |-> op, path |-> name]

Link(old, new) == [op |-> "link", path |-> old, new |-> new]

(* Calls that meet in one directory and in one below it. *)
SomeCalls ==
  {On("open_create", <<"b">>), On("open_wronly", <<"b">>),
   On("mkdir", <<"/", "a">>), On("mkdir", <<"/">>), On("chdir", <<"a">>), On("chdir", <<"/">>),
   On("unlink", <<"a">>), On("unlink", <<"b">>), Link(<<"b">>, <<"a", "b">>)}
==============================================================================
