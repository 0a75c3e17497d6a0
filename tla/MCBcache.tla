------------------------------- MODULE MCBcache -------------------------------
(* Bcache for TLC. *)
EXTENDS Bcache
==============================================================================
