--------------------------------- MODULE Fifo ---------------------------------
(* What a pipe promises its users: bytes come out in the order they went in,   *)
(* never more than Size of them are inside, and a read reports the end of the  *)
(* stream only when nothing is inside and the write end is closed for good.    *)
EXTENDS Naturals, Sequences

CONSTANTS Procs, Vals, None, Size

VARIABLES
  queue,       \* the bytes inside
  byte,        \* the last byte each process was given
  result,      \* how the last call of each process ended, "none" while in it
  readopen,
  writeopen

vars == <<queue, byte, result, readopen, writeopen>>

Init ==
  /\ queue = <<>>
  /\ byte = [p \in Procs |-> None]
  /\ result = [p \in Procs |-> "none"]
  /\ readopen = TRUE
  /\ writeopen = TRUE

Put(v) ==
  /\ Len(queue) < Size
  /\ queue' = Append(queue, v)
  /\ UNCHANGED <<byte, result, readopen, writeopen>>

Take(p) ==
  /\ queue # <<>>
  /\ byte' = [byte EXCEPT ![p] = Head(queue)]
  /\ queue' = Tail(queue)
  /\ UNCHANGED <<result, readopen, writeopen>>

Call(p) ==
  /\ result' = [result EXCEPT ![p] = "none"]
  /\ UNCHANGED <<queue, byte, readopen, writeopen>>

Return(p, r) ==
  /\ result[p] = "none"
  /\ r = "eof" => queue = <<>> /\ ~writeopen
  /\ result' = [result EXCEPT ![p] = r]
  /\ UNCHANGED <<queue, byte, readopen, writeopen>>

CloseRead ==
  /\ readopen' = FALSE
  /\ UNCHANGED <<queue, byte, result, writeopen>>

CloseWrite ==
  /\ writeopen' = FALSE
  /\ UNCHANGED <<queue, byte, result, readopen>>

Next ==
  \/ \E v \in Vals : Put(v)
  \/ \E p \in Procs : Take(p) \/ Call(p) \/ \E r \in {"ok", "eof", "error"} : Return(p, r)
  \/ CloseRead \/ CloseWrite

Spec == Init /\ [][Next]_vars
==============================================================================
