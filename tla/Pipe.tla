--------------------------------- MODULE Pipe ---------------------------------
(* pipe.c: one pipe, shared by the processes that hold its read or write end.  *)
(* A step is one byte, one test or one change of p->lock, so that kill(), which *)
(* does not take p->lock, may come between any two.  sleep() lets p->lock go   *)
(* and goes to sleep in one step (module SleepLock shows that it may be seen   *)
(* so); a process that is woken, or killed in its sleep, acquires p->lock      *)
(* again and returns to the loop it came from.                                 *)
EXTENDS Integers, Sequences, FiniteSets

CONSTANTS
  Procs,
  None,
  Vals,      \* bytes
  PIPESIZE,
  Wrap,      \* uint counts modulo Wrap, 2^32 in the code
  MaxLen,    \* bound: longest read or write
  Killable   \* processes that somebody may kill

ASSUME PipeAssumption ==
  /\ None \notin Procs \cup Vals /\ Killable \subseteq Procs
  /\ PIPESIZE \in Nat \ {0} /\ Wrap \in Nat /\ PIPESIZE < Wrap
  /\ Wrap % PIPESIZE = 0
  /\ MaxLen \in Nat

VARIABLES
  data, nread, nwrite, readopen, writeopen,
  lock,      \* who holds p->lock
  freed,     \* pipeclose() has freed the page of the pipe
  rfd, wfd,  \* processes that hold an open descriptor of the read, write end
  killed,
  pc,        \* where a process is
  n, i,      \* n and i of the call it is in
  byte,      \* the last byte read
  result     \* of its last call: "ok" for n or i, "eof" for 0, "error" for -1

pipe == <<data, nread, nwrite, readopen, writeopen, freed>>
fds == <<rfd, wfd>>
calls == <<n, i, byte, result>>
vars == <<pipe, lock, fds, killed, pc, calls>>

Index == 0..(PIPESIZE - 1)

Empty == nread = nwrite

Full == nwrite = (nread + PIPESIZE) % Wrap

(* pipealloc(), in a process that then holds both ends. *)
Init ==
  /\ data \in [Index -> Vals]
  /\ nread = 0 /\ nwrite = 0
  /\ readopen = TRUE /\ writeopen = TRUE
  /\ lock = None
  /\ freed = FALSE
  /\ \E p \in Procs : rfd = {p} /\ wfd = {p}
  /\ killed = [p \in Procs |-> FALSE]
  /\ pc = [p \in Procs |-> "user"]
  /\ n = [p \in Procs |-> 0]
  /\ i = [p \in Procs |-> 0]
  /\ byte = [p \in Procs |-> None]
  /\ result = [p \in Procs |-> "none"]

At(p, place) == pc[p] = place

Goto(p, place) == pc' = [pc EXCEPT ![p] = place]

(* wakeup() of those that sleep on a channel; they go on in sleep(). *)
Woken(pcs, chan) ==
  [q \in Procs |->
     CASE chan = "nwrite" /\ pcs[q] = "sleep_nwrite" -> "w_acquire"
       [] chan = "nread" /\ pcs[q] = "sleep_nread" -> "r_acquire"
       [] OTHER -> pcs[q]]

Acquire(p, from, to) ==
  /\ At(p, from) /\ lock = None
  /\ lock' = p
  /\ Goto(p, to)
  /\ UNCHANGED <<pipe, fds, killed, calls>>

(* The call returns: p->lock is released. *)
Return(p, r) ==
  /\ lock' = None
  /\ n' = [n EXCEPT ![p] = 0] /\ i' = [i EXCEPT ![p] = 0]
  /\ result' = [result EXCEPT ![p] = r]
  /\ UNCHANGED <<pipe, fds, killed, byte>>

(* A system call; trap() would not let a process that is killed make one. *)
Start(p, place, len) ==
  /\ At(p, "user") /\ ~killed[p]
  /\ n' = [n EXCEPT ![p] = len]
  /\ result' = [result EXCEPT ![p] = "none"]
  /\ Goto(p, place)
  /\ UNCHANGED <<pipe, lock, fds, killed, i, byte>>

------------------------------------------------------------------------------
(* pipewrite() *)

WriteStart(p, len) == p \in wfd /\ Start(p, "w_acquire", len)

WriteAcquire(p) == Acquire(p, "w_acquire", "w_loop")

WriteByteAnyway(p, v) ==
  /\ At(p, "w_loop") /\ i[p] < n[p]
  /\ data' = [data EXCEPT ![nwrite % PIPESIZE] = v]
  /\ nwrite' = (nwrite + 1) % Wrap
  /\ i' = [i EXCEPT ![p] = @ + 1]
  /\ UNCHANGED <<nread, readopen, writeopen, freed, lock, fds, killed, pc, n, byte, result>>

WriteByte(p, v) ==
  /\ At(p, "w_loop") /\ i[p] < n[p] /\ ~Full
  /\ data' = [data EXCEPT ![nwrite % PIPESIZE] = v]
  /\ nwrite' = (nwrite + 1) % Wrap
  /\ i' = [i EXCEPT ![p] = @ + 1]
  /\ UNCHANGED <<nread, readopen, writeopen, freed, lock, fds, killed, pc, n, byte, result>>

WriteFails(p) ==
  /\ At(p, "w_loop") /\ i[p] < n[p] /\ Full
  /\ ~readopen \/ killed[p]
  /\ Goto(p, "user")
  /\ Return(p, "error")

WriteFullNoWakeup(p) ==
  /\ At(p, "w_loop") /\ i[p] < n[p] /\ Full
  /\ readopen /\ ~killed[p]
  /\ Goto(p, "w_sleep")
  /\ UNCHANGED <<pipe, lock, fds, killed, calls>>

WriteFull(p) ==
  /\ At(p, "w_loop") /\ i[p] < n[p] /\ Full
  /\ readopen /\ ~killed[p]
  /\ pc' = [Woken(pc, "nread") EXCEPT ![p] = "w_sleep"]
  /\ UNCHANGED <<pipe, lock, fds, killed, calls>>

Sleep(p, from, to) ==
  /\ At(p, from)
  /\ lock' = None
  /\ Goto(p, to)
  /\ UNCHANGED <<pipe, fds, killed, calls>>

WriteSleep(p) == Sleep(p, "w_sleep", "sleep_nwrite")

WriteDone(p) ==
  /\ At(p, "w_loop") /\ i[p] = n[p]
  /\ pc' = [Woken(pc, "nread") EXCEPT ![p] = "user"]
  /\ Return(p, "ok")

------------------------------------------------------------------------------
(* piperead() *)

ReadStart(p, len) == p \in rfd /\ Start(p, "r_acquire", len)

ReadAcquire(p) == Acquire(p, "r_acquire", "r_test")

ReadFails(p) ==
  /\ At(p, "r_test") /\ Empty /\ writeopen
  /\ killed[p]
  /\ Goto(p, "user")
  /\ Return(p, "error")

ReadEmpty(p) ==
  /\ At(p, "r_test") /\ Empty /\ writeopen
  /\ ~killed[p]
  /\ Goto(p, "r_sleep")
  /\ UNCHANGED <<pipe, lock, fds, killed, calls>>

ReadSleep(p) == Sleep(p, "r_sleep", "sleep_nread")

ReadReady(p) ==
  /\ At(p, "r_test") /\ ~(Empty /\ writeopen)
  /\ Goto(p, "r_copy")
  /\ UNCHANGED <<pipe, lock, fds, killed, calls>>

ReadByte(p) ==
  /\ At(p, "r_copy") /\ i[p] < n[p] /\ ~Empty
  /\ byte' = [byte EXCEPT ![p] = data[nread % PIPESIZE]]
  /\ nread' = (nread + 1) % Wrap
  /\ i' = [i EXCEPT ![p] = @ + 1]
  /\ UNCHANGED <<data, nwrite, readopen, writeopen, freed, lock, fds, killed, pc, n, result>>

ReadDone(p) ==
  /\ At(p, "r_copy")
  /\ i[p] = n[p] \/ Empty
  /\ pc' = [Woken(pc, "nwrite") EXCEPT ![p] = "user"]
  /\ Return(p, IF i[p] = 0 THEN "eof" ELSE "ok")

------------------------------------------------------------------------------
(* fork() gives a process that holds no end those of its parent. *)
Fork(p, q) ==
  /\ At(p, "user") /\ ~killed[p] /\ p \in rfd \cup wfd
  /\ At(q, "user") /\ ~killed[q] /\ q \notin rfd \cup wfd
  /\ rfd' = IF p \in rfd THEN rfd \cup {q} ELSE rfd
  /\ wfd' = IF p \in wfd THEN wfd \cup {q} ELSE wfd
  /\ UNCHANGED <<pipe, lock, killed, pc, calls>>

(* fileclose(), by close() or exit(): the last one goes on to pipeclose(). *)
CloseRead(p) ==
  /\ At(p, "user") /\ p \in rfd
  /\ rfd' = rfd \ {p}
  /\ IF rfd = {p} THEN Goto(p, "close_read") ELSE UNCHANGED pc
  /\ UNCHANGED <<pipe, lock, wfd, killed, calls>>

CloseWrite(p) ==
  /\ At(p, "user") /\ p \in wfd
  /\ wfd' = wfd \ {p}
  /\ IF wfd = {p} THEN Goto(p, "close_write") ELSE UNCHANGED pc
  /\ UNCHANGED <<pipe, lock, rfd, killed, calls>>

PipeCloseNoWakeup(p, writable) ==
  /\ At(p, IF writable THEN "close_write" ELSE "close_read") /\ lock = None
  /\ writeopen' = (writeopen /\ ~writable)
  /\ readopen' = (readopen /\ writable)
  /\ Goto(p, "user")
  /\ freed' = ~(readopen' \/ writeopen')
  /\ UNCHANGED <<data, nread, nwrite, lock, fds, killed, calls>>

PipeCloseFreesEarly(p, writable) ==
  /\ At(p, IF writable THEN "close_write" ELSE "close_read") /\ lock = None
  /\ writeopen' = (writeopen /\ ~writable)
  /\ readopen' = (readopen /\ writable)
  /\ pc' = [Woken(pc, IF writable THEN "nread" ELSE "nwrite") EXCEPT ![p] = "user"]
  /\ freed' = ~(readopen' /\ writeopen')
  /\ UNCHANGED <<data, nread, nwrite, lock, fds, killed, calls>>

PipeClose(p, writable) ==
  /\ At(p, IF writable THEN "close_write" ELSE "close_read") /\ lock = None
  /\ writeopen' = (writeopen /\ ~writable)
  /\ readopen' = (readopen /\ writable)
  /\ pc' = [Woken(pc, IF writable THEN "nread" ELSE "nwrite") EXCEPT ![p] = "user"]
  /\ freed' = ~(readopen' \/ writeopen')
  /\ UNCHANGED <<data, nread, nwrite, lock, fds, killed, calls>>

(* kill(), which takes ptable.lock only. *)
Kill(p) ==
  /\ p \in Killable /\ ~killed[p]
  /\ killed' = [killed EXCEPT ![p] = TRUE]
  /\ pc' = [pc EXCEPT ![p] = Woken(Woken(pc, "nread"), "nwrite")[p]]
  /\ UNCHANGED <<pipe, lock, fds, calls>>

------------------------------------------------------------------------------
(* Steps of a process inside the kernel. *)
Step(p) ==
  \/ WriteAcquire(p) \/ (\E v \in Vals : WriteByte(p, v)) \/ WriteFails(p)
  \/ WriteFull(p) \/ WriteSleep(p) \/ WriteDone(p)
  \/ ReadAcquire(p) \/ ReadFails(p) \/ ReadEmpty(p) \/ ReadSleep(p)
  \/ ReadReady(p) \/ ReadByte(p) \/ ReadDone(p)
  \/ \E writable \in BOOLEAN : PipeClose(p, writable)

Close(p) == CloseRead(p) \/ CloseWrite(p)

Next ==
  \E p \in Procs :
    \/ Step(p) \/ Close(p) \/ Kill(p)
    \/ \E len \in 1..MaxLen : WriteStart(p, len) \/ ReadStart(p, len)
    \/ \E q \in Procs : Fork(p, q)

Spec == Init /\ [][Next]_vars

------------------------------------------------------------------------------
Pcs == {"user", "w_acquire", "w_loop", "w_sleep", "sleep_nwrite", "r_acquire",
        "r_test", "r_sleep", "sleep_nread", "r_copy", "close_read", "close_write"}

Writing(p) == pc[p] \in {"w_acquire", "w_loop", "w_sleep", "sleep_nwrite"}

Reading(p) == pc[p] \in {"r_acquire", "r_test", "r_sleep", "sleep_nread", "r_copy"}

(* Every variable has its type. *)
TypeOK ==
  /\ data \in [Index -> Vals]
  /\ nread \in 0..(Wrap - 1) /\ nwrite \in 0..(Wrap - 1)
  /\ readopen \in BOOLEAN /\ writeopen \in BOOLEAN /\ freed \in BOOLEAN
  /\ lock \in Procs \cup {None}
  /\ rfd \in SUBSET Procs /\ wfd \in SUBSET Procs
  /\ killed \in [Procs -> BOOLEAN]
  /\ pc \in [Procs -> Pcs]
  /\ n \in [Procs -> 0..MaxLen] /\ i \in [Procs -> 0..MaxLen]
  /\ byte \in [Procs -> Vals \cup {None}]
  /\ result \in [Procs -> {"none", "ok", "eof", "error"}]

(* While nobody holds p->lock a sleeping writer waits for a reason: the pipe   *)
(* is full and its read end open.                                              *)
WriterWaitsForRoom ==
  lock = None => \A p \in Procs : At(p, "sleep_nwrite") => Full /\ readopen

(* The same for a reader: the pipe is empty and its write end open (the test   *)
(* marked pipe-empty in piperead).                                             *)
ReaderWaitsForData ==
  lock = None => \A p \in Procs : At(p, "sleep_nread") => Empty /\ writeopen

(* Only where a process was killed may a reader sleep beside data: a writer    *)
(* that finds itself killed when the pipe is full leaves without a wakeup.     *)
OnlyKilledForget ==
  lock = None => \A p \in Procs : At(p, "sleep_nread") =>
    writeopen /\ (Empty \/ \E q \in Procs : killed[q])

(* The page of the pipe is freed by the last close of the two ends and not     *)
(* while a process can still touch it.                                         *)
FreedAfterUse ==
  /\ \A p \in Procs : Writing(p) => p \in wfd
  /\ \A p \in Procs : Reading(p) => p \in rfd
  /\ freed => rfd = {} /\ wfd = {} /\ lock = None /\ \A p \in Procs : At(p, "user")
  /\ rfd = {} /\ wfd = {} /\ (\A p \in Procs : At(p, "user")) => freed

(* The inductive invariant behind these: who holds p->lock where, ...          *)
LockHeld ==
  \A p \in Procs :
    lock = p <=> pc[p] \in {"w_loop", "w_sleep", "r_test", "r_sleep", "r_copy"}

(* ... an end is open until the process that closed its last descriptor has    *)
(* been through pipeclose(), ...                                               *)
EndsOpen ==
  /\ \A p \in Procs : Writing(p) => p \in wfd
  /\ \A p \in Procs : Reading(p) => p \in rfd
  /\ readopen <=> rfd # {} \/ \E p \in Procs : At(p, "close_read")
  /\ writeopen <=> wfd # {} \/ \E p \in Procs : At(p, "close_write")
  /\ \A p \in Procs : At(p, "close_read") => rfd = {}
  /\ \A p \in Procs : At(p, "close_write") => wfd = {}
  /\ \A p, q \in Procs : At(p, "close_read") /\ At(q, "close_read") => p = q
  /\ \A p, q \in Procs : At(p, "close_write") /\ At(q, "close_write") => p = q
  /\ freed <=> ~readopen /\ ~writeopen

(* ... and what a sleeper, or a process about to sleep, may rely on.           *)
SleepersRely ==
  /\ \A p \in Procs : At(p, "w_sleep") => Full /\ readopen
  /\ \A p \in Procs : At(p, "r_sleep") => Empty /\ writeopen
  /\ \A p \in Procs : At(p, "sleep_nwrite") =>
       readopen /\ (Full \/ \E q \in Procs : At(q, "r_copy"))
  /\ \A p \in Procs : At(p, "sleep_nread") =>
       /\ writeopen
       /\ \/ Empty
          \/ \E q \in Procs : At(q, "w_loop")
          \/ \E q \in Procs : killed[q]
  /\ \A p, q \in Procs : At(p, "w_sleep") /\ At(q, "sleep_nread") =>
       \E r \in Procs : killed[r]

Progress ==
  \A p \in Procs : i[p] <= n[p] /\ (Writing(p) \/ Reading(p) \/ n[p] = 0)

IInv == TypeOK /\ Progress /\ LockHeld /\ EndsOpen /\ SleepersRely

(* The bytes between the two counters, oldest first. *)
Count == (nwrite - nread) % Wrap

Inside == [k \in 1..Count |-> data[((nread + k - 1) % Wrap) % PIPESIZE]]

Abs == INSTANCE Fifo WITH queue <- Inside, Size <- PIPESIZE

(* The ring buffer is a bounded FIFO also when the counters wrap around, and   *)
(* piperead returns 0 only at the end of the stream.                           *)
ImplementsFifo == Abs!Spec

(* What this needs beyond IInv: the counters are never more than PIPESIZE      *)
(* apart, and who reached the copying loop without having copied anything      *)
(* knows that there is something to copy or nothing will come.                 *)
FifoInv ==
  /\ Count <= PIPESIZE
  /\ \A p \in Procs : Writing(p) \/ Reading(p) => n[p] > 0 /\ result[p] = "none"
  /\ \A p \in Procs : At(p, "r_copy") /\ i[p] = 0 => ~(Empty /\ writeopen)
==============================================================================
