------------------------------ MODULE FileTable ------------------------------
(* Open files: struct file and its reference count (file.c), the descriptors   *)
(* of a process and the system calls on them (sysfile.c), the two ends of a    *)
(* pipe (pipealloc and pipeclose of pipe.c), and what fork() and exit() do     *)
(* with the descriptors (proc.c).  A system call is a sequence of steps: each  *)
(* step is a critical section of ftable.lock, or a change of an inode or of a  *)
(* pipe, together with the code of the process's own that follows it.          *)
EXTENDS Integers, Sequences, FiniteSets

CONSTANTS Procs, Initproc, None, NFILE, NOFILE, Inodes, Pipes

Files == 1 .. NFILE
Fds == 0 .. NOFILE - 1

VARIABLES
  ref,      \* f->ref, 0 for a free file
  type,     \* f->type with the object it goes with: <<"inode", f->ip>>, a pipe's
            \* <<"read", f->pipe>> or <<"write", f->pipe>>, or None for FD_NONE
  iref,     \* the references to an inode: open files and calls
  ends,     \* the open ends of a pipe; {} when its page is free
  ofile,
  state,    \* "unused", "embryo" while fork() copies the descriptors, "running"
  todo      \* the steps that are left of the process's system call

vars == <<ref, type, iref, ends, ofile, state, todo>>

Init ==
  /\ ref = [f \in Files |-> 0]
  /\ type = [f \in Files |-> None]
  /\ iref = [i \in Inodes |-> 0]
  /\ ends = [q \in Pipes |-> {}]
  /\ ofile = [p \in Procs |-> [fd \in Fds |-> None]]
  /\ state = [p \in Procs |-> IF p = Initproc THEN "running" ELSE "unused"]
  /\ todo = [p \in Procs |-> <<>>]

Least(S) == CHOOSE x \in S : \A y \in S : x <= y

FreeFiles == {f \in Files : ref[f] = 0}
FreeFds(of) == {fd \in Fds : of[fd] = None}

(* The steps of a call *)
OpenFile(ip) == [op |-> "open", obj |-> ip]
Settype(f, ip) == [op |-> "settype", f |-> f, obj |-> ip]
Pipe0 == [op |-> "pipe0"]
Pipe1(f0) == [op |-> "pipe1", f |-> f0]
Kalloc(f0, f1) == [op |-> "kalloc", f |-> f0, f1 |-> f1]
Filedup(f, q, fd) == [op |-> "filedup", f |-> f, to |-> q, fd |-> fd]
Fileclose(f) == [op |-> "fileclose", f |-> f]
Drop(t) == [op |-> "drop", type |-> t[1], obj |-> t[2]]
Clear(f, fd) == [op |-> "clear", f |-> f, fd |-> fd]
Start(q) == [op |-> "start", to |-> q]
Die == [op |-> "die"]

Begin(p, steps) ==
  /\ state[p] = "running" /\ todo[p] = <<>>
  /\ todo' = [todo EXCEPT ![p] = steps]

(* The step at the head of p's call is done, steps are to be done next. *)
Do(p, op) == todo[p] # <<>> /\ Head(todo[p]).op = op
Then(p, steps) == todo' = [todo EXCEPT ![p] = steps \o Tail(@)]

------------------------------------------------------------------------------
(* The system calls, up to their first step *)

(* namei() or create() returns an inode with a reference. *)
sys_open(p, i) ==
  /\ Begin(p, <<OpenFile(i)>>)
  /\ iref' = [iref EXCEPT ![i] = @ + 1]
  /\ UNCHANGED <<ref, type, ends, ofile, state>>

sys_pipe(p) ==
  /\ Begin(p, <<Pipe0>>)
  /\ UNCHANGED <<ref, type, iref, ends, ofile, state>>

sys_dupUncounted(p, fd) ==
  /\ ofile[p][fd] # None
  /\ FreeFds(ofile[p]) # {}
  /\ Begin(p, <<>>)
  /\ ofile' = [ofile EXCEPT ![p][Least(FreeFds(ofile[p]))] = ofile[p][fd]]
  /\ UNCHANGED <<ref, type, iref, ends, state>>

(* fdalloc() comes before filedup() *)
sys_dup(p, fd) ==
  /\ ofile[p][fd] # None
  /\ FreeFds(ofile[p]) # {}
  /\ Begin(p, <<Filedup(ofile[p][fd], None, None)>>)
  /\ ofile' = [ofile EXCEPT ![p][Least(FreeFds(ofile[p]))] = ofile[p][fd]]
  /\ UNCHANGED <<ref, type, iref, ends, state>>

sys_close(p, fd) ==
  /\ ofile[p][fd] # None
  /\ Begin(p, <<Fileclose(ofile[p][fd])>>)
  /\ ofile' = [ofile EXCEPT ![p][fd] = None]
  /\ UNCHANGED <<ref, type, iref, ends, state>>

(* steps[fd] for every open descriptor, in order. *)
PerFd(p, steps) ==
  LET from[fd \in Fds] ==
        (IF ofile[p][fd] = None THEN <<>> ELSE steps[fd])
        \o (IF fd = NOFILE - 1 THEN <<>> ELSE from[fd + 1])
  IN from[0]

(* allocproc() takes q; the child gets the descriptors one by one. *)
fork(p, q) ==
  /\ state[q] = "unused"
  /\ Begin(p, PerFd(p, [fd \in Fds |-> <<Filedup(ofile[p][fd], q, fd)>>]) \o <<Start(q)>>)
  /\ state' = [state EXCEPT ![q] = "embryo"]
  /\ UNCHANGED <<ref, type, iref, ends, ofile>>

exit(p) ==
  /\ p # Initproc
  /\ Begin(p, PerFd(p, [fd \in Fds |-> <<Fileclose(ofile[p][fd]), Clear(ofile[p][fd], fd)>>])
              \o <<Die>>)
  /\ UNCHANGED <<ref, type, iref, ends, ofile, state>>

------------------------------------------------------------------------------
(* The steps *)

filealloc(f) == f = Least(FreeFiles) /\ ref' = [ref EXCEPT ![f] = 1]

(* sys_open: filealloc() and fdalloc(), and the way out when one fails. *)
Open(p) ==
  /\ Do(p, "open")
  /\ LET ip == Head(todo[p]).obj IN
     IF FreeFiles = {}
     THEN Then(p, <<Drop(<<"inode", ip>>)>>) /\ UNCHANGED <<ref, ofile>>
     ELSE \E f \in FreeFiles :
       /\ filealloc(f)
       /\ IF FreeFds(ofile[p]) = {}
          THEN Then(p, <<Fileclose(f), Drop(<<"inode", ip>>)>>) /\ UNCHANGED ofile
          ELSE /\ Then(p, <<Settype(f, ip)>>)
               /\ ofile' = [ofile EXCEPT ![p][Least(FreeFds(ofile[p]))] = f]
  /\ UNCHANGED <<type, iref, ends, state>>

(* The end of sys_open, after end_op(). *)
SetType(p) ==
  /\ Do(p, "settype")
  /\ type' = [type EXCEPT ![Head(todo[p]).f] = <<"inode", Head(todo[p]).obj>>]
  /\ Then(p, <<>>)
  /\ UNCHANGED <<ref, iref, ends, ofile, state>>

(* pipealloc(): the two files, ... *)
PipeFile(p) ==
  /\ Do(p, "pipe0") \/ Do(p, "pipe1")
  /\ LET closes == IF Do(p, "pipe0") THEN <<>> ELSE <<Fileclose(Head(todo[p]).f)>> IN
     IF FreeFiles = {}
     THEN Then(p, closes) /\ UNCHANGED ref
     ELSE \E f \in FreeFiles :
       /\ filealloc(f)
       /\ Then(p, IF Do(p, "pipe0") THEN <<Pipe1(f)>> ELSE <<Kalloc(Head(todo[p]).f, f)>>)
  /\ UNCHANGED <<type, iref, ends, ofile, state>>

(* ... and the pipe, if there is memory; then sys_pipe's two fdalloc(). *)
PipeAlloc(p) ==
  /\ Do(p, "kalloc")
  /\ LET f0 == Head(todo[p]).f
         f1 == Head(todo[p]).f1
         free == FreeFds(ofile[p])
     IN \/ /\ Then(p, <<Fileclose(f0), Fileclose(f1)>>)
           /\ UNCHANGED <<type, ends, ofile>>
        \/ \E q \in {o \in Pipes : ends[o] = {}} :
             /\ ends' = [ends EXCEPT ![q] = {"read", "write"}]
             /\ type' = [type EXCEPT ![f0] = <<"read", q>>, ![f1] = <<"write", q>>]
             /\ IF Cardinality(free) < 2
                THEN Then(p, <<Fileclose(f0), Fileclose(f1)>>) /\ UNCHANGED ofile
                ELSE LET fd0 == Least(free)
                         fd1 == Least(free \ {fd0})
                     IN /\ ofile' = [ofile EXCEPT ![p][fd0] = f0, ![p][fd1] = f1]
                        /\ Then(p, <<>>)
  /\ UNCHANGED <<ref, iref, state>>

(* filedup() of sys_dup and of fork(), whose result goes to the child. *)
FileDup(p) ==
  /\ Do(p, "filedup")
  /\ LET step == Head(todo[p]) IN
     /\ ref' = [ref EXCEPT ![step.f] = @ + 1]
     /\ ofile' = IF step.to = None THEN ofile
                 ELSE [ofile EXCEPT ![step.to][step.fd] = step.f]
  /\ Then(p, <<>>)
  /\ UNCHANGED <<type, iref, ends, state>>

freesKeepsType(f) ==
  /\ ref' = [ref EXCEPT ![f] = 0]
  /\ UNCHANGED type

(* The last reference goes. *)
frees(f) ==
  /\ ref' = [ref EXCEPT ![f] = 0]
  /\ type' = [type EXCEPT ![f] = None]

(* The part of fileclose() under ftable.lock: what is left works on the copy   *)
(* of the file, which may have been allocated again.                           *)
FileClose(p) ==
  /\ Do(p, "fileclose")
  /\ LET f == Head(todo[p]).f IN
     IF ref[f] > 1
     THEN ref' = [ref EXCEPT ![f] = @ - 1] /\ Then(p, <<>>) /\ UNCHANGED type
     ELSE /\ frees(f)
          /\ Then(p, IF type[f] = None THEN <<>> ELSE <<Drop(type[f])>>)
  /\ UNCHANGED <<iref, ends, ofile, state>>

(* iput(), or pipeclose(), which frees the pipe with its second end. *)
Release(p) ==
  /\ Do(p, "drop")
  /\ LET step == Head(todo[p]) IN
     IF step.type = "inode"
     THEN iref' = [iref EXCEPT ![step.obj] = @ - 1] /\ UNCHANGED ends
     ELSE ends' = [ends EXCEPT ![step.obj] = @ \ {step.type}] /\ UNCHANGED iref
  /\ Then(p, <<>>)
  /\ UNCHANGED <<ref, type, ofile, state>>

(* exit() forgets a descriptor after it has closed it. *)
ClearFd(p) ==
  /\ Do(p, "clear")
  /\ ofile' = [ofile EXCEPT ![p][Head(todo[p]).fd] = None]
  /\ Then(p, <<>>)
  /\ UNCHANGED <<ref, type, iref, ends, state>>

(* The child of fork() becomes RUNNABLE; or exit() is done. *)
Finish(p) ==
  /\ Do(p, "start") \/ Do(p, "die")
  /\ state' = CASE Do(p, "start") -> [state EXCEPT ![Head(todo[p]).to] = "running"]
                [] Do(p, "die") -> [state EXCEPT ![p] = "unused"]
  /\ Then(p, <<>>)
  /\ UNCHANGED <<ref, type, iref, ends, ofile>>

Call(p) ==
  \/ \E i \in Inodes : sys_open(p, i)
  \/ \E fd \in Fds : sys_dup(p, fd) \/ sys_close(p, fd)
  \/ \E q \in Procs : fork(p, q)
  \/ sys_pipe(p) \/ exit(p)

Step(p) ==
  \/ Open(p) \/ SetType(p) \/ PipeFile(p) \/ PipeAlloc(p) \/ FileDup(p)
  \/ FileClose(p) \/ Release(p) \/ ClearFd(p) \/ Finish(p)

Next == \E p \in Procs : Call(p) \/ Step(p)

Spec == Init /\ [][Next]_vars

------------------------------------------------------------------------------
(* The steps that are left of all calls, and satisfy P. *)
Pending(P(_)) ==
  {s \in Procs \X (1 .. 2 * NOFILE + 2) : s[2] <= Len(todo[s[1]]) /\ P(todo[s[1]][s[2]])}

Count(P(_)) == Cardinality(Pending(P))

(* ftable's counts are right when every process has come to rest, and differ   *)
(* in between only by what the pending steps will do: sys_dup has a descriptor *)
(* before its count, exit() a count less before it clears the descriptor, the  *)
(* error paths a count without a descriptor.                                   *)
RefsCounted ==
  \A f \in Files :
    ref[f] + Count(LAMBDA s : s.op = "filedup" /\ s.to = None /\ s.f = f)
           + Count(LAMBDA s : s.op = "clear" /\ s.f = f)
      = Cardinality({d \in Procs \X Fds : ofile[d[1]][d[2]] = f})
        + Count(LAMBDA s : s.op \in {"fileclose", "pipe1", "kalloc"} /\ s.f = f)
        + Count(LAMBDA s : s.op = "kalloc" /\ s.f1 = f)

OpenOn(t) == {f \in Files : ref[f] > 0 /\ type[f] = t}

(* An inode has a reference for every open file on it and for every call that  *)
(* works on it, and a pipe an open end for the one file that has it: neither   *)
(* is given back twice, nor kept, on any way out of sys_open and sys_pipe.     *)
ObjectsCounted ==
  /\ \A i \in Inodes :
       iref[i] = Cardinality(OpenOn(<<"inode", i>>))
                 + Count(LAMBDA s : s.op \in {"open", "settype", "drop"} /\ s.obj = i)
  /\ \A q \in Pipes, t \in {"read", "write"} :
       Cardinality(OpenOn(<<t, q>>)) + Count(LAMBDA s : s = Drop(<<t, q>>))
         = IF t \in ends[q] THEN 1 ELSE 0
==============================================================================
