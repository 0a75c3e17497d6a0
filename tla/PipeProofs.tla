------------------------------ MODULE PipeProofs ------------------------------
(* Proofs about Pipe for any set of processes, any length of read and write    *)
(* and any capacity that divides the range of the counters: the invariants,    *)
(* and that the ring buffer is a FIFO.                                         *)
EXTENDS Pipe, SequenceTheorems, Modular

(* A counter stays in the range of uint. *)
LEMMA CountRange == ASSUME NEW a \in 0..(Wrap - 1) PROVE (a + 1) % Wrap \in 0..(Wrap - 1)
  BY PipeAssumption

(* nread and nwrite modulo PIPESIZE index data. *)
LEMMA SlotRange == ASSUME NEW a \in 0..(Wrap - 1) PROVE a % PIPESIZE \in Index
  BY PipeAssumption DEF Index

(* A new pipe is as the invariant says. *)
LEMMA InitIInv == Init => IInv
  <1> SUFFICES ASSUME Init PROVE IInv
    BY Zenon
  <1> USE PipeAssumption DEF Init, At
  <1>1. TypeOK
    <2>1. rfd \in SUBSET Procs /\ wfd \in SUBSET Procs
      BY Zenon
    <2>2. 0 \in 0..(Wrap - 1) /\ 0 \in 0..MaxLen
      OBVIOUS
    <2>3. n \in [Procs -> 0..MaxLen] /\ i \in [Procs -> 0..MaxLen]
      BY <2>2, Zenon
    <2>4. pc \in [Procs -> Pcs] /\ byte \in [Procs -> Vals \cup {None}]
      BY Zenon DEF Pcs
    <2> QED
      BY <2>1, <2>2, <2>3, <2>4, Zenon DEF TypeOK
  <1>2. Progress /\ LockHeld
    BY DEF Progress, LockHeld
  <1>3. EndsOpen
    BY Zenon DEF EndsOpen, Writing, Reading
  <1>4. SleepersRely
    BY Zenon DEF SleepersRely
  <1> QED
    BY <1>1, <1>2, <1>3, <1>4, Zenon DEF IInv

(* A process enters pipewrite() or piperead(). *)
LEMMA StartIInv == ASSUME IInv, NEW p \in Procs, NEW len \in 1..MaxLen, WriteStart(p, len) \/ ReadStart(p, len) PROVE IInv'
  <1> USE PipeAssumption DEF IInv, At, Goto
  <1>1. TypeOK'
    BY DEF WriteStart, ReadStart, Start, pipe, fds, calls, TypeOK, Pcs, Progress
  <1>5. Progress'
    BY DEF WriteStart, ReadStart, Start, pipe, fds, calls, TypeOK, Progress, Writing, Reading
  <1>2. LockHeld'
    BY DEF WriteStart, ReadStart, Start, pipe, fds, calls, TypeOK, LockHeld
  <1>3. EndsOpen'
    BY DEF WriteStart, ReadStart, Start, pipe, fds, calls, TypeOK, EndsOpen, LockHeld,
           Writing, Reading
  <1>4. SleepersRely'
    BY SMTT(30)
    DEF WriteStart, ReadStart, Start, pipe, fds, calls, TypeOK, SleepersRely, LockHeld,
           EndsOpen, Writing, Reading, Empty, Full
  <1> QED
    BY <1>1, <1>2, <1>3, <1>4, <1>5, Zenon

(* pipewrite() takes the lock. *)
LEMMA WriteAcquireIInv == ASSUME IInv, NEW p \in Procs, WriteAcquire(p) PROVE IInv'
  <1> USE PipeAssumption DEF IInv, At, Goto
  <1>1. TypeOK'
    BY Zenon DEF WriteAcquire, Acquire, pipe, fds, calls, TypeOK, Pcs, Progress
  <1>5. Progress'
    BY Zenon DEF WriteAcquire, Acquire, pipe, fds, calls, TypeOK, Progress, Writing, Reading
  <1>2. LockHeld'
    BY Zenon DEF WriteAcquire, Acquire, pipe, fds, calls, TypeOK, LockHeld
  <1>3. EndsOpen'
    BY DEF WriteAcquire, Acquire, pipe, fds, calls, TypeOK, EndsOpen, LockHeld, Writing, Reading
  <1>4. SleepersRely'
    BY DEF WriteAcquire, Acquire, pipe, fds, calls, TypeOK, SleepersRely, LockHeld, EndsOpen,
           Writing, Reading, Empty, Full
  <1> QED
    BY <1>1, <1>2, <1>3, <1>4, <1>5, Zenon

(* pipewrite() stores a byte. *)
LEMMA WriteByteIInv == ASSUME IInv, NEW p \in Procs, NEW v \in Vals, WriteByte(p, v) PROVE IInv'
  <1> USE PipeAssumption DEF IInv, At, Goto
  <1>1. TypeOK'
    <2>1. nwrite' \in 0..(Wrap - 1)
      BY CountRange, Zenon DEF WriteByte, TypeOK
    <2>2. data' \in [Index -> Vals]
      BY SlotRange, Zenon DEF WriteByte, TypeOK
    <2>3. i' \in [Procs -> 0..MaxLen]
      BY DEF WriteByte, TypeOK
    <2> QED
      BY <2>1, <2>2, <2>3, Zenon DEF WriteByte, TypeOK, fds
  <1>5. Progress'
    BY DEF WriteByte, pipe, fds, calls, TypeOK, Progress, Writing, Reading
  <1>2. LockHeld'
    BY Zenon DEF WriteByte, pipe, fds, calls, TypeOK, LockHeld
  <1>3. EndsOpen'
    BY Zenon DEF WriteByte, pipe, fds, calls, TypeOK, EndsOpen, LockHeld, Writing, Reading
  <1>4. SleepersRely'
    BY Zenon DEF WriteByte, pipe, fds, calls, TypeOK, SleepersRely, LockHeld, EndsOpen,
           Writing, Reading, Empty, Full
  <1> QED
    BY <1>1, <1>2, <1>3, <1>4, <1>5, Zenon

(* pipewrite() gives up on a closed read end or when killed. *)
LEMMA WriteFailsIInv == ASSUME IInv, NEW p \in Procs, WriteFails(p) PROVE IInv'
  <1> USE PipeAssumption DEF IInv, At, Goto
  <1>1. TypeOK'
    BY DEF WriteFails, Return, pipe, fds, calls, TypeOK, Pcs, Progress
  <1>5. Progress'
    BY DEF WriteFails, Return, pipe, fds, calls, TypeOK, Progress, Writing, Reading
  <1>2. LockHeld'
    BY Zenon DEF WriteFails, Return, pipe, fds, calls, TypeOK, LockHeld
  <1>3. EndsOpen'
    BY DEF WriteFails, Return, pipe, fds, calls, TypeOK, EndsOpen, LockHeld, Writing, Reading
  <1>4. SleepersRely'
    BY DEF WriteFails, Return, pipe, fds, calls, TypeOK, SleepersRely, LockHeld, EndsOpen,
           Writing, Reading, Empty, Full
  <1> QED
    BY <1>1, <1>2, <1>3, <1>4, <1>5, Zenon

(* pipewrite() wakes the readers before it sleeps. *)
LEMMA WriteFullIInv == ASSUME IInv, NEW p \in Procs, WriteFull(p) PROVE IInv'
  <1> USE PipeAssumption DEF IInv, At, Goto
  <1>1. TypeOK'
    BY Zenon DEF WriteFull, Woken, pipe, fds, calls, TypeOK, Pcs, Progress
  <1>5. Progress'
    BY Zenon DEF WriteFull, Woken, pipe, fds, calls, TypeOK, Progress, Writing, Reading
  <1>2. LockHeld'
    BY Zenon DEF WriteFull, Woken, pipe, fds, calls, TypeOK, LockHeld
  <1>3. EndsOpen'
    BY ZenonT(40)
    DEF WriteFull, Woken, pipe, fds, calls, TypeOK, EndsOpen, LockHeld, Writing, Reading
  <1>4. SleepersRely'
    BY Zenon DEF WriteFull, Woken, pipe, fds, calls, TypeOK, SleepersRely, LockHeld,
           EndsOpen, Writing, Reading, Empty, Full
  <1> QED
    BY <1>1, <1>2, <1>3, <1>4, <1>5, Zenon

(* sleep(&p->nwrite, &p->lock) lets go of the lock. *)
LEMMA WriteSleepIInv == ASSUME IInv, NEW p \in Procs, WriteSleep(p) PROVE IInv'
  <1> USE PipeAssumption DEF IInv, At, Goto
  <1>1. TypeOK'
    BY Zenon DEF WriteSleep, Sleep, pipe, fds, calls, TypeOK, Pcs, Progress
  <1>5. Progress'
    BY Zenon DEF WriteSleep, Sleep, pipe, fds, calls, TypeOK, Progress, Writing, Reading
  <1>2. LockHeld'
    BY Zenon DEF WriteSleep, Sleep, pipe, fds, calls, TypeOK, LockHeld
  <1>3. EndsOpen'
    BY DEF WriteSleep, Sleep, pipe, fds, calls, TypeOK, EndsOpen, LockHeld, Writing, Reading
  <1>4. SleepersRely'
    BY DEF WriteSleep, Sleep, pipe, fds, calls, TypeOK, SleepersRely, LockHeld, EndsOpen,
           Writing, Reading, Empty, Full
  <1> QED
    BY <1>1, <1>2, <1>3, <1>4, <1>5, Zenon

(* pipewrite() wakes the readers and returns. *)
LEMMA WriteDoneIInv == ASSUME IInv, NEW p \in Procs, WriteDone(p) PROVE IInv'
  <1> USE PipeAssumption DEF IInv, At, Goto
  <1>1. TypeOK'
    BY DEF WriteDone, Woken, Return, pipe, fds, calls, TypeOK, Pcs, Progress
  <1>5. Progress'
    BY DEF WriteDone, Woken, Return, pipe, fds, calls, TypeOK, Progress, Writing, Reading
  <1>2. LockHeld'
    BY Zenon DEF WriteDone, Woken, Return, pipe, fds, calls, TypeOK, LockHeld
  <1>3. EndsOpen'
    BY ZenonT(40)
    DEF WriteDone, Woken, Return, pipe, fds, calls, TypeOK, EndsOpen, LockHeld, Writing,
           Reading
  <1>4. SleepersRely'
    BY Zenon DEF WriteDone, Woken, Return, pipe, fds, calls, TypeOK, SleepersRely, LockHeld,
           EndsOpen, Writing, Reading, Empty, Full
  <1> QED
    BY <1>1, <1>2, <1>3, <1>4, <1>5, Zenon

(* piperead() takes the lock. *)
LEMMA ReadAcquireIInv == ASSUME IInv, NEW p \in Procs, ReadAcquire(p) PROVE IInv'
  <1> USE PipeAssumption DEF IInv, At, Goto
  <1>1. TypeOK'
    BY Zenon DEF ReadAcquire, Acquire, pipe, fds, calls, TypeOK, Pcs, Progress
  <1>5. Progress'
    BY Zenon DEF ReadAcquire, Acquire, pipe, fds, calls, TypeOK, Progress, Writing, Reading
  <1>2. LockHeld'
    BY Zenon DEF ReadAcquire, Acquire, pipe, fds, calls, TypeOK, LockHeld
  <1>3. EndsOpen'
    BY DEF ReadAcquire, Acquire, pipe, fds, calls, TypeOK, EndsOpen, LockHeld, Writing, Reading
  <1>4. SleepersRely'
    BY DEF ReadAcquire, Acquire, pipe, fds, calls, TypeOK, SleepersRely, LockHeld, EndsOpen,
           Writing, Reading, Empty, Full
  <1> QED
    BY <1>1, <1>2, <1>3, <1>4, <1>5, Zenon

(* piperead() gives up when killed. *)
LEMMA ReadFailsIInv == ASSUME IInv, NEW p \in Procs, ReadFails(p) PROVE IInv'
  <1> USE PipeAssumption DEF IInv, At, Goto
  <1>1. TypeOK'
    BY DEF ReadFails, Return, pipe, fds, calls, TypeOK, Pcs, Progress
  <1>5. Progress'
    BY DEF ReadFails, Return, pipe, fds, calls, TypeOK, Progress, Writing, Reading
  <1>2. LockHeld'
    BY Zenon DEF ReadFails, Return, pipe, fds, calls, TypeOK, LockHeld
  <1>3. EndsOpen'
    BY DEF ReadFails, Return, pipe, fds, calls, TypeOK, EndsOpen, LockHeld, Writing, Reading
  <1>4. SleepersRely'
    BY DEF ReadFails, Return, pipe, fds, calls, TypeOK, SleepersRely, LockHeld, EndsOpen,
           Writing, Reading, Empty, Full
  <1> QED
    BY <1>1, <1>2, <1>3, <1>4, <1>5, Zenon

(* piperead() finds the pipe empty. *)
LEMMA ReadEmptyIInv == ASSUME IInv, NEW p \in Procs, ReadEmpty(p) PROVE IInv'
  <1> USE PipeAssumption DEF IInv, At, Goto
  <1>1. TypeOK'
    BY Zenon DEF ReadEmpty, pipe, fds, calls, TypeOK, Pcs, Progress
  <1>5. Progress'
    BY Zenon DEF ReadEmpty, pipe, fds, calls, TypeOK, Progress, Writing, Reading
  <1>2. LockHeld'
    BY Zenon DEF ReadEmpty, pipe, fds, calls, TypeOK, LockHeld
  <1>3. EndsOpen'
    BY DEF ReadEmpty, pipe, fds, calls, TypeOK, EndsOpen, LockHeld, Writing, Reading
  <1>4. SleepersRely'
    BY DEF ReadEmpty, pipe, fds, calls, TypeOK, SleepersRely, LockHeld, EndsOpen, Writing,
           Reading, Empty, Full
  <1> QED
    BY <1>1, <1>2, <1>3, <1>4, <1>5, Zenon

(* sleep(&p->nread, &p->lock) lets go of the lock. *)
LEMMA ReadSleepIInv == ASSUME IInv, NEW p \in Procs, ReadSleep(p) PROVE IInv'
  <1> USE PipeAssumption DEF IInv, At, Goto
  <1>1. TypeOK'
    BY Zenon DEF ReadSleep, Sleep, pipe, fds, calls, TypeOK, Pcs, Progress
  <1>5. Progress'
    BY Zenon DEF ReadSleep, Sleep, pipe, fds, calls, TypeOK, Progress, Writing, Reading
  <1>2. LockHeld'
    BY Zenon DEF ReadSleep, Sleep, pipe, fds, calls, TypeOK, LockHeld
  <1>3. EndsOpen'
    BY DEF ReadSleep, Sleep, pipe, fds, calls, TypeOK, EndsOpen, LockHeld, Writing, Reading
  <1>4. SleepersRely'
    BY DEF ReadSleep, Sleep, pipe, fds, calls, TypeOK, SleepersRely, LockHeld, EndsOpen,
           Writing, Reading, Empty, Full
  <1> QED
    BY <1>1, <1>2, <1>3, <1>4, <1>5, Zenon

(* piperead() leaves its waiting loop. *)
LEMMA ReadReadyIInv == ASSUME IInv, NEW p \in Procs, ReadReady(p) PROVE IInv'
  <1> USE PipeAssumption DEF IInv, At, Goto
  <1>1. TypeOK'
    BY Zenon DEF ReadReady, pipe, fds, calls, TypeOK, Pcs, Progress
  <1>5. Progress'
    BY Zenon DEF ReadReady, pipe, fds, calls, TypeOK, Progress, Writing, Reading
  <1>2. LockHeld'
    BY Zenon DEF ReadReady, pipe, fds, calls, TypeOK, LockHeld
  <1>3. EndsOpen'
    BY DEF ReadReady, pipe, fds, calls, TypeOK, EndsOpen, LockHeld, Writing, Reading
  <1>4. SleepersRely'
    BY DEF ReadReady, pipe, fds, calls, TypeOK, SleepersRely, LockHeld, EndsOpen, Writing,
           Reading, Empty, Full
  <1> QED
    BY <1>1, <1>2, <1>3, <1>4, <1>5, Zenon

(* piperead() takes a byte. *)
LEMMA ReadByteIInv == ASSUME IInv, NEW p \in Procs, ReadByte(p) PROVE IInv'
  <1> USE PipeAssumption DEF IInv, At, Goto
  <1>1. TypeOK'
    <2>1. nread' \in 0..(Wrap - 1)
      BY CountRange, Zenon DEF ReadByte, TypeOK
    <2>2. byte' \in [Procs -> Vals \cup {None}]
      BY SlotRange, Zenon DEF ReadByte, TypeOK
    <2>3. i' \in [Procs -> 0..MaxLen]
      BY DEF ReadByte, TypeOK
    <2> QED
      BY <2>1, <2>2, <2>3, Zenon DEF ReadByte, TypeOK, fds
  <1>5. Progress'
    BY DEF ReadByte, pipe, fds, calls, TypeOK, Progress, Writing, Reading
  <1>2. LockHeld'
    BY Zenon DEF ReadByte, pipe, fds, calls, TypeOK, LockHeld
  <1>3. EndsOpen'
    BY Zenon DEF ReadByte, pipe, fds, calls, TypeOK, EndsOpen, LockHeld, Writing, Reading
  <1>4. SleepersRely'
    BY Zenon DEF ReadByte, pipe, fds, calls, TypeOK, SleepersRely, LockHeld, EndsOpen,
           Writing, Reading, Empty, Full
  <1> QED
    BY <1>1, <1>2, <1>3, <1>4, <1>5, Zenon

(* piperead() wakes the writers and returns. *)
LEMMA ReadDoneIInv == ASSUME IInv, NEW p \in Procs, ReadDone(p) PROVE IInv'
  <1> USE PipeAssumption DEF IInv, At, Goto
  <1>1. TypeOK'
    BY DEF ReadDone, Woken, Return, pipe, fds, calls, TypeOK, Pcs, Progress
  <1>5. Progress'
    BY DEF ReadDone, Woken, Return, pipe, fds, calls, TypeOK, Progress, Writing, Reading
  <1>2. LockHeld'
    BY Zenon DEF ReadDone, Woken, Return, pipe, fds, calls, TypeOK, LockHeld
  <1>3. EndsOpen'
    BY ZenonT(40)
    DEF ReadDone, Woken, Return, pipe, fds, calls, TypeOK, EndsOpen, LockHeld, Writing, Reading
  <1>4. SleepersRely'
    BY ZenonT(40) DEF ReadDone, Woken, Return, pipe, fds, calls, TypeOK, SleepersRely, LockHeld,
           EndsOpen, Writing, Reading, Empty, Full
  <1> QED
    BY <1>1, <1>2, <1>3, <1>4, <1>5, Zenon

(* fork() shares the descriptors. *)
LEMMA ForkIInv == ASSUME IInv, NEW p \in Procs, NEW q \in Procs, Fork(p, q) PROVE IInv'
  <1> USE PipeAssumption DEF IInv, At, Goto
  <1>1. TypeOK'
    BY Zenon DEF Fork, pipe, fds, calls, TypeOK, Pcs, Progress
  <1>5. Progress'
    BY Zenon DEF Fork, pipe, fds, calls, TypeOK, Progress, Writing, Reading
  <1>2. LockHeld'
    BY Zenon DEF Fork, pipe, fds, calls, TypeOK, LockHeld
  <1>3. EndsOpen'
    BY Zenon DEF Fork, pipe, fds, calls, TypeOK, EndsOpen, LockHeld, Writing, Reading
  <1>4. SleepersRely'
    BY DEF Fork, pipe, fds, calls, TypeOK, SleepersRely, LockHeld, EndsOpen, Writing,
           Reading, Empty, Full
  <1> QED
    BY <1>1, <1>2, <1>3, <1>4, <1>5, Zenon

(* A process closes a descriptor of the read end. *)
LEMMA CloseReadIInv == ASSUME IInv, NEW p \in Procs, CloseRead(p) PROVE IInv'
  <1> USE PipeAssumption DEF IInv, At, Goto
  <1>1. TypeOK'
    BY DEF CloseRead, pipe, fds, calls, TypeOK, Pcs, Progress
  <1>5. Progress'
    BY Zenon DEF CloseRead, pipe, fds, calls, TypeOK, Progress, Writing, Reading
  <1>2. LockHeld'
    BY SMTT(30) DEF CloseRead, pipe, fds, calls, TypeOK, LockHeld
  <1>3. EndsOpen'
    BY DEF CloseRead, pipe, fds, calls, TypeOK, EndsOpen, LockHeld, Writing, Reading
  <1>4. SleepersRely'
    BY DEF CloseRead, pipe, fds, calls, TypeOK, SleepersRely, LockHeld, EndsOpen, Writing,
           Reading, Empty, Full
  <1> QED
    BY <1>1, <1>2, <1>3, <1>4, <1>5, Zenon

(* A process closes a descriptor of the write end. *)
LEMMA CloseWriteIInv == ASSUME IInv, NEW p \in Procs, CloseWrite(p) PROVE IInv'
  <1> USE PipeAssumption DEF IInv, At, Goto
  <1>1. TypeOK'
    BY Zenon DEF CloseWrite, pipe, fds, calls, TypeOK, Pcs, Progress
  <1>5. Progress'
    BY Zenon DEF CloseWrite, pipe, fds, calls, TypeOK, Progress, Writing, Reading
  <1>2. LockHeld'
    BY DEF CloseWrite, pipe, fds, calls, TypeOK, LockHeld
  <1>3. EndsOpen'
    BY SMTT(30) DEF CloseWrite, pipe, fds, calls, TypeOK, EndsOpen, LockHeld, Writing, Reading
  <1>4. SleepersRely'
    BY DEF CloseWrite, pipe, fds, calls, TypeOK, SleepersRely, LockHeld, EndsOpen, Writing,
           Reading, Empty, Full
  <1> QED
    BY <1>1, <1>2, <1>3, <1>4, <1>5, Zenon

(* pipeclose() closes an end and wakes the other. *)
LEMMA PipeCloseIInv == ASSUME IInv, NEW p \in Procs, NEW writable \in BOOLEAN, PipeClose(p, writable) PROVE IInv'
  <1> USE PipeAssumption DEF IInv, At, Goto
  <1>1. TypeOK'
    BY Zenon DEF PipeClose, Woken, pipe, fds, calls, TypeOK, Pcs, Progress
  <1>5. Progress'
    BY Zenon DEF PipeClose, Woken, pipe, fds, calls, TypeOK, Progress, Writing, Reading
  <1>2. LockHeld'
    BY Zenon DEF PipeClose, Woken, pipe, fds, calls, TypeOK, LockHeld
  <1>3. EndsOpen'
    BY ZenonT(40)
    DEF PipeClose, Woken, pipe, fds, calls, TypeOK, EndsOpen, LockHeld, Writing, Reading
  <1>4. SleepersRely'
    BY DEF PipeClose, Woken, pipe, fds, calls, TypeOK, SleepersRely, LockHeld, EndsOpen,
           Writing, Reading, Empty, Full
  <1> QED
    BY <1>1, <1>2, <1>3, <1>4, <1>5, Zenon

(* kill() marks and wakes a process. *)
LEMMA KillIInv == ASSUME IInv, NEW p \in Procs, Kill(p) PROVE IInv'
  <1> USE PipeAssumption DEF IInv, At, Goto
  <1>1. TypeOK'
    BY Zenon DEF Kill, Woken, pipe, fds, calls, TypeOK, Pcs, Progress
  <1>5. Progress'
    BY Zenon DEF Kill, Woken, pipe, fds, calls, TypeOK, Progress, Writing, Reading
  <1>2. LockHeld'
    BY Zenon DEF Kill, Woken, pipe, fds, calls, TypeOK, LockHeld
  <1>3. EndsOpen'
    BY SMTT(30) DEF Kill, Woken, pipe, fds, calls, TypeOK, EndsOpen, LockHeld, Writing, Reading
  <1>4. SleepersRely'
    BY DEF Kill, Woken, pipe, fds, calls, TypeOK, SleepersRely, LockHeld, EndsOpen, Writing,
           Reading, Empty, Full
  <1> QED
    BY <1>1, <1>2, <1>3, <1>4, <1>5, Zenon

(* Every step of every process, and kill(), keep the invariant. *)
LEMMA NextIInv == IInv /\ [Next]_vars => IInv'
  <1> SUFFICES ASSUME IInv, [Next]_vars PROVE IInv'
    BY Zenon
  <1>1. ASSUME NEW p \in Procs, Step(p) PROVE IInv'
    BY <1>1, WriteAcquireIInv, WriteByteIInv, WriteFailsIInv, WriteFullIInv, SMTT(30),
       WriteSleepIInv, WriteDoneIInv, ReadAcquireIInv, ReadFailsIInv, ReadEmptyIInv,
       ReadSleepIInv, ReadReadyIInv, ReadByteIInv, ReadDoneIInv, PipeCloseIInv DEF Step
  <1>2. ASSUME NEW p \in Procs, Close(p) \/ Kill(p) PROVE IInv'
    BY <1>2, CloseReadIInv, CloseWriteIInv, KillIInv, Zenon DEF Close
  <1>3. ASSUME NEW p \in Procs, NEW len \in 1..MaxLen, WriteStart(p, len) \/ ReadStart(p, len)
        PROVE IInv'
    BY <1>3, StartIInv, Zenon
  <1>4. ASSUME NEW p \in Procs, NEW q \in Procs, Fork(p, q) PROVE IInv'
    BY <1>4, ForkIInv, ZenonT(40)
  <1>5. CASE UNCHANGED vars
    BY <1>5 DEF vars, pipe, fds, calls, IInv, TypeOK, Progress, LockHeld, EndsOpen,
                SleepersRely, Writing, Reading, At, Empty, Full
  <1> QED
    BY <1>1, <1>2, <1>3, <1>4, <1>5, Zenon DEF Next

(* The invariant holds in every reachable state. *)
THEOREM Invariance == Spec => []IInv
  BY InitIInv, NextIInv, PTL DEF Spec

(* A writer sleeps only on a full pipe that can still be read. *)
THEOREM WriterSleepsOnFull == Spec => []WriterWaitsForRoom
  <1>1. IInv => WriterWaitsForRoom
    BY PipeAssumption, Zenon DEF IInv, TypeOK, LockHeld, SleepersRely, WriterWaitsForRoom, At
  <1> QED
    BY <1>1, Invariance, PTL

(* Where nobody was killed a reader sleeps only on an empty pipe that can      *)
(* still be written.                                                           *)
THEOREM ReaderSleepsOnEmpty == Spec => []OnlyKilledForget
  <1>1. IInv => OnlyKilledForget
    BY PipeAssumption, Zenon DEF IInv, TypeOK, LockHeld, SleepersRely, OnlyKilledForget, At
  <1> QED
    BY <1>1, Invariance, PTL

(* pipeclose() frees the page of the pipe after its last use, and always.      *)
THEOREM FreedOnce == Spec => []FreedAfterUse
  <1>1. IInv => FreedAfterUse
    <2> SUFFICES ASSUME IInv PROVE FreedAfterUse
      BY Zenon
    <2> USE PipeAssumption DEF IInv, TypeOK, At
    <2>1. ASSUME freed
          PROVE rfd = {} /\ wfd = {} /\ \A p \in Procs : pc[p] = "user"
      BY <2>1 DEF EndsOpen, Writing, Reading, Pcs
    <2>2. freed => lock = None
      BY <2>1, Zenon DEF LockHeld
    <2>3. rfd = {} /\ wfd = {} /\ (\A p \in Procs : At(p, "user")) => freed
      BY Zenon DEF EndsOpen
    <2> QED
      BY <2>1, <2>2, <2>3, SMTT(30) DEF FreedAfterUse, EndsOpen
  <1> QED
    BY <1>1, Invariance, PTL

------------------------------------------------------------------------------
(* The counters. *)
Dist(a, b) == IF b >= a THEN b - a ELSE b - a + Wrap

(* The distance between two counters is their difference modulo Wrap. *)
LEMMA Difference ==
  ASSUME NEW a \in 0..(Wrap - 1), NEW b \in 0..(Wrap - 1)
  PROVE  (b - a) % Wrap = Dist(a, b)
  <1>1. Wrap \in Nat \ {0} /\ a \in 0..Wrap
    BY PipeAssumption
  <1> QED
    BY <1>1, Distance, Zenon DEF Dist

(* A counter moved on by k. *)
LEMMA Advanced ==
  ASSUME NEW a \in 0..(Wrap - 1), NEW k \in 0..(Wrap - 1)
  PROVE  (a + k) % Wrap = IF a + k < Wrap THEN a + k ELSE a + k - Wrap
  <1>1. Wrap \in Nat \ {0} /\ k \in 0..Wrap
    BY PipeAssumption
  <1> QED
    BY <1>1, Shifted, Zenon

(* Empty and Full, and the effect of a byte on the number of bytes inside. *)
LEMMA Counters ==
  ASSUME TypeOK
  PROVE  /\ Count \in 0..(Wrap - 1)
         /\ Empty <=> Count = 0
         /\ Full <=> Count = PIPESIZE
         /\ nwrite = (nread + Count) % Wrap
  <1>1. nread \in 0..(Wrap - 1) /\ nwrite \in 0..(Wrap - 1)
    BY Zenon DEF TypeOK
  <1>2. Count = Dist(nread, nwrite)
    BY <1>1, Difference, Zenon DEF Count
  <1>3. Count \in 0..(Wrap - 1) /\ PIPESIZE \in 0..(Wrap - 1)
    BY <1>1, <1>2, PipeAssumption DEF Dist
  <1>4. /\ (nread + Count) % Wrap
             = IF nread + Count < Wrap THEN nread + Count ELSE nread + Count - Wrap
        /\ (nread + PIPESIZE) % Wrap
             = IF nread + PIPESIZE < Wrap THEN nread + PIPESIZE ELSE nread + PIPESIZE - Wrap
    BY <1>1, <1>3, Advanced, Zenon
  <1>5. Wrap \in Nat /\ PIPESIZE \in Nat
    BY PipeAssumption, Zenon
  <1> QED
    BY <1>1, <1>2, <1>3, <1>4, <1>5 DEF Dist, Empty, Full

(* Where in data the k-th byte inside is; two different ones never coincide.   *)
Slot(k) == ((nread + k) % Wrap) % PIPESIZE

(* Bytes less than PIPESIZE apart lie in different slots of data. *)
LEMMA Slots ==
  ASSUME TypeOK, NEW k \in Nat, NEW l \in Nat, k < l, l < k + PIPESIZE
  PROVE  Slot(k) # Slot(l)
  <1>1. PIPESIZE \in Nat \ {0} /\ Wrap \in Nat \ {0} /\ Wrap % PIPESIZE = 0
    BY PipeAssumption
  <1>2. nread + k \in Int /\ nread + l \in Int /\ nread + k < nread + l
        /\ nread + l < nread + k + PIPESIZE
    BY <1>1 DEF TypeOK
  <1>3. Slot(k) = (nread + k) % PIPESIZE /\ Slot(l) = (nread + l) % PIPESIZE
    BY <1>1, <1>2, Reduced, Zenon DEF Slot
  <1> QED
    BY <1>1, <1>2, <1>3, Apart, Zenon

------------------------------------------------------------------------------
(* The bytes inside after a write and after a read. *)
LEMMA AfterWrite ==
  ASSUME IInv, IInv', FifoInv, NEW p \in Procs, NEW v \in Vals, WriteByte(p, v)
  PROVE  Count' = Count + 1 /\ Count < PIPESIZE /\ Inside' = Append(Inside, v)
  <1>1. TypeOK /\ TypeOK' /\ Wrap \in Nat /\ PIPESIZE \in Nat \ {0} /\ PIPESIZE < Wrap
    BY PipeAssumption, Zenon DEF IInv
  <1>2. Count \in 0..(Wrap - 1) /\ Count < PIPESIZE
    BY <1>1, Counters DEF WriteByte, FifoInv
  <1>3. nread' = nread /\ nwrite' = (nwrite + 1) % Wrap
    BY Zenon DEF WriteByte
  <1>4. nread \in 0..(Wrap - 1) /\ nwrite \in 0..(Wrap - 1) /\ nwrite' \in 0..(Wrap - 1)
    BY <1>1, Zenon DEF TypeOK
  <1>5. nwrite' = IF nwrite + 1 < Wrap THEN nwrite + 1 ELSE nwrite + 1 - Wrap
    BY <1>1, <1>3, <1>4, Advanced
  <1>6. Count = Dist(nread, nwrite) /\ Count' = Dist(nread, nwrite')
    BY <1>3, <1>4, Difference, Zenon DEF Count
  <1>7. Count' = Count + 1
    BY <1>1, <1>2, <1>4, <1>5, <1>6 DEF Dist
  <1>8. nwrite % PIPESIZE = Slot(Count)
    BY <1>1, Counters, Zenon DEF Slot
  <1>9. data' = [data EXCEPT ![Slot(Count)] = v]
    BY <1>8, Zenon DEF WriteByte
  <1>10. ASSUME NEW k \in 0..Count PROVE Slot(k) \in Index
    <2>1. nread + k \in Int /\ Wrap \in Nat \ {0}
      BY <1>1, <1>2, <1>4
    <2>2. (nread + k) % Wrap \in 0..(Wrap - 1)
      BY <2>1, Division, Zenon
    <2> QED
      BY <2>2, SlotRange, Zenon DEF Slot
  <1>11. data \in [Index -> Vals]
    BY <1>1, Zenon DEF TypeOK
  <1>12. ASSUME NEW k \in 1..Count PROVE data'[Slot(k - 1)] = data[Slot(k - 1)]
    <2>1. k - 1 \in Nat /\ Count \in Nat /\ k - 1 < Count /\ Count < k - 1 + PIPESIZE
      BY <1>1, <1>2
    <2>2. Slot(k - 1) # Slot(Count)
      BY <1>1, <2>1, Slots, Zenon
    <2>3. Slot(k - 1) \in Index
      BY <1>10, <2>1
    <2> QED
      BY <1>9, <1>11, <2>2, <2>3, Zenon
  <1>13. data'[Slot(Count)] = v
    BY <1>2, <1>9, <1>10, <1>11
  <1>14. Inside = [k \in 1..Count |-> data[Slot(k - 1)]]
    <2>1. \A k \in 1..Count : nread + k - 1 = nread + (k - 1)
      BY <1>2, <1>4, Zenon
    <2> QED
      BY <2>1, Zenon DEF Inside, Slot
  <1>15. Inside' = [k \in 1..(Count + 1) |-> data'[Slot(k - 1)]]
    <2>1. \A k \in 1..(Count + 1) : nread + k - 1 = nread + (k - 1)
      BY <1>2, <1>4, Zenon
    <2> QED
      BY <1>3, <1>7, <2>1, Zenon DEF Inside, Slot
  <1>16. Inside \in Seq(Vals) /\ Len(Inside) = Count
    BY <1>2, <1>10, <1>11, <1>14
  <1>17. Inside' \in Seq(Vals) /\ Len(Inside') = Count + 1
    <2>1. \A k \in 1..(Count + 1) : data'[Slot(k - 1)] \in Vals
      BY <1>1, <1>2, <1>10 DEF TypeOK
    <2> QED
      BY <1>2, <1>15, <2>1
  <1>18. \A k \in 1..Count : Inside'[k] = Inside[k]
    BY <1>2, <1>12, <1>14, <1>15
  <1>19. Inside'[Count + 1] = v
    BY <1>2, <1>13, <1>15
  <1>20. Inside' = Append(Inside, v)
    <2>1. /\ Append(Inside, v) \in Seq(Vals)
          /\ Len(Append(Inside, v)) = Count + 1
          /\ \A k \in 1..Count : Append(Inside, v)[k] = Inside[k]
          /\ Append(Inside, v)[Count + 1] = v
      BY <1>16, AppendProperties
    <2>2. \A k \in 1..(Count + 1) : Inside'[k] = Append(Inside, v)[k]
      BY <1>2, <1>18, <1>19, <2>1
    <2> QED
      BY <1>17, <2>1, <2>2, SeqEqual, Zenon
  <1> QED
    BY <1>2, <1>7, <1>20, Zenon

(* A read takes the oldest byte out of a pipe that is not empty. *)
LEMMA AfterRead ==
  ASSUME IInv, IInv', FifoInv, NEW p \in Procs, ReadByte(p)
  PROVE  /\ Count' = Count - 1 /\ Count > 0
         /\ Inside # <<>> /\ Inside' = Tail(Inside)
         /\ byte' = [byte EXCEPT ![p] = Head(Inside)]
  <1>1. TypeOK /\ TypeOK' /\ Wrap \in Nat /\ PIPESIZE \in Nat \ {0} /\ PIPESIZE < Wrap
    BY PipeAssumption, Zenon DEF IInv
  <1>2. Count \in 1..(Wrap - 1)
    BY <1>1, Counters DEF ReadByte
  <1>3. nwrite' = nwrite /\ nread' = (nread + 1) % Wrap /\ data' = data
    BY Zenon DEF ReadByte
  <1>4. nread \in 0..(Wrap - 1) /\ nwrite \in 0..(Wrap - 1) /\ nread' \in 0..(Wrap - 1)
    BY <1>1, Zenon DEF TypeOK
  <1>5. nread' = IF nread + 1 < Wrap THEN nread + 1 ELSE nread + 1 - Wrap
    BY <1>1, <1>3, <1>4, Advanced
  <1>6. Count = Dist(nread, nwrite) /\ Count' = Dist(nread', nwrite)
    BY <1>3, <1>4, Difference, Zenon DEF Count
  <1>7. Count' = Count - 1
    BY <1>1, <1>2, <1>4, <1>5, <1>6 DEF Dist
  <1>8. ASSUME NEW k \in 1..(Count - 1) PROVE (nread' + k - 1) % Wrap = (nread + k) % Wrap
    <2>1. k \in 0..(Wrap - 1) /\ k - 1 \in 0..(Wrap - 1)
      BY <1>1, <1>2
    <2>2. (nread + k) % Wrap = IF nread + k < Wrap THEN nread + k ELSE nread + k - Wrap
      BY <1>4, <2>1, Advanced, Zenon
    <2>3. (nread' + (k - 1)) % Wrap
            = IF nread' + (k - 1) < Wrap THEN nread' + (k - 1) ELSE nread' + (k - 1) - Wrap
      BY <1>4, <2>1, Advanced, Zenon
    <2>4. nread' + k - 1 = nread' + (k - 1)
      BY <1>4, <2>1, Zenon
    <2> QED
      BY <1>1, <1>4, <1>5, <2>1, <2>2, <2>3, <2>4
  <1>9. Inside' = [k \in 1..(Count - 1) |-> data[((nread + k) % Wrap) % PIPESIZE]]
    BY <1>3, <1>7, <1>8, Zenon DEF Inside
  <1>10. Inside \in Seq(Vals) /\ Len(Inside) = Count
    <2>1. ASSUME NEW k \in 1..Count PROVE data[((nread + k - 1) % Wrap) % PIPESIZE] \in Vals
      <3>1. (nread + (k - 1)) % Wrap \in 0..(Wrap - 1)
        BY <1>1, <1>2, <1>4, Advanced
      <3>2. nread + k - 1 = nread + (k - 1)
        BY <1>2, <1>4, Zenon
      <3> QED
        BY <1>1, <3>1, <3>2, SlotRange, Zenon DEF TypeOK
    <2> QED
      BY <1>2, <2>1 DEF Inside
  <1>11. Inside[1] = data[nread % PIPESIZE]
    <2>1. (nread + 1 - 1) % Wrap = nread
      BY <1>1, <1>4
    <2> QED
      BY <1>2, <2>1 DEF Inside
  <1>12. \A k \in 1..(Count - 1) : Inside[k + 1] = data[((nread + k) % Wrap) % PIPESIZE]
    <2>1. \A k \in 1..(Count - 1) : nread + (k + 1) - 1 = nread + k /\ k + 1 \in 1..Count
      BY <1>2, <1>4
    <2> QED
      BY <2>1, Zenon DEF Inside
  <1>13. Inside # <<>> /\ Head(Inside) = Inside[1]
    BY <1>2, <1>10
  <1>14. /\ Tail(Inside) \in Seq(Vals) /\ Len(Tail(Inside)) = Count - 1
         /\ \A k \in 1..(Count - 1) : Tail(Inside)[k] = Inside[k + 1]
    BY <1>10, <1>13, HeadTailProperties, Zenon
  <1>15. Inside' = Tail(Inside)
    <2>1. \A k \in 1..(Count - 1) : data[((nread + k) % Wrap) % PIPESIZE] = Tail(Inside)[k]
      BY <1>12, <1>14, Zenon
    <2>2. \A k \in 1..(Count - 1) : Tail(Inside)[k] \in Vals
      BY <1>14, ElementOfSeq, Zenon
    <2>3. Inside' \in Seq(Vals) /\ Len(Inside') = Count - 1
      <3>1. Count - 1 \in Nat
        BY <1>1, <1>2
      <3>2. \A k \in 1..(Count - 1) : data[((nread + k) % Wrap) % PIPESIZE] \in Vals
        BY <2>1, <2>2, Zenon
      <3> QED
        BY <1>9, <3>1, <3>2
    <2>4. \A k \in 1..(Count - 1) : Inside'[k] = Tail(Inside)[k]
      BY <1>9, <2>1, Zenon
    <2> QED
      BY <1>14, <2>3, <2>4, SeqEqual, Zenon
  <1>16. byte' = [byte EXCEPT ![p] = Head(Inside)]
    BY <1>11, <1>13, Zenon DEF ReadByte
  <1> QED
    BY <1>2, <1>7, <1>13, <1>15, <1>16

------------------------------------------------------------------------------
(* Steps that move no byte leave the bytes inside alone. *)
LEMMA SameBytes ==
  ASSUME UNCHANGED <<data, nread, nwrite>>
  PROVE  Count' = Count /\ Inside' = Inside /\ Empty' = Empty
  BY Zenon DEF Count, Inside, Empty

(* The new pipe of pipealloc() satisfies the invariant. *)
LEMMA InitFifoInv == Init => FifoInv
  BY PipeAssumption DEF Init, FifoInv, Count, Writing, Reading, At

(* Every step keeps the counters together. *)
LEMMA NextFifoInv == IInv /\ IInv' /\ FifoInv /\ [Next]_vars => FifoInv'
  <1> SUFFICES ASSUME IInv, IInv', FifoInv, [Next]_vars PROVE FifoInv'
    BY Zenon
  <1>0. TypeOK /\ Count \in 0..(Wrap - 1) /\ PIPESIZE \in Nat /\ Wrap \in Nat
    BY Counters, PipeAssumption, Zenon DEF IInv
  <1>1. ASSUME NEW p \in Procs, NEW v \in Vals, WriteByte(p, v) PROVE FifoInv'
    <2>1. Count' <= PIPESIZE
      BY <1>0, <1>1, AfterWrite, SMTT(30)
    <2> QED
      BY <1>0, <1>1, <2>1, PipeAssumption, SMTT(30)
      DEF WriteByte, FifoInv, IInv, TypeOK, LockHeld, Writing, Reading, At
  <1>2. ASSUME NEW p \in Procs, ReadByte(p) PROVE FifoInv'
    <2>1. Count' <= PIPESIZE
      BY <1>0, <1>2, AfterRead DEF FifoInv
    <2> QED
      BY <1>0, <1>2, <2>1, PipeAssumption, SMTT(30)
      DEF ReadByte, FifoInv, IInv, TypeOK, LockHeld, Writing, Reading, At
  <1> DEFINE Calls(p) == /\ Writing(p) \/ Reading(p) => n[p] > 0 /\ result[p] = "none"
                         /\ At(p, "r_copy") /\ i[p] = 0 => ~(Empty /\ writeopen)
  <1>3. ASSUME UNCHANGED <<data, nread, nwrite>>, \A p \in Procs : Calls(p)' PROVE FifoInv'
    BY <1>3, SameBytes, Zenon DEF FifoInv
  <1>4. \A p \in Procs : Calls(p)
    BY Zenon DEF FifoInv
  <1> USE <1>4 DEF IInv, TypeOK, LockHeld, Writing, Reading, At, Goto, Empty
  <1>5. ASSUME NEW p \in Procs, Step(p) PROVE FifoInv'
    <2>1. CASE WriteAcquire(p)
      BY <1>3, <2>1, SMTT(30) DEF WriteAcquire, Acquire, pipe, fds, calls
    <2>2. CASE WriteFails(p)
      BY <1>3, <2>2, SMTT(30) DEF WriteFails, Return, pipe, fds, calls
    <2>3. CASE WriteFull(p)
      BY <1>3, <2>3, SMTT(30) DEF WriteFull, Woken, pipe, fds, calls
    <2>4. CASE WriteSleep(p)
      BY <1>3, <2>4 DEF WriteSleep, Sleep, pipe, fds, calls
    <2>5. CASE WriteDone(p)
      BY <1>3, <2>5, SMTT(30) DEF WriteDone, Woken, Return, pipe, fds, calls
    <2>6. CASE ReadAcquire(p)
      BY <1>3, <2>6, SMTT(30) DEF ReadAcquire, Acquire, pipe, fds, calls
    <2>7. CASE ReadFails(p)
      BY <1>3, <2>7, SMTT(30) DEF ReadFails, Return, pipe, fds, calls
    <2>8. CASE ReadEmpty(p)
      BY <1>3, <2>8, SMTT(30) DEF ReadEmpty, pipe, fds, calls
    <2>9. CASE ReadSleep(p)
      BY <1>3, <2>9, SMTT(30) DEF ReadSleep, Sleep, pipe, fds, calls
    <2>10. CASE ReadReady(p)
      BY <1>3, <2>10, SMTT(30) DEF ReadReady, pipe, fds, calls
    <2>11. CASE ReadDone(p)
      BY <1>3, <2>11, SMTT(30) DEF ReadDone, Woken, Return, pipe, fds, calls
    <2>12. CASE \E writable \in BOOLEAN : PipeClose(p, writable)
      BY <1>3, <2>12, SMTT(30) DEF PipeClose, Woken, pipe, fds, calls
    <2> QED
      BY <1>1, <1>2, <1>5, <2>1, <2>2, <2>3, <2>4, <2>5, <2>6, <2>7, <2>8, <2>9, <2>10, <2>11,
         <2>12, SMTT(30) DEF Step
  <1>6. ASSUME NEW p \in Procs, Close(p) \/ Kill(p) PROVE FifoInv'
    BY <1>3, <1>6, SMTT(30) DEF Close, CloseRead, CloseWrite, Kill, Woken, pipe, fds, calls
  <1>7. ASSUME NEW p \in Procs, NEW len \in 1..MaxLen, WriteStart(p, len) \/ ReadStart(p, len)
        PROVE FifoInv'
    BY <1>3, <1>7 DEF WriteStart, ReadStart, Start, pipe, fds, calls
  <1>8. ASSUME NEW p \in Procs, NEW q \in Procs, Fork(p, q) PROVE FifoInv'
    BY <1>3, <1>8, Zenon DEF Fork, pipe, fds, calls
  <1>9. CASE UNCHANGED vars
    BY <1>3, <1>9, Zenon DEF vars, pipe, fds, calls
  <1> QED
    BY <1>5, <1>6, <1>7, <1>8, <1>9, SMTT(30) DEF Next

(* The refinement, step by step. *)
LEMMA InitIsInit == Init => Abs!Init
  <1> SUFFICES ASSUME Init PROVE Abs!Init
    BY Zenon
  <1>1. Count = 0
    BY PipeAssumption DEF Init, Count
  <1>2. Inside = <<>>
    BY <1>1 DEF Inside
  <1> QED
    BY <1>2, Zenon DEF Init, Abs!Init

(* One turn of the copying loops puts or takes one byte. *)
LEMMA ByteIsPutOrTake ==
  ASSUME IInv, IInv', FifoInv, NEW p \in Procs
  PROVE  /\ \A v \in Vals : WriteByte(p, v) => Abs!Put(v)
         /\ ReadByte(p) => Abs!Take(p)
  <1>1. ASSUME NEW v \in Vals, WriteByte(p, v) PROVE Abs!Put(v)
    <2>1. Count < PIPESIZE /\ Inside' = Append(Inside, v)
      BY <1>1, AfterWrite, Zenon
    <2>2. Len(Inside) = Count
      <3>1. Count \in Nat
        BY Counters DEF IInv
      <3> QED
        BY <3>1 DEF Inside
    <2> QED
      BY <1>1, <2>1, <2>2, Zenon DEF WriteByte, Abs!Put
  <1>2. ASSUME ReadByte(p) PROVE Abs!Take(p)
    <2>1. /\ Inside # <<>> /\ Inside' = Tail(Inside)
          /\ byte' = [byte EXCEPT ![p] = Head(Inside)]
      BY <1>2, AfterRead, Zenon
    <2>2. UNCHANGED <<result, readopen, writeopen>>
      BY <1>2, Zenon DEF ReadByte
    <2> QED
      BY <2>1, <2>2, Zenon DEF Abs!Take
  <1> QED
    BY <1>1, <1>2, Zenon

(* A read that returns 0 has seen the end of the stream. *)
LEMMA ReadDoneIsReturn ==
  ASSUME IInv, FifoInv, NEW p \in Procs, ReadDone(p)
  PROVE  \E r \in {"ok", "eof"} : Abs!Return(p, r)
  <1> DEFINE r == IF i[p] = 0 THEN "eof" ELSE "ok"
  <1>1. result[p] = "none" /\ n[p] > 0
    BY Zenon DEF ReadDone, FifoInv, At, Reading
  <1>2. r = "eof" => Empty /\ ~writeopen
    BY <1>1 DEF ReadDone, FifoInv, At, IInv, TypeOK
  <1>3. Empty => Inside = <<>>
    <2>1. Empty => Count = 0
      BY Counters, Zenon DEF IInv
    <2> QED
      BY <2>1 DEF Inside
  <1>4. UNCHANGED <<data, nread, nwrite, readopen, writeopen, byte>>
        /\ result' = [result EXCEPT ![p] = r]
    BY Zenon DEF ReadDone, Return, pipe
  <1>5. Inside' = Inside
    BY <1>4, SameBytes, Zenon
  <1> QED
    BY <1>1, <1>2, <1>3, <1>4, <1>5, Zenon DEF Abs!Return

(* A call that ends early, or a write that ends, returns its result. *)
LEMMA EndIsReturn ==
  ASSUME FifoInv, NEW p \in Procs
  PROVE  /\ WriteFails(p) \/ ReadFails(p) => Abs!Return(p, "error")
         /\ WriteDone(p) => Abs!Return(p, "ok")
  <1>1. ASSUME NEW r \in {"error", "ok"}, Return(p, r), Writing(p) \/ Reading(p)
        PROVE  Abs!Return(p, r)
    <2>1. UNCHANGED <<data, nread, nwrite, readopen, writeopen, byte>>
      BY <1>1, Zenon DEF Return, pipe
    <2>2. result[p] = "none" /\ Inside' = Inside
      BY <1>1, <2>1, SameBytes, Zenon DEF FifoInv
    <2> QED
      BY <1>1, <2>1, <2>2, Zenon DEF Abs!Return, Return
  <1> QED
    BY <1>1, Zenon DEF WriteFails, ReadFails, WriteDone, At, Writing, Reading

(* pipeclose() closes one end. *)
LEMMA CloseIsClose ==
  ASSUME IInv, NEW p \in Procs, NEW writable \in BOOLEAN, PipeClose(p, writable)
  PROVE  Abs!CloseRead \/ Abs!CloseWrite
  <1>1. UNCHANGED <<data, nread, nwrite, byte, result>>
    BY Zenon DEF PipeClose, calls
  <1>2. Inside' = Inside
    BY <1>1, SameBytes, Zenon
  <1>3. CASE writable
    BY <1>1, <1>2, <1>3, Zenon DEF PipeClose, IInv, TypeOK, Abs!CloseWrite
  <1>4. CASE ~writable
    BY <1>1, <1>2, <1>4, Zenon DEF PipeClose, IInv, TypeOK, Abs!CloseRead
  <1> QED
    BY <1>3, <1>4, Zenon

(* A read or a write that begins is a call. *)
LEMMA StartIsCall ==
  ASSUME NEW p \in Procs, NEW len \in 1..MaxLen, WriteStart(p, len) \/ ReadStart(p, len)
  PROVE  Abs!Call(p)
  <1>1. UNCHANGED <<data, nread, nwrite, readopen, writeopen, byte>>
        /\ result' = [result EXCEPT ![p] = "none"]
    BY Zenon DEF WriteStart, ReadStart, Start, pipe
  <1> QED
    BY <1>1, SameBytes, Zenon DEF Abs!Call

(* A step that changes neither the pipe nor a result is a stutter. *)
LEMMA OthersAreInvisible ==
  ASSUME UNCHANGED pipe, UNCHANGED <<byte, result>>
  PROVE  UNCHANGED Abs!vars
  BY SameBytes, Zenon DEF pipe, Abs!vars

(* Every step of the pipe is a step of the FIFO or a stutter. *)
LEMMA NextIsNext == IInv /\ IInv' /\ FifoInv /\ [Next]_vars => [Abs!Next]_(Abs!vars)
  <1> SUFFICES ASSUME IInv, IInv', FifoInv, [Next]_vars PROVE [Abs!Next]_(Abs!vars)
    BY Zenon
  <1>1. ASSUME NEW p \in Procs, Step(p) PROVE [Abs!Next]_(Abs!vars)
    <2>1. CASE WriteAcquire(p) \/ WriteFull(p) \/ WriteSleep(p) \/ ReadAcquire(p)
               \/ ReadEmpty(p) \/ ReadSleep(p) \/ ReadReady(p)
      <3>1. UNCHANGED pipe /\ UNCHANGED <<byte, result>>
        BY <2>1, Zenon DEF WriteAcquire, WriteFull, WriteSleep, ReadAcquire, ReadEmpty, ReadSleep,
                    ReadReady, Acquire, Sleep, pipe, calls
      <3> QED
        BY <3>1, OthersAreInvisible, Zenon
    <2>2. CASE (\E v \in Vals : WriteByte(p, v)) \/ ReadByte(p)
      BY <2>2, ByteIsPutOrTake, Zenon DEF Abs!Next
    <2>3. CASE WriteFails(p) \/ ReadFails(p) \/ WriteDone(p)
      BY <2>3, EndIsReturn, Zenon DEF Abs!Next
    <2>4. CASE ReadDone(p)
      BY <2>4, ReadDoneIsReturn, Zenon DEF Abs!Next
    <2>5. CASE \E writable \in BOOLEAN : PipeClose(p, writable)
      BY <2>5, CloseIsClose, Zenon DEF Abs!Next
    <2> QED
      BY <1>1, <2>1, <2>2, <2>3, <2>4, <2>5, Zenon DEF Step
  <1>2. ASSUME NEW p \in Procs, Close(p) \/ Kill(p) PROVE [Abs!Next]_(Abs!vars)
    <2>1. UNCHANGED pipe /\ UNCHANGED <<byte, result>>
      BY <1>2, Zenon DEF Close, CloseRead, CloseWrite, Kill, calls
    <2> QED
      BY <2>1, OthersAreInvisible, Zenon
  <1>3. ASSUME NEW p \in Procs, NEW len \in 1..MaxLen, WriteStart(p, len) \/ ReadStart(p, len)
        PROVE [Abs!Next]_(Abs!vars)
    BY <1>3, StartIsCall, Zenon DEF Abs!Next
  <1>4. ASSUME NEW p \in Procs, NEW q \in Procs, Fork(p, q) PROVE [Abs!Next]_(Abs!vars)
    <2>1. UNCHANGED pipe /\ UNCHANGED <<byte, result>>
      BY <1>4, Zenon DEF Fork, calls
    <2> QED
      BY <2>1, OthersAreInvisible, Zenon
  <1>5. CASE UNCHANGED vars
    BY <1>5, OthersAreInvisible, Zenon DEF vars, calls
  <1> QED
    BY <1>1, <1>2, <1>3, <1>4, <1>5, Zenon DEF Next

(* The counters of every reachable state are at most PIPESIZE apart. *)
THEOREM FifoInvariance == Spec => []FifoInv
  BY InitFifoInv, NextFifoInv, Invariance, PTL DEF Spec

(* pipewrite and piperead together are a bounded FIFO, however often the       *)
(* counters wrap around, and a read returns 0 only at the end of the stream.   *)
THEOREM RefinesFifo == Spec => ImplementsFifo
  BY InitIsInit, NextIsNext, Invariance, FifoInvariance, PTL
  DEF Spec, ImplementsFifo, Abs!Spec
==============================================================================
