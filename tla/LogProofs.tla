------------------------------ MODULE LogProofs ------------------------------
(* Proofs about Log for any processes, blocks, contents and log sizes. *)
EXTENDS Log, FiniteSetTheorems, TLAPS

(* The machine boots with an empty log into the invariant. *)
LEMMA InitIInv == Init => IInv
  <1> SUFFICES ASSUME Init PROVE IInv
    BY Zenon
  <1>1. Active = {} /\ Cardinality(Active) = 0
    BY FS_EmptySet, Zenon DEF Init, Active
  <1>2. PICK v \in Vals : logd = [i \in 1..(NLOG - 1) |-> v]
    BY Zenon DEF Init
  <1>3. /\ head \in Seq(Blocks) /\ lh \in Seq(Blocks)
        /\ outstanding \in Nat /\ tail \in Nat /\ dirty \subseteq Blocks
        /\ logd \in [1..(NLOG - 1) -> Vals]
    BY <1>2 DEF Init
  <1>4. committing \in BOOLEAN /\ booting \in BOOLEAN /\ panicked \in BOOLEAN
    BY Zenon DEF Init
  <1>5. /\ cache \in [Blocks -> Vals \cup {Uncached}]
        /\ pc \in [Procs -> {"out", "begin_op", "asleep", "op", "log_write", "commit"}]
        /\ wblock \in [Procs -> Blocks \cup {NoBlock}]
        /\ written \in [Procs -> SUBSET Blocks]
    BY Zenon DEF Init
  <1>6. TypeOK
    BY <1>3, <1>4, <1>5, Zenon DEF Init, TypeOK
  <1>7. CommitAlone
    BY <1>1, Zenon DEF Init, CommitAlone
  <1>8. Injective(lh) /\ Injective(head) /\ Len(head) < NLOG
    BY LogAssumption DEF Init, Injective
  <1>9. Holding /\ OneCommitter
    <2>1. \A p \in Procs : wblock[p] = NoBlock /\ pc[p] = "out"
      BY Zenon DEF Init
    <2> QED
      BY <2>1, Zenon DEF Holding, OneCommitter
  <1>10. Phases
    BY Zenon DEF Init, Phases
  <1>11. Pinned
    BY Zenon DEF Init, Pinned
  <1>12. LogCopied
    BY DEF Init, LogCopied
  <1>13. CleanIsHome
    BY Zenon DEF Init, CleanIsHome, View
  <1>14. NothingPending
    BY Zenon DEF Init, NothingPending
  <1> QED
    BY <1>14, <1>6, <1>7, <1>8, <1>9, <1>10, <1>11, <1>12, <1>13, Zenon DEF IInv

(* Steps that leave the processes alone keep what relates them to the log. *)
LEMMA SameProcs ==
  ASSUME IInv, UNCHANGED <<procs, outstanding, committing>>
  PROVE  Active' = Active /\ (CommitAlone /\ Holding /\ OneCommitter)'
  <1>1. Active' = Active
    BY Zenon DEF procs, Active
  <1>2. CommitAlone'
    BY <1>1, Zenon DEF IInv, CommitAlone
  <1>3. Holding'
    BY Zenon DEF IInv, procs, Holding
  <1>4. OneCommitter'
    BY Zenon DEF IInv, procs, OneCommitter
  <1> QED
    BY <1>1, <1>2, <1>3, <1>4, Zenon

(* Steps that leave blocks and log alone keep what relates them. *)
LEMMA SameBlocks ==
  ASSUME IInv, UNCHANGED <<disk, lh, cache, dirty, wblock, phase, tail, booting,
                           committing, panicked>>
  PROVE  (/\ Injective(lh) /\ Injective(head) /\ Len(head) < NLOG
          /\ CleanIsHome /\ Pinned /\ LogCopied)'
  <1>1. (Injective(lh) /\ Injective(head) /\ Len(head) < NLOG)'
    BY Zenon DEF IInv, disk, Injective
  <1>2. CleanIsHome'
    BY Zenon DEF IInv, disk, CleanIsHome, View, Held
  <1>3. Pinned'
    BY Zenon DEF IInv, Pinned, Range
  <1>4. LogCopied'
    BY Zenon DEF IInv, disk, LogCopied, View
  <1> QED
    BY <1>1, <1>2, <1>3, <1>4, Zenon

(* begin_op is entered. *)
LEMMA CallIInv ==
  ASSUME IInv, Len(lh) < NLOG, ~panicked, NEW p \in Procs, Call(p)
  PROVE  IInv'
  <1> USE LogAssumption DEF IInv, disk
  <1>1. Active' = Active
    BY Zenon DEF Call, Active, TypeOK
  <1>2. (/\ Injective(lh) /\ Injective(head) /\ Len(head) < NLOG
         /\ CleanIsHome /\ Pinned /\ LogCopied)'
    BY SameBlocks, Zenon DEF Call
  <1>3. TypeOK'
    BY <1>1, Zenon DEF Call, TypeOK, CommitAlone
  <1>4. CommitAlone'
    BY <1>1, Zenon DEF Call, CommitAlone, TypeOK
  <1>5. Holding'
    BY <1>1, Zenon DEF Call, Holding, TypeOK, Phases
  <1>6. NothingPending'
    BY <1>1, Zenon DEF Call, NothingPending, TypeOK, Phases, CommitAlone, Active
  <1>7. OneCommitter'
    BY <1>1, Zenon DEF Call, OneCommitter, TypeOK, Phases, CommitAlone, Active
  <1>8. Phases'
    BY <1>1, Zenon DEF Call, Phases, CommitAlone, Holding, OneCommitter, TypeOK
  <1> QED
    BY <1>2, <1>3, <1>4, <1>5, <1>6, <1>7, <1>8, Zenon

(* begin_op lets the caller in. *)
LEMMA BeginOpIInv ==
  ASSUME IInv, Len(lh) < NLOG, ~panicked, NEW p \in Procs, BeginOp(p)
  PROVE  IInv'
  <1> USE LogAssumption DEF IInv, disk
  <1>1. Active' = Active \cup {p} /\ Cardinality(Active') = Cardinality(Active) + 1
    <2>1. Active' = Active \cup {p} /\ p \notin Active
      BY DEF BeginOp, Admit, Active, TypeOK
    <2> QED
      BY <2>1, FS_Subset, FS_AddElement, Zenon DEF Active
  <1>2. (/\ Injective(lh) /\ Injective(head) /\ Len(head) < NLOG
         /\ CleanIsHome /\ Pinned /\ LogCopied)'
    BY SameBlocks, Zenon DEF BeginOp, Admit
  <1>3. TypeOK'
    BY <1>1 DEF BeginOp, Admit, TypeOK, CommitAlone
  <1>4. CommitAlone'
    BY <1>1, Zenon DEF BeginOp, Admit, CommitAlone, TypeOK
  <1>5. Holding'
    BY <1>1, Zenon DEF BeginOp, Admit, Holding, TypeOK, Phases
  <1>6. NothingPending'
    BY <1>1, Zenon DEF BeginOp, Admit, NothingPending, TypeOK, Phases, CommitAlone, Active
  <1>7. OneCommitter'
    BY <1>1, Zenon DEF BeginOp, Admit, OneCommitter, TypeOK, Phases, CommitAlone, Active
  <1>8. Phases'
    BY <1>1, Zenon DEF BeginOp, Admit, Phases, CommitAlone, Holding, OneCommitter, TypeOK
  <1> QED
    BY <1>2, <1>3, <1>4, <1>5, <1>6, <1>7, <1>8, Zenon

(* begin_op puts the caller to sleep. *)
LEMMA BeginOpSleepsIInv ==
  ASSUME IInv, Len(lh) < NLOG, ~panicked, NEW p \in Procs, BeginOpSleeps(p)
  PROVE  IInv'
  <1> USE LogAssumption DEF IInv, disk
  <1>1. Active' = Active
    BY Zenon DEF BeginOpSleeps, Active, TypeOK
  <1>2. (/\ Injective(lh) /\ Injective(head) /\ Len(head) < NLOG
         /\ CleanIsHome /\ Pinned /\ LogCopied)'
    BY SameBlocks, Zenon DEF BeginOpSleeps
  <1>3. TypeOK'
    BY <1>1, Zenon DEF BeginOpSleeps, TypeOK, CommitAlone
  <1>4. CommitAlone'
    BY <1>1, Zenon DEF BeginOpSleeps, CommitAlone, TypeOK
  <1>5. Holding'
    BY <1>1, Zenon DEF BeginOpSleeps, Holding, TypeOK, Phases
  <1>6. NothingPending'
    BY <1>1, Zenon DEF BeginOpSleeps, NothingPending, TypeOK, Phases, CommitAlone, Active
  <1>7. OneCommitter'
    BY <1>1, Zenon DEF BeginOpSleeps, OneCommitter, TypeOK, Phases, CommitAlone, Active
  <1>8. Phases'
    BY <1>1, Zenon DEF BeginOpSleeps, Phases, CommitAlone, Holding, OneCommitter, TypeOK
  <1> QED
    BY <1>2, <1>3, <1>4, <1>5, <1>6, <1>7, <1>8, Zenon

(* A system call modifies a buffer and enters log_write, or panics there. *)
LEMMA ModifyIInv ==
  ASSUME IInv, Len(lh) < NLOG, ~panicked, NEW p \in Procs, NEW b \in Blocks, NEW v \in Vals, Modify(p, b, v)
  PROVE  IInv'
  <1> USE LogAssumption DEF IInv, disk
  <1>a. ~booting /\ ~committing /\ phase = "idle"
    BY Zenon DEF Modify, Active, CommitAlone, Phases, TypeOK
  <1>1. Active' = Active
    BY Zenon DEF Modify, procs, Active, TypeOK
  <1>2. TypeOK'
    <2>1. CASE TooBig \/ outstanding < 1
      BY <2>1, Zenon DEF Modify, procs, TypeOK
    <2>2. CASE ~(TooBig \/ outstanding < 1)
      <3>1. /\ pc' = [pc EXCEPT ![p] = "log_write"]
            /\ wblock' = [wblock EXCEPT ![p] = b]
            /\ written' = [written EXCEPT ![p] = @ \cup {b}]
            /\ panicked' = panicked
        BY <2>2, Zenon DEF Modify
      <3>2. cache' = [cache EXCEPT ![b] = v]
        BY Zenon DEF Modify
      <3> QED
        BY <3>1, <3>2 DEF Modify, TypeOK
    <2> QED
      BY <2>1, <2>2, Zenon
  <1>3. CommitAlone'
    BY <1>1, <1>a, Zenon DEF Modify, procs, CommitAlone, TypeOK
  <1>4. (Injective(lh) /\ Injective(head) /\ Len(head) < NLOG)'
    BY <1>1, <1>a, Zenon DEF Modify, procs, Injective, TypeOK, Phases
  <1>5. Holding'
    BY <1>a, Zenon DEF Modify, procs, Holding, TypeOK
  <1>6. NothingPending'
    BY <1>1, <1>a, Zenon DEF Modify, procs, NothingPending, TypeOK, Phases, CommitAlone, Active
  <1>7. OneCommitter'
    BY <1>1, <1>a DEF Modify, procs, OneCommitter, TypeOK, Phases, CommitAlone, Active
  <1>8. CleanIsHome'
    <2>1. CASE TooBig \/ outstanding < 1
      BY <2>1, Zenon DEF Modify, CleanIsHome
    <2>2. CASE ~(TooBig \/ outstanding < 1)
      <3>1. wblock' = [wblock EXCEPT ![p] = b] /\ wblock[p] = NoBlock
        BY <2>2, Zenon DEF Modify, Holding
      <3>2. \A c \in Blocks : Held(c)' <=> Held(c) \/ c = b
        BY <3>1, Zenon DEF Held, TypeOK
      <3> QED
        BY <3>2, Zenon DEF Modify, CleanIsHome, View, TypeOK
    <2> QED
      BY <2>1, <2>2, Zenon
  <1>9. Phases'
    BY <1>1, <1>a, Zenon DEF Modify, procs, Phases, CommitAlone, Holding, OneCommitter, TypeOK
  <1>10. Pinned'
    BY <1>1, <1>a DEF Modify, procs, Pinned, Phases, TypeOK, Range
  <1>11. LogCopied'
    BY <1>a, Zenon DEF Modify, LogCopied
  <1> QED
    BY <1>2, <1>3, <1>4, <1>5, <1>6, <1>7, <1>8, <1>9, <1>10, <1>11

(* log_write records and pins the block. *)
LEMMA LogWriteIInv ==
  ASSUME IInv, Len(lh) < NLOG, ~panicked, NEW p \in Procs, LogWrite(p)
  PROVE  IInv'
  <1> USE LogAssumption DEF IInv, disk
  <1>a. wblock[p] \in Blocks /\ phase = "idle" /\ ~booting /\ ~committing
    BY Zenon DEF LogWrite, Holding, TypeOK, Active, CommitAlone, Phases
  <1>b. lh' \in Seq(Blocks) /\ Range(lh') = Range(lh) \cup {wblock[p]} /\ Injective(lh')
    <2>1. CASE wblock[p] \in Range(lh)
      BY <2>1 DEF LogWrite, TypeOK
    <2>2. CASE wblock[p] \notin Range(lh)
      <3>1. lh' = Append(lh, wblock[p])
        BY <2>2, Zenon DEF LogWrite
      <3>2. /\ lh' \in Seq(Blocks) /\ Len(lh') = Len(lh) + 1
            /\ \A i \in 1..Len(lh) : lh'[i] = lh[i]
            /\ lh'[Len(lh) + 1] = wblock[p]
            /\ \A i \in 1..Len(lh) : lh[i] # wblock[p]
        BY <1>a, <2>2, <3>1 DEF TypeOK, Range
      <3>3. Range(lh') = Range(lh) \cup {wblock[p]}
        <4>1. DOMAIN lh' = 1..(Len(lh) + 1) /\ DOMAIN lh = 1..Len(lh) /\ Len(lh) \in Nat
          BY <3>2 DEF TypeOK
        <4>2. \A x : x \in Range(lh') <=> x \in Range(lh) \/ x = wblock[p]
          BY <3>2, <4>1 DEF Range
        <4> QED
          BY <4>2, Zenon
      <3>4. Injective(lh')
        <4>1. DOMAIN lh' = 1..(Len(lh) + 1) /\ DOMAIN lh = 1..Len(lh) /\ Len(lh) \in Nat
          BY <3>2 DEF TypeOK
        <4> SUFFICES ASSUME NEW i \in 1..(Len(lh) + 1), NEW j \in 1..(Len(lh) + 1),
                            lh'[i] = lh'[j]
                     PROVE  i = j
          BY <4>1, Zenon DEF Injective
        <4> QED
          BY <3>2, <4>1, SMTT(30) DEF Injective
      <3> QED
        BY <3>2, <3>3, <3>4, Zenon
    <2> QED
      BY <2>1, <2>2, Zenon
  <1>1. Active' = Active
    BY Zenon DEF LogWrite, Active, TypeOK
  <1>2. TypeOK'
    BY <1>a, <1>b, Zenon DEF LogWrite, TypeOK
  <1>3. CommitAlone'
    BY <1>1, <1>a, Zenon DEF LogWrite, CommitAlone, TypeOK
  <1>4. (Injective(lh) /\ Injective(head) /\ Len(head) < NLOG)'
    BY <1>b, Zenon DEF LogWrite
  <1>5. Holding'
    BY <1>a, Zenon DEF LogWrite, Holding, TypeOK
  <1>6. NothingPending'
    BY <1>1, <1>a, Zenon DEF LogWrite, NothingPending, TypeOK, Phases, CommitAlone, Active
  <1>7. OneCommitter'
    BY <1>1, <1>a, Zenon DEF LogWrite, OneCommitter, TypeOK, Phases, CommitAlone, Active
  <1>8. CleanIsHome'
    BY <1>1, <1>a, Zenon DEF LogWrite, CleanIsHome, View, Held, TypeOK, Phases, Holding
  <1>9. Phases'
    BY <1>a, Zenon DEF LogWrite, Phases, TypeOK
  <1>10. Pinned'
    BY <1>a, <1>b, Zenon DEF LogWrite, Pinned
  <1>11. LogCopied'
    BY <1>a, Zenon DEF LogWrite, LogCopied
  <1> QED
    BY <1>2, <1>3, <1>4, <1>5, <1>6, <1>7, <1>8, <1>9, <1>10, <1>11

(* bget recycles a clean buffer. *)
LEMMA EvictIInv ==
  ASSUME IInv, Len(lh) < NLOG, ~panicked, NEW b \in Blocks, Evict(b)
  PROVE  IInv'
  <1> USE LogAssumption DEF IInv, disk
  <1>1. Active' = Active /\ (CommitAlone /\ Holding /\ OneCommitter)'
    BY SameProcs, Zenon DEF Evict, procs
  <1>2. TypeOK'
    BY <1>1, Zenon DEF Evict, procs, TypeOK, CommitAlone
  <1>3. (Injective(lh) /\ Injective(head) /\ Len(head) < NLOG)'
    BY <1>1, Zenon DEF Evict, procs, Injective, TypeOK, Phases
  <1>4. NothingPending'
    BY <1>1, Zenon DEF Evict, procs, NothingPending, TypeOK, Phases, CommitAlone, Active
  <1>5. CleanIsHome'
    BY <1>1, Zenon DEF Evict, procs, CleanIsHome, View, Held, TypeOK, Phases, Holding
  <1>6. Phases'
    BY <1>1, Zenon DEF Evict, procs, Phases, CommitAlone, Holding, OneCommitter, TypeOK
  <1>7. Pinned'
    BY <1>1 DEF Evict, procs, Pinned, Phases, TypeOK, Range
  <1>8. LogCopied'
    <2>1. \A c \in Blocks : View(c)' = View(c)
      BY Zenon DEF Evict, CleanIsHome, View, Held, TypeOK
    <2> QED
      BY <2>1 DEF Evict, LogCopied, TypeOK, procs
  <1> QED
    BY <1>1, <1>2, <1>3, <1>4, <1>5, <1>6, <1>7, <1>8, Zenon

(* end_op. *)
LEMMA EndOpIInv ==
  ASSUME IInv, Len(lh) < NLOG, ~panicked, NEW p \in Procs, EndOp(p)
  PROVE  IInv'
  <1> USE LogAssumption DEF IInv, disk
  <1>a. ~booting /\ ~committing /\ phase = "idle" /\ outstanding \in Nat \ {0}
    <2>1. p \in Active
      BY Zenon DEF EndOp, Active
    <2>2. Cardinality(Active) # 0
      BY <2>1, FS_Subset, FS_EmptySet, Zenon DEF Active
    <2> QED
      BY <2>1, <2>2, Zenon DEF CommitAlone, Phases, TypeOK, Active
  <1>1. Active' = Active \ {p} /\ Cardinality(Active') = Cardinality(Active) - 1
    <2>1. Active' = Active \ {p} /\ p \in Active /\ IsFiniteSet(Active)
      BY FS_Subset, Zenon DEF EndOp, CommitStart, Woken, Active, TypeOK
    <2> QED
      BY <2>1, FS_RemoveElement, Zenon
  <1>2. TypeOK'
    <2>1. pc' \in [Procs -> {"out", "begin_op", "asleep", "op", "log_write", "commit"}]
      BY ZenonT(40) DEF EndOp, Woken, TypeOK
    <2>2. outstanding' \in Nat /\ committing' \in BOOLEAN /\ panicked' \in BOOLEAN
      <3>1. outstanding' \in Nat
        BY <1>a DEF EndOp
      <3>2. panicked' \in BOOLEAN
        BY Zenon DEF EndOp, TypeOK
      <3>3. committing' \in BOOLEAN
        BY Zenon DEF EndOp, TypeOK
      <3> QED
        BY <3>1, <3>2, <3>3, Zenon
    <2> QED
      BY <2>1, <2>2 DEF EndOp, CommitStart, TypeOK
  <1>3. CommitAlone'
    <2>1. outstanding' = Cardinality(Active')
      BY <1>1, <1>a, Zenon DEF EndOp, CommitAlone
    <2>2. outstanding = 1 => Active' = {}
      BY <1>1, <2>1, FS_Subset, FS_EmptySet, SMTT(30) DEF EndOp, Active
    <2>3. committing' => outstanding = 1
      BY <1>a, Zenon DEF EndOp
    <2> QED
      BY <2>1, <2>2, <2>3, Zenon DEF CommitAlone
  <1>4. (Injective(lh) /\ Injective(head) /\ Len(head) < NLOG)'
    BY <1>1, <1>a, Zenon DEF EndOp, CommitStart, Woken, Injective, TypeOK, Phases
  <1>5. Holding'
    BY <1>1, <1>a, Zenon DEF EndOp, CommitStart, Woken, Holding, TypeOK, Phases
  <1>6. NothingPending'
    <2>1. outstanding = 1 => committing'
      BY Zenon DEF EndOp
    <2>a. Active' = {} => Cardinality(Active') = 0
      BY FS_EmptySet, Zenon
    <2>2. Active' = {} => outstanding = 1
      BY <1>1, <1>a, <2>a DEF CommitAlone
    <2> QED
      BY <2>1, <2>2, Zenon DEF NothingPending
  <1>7. OneCommitter'
    <2>1. CASE outstanding = 1
      BY <1>a, <2>1 DEF EndOp, OneCommitter, TypeOK
    <2>2. CASE outstanding # 1
      <3>1. \A q \in Procs : pc[q] # "commit" /\ pc'[q] # "commit"
        BY <1>a, <2>2 DEF EndOp, Woken, OneCommitter, TypeOK
      <3> QED
        BY <3>1, Zenon DEF OneCommitter
    <2> QED
      BY <2>1, <2>2, Zenon
  <1>8. CleanIsHome'
    BY <1>1, <1>a, Zenon
       DEF EndOp, CommitStart, Woken, CleanIsHome, View, Held, TypeOK, Phases, Holding
  <1>9. Phases'
    BY <1>1, <1>a, Zenon
       DEF EndOp, CommitStart, Woken, Phases, CommitAlone, Holding, OneCommitter, TypeOK
  <1>10. Pinned'
    <2>1. dirty' = Range(lh') /\ phase' \in {"idle", "write_log", "done"}
      BY <1>a, Zenon DEF EndOp, CommitStart, Pinned
    <2>2. phase' = "done" => lh' = <<>>
      BY <1>a, Zenon DEF EndOp, CommitStart
    <2> QED
      BY <2>1, <2>2 DEF Pinned, Range
  <1>11. LogCopied'
    BY <1>1, <1>a DEF EndOp, CommitStart, Woken, LogCopied, Phases, TypeOK, View, Injective,
           CommitAlone
  <1> QED
    BY <1>2, <1>3, <1>4, <1>5, <1>6, <1>7, <1>8, <1>9, <1>10, <1>11

(* write_log copies one block. *)
LEMMA WriteLogIInv ==
  ASSUME IInv, Len(lh) < NLOG, ~panicked, WriteLog
  PROVE  IInv'
  <1> USE LogAssumption DEF IInv, disk
  <1>1. Active' = Active /\ (CommitAlone /\ Holding /\ OneCommitter)'
    BY SameProcs, Zenon DEF WriteLog, procs
  <1>2. TypeOK'
    <2>1. CASE tail < Len(lh)
      <3>1. View(lh[tail + 1]) \in Vals /\ tail + 1 \in 1..(NLOG - 1)
        BY <2>1 DEF TypeOK, View
      <3> QED
        BY <2>1, <3>1 DEF WriteLog, TypeOK, procs
    <2>2. CASE ~(tail < Len(lh))
      BY <2>2, Zenon DEF WriteLog, TypeOK, procs
    <2> QED
      BY <2>1, <2>2, Zenon
  <1>3. (Injective(lh) /\ Injective(head) /\ Len(head) < NLOG)'
    BY <1>1, Zenon DEF WriteLog, procs, Injective, TypeOK, Phases
  <1>4. NothingPending'
    BY <1>1, Zenon DEF WriteLog, procs, NothingPending, TypeOK, Phases, CommitAlone, Active
  <1>5. CleanIsHome'
    BY <1>1 DEF WriteLog, procs, CleanIsHome, View, Held, TypeOK, Phases, Holding
  <1>6. Phases'
    BY <1>1, Zenon DEF WriteLog, procs, Phases, CommitAlone, Holding, OneCommitter, TypeOK
  <1>7. Pinned'
    BY <1>1, SMTT(30) DEF WriteLog, procs, Pinned, Phases, TypeOK, Range
  <1>8. LogCopied'
    BY <1>1, SMTT(30) DEF WriteLog, procs, LogCopied, Phases, TypeOK, View, Injective, CommitAlone
  <1> QED
    BY <1>1, <1>2, <1>3, <1>4, <1>5, <1>6, <1>7, <1>8, Zenon

(* write_head commits. *)
LEMMA WriteHeadIInv ==
  ASSUME IInv, Len(lh) < NLOG, ~panicked, WriteHead
  PROVE  IInv'
  <1> USE LogAssumption DEF IInv, disk
  <1>1. Active' = Active /\ (CommitAlone /\ Holding /\ OneCommitter)'
    BY SameProcs, Zenon DEF WriteHead, procs
  <1>2. TypeOK'
    BY <1>1, Zenon DEF WriteHead, procs, TypeOK, CommitAlone
  <1>3. (Injective(lh) /\ Injective(head) /\ Len(head) < NLOG)'
    BY <1>1, Zenon DEF WriteHead, procs, Injective, TypeOK, Phases
  <1>4. NothingPending'
    BY <1>1, Zenon DEF WriteHead, procs, NothingPending, TypeOK, Phases, CommitAlone, Active
  <1>5. CleanIsHome'
    BY <1>1, Zenon DEF WriteHead, procs, CleanIsHome, View, Held, TypeOK, Phases, Holding
  <1>6. Phases'
    BY <1>1, Zenon DEF WriteHead, procs, Phases, CommitAlone, Holding, OneCommitter, TypeOK
  <1>7. Pinned'
    BY <1>1 DEF WriteHead, procs, Pinned, Phases, TypeOK, Range
  <1>8. LogCopied'
    BY <1>1 DEF WriteHead, procs, LogCopied, Phases, TypeOK, View, Injective, CommitAlone
  <1> QED
    BY <1>1, <1>2, <1>3, <1>4, <1>5, <1>6, <1>7, <1>8, Zenon

(* install_trans copies one block home. *)
LEMMA InstallTransIInv ==
  ASSUME IInv, Len(lh) < NLOG, ~panicked, InstallTrans
  PROVE  IInv'
  <1> USE LogAssumption DEF IInv, disk
  <1>1. Active' = Active /\ (CommitAlone /\ Holding /\ OneCommitter)'
    BY SameProcs, Zenon DEF InstallTrans, LogSector, procs
  <1>2. TypeOK'
    <2>1. CASE tail < Len(lh)
      <3>1. LogSector(tail + 1) \in Vals /\ lh[tail + 1] \in Blocks
        BY <2>1 DEF TypeOK, LogSector
      <3> QED
        <4>1. /\ home' = [home EXCEPT ![lh[tail + 1]] = LogSector(tail + 1)]
              /\ cache' = [cache EXCEPT ![lh[tail + 1]] = LogSector(tail + 1)]
              /\ dirty' = dirty \ {lh[tail + 1]} /\ tail' = tail + 1 /\ phase' = phase
          BY <2>1, Zenon DEF InstallTrans
        <4>2. UNCHANGED <<logd, head, lh, outstanding, committing, pc, wblock,
                          written, booting, panicked>>
          BY Zenon DEF InstallTrans, procs
        <4> QED
          BY <3>1, <4>1, <4>2 DEF TypeOK
    <2>2. CASE ~(tail < Len(lh))
      BY <2>2, Zenon DEF InstallTrans, TypeOK, procs
    <2> QED
      BY <2>1, <2>2, Zenon
  <1>3. (Injective(lh) /\ Injective(head) /\ Len(head) < NLOG)'
    BY <1>1, Zenon DEF InstallTrans, LogSector, procs, Injective, TypeOK, Phases
  <1>4. NothingPending'
    BY <1>1, Zenon DEF InstallTrans, LogSector, procs, NothingPending, TypeOK, Phases,
           CommitAlone, Active
  <1>5. CleanIsHome'
    BY <1>1 DEF InstallTrans, LogSector, procs, CleanIsHome, View, Held, TypeOK, Phases, Holding
  <1>6. Phases'
    BY <1>1, Zenon DEF InstallTrans, LogSector, procs, Phases, CommitAlone, Holding,
           OneCommitter, TypeOK
  <1>7. Pinned'
    <2>1. CASE tail < Len(lh)
      <3>1. ~booting => dirty = {lh[i] : i \in {j \in 1..Len(lh) : j > tail}}
        BY Zenon DEF InstallTrans, Pinned
      <3>2. dirty' = dirty \ {lh[tail + 1]} /\ lh' = lh /\ tail' = tail + 1
            /\ phase' = "install" /\ booting' = booting
        BY <2>1, Zenon DEF InstallTrans
      <3>3. \A i \in 1..Len(lh) : lh[i] = lh[tail + 1] => i = tail + 1
        BY <2>1 DEF Injective, TypeOK
      <3>4. ~booting => dirty' = {lh[i] : i \in {j \in 1..Len(lh) : j > tail + 1}}
        <4> SUFFICES ASSUME ~booting, NEW x
                     PROVE  x \in dirty' <=>
                              \E i \in 1..Len(lh) : i > tail + 1 /\ x = lh[i]
          BY Zenon
        <4>1. x \in dirty <=> \E i \in 1..Len(lh) : i > tail /\ x = lh[i]
          BY <3>1, Zenon
        <4>2. Len(lh) \in Nat /\ tail \in Nat
          BY DEF TypeOK
        <4> QED
          BY <2>1, <3>2, <3>3, <4>1, <4>2
      <3> QED
        BY <3>2, <3>4, Zenon DEF Pinned
    <2>2. CASE ~(tail < Len(lh))
      BY <2>2, ZenonT(40) DEF InstallTrans, Pinned
    <2> QED
      BY <2>1, <2>2, Zenon
  <1>8. LogCopied'
    <2>1. CASE tail < Len(lh)
      <3> DEFINE c == lh[tail + 1]
      <3>1. /\ home' = [home EXCEPT ![c] = logd[tail + 1]]
            /\ cache' = [cache EXCEPT ![c] = logd[tail + 1]]
            /\ tail' = tail + 1 /\ phase' = "install"
            /\ UNCHANGED <<lh, logd, committing>>
        BY <2>1 DEF InstallTrans, LogSector, TypeOK
      <3>2. /\ c \in Blocks /\ logd[tail + 1] \in Vals /\ Len(lh) \in Nat /\ tail \in Nat
            /\ \A i \in 1..Len(lh) : lh[i] \in Blocks /\ (lh[i] = c => i = tail + 1)
        BY <2>1 DEF TypeOK, Injective
      <3>3. \A i \in 1..(tail + 1) : home'[lh[i]] = logd[i]
        <4>1. \A x \in Blocks : home'[x] = IF x = c THEN logd[tail + 1] ELSE home[x]
          BY <3>1, Zenon DEF TypeOK
        <4>2. \A i \in 1..tail : home[lh[i]] = logd[i]
          BY Zenon DEF InstallTrans, LogCopied
        <4> HIDE DEF c
        <4>3. \A i \in 1..tail : lh[i] \in Blocks /\ lh[i] # c
          BY <2>1, <3>2
        <4>4. home'[c] = logd[tail + 1] /\ c = lh[tail + 1]
          BY <3>2, <4>1, Zenon DEF c
        <4>5. \A i \in 1..tail : home'[lh[i]] = logd[i]
          BY <4>1, <4>2, <4>3, Zenon
        <4>6. \A i \in 1..(tail + 1) : i \in 1..tail \/ i = tail + 1
          BY <3>2, SMTT(30)
        <4> QED
          BY <4>4, <4>5, <4>6, Zenon
      <3>4. committing => \A i \in 1..Len(lh) : logd[i] = View(lh[i])'
        BY <3>1, <3>2 DEF InstallTrans, LogCopied, TypeOK, View
      <3> QED
        BY <2>1, <3>1, <3>2, <3>3, <3>4 DEF LogCopied
    <2>2. CASE ~(tail < Len(lh))
      <3>1. tail = Len(lh) /\ phase = "install" /\ phase' = "clear"
            /\ UNCHANGED <<lh, logd, home, cache, tail, committing>>
        BY <2>2 DEF InstallTrans, LogCopied, TypeOK
      <3> QED
        BY <3>1, Zenon DEF LogCopied, View
    <2> QED
      BY <2>1, <2>2, Zenon
  <1> QED
    BY <1>1, <1>2, <1>3, <1>4, <1>5, <1>6, <1>7, <1>8, Zenon

(* write_head erases the transaction. *)
LEMMA ClearHeadIInv ==
  ASSUME IInv, Len(lh) < NLOG, ~panicked, ClearHead
  PROVE  IInv'
  <1> USE LogAssumption DEF IInv, disk
  <1>1. Active' = Active /\ (CommitAlone /\ Holding /\ OneCommitter)'
    BY SameProcs, Zenon DEF ClearHead, procs
  <1>2. TypeOK'
    BY <1>1 DEF ClearHead, procs, TypeOK, CommitAlone
  <1>3. (Injective(lh) /\ Injective(head) /\ Len(head) < NLOG)'
    BY <1>1 DEF ClearHead, procs, Injective, TypeOK, Phases
  <1>4. NothingPending'
    BY <1>1, Zenon DEF ClearHead, procs, NothingPending, TypeOK, Phases, CommitAlone, Active
  <1>5. CleanIsHome'
    BY <1>1, Zenon DEF ClearHead, procs, CleanIsHome, View, Held, TypeOK, Phases, Holding
  <1>6. Phases'
    BY <1>1, Zenon DEF ClearHead, procs, Phases, CommitAlone, Holding, OneCommitter, TypeOK
  <1>7. Pinned'
    <2>1. ~booting => dirty = {lh[i] : i \in {j \in 1..Len(lh) : j > Len(lh)}}
      BY Zenon DEF ClearHead, Pinned, LogCopied
    <2>2. ~booting => dirty = {}
      BY <2>1 DEF TypeOK
    <2> QED
      BY <2>2 DEF ClearHead, Pinned
  <1>8. LogCopied'
    BY <1>1, Zenon DEF ClearHead, procs, LogCopied, Phases, TypeOK, View, Injective, CommitAlone
  <1> QED
    BY <1>1, <1>2, <1>3, <1>4, <1>5, <1>6, <1>7, <1>8, Zenon

(* end_op returns after its commit. *)
LEMMA EndCommitIInv ==
  ASSUME IInv, Len(lh) < NLOG, ~panicked, NEW p \in Procs, EndCommit(p)
  PROVE  IInv'
  <1> USE LogAssumption DEF IInv, disk
  <1>a. committing /\ ~booting /\ lh = <<>> /\ head = <<>>
    BY Zenon DEF EndCommit, OneCommitter, Phases
  <1>1. Active' = Active
    BY Zenon DEF EndCommit, Woken, Active, TypeOK
  <1>2. TypeOK'
    <2>1. pc' \in [Procs -> {"out", "begin_op", "asleep", "op", "log_write", "commit"}]
      BY Zenon DEF EndCommit, Woken, TypeOK
    <2>2. committing' \in BOOLEAN
      BY Zenon DEF EndCommit
    <2> QED
      BY <2>1, <2>2, Zenon DEF EndCommit, TypeOK
  <1>3. CommitAlone'
    BY <1>1, <1>a, Zenon DEF EndCommit, Woken, CommitAlone, TypeOK
  <1>4. (Injective(lh) /\ Injective(head) /\ Len(head) < NLOG)'
    BY <1>1, <1>a, Zenon DEF EndCommit, Woken, Injective, TypeOK, Phases
  <1>5. Holding'
    BY <1>1, <1>a, Zenon DEF EndCommit, Woken, Holding, TypeOK, Phases
  <1>6. NothingPending'
    BY <1>1, <1>a, Zenon DEF EndCommit, Woken, NothingPending, TypeOK, Phases, CommitAlone, Active
  <1>7. OneCommitter'
    BY <1>1, <1>a, Zenon DEF EndCommit, Woken, OneCommitter, TypeOK, Phases, CommitAlone, Active
  <1>8. CleanIsHome'
    BY <1>1, <1>a, Zenon DEF EndCommit, Woken, CleanIsHome, View, Held, TypeOK, Phases, Holding
  <1>9. Phases'
    BY <1>a, Zenon DEF EndCommit, Phases
  <1>10. Pinned'
    BY <1>a, SMTT(30) DEF EndCommit, Pinned, Phases, Range
  <1>11. LogCopied'
    BY <1>1, <1>a, Zenon
       DEF EndCommit, Woken, LogCopied, Phases, TypeOK, View, Injective, CommitAlone
  <1> QED
    BY <1>2, <1>3, <1>4, <1>5, <1>6, <1>7, <1>8, <1>9, <1>10, <1>11, SMTT(30)

(* read_head. *)
LEMMA ReadHeadIInv ==
  ASSUME IInv, Len(lh) < NLOG, ~panicked, ReadHead
  PROVE  IInv'
  <1> USE LogAssumption DEF IInv, disk
  <1>1. Active' = Active /\ (CommitAlone /\ Holding /\ OneCommitter)'
    BY SameProcs, Zenon DEF ReadHead, procs
  <1>2. TypeOK'
    BY <1>1, Zenon DEF ReadHead, procs, TypeOK, CommitAlone
  <1>3. (Injective(lh) /\ Injective(head) /\ Len(head) < NLOG)'
    BY <1>1, Zenon DEF ReadHead, procs, Injective, TypeOK, Phases
  <1>4. NothingPending'
    BY <1>1, Zenon DEF ReadHead, procs, NothingPending, TypeOK, Phases, CommitAlone, Active
  <1>5. CleanIsHome'
    BY <1>1, Zenon DEF ReadHead, procs, CleanIsHome, View, Held, TypeOK, Phases, Holding
  <1>6. Phases'
    BY <1>1, Zenon DEF ReadHead, procs, Phases, CommitAlone, Holding, OneCommitter, TypeOK
  <1>7. Pinned'
    BY <1>1, ZenonT(40) DEF ReadHead, procs, Pinned, Phases, TypeOK, Range
  <1>8. LogCopied'
    BY <1>1 DEF ReadHead, procs, LogCopied, Phases, TypeOK, View, Injective, CommitAlone
  <1> QED
    BY <1>1, <1>2, <1>3, <1>4, <1>5, <1>6, <1>7, <1>8, Zenon

(* recover_from_log returns. *)
LEMMA RecoveredIInv ==
  ASSUME IInv, Len(lh) < NLOG, ~panicked, Recovered
  PROVE  IInv'
  <1> USE LogAssumption DEF IInv, disk
  <1>1. Active' = Active /\ (CommitAlone /\ Holding /\ OneCommitter)'
    BY SameProcs, Zenon DEF Recovered, procs
  <1>2. TypeOK'
    <2>1. booting' \in BOOLEAN
      BY Zenon DEF Recovered
    <2> QED
      BY <2>1, Zenon DEF Recovered, procs, TypeOK
  <1>3. (Injective(lh) /\ Injective(head) /\ Len(head) < NLOG)'
    BY <1>1, Zenon DEF Recovered, procs, Injective, TypeOK, Phases
  <1>4. NothingPending'
    BY <1>1, Zenon DEF Recovered, procs, NothingPending, TypeOK, Phases, CommitAlone, Active
  <1>5. CleanIsHome'
    BY <1>1, Zenon DEF Recovered, procs, CleanIsHome, View, Held, TypeOK, Phases, Holding
  <1>6. Phases'
    BY <1>1, ZenonT(40) DEF Recovered, procs, Phases, CommitAlone, Holding, OneCommitter, TypeOK
  <1>7. Pinned'
    BY <1>1 DEF Recovered, procs, Pinned, Phases, TypeOK, Range
  <1>8. LogCopied'
    BY <1>1, Zenon DEF Recovered, procs, LogCopied, Phases, TypeOK, View, Injective, CommitAlone
  <1> QED
    BY <1>1, <1>2, <1>3, <1>4, <1>5, <1>6, <1>7, <1>8, Zenon

(* The machine crashes and reboots. *)
LEMMA CrashIInv ==
  ASSUME IInv, Len(lh) < NLOG, Crash
  PROVE  IInv'
  <1> USE LogAssumption DEF IInv, disk
  <1>1. Active' = {} /\ Cardinality(Active') = 0
    BY FS_EmptySet, Zenon DEF Crash, Volatile, Active
  <1>2. TypeOK'
    <2>1. /\ cache' \in [Blocks -> Vals \cup {Uncached}]
          /\ pc' \in [Procs -> {"out", "begin_op", "asleep", "op", "log_write", "commit"}]
          /\ wblock' \in [Procs -> Blocks \cup {NoBlock}]
          /\ written' \in [Procs -> SUBSET Blocks]
      BY Zenon DEF Crash, Volatile
    <2>2. /\ committing' \in BOOLEAN /\ booting' \in BOOLEAN /\ panicked' \in BOOLEAN
      BY Zenon DEF Crash, Volatile
    <2>3. /\ outstanding' \in Nat /\ tail' \in Nat /\ lh' \in Seq(Blocks)
          /\ dirty' \subseteq Blocks /\ phase' = "read_head"
      BY DEF Crash, Volatile
    <2> QED
      BY <2>1, <2>2, <2>3, Zenon DEF Crash, TypeOK
  <1>3. CommitAlone'
    BY <1>1, Zenon DEF Crash, Volatile, CommitAlone, TypeOK
  <1>4. (Injective(lh) /\ Injective(head) /\ Len(head) < NLOG)'
    BY <1>1, SMTT(30) DEF Crash, Volatile, Injective, TypeOK, Phases
  <1>5. Holding'
    BY <1>1, Zenon DEF Crash, Volatile, Holding, TypeOK, Phases
  <1>6. NothingPending'
    BY <1>1, Zenon DEF Crash, Volatile, NothingPending, TypeOK, Phases, CommitAlone, Active
  <1>7. OneCommitter'
    BY <1>1, Zenon DEF Crash, Volatile, OneCommitter, TypeOK, Phases, CommitAlone, Active
  <1>8. CleanIsHome'
    BY <1>1, Zenon DEF Crash, Volatile, CleanIsHome, View, Held, TypeOK, Phases, Holding
  <1>9. Phases'
    BY <1>1, Zenon DEF Crash, Volatile, Phases, CommitAlone, Holding, OneCommitter, TypeOK
  <1>10. Pinned'
    BY <1>1, ZenonT(40) DEF Crash, Volatile, Pinned, Phases, TypeOK, Range
  <1>11. LogCopied'
    BY <1>1 DEF Crash, Volatile, LogCopied, Phases, TypeOK, View, Injective, CommitAlone
  <1> QED
    BY <1>2, <1>3, <1>4, <1>5, <1>6, <1>7, <1>8, <1>9, <1>10, <1>11

(* Stuttering. *)
LEMMA StutterIInv ==
  ASSUME IInv, Len(lh) < NLOG, UNCHANGED vars
  PROVE  IInv'
  <1> USE LogAssumption DEF IInv, disk
  <1>1. Active' = Active /\ (CommitAlone /\ Holding /\ OneCommitter)'
    BY SameProcs, Zenon DEF vars, procs
  <1>2. (/\ Injective(lh) /\ Injective(head) /\ Len(head) < NLOG
         /\ CleanIsHome /\ Pinned /\ LogCopied)'
    BY SameBlocks, Zenon DEF vars, procs
  <1>3. TypeOK'
    BY <1>1, Zenon DEF vars, procs, TypeOK, CommitAlone
  <1>4. NothingPending'
    BY <1>1, Zenon DEF vars, procs, NothingPending, TypeOK, Phases, CommitAlone, Active
  <1>5. Phases'
    BY <1>1, Zenon DEF vars, procs, Phases, CommitAlone, Holding, OneCommitter, TypeOK
  <1> QED
    BY <1>1, <1>2, <1>3, <1>4, <1>5, Zenon

(* Every step keeps the invariant as long as the log does not overflow. *)
LEMMA NextIInv == IInv /\ Len(lh) < NLOG /\ [Next]_vars => IInv'
  <1> SUFFICES ASSUME IInv, Len(lh) < NLOG, [Next]_vars PROVE IInv'
    BY Zenon
  <1>1. CASE Crash
    BY <1>1, CrashIInv, Zenon
  <1>2. CASE UNCHANGED vars
    BY <1>2, StutterIInv, Zenon
  <1>3. ASSUME ~panicked, DiskStep PROVE IInv'
    BY <1>3, WriteLogIInv, WriteHeadIInv, InstallTransIInv, ClearHeadIInv, Zenon,
       ReadHeadIInv, RecoveredIInv DEF DiskStep
  <1>4. ASSUME ~panicked, NEW p \in Procs, Call(p) \/ Step(p) PROVE IInv'
    BY <1>4, CallIInv, BeginOpIInv, BeginOpSleepsIInv, LogWriteIInv, EndOpIInv, Zenon,
       EndCommitIInv DEF Step
  <1>5. ASSUME ~panicked, NEW p \in Procs, NEW b \in Blocks, NEW v \in Vals, Modify(p, b, v)
        PROVE IInv'
    BY <1>5, ModifyIInv, Zenon
  <1>6. ASSUME ~panicked, NEW b \in Blocks, Evict(b) PROVE IInv'
    BY <1>6, EvictIInv, Zenon
  <1> QED
    BY <1>1, <1>2, <1>3, <1>4, <1>5, <1>6, Zenon DEF Next

(* The invariant holds in every reachable state of a log that never overflows. *)
THEOREM Invariance == Spec /\ [](Len(lh) < NLOG) => []IInv
  BY InitIInv, NextIInv, PTL DEF Spec


------------------------------------------------------------------------------
(* What is on disk after a crash: a log that does not overflow loses nothing   *)
(* when no call is active, and implements AtomicDisk.  The log of log.c does   *)
(* not overflow when calls write fewer blocks than begin_op reserves for them; *)
(* with that, what is shown of a log that does not overflow holds of the log.  *)

(* What recovery restores, and what system calls see, while the header on disk *)
(* is empty, or lists what has been copied to the log.                         *)
LEMMA RestoredFromEmpty == head = <<>> => AfterRecovery = [b \in Blocks |-> home[b]]
  BY DEF AfterRecovery, Restored, Range

(* A crash restores a block of the on-disk header from its log sector.         *)
LEMMA RestoredFromLog ==
  ASSUME Injective(head), NEW i \in DOMAIN head, head[i] \in Blocks
  PROVE  AfterRecovery[head[i]] = logd[i]
  <1>1. (CHOOSE j \in DOMAIN head : head[j] = head[i]) = i
    BY Zenon DEF Injective
  <1>2. head[i] \in Range(head)
    BY Zenon DEF Range
  <1> QED
    BY <1>1, <1>2, Zenon DEF AfterRecovery, Restored

(* A block the header does not list keeps its home contents over a crash.      *)
LEMMA RestoredFromHome ==
  ASSUME NEW b \in Blocks, b \notin Range(head)
  PROVE  AfterRecovery[b] = home[b]
  BY Zenon DEF AfterRecovery, Restored

(* With no call active and no commit under way a crash loses nothing. *)
LEMMA QuiescentFromIInv == IInv => QuiescentIsDurable
  <1> SUFFICES ASSUME IInv, outstanding = 0, ~committing, ~booting
               PROVE  /\ AfterRecovery = [b \in Blocks |-> View(b)]
                      /\ dirty = {}
    BY Zenon DEF QuiescentIsDurable
  <1>1. Active = {} /\ phase = "idle" /\ head = <<>>
    BY LogAssumption, FS_Subset, FS_EmptySet, Zenon DEF IInv, CommitAlone, Phases, Active
  <1>2. lh = <<>> /\ ~panicked /\ dirty = {}
    BY <1>1 DEF IInv, NothingPending, Pinned, Range
  <1>3. \A b \in Blocks : ~Held(b)
    BY <1>1, LogAssumption, Zenon DEF IInv, Holding, Held, Active
  <1>4. \A b \in Blocks : View(b) = home[b]
    BY <1>2, <1>3, Zenon DEF IInv, CleanIsHome
  <1> QED
    BY <1>1, <1>2, <1>4, RestoredFromEmpty, Zenon

(* end_op of the last active call returns only when a crash would lose nothing.*)
THEOREM Durability == Spec /\ [](Len(lh) < NLOG) => []QuiescentIsDurable
  BY Invariance, QuiescentFromIInv, PTL

------------------------------------------------------------------------------
(* Each step of log.c is a step of AtomicDisk, or leaves it alone. *)
Seen == IF booting THEN AfterRecovery ELSE [b \in Blocks |-> View(b)]

(* What a crash restores depends on the disk only.                             *)
LEMMA SameDisk == UNCHANGED disk => AfterRecovery' = AfterRecovery
  BY Zenon DEF AfterRecovery, disk

(* What calls see depends on it, or once booted on the blocks bread returns.   *)
LEMMA SameSeen ==
  ASSUME AfterRecovery' = AfterRecovery, booting' = booting,
         \A b \in Blocks : View(b)' = View(b)
  PROVE  Seen' = Seen
  BY Zenon DEF Seen

(* bread returns what is cached, or at home.                                   *)
LEMMA SameView == UNCHANGED <<home, cache>> => \A b \in Blocks : View(b)' = View(b)
  BY Zenon DEF View

(* begin_op() letting a call in opens it in AtomicDisk.                        *)
LEMMA BeginIsBegin ==
  ASSUME IInv, NEW p \in Procs, BeginOp(p) PROVE Abs!Begin(p)
  <1>1. Active' = Active \cup {p} /\ p \notin Active
    BY Zenon DEF IInv, BeginOp, Active, TypeOK
  <1>2. AfterRecovery' = AfterRecovery /\ Seen' = Seen
    BY SameDisk, SameSeen, SameView, Zenon DEF BeginOp, disk
  <1> QED
    BY <1>1, <1>2, Zenon DEF Abs!Begin, Seen

(* Changing a buffer is a write by an open call.                               *)
LEMMA ModifyIsWrite ==
  ASSUME IInv, NEW p \in Procs, NEW b \in Blocks, NEW v \in Vals, Modify(p, b, v)
  PROVE  Abs!Write(p, b, v)
  <1>1. p \in Active /\ Active' = Active
    BY Zenon DEF IInv, Modify, procs, Active, TypeOK
  <1>2. AfterRecovery' = AfterRecovery
    BY SameDisk, Zenon DEF Modify
  <1>3. ~booting /\ ~booting'
    BY <1>1, Zenon DEF IInv, Phases, Active, Modify
  <1>4. Seen' = [Seen EXCEPT ![b] = v]
    BY <1>3, LogAssumption, Zenon DEF IInv, TypeOK, Modify, disk, Seen, View
  <1> QED
    BY <1>1, <1>2, <1>4, Zenon DEF Abs!Write, Seen

(* end_op() closes the call; the commit it may start is a later step.          *)
LEMMA EndIsEnd ==
  ASSUME IInv, NEW p \in Procs, EndOp(p) PROVE Abs!End(p)
  <1>1. Active' = Active \ {p} /\ p \in Active
    BY Zenon DEF IInv, EndOp, Woken, Active, TypeOK
  <1>2. AfterRecovery' = AfterRecovery /\ Seen' = Seen
    BY SameDisk, SameView, SameSeen, Zenon DEF EndOp, disk
  <1> QED
    BY <1>1, <1>2, Zenon DEF Abs!End, Seen

(* write_head() is the commit point: the disk takes over what the calls see.   *)
LEMMA WriteHeadIsCommit ==
  ASSUME IInv, ~panicked, WriteHead PROVE Abs!Commit
  <1>1. committing /\ ~booting /\ Active = {} /\ Active' = Active
    BY Zenon DEF IInv, WriteHead, Phases, CommitAlone, Active, procs
  <1>2. Seen = [b \in Blocks |-> View(b)] /\ Seen' = Seen
    BY <1>1, Zenon DEF WriteHead, Seen, View
  <1>3. head' = lh /\ home' = home /\ logd' = logd
    BY Zenon DEF WriteHead
  <1>4. ASSUME NEW b \in Blocks PROVE AfterRecovery'[b] = View(b)
    <2>1. CASE b \in Range(lh)
      <3>1. PICK i \in DOMAIN lh : b = lh[i]
        BY <2>1, Zenon DEF Range
      <3>2. (CHOOSE j \in DOMAIN lh : lh[j] = b) = i
        BY <3>1, Zenon DEF IInv, Injective
      <3>3. i \in 1..Len(lh)
        BY DEF IInv, TypeOK
      <3>4. logd[i] = View(b)
        BY <3>1, <3>3, Zenon DEF IInv, LogCopied, WriteHead
      <3> QED
        BY <1>3, <2>1, <3>2, <3>4, Zenon DEF AfterRecovery, Restored
    <2>2. CASE b \notin Range(lh)
      <3>1. b \notin dirty
        BY <1>1, <2>2, Zenon DEF IInv, Pinned, WriteHead
      <3>2. ~Held(b)
        BY <1>1, LogAssumption, Zenon DEF IInv, Holding, Held, Active
      <3> QED
        BY <1>3, <2>2, <3>1, <3>2, Zenon DEF IInv, CleanIsHome, AfterRecovery, Restored
    <2> QED
      BY <2>1, <2>2, Zenon
  <1>5. AfterRecovery' = Seen
    BY <1>2, <1>4, Zenon DEF AfterRecovery, Restored
  <1> QED
    BY <1>1, <1>2, <1>5, Zenon DEF Abs!Commit, Seen

(* A crash throws back to what is durable.                                     *)
LEMMA CrashIsCrash == Crash => Abs!Crash
  <1> SUFFICES ASSUME Crash PROVE Abs!Crash
    BY Zenon
  <1>1. Active' = {} /\ AfterRecovery' = AfterRecovery /\ booting'
    BY SameDisk, Zenon DEF Crash, Volatile, Active
  <1> QED
    BY <1>1, Zenon DEF Abs!Crash

(* Installing a block changes neither what recovery would restore nor what     *)
(* system calls see.                                                           *)
LEMMA InstallIsInvisible ==
  ASSUME IInv, InstallTrans, Len(lh) < NLOG
  PROVE  AfterRecovery' = AfterRecovery /\ Seen' = Seen
  <1>1. head = lh /\ head' = head /\ logd' = logd /\ booting' = booting
    BY Zenon DEF IInv, Phases, InstallTrans
  <1>2. CASE tail < Len(lh)
    <2> DEFINE c == lh[tail + 1]
    <2>1. tail + 1 \in 1..Len(lh) /\ c \in Blocks /\ DOMAIN lh = 1..Len(lh) /\ c \in Range(lh)
      BY <1>2 DEF IInv, TypeOK, Range
    <2>2. LogSector(tail + 1) = logd[tail + 1]
      BY <2>1, LogAssumption DEF IInv, TypeOK, LogSector
    <2>3. home' = [home EXCEPT ![c] = logd[tail + 1]] /\ cache' = [cache EXCEPT ![c] = logd[tail + 1]]
      BY <1>2, <2>2, Zenon DEF InstallTrans
    <2>4. AfterRecovery' = AfterRecovery
      BY <1>1, <2>1, <2>3, SMTT(30) DEF AfterRecovery, Restored, IInv, TypeOK
    <2>5. ~booting => logd[tail + 1] = View(c)
      BY <2>1, Zenon DEF IInv, LogCopied, Phases, InstallTrans
    <2>6. logd[tail + 1] # Uncached
      <3>1. tail + 1 \in 1..(NLOG - 1)
        BY <2>1, LogAssumption DEF IInv, TypeOK
      <3> QED
        BY <3>1, LogAssumption, SMTT(30) DEF IInv, TypeOK
    <2>7. ~booting => \A b \in Blocks : View(b)' = View(b)
      BY <2>1, <2>3, <2>5, <2>6, Zenon DEF View, IInv, TypeOK
    <2> QED
      BY <1>1, <2>4, <2>7, Zenon DEF Seen
  <1>3. CASE ~(tail < Len(lh))
    BY <1>1, <1>3, SameDisk, SameView, SameSeen, Zenon DEF InstallTrans, disk
  <1> QED
    BY <1>2, <1>3, Zenon

(* So does erasing the header, since every block has been installed. *)
LEMMA ClearIsInvisible ==
  ASSUME IInv, ClearHead
  PROVE  AfterRecovery' = AfterRecovery /\ Seen' = Seen
  <1>1. head = lh /\ head' = <<>> /\ home' = home /\ tail = Len(lh)
    BY Zenon DEF IInv, Phases, ClearHead, LogCopied
  <1>2. ASSUME NEW b \in Blocks PROVE AfterRecovery[b] = home[b]
    <2>1. CASE b \in Range(head)
      <3>1. PICK i \in DOMAIN head : b = head[i]
        BY <2>1, Zenon DEF Range
      <3>2. i \in 1..tail /\ home[lh[i]] = logd[i]
        BY <1>1 DEF IInv, TypeOK, LogCopied, ClearHead
      <3> QED
        BY <1>1, <3>1, <3>2, RestoredFromLog, Zenon DEF IInv
    <2> QED
      BY <2>1, RestoredFromHome, Zenon
  <1>3. AfterRecovery' = [b \in Blocks |-> home[b]]
    BY <1>1 DEF AfterRecovery, Restored, Range
  <1>4. AfterRecovery' = AfterRecovery
    BY <1>2, <1>3, Zenon DEF AfterRecovery, Restored
  <1> QED
    BY <1>4, Zenon DEF ClearHead, Seen, View

(* The remaining steps touch neither. *)
LEMMA OthersAreInvisible ==
  ASSUME IInv, ~panicked, Len(lh) < NLOG,
         \/ WriteLog \/ ReadHead \/ Recovered
         \/ \E p \in Procs : Call(p) \/ BeginOpSleeps(p) \/ LogWrite(p) \/ EndCommit(p)
         \/ \E b \in Blocks : Evict(b)
  PROVE  AfterRecovery' = AfterRecovery /\ Seen' = Seen
  <1>1. CASE WriteLog
    <2>1. head = <<>> /\ head' = <<>> /\ booting' = booting /\ ~booting
      BY <1>1, Zenon DEF WriteLog, IInv, Phases
    <2>2. home' = home /\ cache' = cache
      BY <1>1, LogAssumption DEF WriteLog, IInv, TypeOK
    <2>3. AfterRecovery' = AfterRecovery
      <3>1. Range(head) = {}
        BY <2>1 DEF Range
      <3> QED
        BY <2>1, <2>2, <3>1, Zenon DEF AfterRecovery, Restored
    <2> QED
      BY <2>1, <2>2, <2>3, SameView, SameSeen, Zenon
  <1>2. CASE ReadHead
    BY <1>2, SameDisk, SameView, SameSeen, Zenon DEF ReadHead, disk
  <1>3. CASE Recovered
    <2>1. booting /\ ~booting' /\ head = <<>> /\ dirty = {} /\ \A b \in Blocks : ~Held(b)
      BY <1>3, LogAssumption, Zenon DEF Recovered, IInv, Phases, Holding, Held
    <2>2. \A b \in Blocks : View(b) = home[b]
      BY <2>1, Zenon DEF IInv, CleanIsHome
    <2>3. AfterRecovery' = AfterRecovery /\ \A b \in Blocks : View(b)' = View(b)
      BY <1>3, SameDisk, SameView, Zenon DEF Recovered, disk
    <2> QED
      BY <2>1, <2>2, <2>3, RestoredFromEmpty, Zenon DEF Seen
  <1>4. ASSUME NEW p \in Procs, Call(p) \/ BeginOpSleeps(p) \/ LogWrite(p) \/ EndCommit(p)
        PROVE  AfterRecovery' = AfterRecovery /\ Seen' = Seen
    <2>1. UNCHANGED <<home, logd, head, cache, booting>>
      BY <1>4, Zenon DEF Call, BeginOpSleeps, LogWrite, EndCommit, disk
    <2> QED
      BY <2>1, SameDisk, SameView, SameSeen, Zenon DEF disk
  <1>5. ASSUME NEW b \in Blocks, Evict(b)
        PROVE  AfterRecovery' = AfterRecovery /\ Seen' = Seen
    <2>1. \A c \in Blocks : View(c)' = View(c)
      BY <1>5 DEF Evict, disk, IInv, CleanIsHome, View, Held, TypeOK
    <2> QED
      BY <1>5, <2>1, SameDisk, SameSeen, Zenon DEF Evict
  <1> QED
    BY <1>1, <1>2, <1>3, <1>4, <1>5, Zenon

(* Of the steps of processes only begin_op() and end_op() open or close a call. *)
LEMMA ActiveUnchanged ==
  ASSUME IInv,
         \/ WriteLog \/ InstallTrans \/ ClearHead \/ ReadHead \/ Recovered
         \/ \E p \in Procs : Call(p) \/ BeginOpSleeps(p) \/ LogWrite(p) \/ EndCommit(p)
         \/ \E b \in Blocks : Evict(b)
  PROVE  Active' = Active
  <1>1. ASSUME NEW p \in Procs, Call(p) \/ BeginOpSleeps(p) \/ LogWrite(p) \/ EndCommit(p)
        PROVE  Active' = Active
    BY <1>1, Zenon DEF Call, BeginOpSleeps, LogWrite, EndCommit, Woken, IInv, TypeOK, Active
  <1> QED
    BY <1>1, Zenon DEF WriteLog, InstallTrans, ClearHead, ReadHead, Recovered, Evict, procs,
           Active

(* The initial states and the steps of log.c are those of AtomicDisk. *)
LEMMA InitIsInit == Init => Abs!Init
  <1> SUFFICES ASSUME Init PROVE Abs!Init
    BY Zenon
  <1>1. AfterRecovery = [b \in Blocks |-> home[b]]
    BY RestoredFromEmpty, Zenon DEF Init
  <1>2. AfterRecovery \in [Blocks -> Vals] /\ Active = {} /\ booting
    BY <1>1, Zenon DEF Init, Active
  <1> QED
    BY <1>2, Zenon DEF Abs!Init

(* Every step of the log is a step of AtomicDisk or changes none of its state. *)
LEMMA NextIsNext ==
  IInv /\ Len(lh) < NLOG /\ [Next]_vars => [Abs!Next]_(Abs!vars)
  <1> SUFFICES ASSUME IInv, Len(lh) < NLOG, [Next]_vars PROVE [Abs!Next]_(Abs!vars)
    BY Zenon
  <1>1. ASSUME AfterRecovery' = AfterRecovery, Seen' = Seen, Active' = Active
        PROVE  UNCHANGED Abs!vars
    BY <1>1, Zenon DEF Abs!vars, Seen
  <1>2. CASE Crash
    BY <1>2, CrashIsCrash, Zenon DEF Abs!Next
  <1>3. CASE UNCHANGED vars
    <2>1. UNCHANGED <<disk, home, cache, booting, pc>>
      BY <1>3, Zenon DEF vars, disk
    <2> QED
      BY <2>1, <1>1, SameDisk, SameView, SameSeen, Zenon DEF Active
  <1>4. ASSUME ~panicked, DiskStep PROVE [Abs!Next]_(Abs!vars)
    <2>1. CASE WriteHead
      BY <1>4, <2>1, WriteHeadIsCommit, Zenon DEF Abs!Next
    <2>2. CASE InstallTrans
      BY <2>2, <1>1, InstallIsInvisible, ActiveUnchanged, Zenon
    <2>3. CASE ClearHead
      BY <2>3, <1>1, ClearIsInvisible, ActiveUnchanged, Zenon
    <2>4. CASE WriteLog \/ ReadHead \/ Recovered
      BY <1>4, <2>4, <1>1, OthersAreInvisible, ActiveUnchanged, Zenon
    <2> QED
      BY <1>4, <2>1, <2>2, <2>3, <2>4, Zenon DEF DiskStep
  <1>5. ASSUME ~panicked, NEW p \in Procs, Call(p) \/ Step(p) PROVE [Abs!Next]_(Abs!vars)
    <2>1. CASE BeginOp(p)
      BY <2>1, BeginIsBegin, Zenon DEF Abs!Next
    <2>2. CASE EndOp(p)
      BY <2>2, EndIsEnd, Zenon DEF Abs!Next
    <2>3. CASE Call(p) \/ BeginOpSleeps(p) \/ LogWrite(p) \/ EndCommit(p)
      BY <1>5, <2>3, <1>1, OthersAreInvisible, ActiveUnchanged, Zenon
    <2> QED
      BY <1>5, <2>1, <2>2, <2>3, Zenon DEF Step
  <1>6. ASSUME ~panicked, NEW p \in Procs, NEW b \in Blocks, NEW v \in Vals, Modify(p, b, v)
        PROVE  [Abs!Next]_(Abs!vars)
    BY <1>6, ModifyIsWrite, Zenon DEF Abs!Next
  <1>7. ASSUME ~panicked, NEW b \in Blocks, Evict(b) PROVE [Abs!Next]_(Abs!vars)
    BY <1>7, <1>1, OthersAreInvisible, ActiveUnchanged, Zenon
  <1> QED
    BY <1>2, <1>3, <1>4, <1>5, <1>6, <1>7, Zenon DEF Next

(* Group commit is atomic over crashes, for every number of processes and      *)
(* blocks: a log that does not overflow implements AtomicDisk.                 *)
THEOREM Atomicity == Spec /\ [](Len(lh) < NLOG) => CrashAtomicity
  BY InitIsInit, NextIsNext, Invariance, PTL DEF Spec, CrashAtomicity, Abs!Spec


(* At most MAXOPBLOCKS blocks are reserved for each active call. *)
LEMMA ReservedBound ==
  ASSUME IInv
  PROVE  /\ IsFiniteSet(Reserved)
         /\ Cardinality(Reserved) \in Nat
         /\ Cardinality(Reserved) <= outstanding * MAXOPBLOCKS
  <1>1. IsFiniteSet(Active) /\ Cardinality(Active) = outstanding
    BY LogAssumption, FS_Subset, Zenon DEF Active, IInv, CommitAlone
  <1>2. IsFiniteSet(1..MAXOPBLOCKS) /\ Cardinality(1..MAXOPBLOCKS) = MAXOPBLOCKS
    BY LogAssumption, FS_Interval
  <1>3. /\ IsFiniteSet(Active \X (1..MAXOPBLOCKS))
        /\ Cardinality(Active \X (1..MAXOPBLOCKS)) = outstanding * MAXOPBLOCKS
    BY <1>1, <1>2, FS_Product, Zenon
  <1>4. Reserved \subseteq Active \X (1..MAXOPBLOCKS)
    BY Zenon DEF Reserved
  <1> QED
    BY <1>3, <1>4, FS_Subset, FS_CardinalityType, Zenon

(* The same, as a formula to prime. *)
LEMMA ReservedBoundAlways ==
  IInv => /\ Cardinality(Reserved) \in Nat
          /\ Cardinality(Reserved) <= outstanding * MAXOPBLOCKS
  BY ReservedBound, Zenon

(* No step but begin_op makes room for more. *)
LEMMA ReservedShrinks ==
  ASSUME IInv, Active' \subseteq Active,
         \A p \in Active' : Used(p) \in Int /\ Used(p)' \in Int /\ Used(p) <= Used(p)'
  PROVE  /\ Reserved' \subseteq Reserved
         /\ Cardinality(Reserved') \in Nat
         /\ Cardinality(Reserved') <= Cardinality(Reserved)
  <1>1. ASSUME NEW r \in Reserved' PROVE r \in Reserved
    <2>1. r \in Active' \X (1..MAXOPBLOCKS) /\ r[2] > Used(r[1])'
      BY Zenon DEF Reserved
    <2>2. r \in Active \X (1..MAXOPBLOCKS) /\ r[1] \in Active' /\ r[2] \in Int
      BY <2>1
    <2> QED
      BY <2>1, <2>2 DEF Reserved
  <1> QED
    BY <1>1, ReservedBound, FS_Subset, FS_CardinalityType, Zenon

(* Calls hold finite counts of written blocks. *)
(* Calls hold finite counts of written blocks. *)
(* Calls hold finite counts of written blocks. *)
(* Calls hold finite counts of written blocks. *)
(* Calls hold finite counts of written blocks. *)
(* Calls hold finite counts of written blocks. *)
LEMMA UsedIsInt ==
  ASSUME Reservation
  PROVE  \A p \in Active : Used(p) \in Int /\ Cardinality(written[p]) \in Nat
  BY FS_CardinalityType DEF Reservation, Used

(* Steps that touch neither the header in memory nor a call's blocks. *)
LEMMA QuietReservation ==
  ASSUME IInv, Reservation, UNCHANGED <<lh, wblock, written>>,
         Active' \subseteq Active,
         \A p \in Active' : pc'[p] = pc[p],
         head' \in {head, lh, <<>>}
  PROVE  Reservation'
  <1>1. \A p \in Active' : Used(p) \in Int /\ Used(p)' = Used(p)
    BY UsedIsInt, Zenon DEF Used
  <1>2. Cardinality(Reserved') \in Nat /\ Cardinality(Reserved') <= Cardinality(Reserved)
    BY <1>1, ReservedShrinks
  <1>3. Len(lh) \in Nat /\ Cardinality(Reserved) \in Nat /\ LOGSIZE \in Nat
    BY ReservedBound, LogAssumption, SMTT(30) DEF IInv, TypeOK
  <1>4. Len(lh') + Cardinality(Reserved') <= LOGSIZE /\ Len(lh') < NLOG
    BY <1>2, <1>3 DEF Reservation
  <1>5. Len(head') <= LOGSIZE
    BY <1>3 DEF Reservation
  <1>6. \A p \in Active' :
          /\ written'[p] \subseteq Range(lh') \cup {wblock'[p]}
          /\ pc'[p] = "log_write" => wblock'[p] \in written'[p]
          /\ IsFiniteSet(written'[p]) /\ Cardinality(written'[p]) <= OpMax
    BY Zenon DEF Reservation
  <1> QED
    BY <1>4, <1>5, <1>6, Zenon DEF Reservation

(* Steps after which no call is active, with a header that fits the log. *)
LEMMA EmptyReservation ==
  ASSUME LOGSIZE <= NLOG, Active' = {}, Len(lh') \in Nat, Len(lh') < NLOG,
         Len(lh') <= LOGSIZE, Len(head') <= LOGSIZE
  PROVE  Reservation'
  <1>1. Reserved' = {}
    BY Zenon DEF Reserved
  <1>2. Cardinality(Reserved') = 0
    BY <1>1, FS_EmptySet, Zenon
  <1> QED
    BY <1>2 DEF Reservation

(* begin_op admits a call only if MAXOPBLOCKS more fit for every active one.   *)
LEMMA BeginOpReservation ==
  ASSUME IInv, IInv', Reservation, NEW p \in Procs, BeginOp(p)
  PROVE  Reservation'
  <1>1. (/\ Cardinality(Reserved) \in Nat
         /\ Cardinality(Reserved) <= outstanding * MAXOPBLOCKS)'
    BY ReservedBoundAlways, PTL
  <1>2. /\ Cardinality(Reserved') \in Nat
        /\ Cardinality(Reserved') <= outstanding' * MAXOPBLOCKS
    BY <1>1, Zenon
  <1>3. Len(lh) + Cardinality(Reserved') <= LOGSIZE
    <2>1. /\ Len(lh) + (outstanding + 1) * MAXOPBLOCKS <= LOGSIZE
          /\ outstanding' = outstanding + 1
      BY LogAssumption, SMTT(30) DEF BeginOp, Admit, NoRoom, IInv, TypeOK
    <2>2. Len(lh) \in Nat /\ LOGSIZE \in Nat /\ (outstanding + 1) * MAXOPBLOCKS \in Nat
      BY LogAssumption, SMTT(30) DEF IInv, TypeOK
    <2> QED
      BY <1>2, <2>1, <2>2, SMTT(30)
  <1>4. Active' = Active \cup {p} /\ p \notin Active
    BY SMTT(30) DEF BeginOp, Active, IInv, TypeOK
  <1>5. \A q \in Active' :
          /\ written'[q] \subseteq Range(lh') \cup {wblock'[q]}
          /\ pc'[q] = "log_write" => wblock'[q] \in written'[q]
          /\ IsFiniteSet(written'[q]) /\ Cardinality(written'[q]) <= OpMax
    BY <1>4, FS_EmptySet, LogAssumption DEF BeginOp, Reservation, IInv, TypeOK
  <1>6. Len(lh') < NLOG /\ Len(head') <= LOGSIZE /\ lh' = lh
    BY Zenon DEF BeginOp, Reservation, disk
  <1> QED
    BY <1>3, <1>5, <1>6, Zenon DEF Reservation

(* Writing a block counts it against the call before log_write() adds it. *)
LEMMA ModifyReservation ==
  ASSUME IInv, Reservation, NEW p \in Procs, NEW b \in Blocks, NEW v \in Vals,
         Modify(p, b, v)
  PROVE  Reservation'
  <1>1. CASE TooBig \/ outstanding < 1
    <2>1. UNCHANGED <<lh, wblock, written, pc, head>>
      BY <1>1, Zenon DEF Modify, procs, disk
    <2> QED
      BY <2>1, QuietReservation, Zenon DEF Active
  <1>2. CASE ~(TooBig \/ outstanding < 1)
    <2>1. /\ pc' = [pc EXCEPT ![p] = "log_write"]
          /\ wblock' = [wblock EXCEPT ![p] = b]
          /\ written' = [written EXCEPT ![p] = @ \cup {b}]
          /\ UNCHANGED <<lh, head>>
          /\ pc[p] = "op"
          /\ b \in written[p] \/ Cardinality(written[p]) < OpMax
      BY <1>2, Zenon DEF Modify, disk
    <2>2. Active' = Active /\ p \in Active
      BY <2>1, Zenon DEF Active, IInv, TypeOK
    <2>3. /\ \A q \in Procs \ {p} : UNCHANGED <<pc[q], wblock[q], written[q]>>
          /\ pc'[p] = "log_write" /\ wblock'[p] = b /\ written'[p] = written[p] \cup {b}
      BY <2>1, Zenon DEF IInv, TypeOK
    <2>4. /\ IsFiniteSet(written[p]) /\ Cardinality(written[p]) \in Nat
          /\ Cardinality(written[p]) <= OpMax
          /\ written[p] \subseteq Range(lh) \cup {wblock[p]}
          /\ wblock[p] = NoBlock /\ written[p] \subseteq Blocks
      <3>1. wblock[p] = NoBlock /\ written[p] \subseteq Blocks
        BY <2>1, Zenon DEF IInv, Holding, TypeOK
      <3>2. Cardinality(written[p]) \in Nat
        BY <2>2, UsedIsInt, ZenonT(40)
      <3> QED
        BY <2>2, <3>1, <3>2, Zenon DEF Reservation
    <2>5. /\ IsFiniteSet(written'[p]) /\ Cardinality(written'[p]) \in Nat
          /\ Cardinality(written'[p]) =
               IF b \in written[p] THEN Cardinality(written[p]) ELSE Cardinality(written[p]) + 1
      <3>1. /\ IsFiniteSet(written[p] \cup {b})
            /\ Cardinality(written[p] \cup {b}) =
                 IF b \in written[p] THEN Cardinality(written[p]) ELSE Cardinality(written[p]) + 1
        BY <2>4, FS_AddElement, Zenon
      <3>2. written'[p] = written[p] \cup {b}
        BY <2>3, Zenon
      <3>3. Cardinality(written[p] \cup {b}) \in Nat
        BY <3>1, FS_CardinalityType, Zenon
      <3> QED
        BY <3>1, <3>2, <3>3
    <2>6. Cardinality(written'[p]) <= OpMax
      BY <2>1, <2>4, <2>5, LogAssumption
    <2>7. written[p] \subseteq Range(lh)
      BY <2>4, LogAssumption, Zenon
    <2>8. Used(p) = Cardinality(written[p])
      BY <2>1, Zenon DEF Used
    <2>9. Used(p)' \in Int /\ Used(p) <= Used(p)'
      <3>1. CASE b \in Range(lh)
        BY <3>1, <2>1, <2>3, <2>4, <2>5, <2>8, SMTT(30) DEF Used
      <3>2. CASE b \notin Range(lh)
        BY <3>2, <2>1, <2>3, <2>4, <2>5, <2>7, <2>8 DEF Used
      <3> QED
        BY <3>1, <3>2, Zenon
    <2>10. \A q \in Active' : Used(q) \in Int /\ Used(q)' \in Int /\ Used(q) <= Used(q)'
      <3>1. \A q \in Active \ {p} : Used(q)' = Used(q)
        BY <2>1, <2>3 DEF Used, Active
      <3> QED
        BY <3>1, <2>2, <2>9, UsedIsInt, SMTT(30)
    <2>11. Cardinality(Reserved') \in Nat /\ Cardinality(Reserved') <= Cardinality(Reserved)
      BY <2>2, <2>10, ReservedShrinks, ZenonT(40)
    <2>12. Len(lh) \in Nat /\ Cardinality(Reserved) \in Nat /\ LOGSIZE \in Nat
      BY ReservedBound, LogAssumption, SMTT(30) DEF IInv, TypeOK
    <2>13. Len(lh') + Cardinality(Reserved') <= LOGSIZE
      <3>1. lh' = lh /\ Len(lh) + Cardinality(Reserved) <= LOGSIZE
        BY <2>1, Zenon DEF Reservation
      <3> QED
        BY <2>11, <2>12, <3>1
    <2>14. Len(head') <= LOGSIZE /\ Len(lh') < NLOG
      BY <2>1, Zenon DEF Reservation
    <2>15. \A q \in Active' :
             /\ written'[q] \subseteq Range(lh') \cup {wblock'[q]}
             /\ pc'[q] = "log_write" => wblock'[q] \in written'[q]
             /\ IsFiniteSet(written'[q]) /\ Cardinality(written'[q]) <= OpMax
      <3>1. ASSUME NEW q \in Active, q # p
            PROVE  /\ written'[q] \subseteq Range(lh') \cup {wblock'[q]}
                   /\ pc'[q] = "log_write" => wblock'[q] \in written'[q]
                   /\ IsFiniteSet(written'[q]) /\ Cardinality(written'[q]) <= OpMax
        BY <3>1, <2>1, <2>3, Zenon DEF Reservation, Active
      <3>2. written'[p] \subseteq Range(lh') \cup {wblock'[p]}
        BY <2>1, <2>3, <2>7, Zenon
      <3> QED
        BY <3>1, <3>2, <2>2, <2>3, <2>5, <2>6, Zenon
    <2> QED
      BY <2>13, <2>14, <2>15, Zenon DEF Reservation
  <1> QED
    BY <1>1, <1>2, Zenon

(* log_write() adds a block for which the call held a reservation. *)
LEMMA LogWriteReservation ==
  ASSUME OpMax < MAXOPBLOCKS, LOGSIZE <= NLOG,
         IInv, Reservation, NEW p \in Procs, LogWrite(p)
  PROVE  Reservation'
  <1> DEFINE b == wblock[p]
  <1>1. /\ pc' = [pc EXCEPT ![p] = "op"]
        /\ wblock' = [wblock EXCEPT ![p] = NoBlock]
        /\ UNCHANGED <<written, head>>
        /\ pc[p] = "log_write"
        /\ lh' = IF b \in Range(lh) THEN lh ELSE Append(lh, b)
    BY Zenon DEF LogWrite, disk
  <1>2. Active' = Active /\ p \in Active
    BY <1>1, Zenon DEF Active, IInv, TypeOK
  <1>3. /\ \A q \in Procs \ {p} : UNCHANGED <<pc[q], wblock[q]>>
        /\ pc'[p] = "op" /\ wblock'[p] = NoBlock
    BY <1>1, Zenon DEF IInv, TypeOK
  <1>4. b \in written[p] /\ b \in Blocks
    BY <1>1, <1>2, ZenonT(40) DEF Reservation, IInv, TypeOK
  <1>5. lh \in Seq(Blocks) /\ Len(lh) \in Nat /\ LOGSIZE \in Nat /\ MAXOPBLOCKS \in Nat
        /\ OpMax \in Nat /\ NLOG \in Nat
    BY LogAssumption DEF IInv, TypeOK
  <1>6. Range(lh') = Range(lh) \cup {b} /\ Len(lh') \in Nat
    <2>1. CASE b \in Range(lh)
      BY <2>1, <1>1, <1>5, ZenonT(40)
    <2>2. CASE b \notin Range(lh)
      <3>1. lh' = Append(lh, b)
        BY <2>2, <1>1, ZenonT(40)
      <3>2. /\ DOMAIN lh = 1..Len(lh) /\ DOMAIN lh' = 1..(Len(lh) + 1)
            /\ \A i \in DOMAIN lh : lh'[i] = lh[i]
            /\ lh'[Len(lh) + 1] = b /\ Len(lh') = Len(lh) + 1
        <4>1. lh \in Seq(Blocks) /\ b \in Blocks
          BY <1>4, <1>5, Zenon
        <4> QED
          BY <3>1, <4>1, SMTT(30)
      <3>3. \A i \in 1..(Len(lh) + 1) : i \in 1..Len(lh) \/ i = Len(lh) + 1
        BY <1>5
      <3>4. Len(lh) + 1 \in 1..(Len(lh) + 1) /\ 1..Len(lh) \subseteq 1..(Len(lh) + 1)
        BY <1>5
      <3>5. Len(lh) + 1 \in Nat
        BY <1>5
      <3> QED
        BY <3>2, <3>3, <3>4, <3>5, Zenon DEF Range
    <2> QED
      BY <2>1, <2>2, Zenon
  <1>7. \A q \in Active' :
          /\ written'[q] \subseteq Range(lh') \cup {wblock'[q]}
          /\ pc'[q] = "log_write" => wblock'[q] \in written'[q]
          /\ IsFiniteSet(written'[q]) /\ Cardinality(written'[q]) <= OpMax
    <2>1. ASSUME NEW q \in Active, q # p
          PROVE  /\ written'[q] \subseteq Range(lh') \cup {wblock'[q]}
                 /\ pc'[q] = "log_write" => wblock'[q] \in written'[q]
                 /\ IsFiniteSet(written'[q]) /\ Cardinality(written'[q]) <= OpMax
      BY <2>1, <1>1, <1>3, <1>6, Zenon DEF Reservation, Active
    <2>2. written'[p] \subseteq Range(lh') /\ pc'[p] # "log_write"
      BY <1>1, <1>2, <1>3, <1>6, Zenon DEF Reservation
    <2>3. IsFiniteSet(written'[p]) /\ Cardinality(written'[p]) <= OpMax
      BY <1>1, <1>2, Zenon DEF Reservation
    <2> QED
      BY <2>1, <2>2, <2>3, <1>2, Zenon
  <1>8. \A q \in Active' : Used(q) \in Int /\ Used(q)' \in Int /\ Used(q) <= Used(q)'
    <2>1. ASSUME NEW q \in Active, q # p PROVE Used(q)' \in Int /\ Used(q) <= Used(q)'
      BY <2>1, <1>1, <1>3, <1>6, UsedIsInt, SMTT(30) DEF Used, Active
    <2>2. Used(p)' \in Int /\ Used(p) <= Used(p)'
      BY <1>1, <1>2, <1>3, UsedIsInt DEF Used
    <2> QED
      BY <2>1, <2>2, <1>2, UsedIsInt, Zenon
  <1>9. /\ Reserved' \subseteq Reserved
        /\ Cardinality(Reserved') \in Nat
        /\ Cardinality(Reserved') <= Cardinality(Reserved)
        /\ IsFiniteSet(Reserved) /\ Cardinality(Reserved) \in Nat
    BY <1>2, <1>8, ReservedShrinks, ReservedBound, Zenon
  <1>10. Len(head') <= LOGSIZE
    BY <1>1, Zenon DEF Reservation
  <1>11. Len(lh') + Cardinality(Reserved') <= LOGSIZE /\ Len(lh') < NLOG
    <2>1. CASE b \in Range(lh)
      BY <2>1, <1>1, <1>5, <1>9, SMTT(30) DEF Reservation
    <2>2. CASE b \notin Range(lh)
      <3> DEFINE n == Cardinality(written[p])
      <3>1. n \in Nat /\ n <= OpMax /\ n # 0
        BY <1>2, <1>4, UsedIsInt, FS_EmptySet, Zenon DEF Reservation
      <3>2. Used(p) = n - 1 /\ Used(p)' = n
        BY <2>2, <1>1, <1>3, Zenon DEF Used
      <3>3. <<p, n>> \in Reserved /\ <<p, n>> \notin Reserved'
        <4>1. n \in 1..MAXOPBLOCKS
          BY <3>1, <1>5
        <4>2. <<p, n>> \in Active \X (1..MAXOPBLOCKS) /\ <<p, n>>[1] = p /\ <<p, n>>[2] = n
          BY <4>1, <1>2, Zenon
        <4>3. n > Used(p) /\ ~(n > Used(p)')
          BY <3>1, <3>2, SMTT(30)
        <4> HIDE DEF n
        <4> QED
          BY <4>2, <4>3, Zenon DEF Reserved
      <3>4. Cardinality(Reserved') <= Cardinality(Reserved) - 1
        <4>1. Reserved' \subseteq Reserved \ {<<p, n>>}
          BY <3>3, <1>9, Zenon
        <4>2. /\ IsFiniteSet(Reserved \ {<<p, n>>})
              /\ Cardinality(Reserved \ {<<p, n>>}) = Cardinality(Reserved) - 1
          BY <3>3, <1>9, FS_RemoveElement, Zenon
        <4> QED
          BY <4>1, <4>2, FS_Subset
      <3>5. Cardinality(Reserved') # 0
        <4>1. MAXOPBLOCKS \in 1..MAXOPBLOCKS /\ MAXOPBLOCKS > n
          BY <3>1, <1>5
        <4>2. <<p, MAXOPBLOCKS>> \in Active' \X (1..MAXOPBLOCKS)
          BY <4>1, <1>2, Zenon
        <4>3. <<p, MAXOPBLOCKS>> \in Reserved'
          BY <4>1, <4>2, <3>2, Zenon DEF Reserved
        <4>4. IsFiniteSet(Reserved')
          BY <1>9, FS_Subset, Zenon
        <4> QED
          BY <4>3, <4>4, FS_EmptySet, Zenon
      <3>6. Len(lh') = Len(lh) + 1
        BY <2>2, <1>1, <1>4, <1>5
      <3> QED
        BY <3>4, <3>5, <3>6, <1>5, <1>9, SMTT(30) DEF Reservation
    <2> QED
      BY <2>1, <2>2, ZenonT(40)
  <1> QED
    BY <1>7, <1>10, <1>11, Zenon DEF Reservation

(* end_op() gives back what the call did not use. *)
LEMMA EndOpReservation ==
  ASSUME IInv, Reservation, NEW p \in Procs, EndOp(p)
  PROVE  Reservation'
  <1>1. /\ pc[p] = "op"
        /\ UNCHANGED <<lh, wblock, written, head>>
        /\ pc' = [pc EXCEPT ![p] = "commit"] \/ pc' = Woken([pc EXCEPT ![p] = "out"])
    BY Zenon DEF EndOp, disk
  <1>2. Active' \subseteq Active /\ \A q \in Active' : pc'[q] = pc[q]
    BY <1>1, Zenon DEF Active, Woken, IInv, TypeOK
  <1> QED
    BY <1>1, <1>2, QuietReservation, Zenon

(* Processes that call, sleep or finish a commit reserve nothing. *)
LEMMA OutsideReservation ==
  ASSUME IInv, Reservation, NEW p \in Procs,
         Call(p) \/ BeginOpSleeps(p) \/ EndCommit(p)
  PROVE  Reservation'
  <1>1. /\ pc[p] \notin {"op", "log_write"}
        /\ UNCHANGED <<lh, wblock, written, head>>
        /\ \/ pc' = [pc EXCEPT ![p] = "begin_op"]
           \/ pc' = [pc EXCEPT ![p] = "asleep"]
           \/ pc' = Woken([pc EXCEPT ![p] = "out"])
    BY Zenon DEF Call, BeginOpSleeps, EndCommit, disk
  <1>2. Active' \subseteq Active /\ \A q \in Active' : pc'[q] = pc[q]
    BY <1>1, SMTT(30) DEF Active, Woken, IInv, TypeOK
  <1> QED
    BY <1>1, <1>2, QuietReservation, Zenon

(* commit() and recovery leave the calls alone; while they change the header   *)
(* in memory no call is active.                                                *)
LEMMA DiskReservation ==
  ASSUME LOGSIZE <= NLOG, IInv, Reservation, DiskStep
  PROVE  Reservation'
  <1>1. CASE WriteLog \/ WriteHead \/ InstallTrans \/ Recovered
    <2>1. UNCHANGED <<lh, wblock, written, pc>> /\ head' \in {head, lh}
      BY <1>1, Zenon DEF WriteLog, WriteHead, InstallTrans, Recovered, disk, procs
    <2> QED
      BY <2>1, QuietReservation, Zenon DEF Active
  <1>2. CASE ClearHead \/ ReadHead
    <2>1. UNCHANGED pc /\ lh' \in {<<>>, head} /\ head' \in {<<>>, head}
          /\ phase \in {"clear", "read_head"}
      BY <1>2, Zenon DEF ClearHead, ReadHead, disk, procs
    <2>2. Active = {}
      BY <2>1, Zenon DEF IInv, Phases, CommitAlone, Active
    <2>3. Active' = {}
      BY <2>1, <2>2, Zenon DEF Active
    <2>4. Len(lh') \in Nat /\ Len(lh') < NLOG /\ Len(lh') <= LOGSIZE /\ Len(head') <= LOGSIZE
      BY <2>1, LogAssumption DEF IInv, TypeOK, Reservation
    <2> QED
      BY <2>3, <2>4, EmptyReservation, Zenon
  <1> QED
    BY <1>1, <1>2, Zenon DEF DiskStep

(* A crash ends every call and loses the header in memory. *)
LEMMA CrashReservation ==
  ASSUME LOGSIZE <= NLOG, IInv, Reservation, Crash
  PROVE  Reservation'
  <1>1. Active' = {} /\ lh' = <<>> /\ head' = head
    BY Zenon DEF Crash, Volatile, Active, disk
  <1>2. Len(lh') = 0 /\ Len(head') <= LOGSIZE
    BY <1>1, Zenon DEF Reservation
  <1> QED
    BY <1>1, <1>2, LogAssumption, EmptyReservation

(* Room is reserved from the first boot on. *)
LEMMA InitReservation == LOGSIZE <= NLOG /\ Init => Reservation
  <1> SUFFICES ASSUME LOGSIZE <= NLOG, Init PROVE Reservation
    BY Zenon
  <1>1. Active = {} /\ Len(lh) = 0 /\ Len(head) = 0
    BY Zenon DEF Init, Active
  <1>2. Cardinality(Reserved) = 0
    BY <1>1, FS_EmptySet, Zenon DEF Reserved
  <1> QED
    BY <1>1, <1>2, LogAssumption DEF Reservation

(* What the constants must satisfy: a call writes fewer blocks than begin_op   *)
(* reserves, and the log has the sectors that begin_op divides.                *)
Sized == OpMax < MAXOPBLOCKS /\ LOGSIZE <= NLOG

(* Every step keeps both invariants. *)
LEMMA NextReservation ==
  Sized /\ IInv /\ Reservation /\ [Next]_vars => IInv' /\ Reservation'
  <1> SUFFICES ASSUME Sized, IInv, Reservation, [Next]_vars PROVE IInv' /\ Reservation'
    BY Zenon
  <1> USE DEF Sized
  <1>1. IInv'
    BY NextIInv, Zenon DEF Reservation
  <1>2. CASE Crash
    BY <1>1, <1>2, CrashReservation, Zenon
  <1>3. CASE UNCHANGED vars
    <2>1. UNCHANGED <<lh, wblock, written, pc, head>>
      BY <1>3, Zenon DEF vars
    <2> QED
      BY <1>1, <2>1, QuietReservation, Zenon DEF Active
  <1>4. CASE DiskStep
    BY <1>1, <1>4, DiskReservation, Zenon
  <1>5. ASSUME NEW p \in Procs, Call(p) \/ Step(p) PROVE Reservation'
    BY <1>1, <1>5, BeginOpReservation, LogWriteReservation, EndOpReservation, Zenon,
       OutsideReservation DEF Step
  <1>6. ASSUME NEW p \in Procs, NEW b \in Blocks, NEW v \in Vals, Modify(p, b, v)
        PROVE  Reservation'
    BY <1>6, ModifyReservation, Zenon
  <1>7. ASSUME NEW b \in Blocks, Evict(b) PROVE Reservation'
    <2>1. UNCHANGED <<lh, wblock, written, pc, head>>
      BY <1>7, Zenon DEF Evict, procs, disk
    <2> QED
      BY <2>1, QuietReservation, Zenon DEF Active
  <1> QED
    BY <1>1, <1>2, <1>3, <1>4, <1>5, <1>6, <1>7, Zenon DEF Next

(* The log never overflows, and its invariant holds in every reachable state,  *)
(* for any number of processes, blocks and log sectors.                        *)
THEOREM NoOverflow ==
  ASSUME Sized
  PROVE  Spec => [](IInv /\ Reservation)
  <1>1. Init => IInv /\ Reservation
    BY InitIInv, InitReservation, Zenon DEF Sized
  <1>2. IInv /\ Reservation /\ [Next]_vars => (IInv /\ Reservation)'
    BY NextReservation, Zenon
  <1> QED
    BY <1>1, <1>2, PTL DEF Spec

(* commit() runs alone and log.outstanding counts the active calls.            *)
THEOREM CommitsAlone ==
  ASSUME Sized
  PROVE  Spec => []CommitAlone
  <1>1. IInv /\ Reservation => CommitAlone
    BY Zenon DEF IInv
  <1> QED
    BY <1>1, NoOverflow, PTL

(* When end_op() returns with no other call active, all that was written       *)
(* survives a crash.                                                           *)
THEOREM Durable ==
  ASSUME Sized
  PROVE  Spec => []QuiescentIsDurable
  <1>1. IInv /\ Reservation => Len(lh) < NLOG
    BY Zenon DEF Reservation
  <1> QED
    BY <1>1, NoOverflow, Durability, PTL

(* Group commit is atomic over crashes at any point, those during recovery     *)
(* included: the log implements AtomicDisk.                                    *)
THEOREM Atomic ==
  ASSUME Sized
  PROVE  Spec => CrashAtomicity
  <1>1. IInv /\ Reservation => Len(lh) < NLOG
    BY Zenon DEF Reservation
  <1> QED
    BY <1>1, NoOverflow, Atomicity, PTL

(* A call that writes at least two blocks fewer than begin_op reserves for it  *)
(* never meets a panic of log_write() or end_op().                             *)
THEOREM NeverTooBig ==
  ASSUME OpMax + 2 <= MAXOPBLOCKS, LOGSIZE <= NLOG
  PROVE  Spec => []NoTooBigPanic
  <1> DEFINE J == IInv /\ Reservation
  <1>1. Sized
    BY LogAssumption DEF Sized
  <1>2. ASSUME J, NEW p \in Procs, pc[p] = "op"
        PROVE  ~TooBig /\ ~(outstanding < 1) /\ ~committing
    <2>1. p \in Active /\ Used(p) = Cardinality(written[p])
      BY <1>2, Zenon DEF Active, Used
    <2>2. ~committing /\ IsFiniteSet(Active) /\ outstanding = Cardinality(Active)
      BY <1>2, <2>1, LogAssumption, FS_Subset, Zenon DEF IInv, CommitAlone, Active
    <2>3. outstanding \in Nat /\ outstanding # 0
      BY <1>2, <2>1, <2>2, FS_EmptySet, Zenon DEF IInv, TypeOK
    <2> DEFINE M == MAXOPBLOCKS
               R == {<<p, M>>, <<p, M - 1>>}
    <2>4. /\ Cardinality(written[p]) \in Nat /\ Cardinality(written[p]) <= OpMax
          /\ M \in Nat /\ OpMax \in Nat /\ LOGSIZE \in Nat /\ NLOG \in Nat /\ Len(lh) \in Nat
      <3>1. Cardinality(written[p]) \in Nat /\ Cardinality(written[p]) <= OpMax
        BY <1>2, <2>1, UsedIsInt, Zenon DEF Reservation
      <3>2. lh \in Seq(Blocks)
        BY <1>2, Zenon DEF IInv, TypeOK
      <3> QED
        BY <3>1, <3>2, LogAssumption
    <2>5. R \subseteq Reserved
      <3>1. M \in 1..M /\ M - 1 \in 1..M /\ M > Used(p) /\ M - 1 > Used(p)
        BY <2>1, <2>4
      <3>2. <<p, M>> \in Active \X (1..M) /\ <<p, M - 1>> \in Active \X (1..M)
        BY <3>1, <2>1, Zenon
      <3> QED
        BY <3>1, <3>2 DEF Reserved
    <2>6. Cardinality(R) = 2 /\ IsFiniteSet(R)
      <3>1. <<p, M>> # <<p, M - 1>>
        BY <2>4
      <3>2. IsFiniteSet({<<p, M>>}) /\ Cardinality({<<p, M>>}) = 1
        BY FS_Singleton, Zenon
      <3>3. R = {<<p, M>>} \cup {<<p, M - 1>>} /\ <<p, M - 1>> \notin {<<p, M>>}
        BY <3>1, Zenon
      <3>4. /\ IsFiniteSet({<<p, M>>} \cup {<<p, M - 1>>})
            /\ Cardinality({<<p, M>>} \cup {<<p, M - 1>>}) = Cardinality({<<p, M>>}) + 1
        BY ONLY <3>2, <3>3, FS_AddElement, Zenon
      <3> HIDE DEF R
      <3> QED
        BY <3>2, <3>3, <3>4
    <2>7. Cardinality(Reserved) \in Nat /\ 2 <= Cardinality(Reserved)
      <3> HIDE DEF R
      <3> QED
        BY <1>2, <2>5, <2>6, ReservedBound, FS_Subset, Zenon
    <2>8. Len(lh) + 2 <= LOGSIZE
      <3>1. Len(lh) + Cardinality(Reserved) <= LOGSIZE
        BY <1>2, Zenon DEF Reservation
      <3> QED
        BY <2>4, <2>7, <3>1
    <2> QED
      BY <2>2, <2>3, <2>4, <2>8 DEF TooBig
  <1>3. J /\ ~panicked /\ [Next]_vars => ~panicked'
    <2> SUFFICES ASSUME J, ~panicked, [Next]_vars PROVE ~panicked'
      BY Zenon
    <2>1. ASSUME NEW p \in Procs, EndOp(p) PROVE ~panicked'
      BY <2>1, <1>2, Zenon DEF EndOp
    <2>2. ASSUME NEW p \in Procs, NEW b \in Blocks, NEW v \in Vals, Modify(p, b, v)
          PROVE  ~panicked'
      BY <2>2, <1>2, Zenon DEF Modify
    <2>3. CASE Crash
      BY <2>3, Zenon DEF Crash, Volatile
    <2>4. CASE UNCHANGED vars
      BY <2>4, Zenon DEF vars
    <2>5. CASE DiskStep
      BY <2>5, Zenon DEF DiskStep, WriteLog, WriteHead, InstallTrans, ClearHead, ReadHead,
             Recovered
    <2>6. ASSUME NEW p \in Procs,
                 Call(p) \/ BeginOp(p) \/ BeginOpSleeps(p) \/ LogWrite(p) \/ EndCommit(p)
          PROVE  ~panicked'
      BY <2>6, Zenon DEF Call, BeginOp, BeginOpSleeps, LogWrite, EndCommit
    <2>7. ASSUME NEW b \in Blocks, Evict(b) PROVE ~panicked'
      BY <2>7, Zenon DEF Evict
    <2> QED
      BY <2>1, <2>2, <2>3, <2>4, <2>5, <2>6, <2>7, Zenon DEF Next, Step
  <1>4. Init => ~panicked
    BY Zenon DEF Init
  <1>5. J /\ ~panicked => NoTooBigPanic
    BY Zenon DEF NoTooBigPanic, Reservation
  <1> QED
    BY <1>1, <1>3, <1>4, <1>5, NoOverflow, PTL DEF Spec


(* A process that begin_op() put to sleep always has a call or a commit before *)
(* it whose end wakes it, if the log has room for one call.                    *)
THEOREM SleepersWaitForSomebody ==
  ASSUME Sized, MAXOPBLOCKS <= LOGSIZE
  PROVE  Spec => []SleeperHasWaker
  <1> DEFINE J == IInv /\ Reservation
             Asleep == \E p \in Procs : pc[p] = "asleep"
             Waker == committing \/ Active # {}
  <1>1. Init => SleeperHasWaker
    BY Zenon DEF Init, SleeperHasWaker
  <1>2. ASSUME J, SleeperHasWaker, [Next]_vars PROVE SleeperHasWaker'
    <2>1. SUFFICES ASSUME Asleep' PROVE Waker'
      BY Zenon DEF SleeperHasWaker
    <2>t. /\ pc \in [Procs -> {"out", "begin_op", "asleep", "op", "log_write", "commit"}]
          /\ committing \in BOOLEAN
      BY <1>2, Zenon DEF IInv, TypeOK
    <2>2. CASE Crash
      BY <2>1, <2>2, Zenon DEF Crash, Volatile
    <2>3. CASE UNCHANGED <<pc, committing>>
      BY <1>2, <2>1, <2>3, ZenonT(40) DEF SleeperHasWaker, Active
    <2>4. CASE DiskStep
      BY <1>2, <2>1, <2>4 DEF DiskStep, WriteLog, WriteHead, InstallTrans, ClearHead,
         ReadHead, Recovered, procs, SleeperHasWaker, Active
    <2>5. ASSUME NEW p \in Procs, Call(p) PROVE Waker'
      <3>1. Asleep /\ committing' = committing
        BY <2>1, <2>5, <2>t DEF Call
      <3>2. \A q \in Active : q \in Active'
        BY <2>5, <2>t DEF Call, Active
      <3> QED
        BY <1>2, <3>1, <3>2, Zenon DEF SleeperHasWaker
    <2>6. ASSUME NEW p \in Procs, BeginOp(p) PROVE Waker'
      BY <2>6, <2>t DEF BeginOp, Active
    <2>7. ASSUME NEW p \in Procs, BeginOpSleeps(p) PROVE Waker'
      <3>1. Active' = Active /\ committing' = committing
        BY <2>7, <2>t DEF BeginOpSleeps, Active
      <3>2. SUFFICES ASSUME Active = {}, ~committing PROVE FALSE
        BY <3>1, Zenon
      <3>3. outstanding = 0
        BY <1>2, <3>2, FS_EmptySet, Zenon DEF IInv, CommitAlone
      <3>4. ~booting
        BY <1>2, <2>7, Zenon DEF BeginOpSleeps, IInv, Phases
      <3>5. Len(lh) = 0
        BY <1>2, <3>2, <3>4 DEF IInv, NothingPending
      <3>6. (outstanding + 1) * MAXOPBLOCKS = MAXOPBLOCKS
        BY <3>3, LogAssumption
      <3> QED
        BY <2>7, <3>2, <3>5, <3>6, LogAssumption DEF BeginOpSleeps, Admit, NoRoom
    <2>8. ASSUME NEW p \in Procs, LogWrite(p) PROVE Waker'
      BY <2>8, <2>t DEF LogWrite, Active
    <2>9. ASSUME NEW p \in Procs, EndOp(p) PROVE Waker'
      BY <2>1, <2>9, <2>t DEF EndOp, Woken
    <2>10. ASSUME NEW p \in Procs, EndCommit(p) PROVE Waker'
      BY <2>1, <2>10, <2>t, Zenon DEF EndCommit, Woken
    <2>11. ASSUME NEW p \in Procs, NEW b \in Blocks, NEW v \in Vals, Modify(p, b, v) PROVE Waker'
      BY <2>11, <2>t DEF Modify, Active, procs
    <2>12. ASSUME NEW b \in Blocks, Evict(b) PROVE UNCHANGED <<pc, committing>>
      BY <2>12, Zenon DEF Evict, procs
    <2> QED
      BY <1>2, <2>2, <2>3, <2>4, <2>5, <2>6, <2>7, <2>8, <2>9, <2>10, <2>11, <2>12, SMTT(30)
      DEF Next, Step, vars
  <1> QED
    BY <1>1, <1>2, NoOverflow, PTL DEF Spec
==============================================================================
