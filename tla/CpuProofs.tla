------------------------------ MODULE CpuProofs ------------------------------
(* Proofs about Cpu for any number of CPUs, processes and locks. *)
EXTENDS Cpu, FiniteSetTheorems, TLAPS

TypeOK ==
  /\ lock \in [Locks -> CPUs \cup {None}]
  /\ fl_if \in [CPUs -> BOOLEAN]
  /\ ncli \in [CPUs -> Nat]
  /\ intena \in [CPUs -> BOOLEAN]
  /\ spin \in [CPUs -> Locks \cup {None}]
  /\ run \in [CPUs -> Threads]
  /\ irq \subseteq Threads
  /\ under \in [Threads -> SUBSET Locks]
  /\ parked \in [Procs -> BOOLEAN]
  /\ born \in [Procs -> {"no", "new", "forkret", "yes"}]

(* A thread runs on one CPU at a time, and a scheduler on its own. *)
RunOnce ==
  /\ \A c \in CPUs : run[c] \in CPUs => run[c] = c
  /\ \A c, d \in CPUs : run[c] = run[d] => c = d

(* A scheduler that has switched to a process is not inside a handler. *)
SchedulerQuiet == \A c \in CPUs : run[c] # c => c \notin irq

(* Processes that have not run yet are in no handler and on no CPU. *)
Unborn ==
  \A p \in Procs : born[p] \in {"no", "new"} =>
    p \notin irq /\ \A c \in CPUs : run[c] # p

(* With interrupts on, a CPU holds no lock and waits for none, so a handler    *)
(* never starts on top of code with a lock.                                    *)
OnMeansFree == \A c \in CPUs : fl_if[c] => ncli[c] = 0
NothingUnder == \A t \in Threads : under[t] = {}

(* What intena must be for thread t: FALSE inside a handler, TRUE in a process *)
(* that runs in its own right or, before any fork, in forkret().               *)
Keeps(t, ena) ==
  /\ t \in irq => ~ena
  /\ t \in Procs \ irq /\ (born[t] = "yes" \/ Boot(t)) => ena

IntenaRight ==
  \A c \in CPUs : IF ncli[c] = 0 THEN Keeps(run[c], fl_if[c]) ELSE Keeps(run[c], intena[c])

ParkedRight ==
  \A p \in Procs :
    (\A c \in CPUs : run[c] # p) /\ born[p] \in {"forkret", "yes"} => Keeps(p, parked[p])

(* Until a process has run, every scheduler took ptable.lock with interrupts on. *)
NoneRan == \A q \in Procs : born[q] \in {"no", "new"}
BeforeFirst ==
  NoneRan => \A c \in CPUs : c \notin irq /\ ncli[c] # 0 => intena[c]

IInv ==
  /\ TypeOK /\ RunOnce /\ SchedulerQuiet /\ Unborn
  /\ OnMeansFree /\ NothingUnder /\ NcliCounts /\ NeverOwnLock
  /\ IntenaRight /\ ParkedRight /\ BeforeFirst

------------------------------------------------------------------------------
(* A lock more and a lock less. *)
LEMMA AddCount ==
  ASSUME NEW S, NEW x, IsFiniteSet(S), x \notin S
  PROVE  Cardinality(S \cup {x}) = Cardinality(S) + 1
  BY FS_AddElement, Zenon

LEMMA RemoveCount ==
  ASSUME NEW S, NEW x, IsFiniteSet(S), x \in S
  PROVE  Cardinality(S \ {x}) = Cardinality(S) - 1
  BY FS_RemoveElement, Zenon

(* The locks of a CPU are finitely many, and ncli is 0 exactly when it has     *)
(* none and waits for none.                                                    *)
LEMMA HeldCount ==
  ASSUME CpuAssumption, IInv, NEW c \in CPUs
  PROVE  /\ IsFiniteSet(Held(c)) /\ Cardinality(Held(c)) \in Nat
         /\ ncli[c] = 0 <=> Held(c) = {} /\ spin[c] = None
         /\ Own(c) = Held(c)
  <1>1. IsFiniteSet(Held(c)) /\ Cardinality(Held(c)) \in Nat
    BY FS_Subset, FS_CardinalityType, Zenon DEF CpuAssumption, Held
  <1>2. Cardinality(Held(c)) = 0 <=> Held(c) = {}
    BY <1>1, FS_EmptySet, Zenon
  <1>3. ncli[c] = 0 <=> Held(c) = {} /\ spin[c] = None
    BY <1>1, <1>2 DEF IInv, NcliCounts
  <1>4. Own(c) = Held(c)
    BY Zenon DEF IInv, TypeOK, NothingUnder, Own
  <1> QED
    BY <1>1, <1>3, <1>4, Zenon

(* mpmain() and userinit() establish the invariant. *)
LEMMA InitIInv == ASSUME CpuAssumption, Init PROVE IInv
  <1> USE DEF Init
  <1>1. TypeOK
    BY Zenon DEF TypeOK, Threads
  <1>2. RunOnce /\ SchedulerQuiet /\ OnMeansFree /\ NeverOwnLock
    BY Zenon DEF RunOnce, SchedulerQuiet, OnMeansFree, NeverOwnLock
  <1>3. Unborn
    BY Zenon DEF Unborn, CpuAssumption
  <1>4. NothingUnder
    BY Zenon DEF NothingUnder
  <1>5. NcliCounts
    <2> SUFFICES ASSUME NEW c \in CPUs PROVE ncli[c] = Cardinality(Held(c)) + 0
      BY Zenon DEF NcliCounts
    <2>1. Held(c) = {}
      BY Zenon DEF Held, CpuAssumption
    <2> QED
      BY <2>1, FS_EmptySet
  <1>6. IntenaRight
    BY Zenon DEF IntenaRight, Keeps, CpuAssumption
  <1>7. ParkedRight
    BY Zenon DEF ParkedRight
  <1>8. BeforeFirst
    BY Zenon DEF BeforeFirst
  <1> QED
    BY <1>1, <1>2, <1>3, <1>4, <1>5, <1>6, <1>7, <1>8, Zenon DEF IInv
(* acquire() up to its loop keeps the invariant. *)
LEMMA AcquireIInv ==
  ASSUME CpuAssumption, IInv, NEW c \in CPUs, NEW l \in Locks, MayAcquire(c, l), Acquire(c, l)
  PROVE  IInv'
  <1> USE DEF IInv, TypeOK, Threads, CpuAssumption, Acquire, Pushcli, MayAcquire
  <1>1. /\ IsFiniteSet(Held(c)) /\ Cardinality(Held(c)) \in Nat
        /\ ncli[c] = 0 <=> Held(c) = {} /\ spin[c] = None
        /\ Own(c) = Held(c)
    BY HeldCount, Zenon
  <1>2. \A d \in CPUs : Held(d)' = Held(d)
    BY Zenon DEF Held
  <1>3. TypeOK'
    OBVIOUS
  <1>4. RunOnce'
    BY Zenon DEF RunOnce
  <1>5. SchedulerQuiet'
    BY Zenon DEF SchedulerQuiet, RunOnce
  <1>6. Unborn'
    BY Zenon DEF Unborn, RunOnce
  <1>7. OnMeansFree'
    BY Zenon DEF OnMeansFree
  <1>8. NothingUnder'
    BY Zenon DEF NothingUnder
  <1>9. NcliCounts'
    BY <1>1, <1>2 DEF NcliCounts
  <1>10. NeverOwnLock'
    BY <1>1 DEF NeverOwnLock, Held
  <1>11. IntenaRight'
    BY DEF IntenaRight, Keeps, Boot, RunOnce, SchedulerQuiet, OnMeansFree
  <1>12. ParkedRight'
    BY Zenon DEF ParkedRight, Keeps, Boot, RunOnce, IntenaRight, Unborn
  <1>13. BeforeFirst'
    BY DEF BeforeFirst, NoneRan, Unborn, RunOnce
  <1> QED
    BY <1>3, <1>4, <1>5, <1>6, <1>7, <1>8, <1>9, <1>10, <1>11, <1>12, <1>13, Zenon

(* So does the xchg that takes the lock. *)
LEMMA XchgIInv ==
  ASSUME CpuAssumption, IInv, NEW c \in CPUs, Xchg(c)
  PROVE  IInv'
  <1> USE DEF IInv, TypeOK, Threads, CpuAssumption, Xchg
  <1>1. /\ IsFiniteSet(Held(c)) /\ Cardinality(Held(c)) \in Nat
        /\ ncli[c] = 0 <=> Held(c) = {} /\ spin[c] = None
        /\ Own(c) = Held(c)
    BY HeldCount, Zenon
  <1>2. spin[c] \in Locks /\ spin[c] \notin Held(c)
    BY Zenon DEF Held
  <1>3. Held(c)' = Held(c) \cup {spin[c]}
    BY DEF Held
  <1>4. \A d \in CPUs \ {c} : Held(d)' = Held(d)
    BY Zenon DEF Held
  <1>5. Cardinality(Held(c)') = Cardinality(Held(c)) + 1
    <2> HIDE DEF IInv, TypeOK, Threads, CpuAssumption, Xchg
    <2> QED
      BY <1>1, <1>2, <1>3, AddCount, Zenon
  <1>6. TypeOK'
    BY Zenon
  <1>7. RunOnce'
    BY Zenon DEF RunOnce
  <1>8. SchedulerQuiet'
    BY Zenon DEF SchedulerQuiet, RunOnce
  <1>9. Unborn'
    BY Zenon DEF Unborn, RunOnce
  <1>10. OnMeansFree'
    BY Zenon DEF OnMeansFree
  <1>11. NothingUnder'
    BY Zenon DEF NothingUnder
  <1>12. NcliCounts'
    <2> SUFFICES ASSUME NEW d \in CPUs
                 PROVE  ncli[d] = Cardinality(Held(d)') + (IF spin'[d] = None THEN 0 ELSE 1)
      BY Zenon DEF NcliCounts
    <2>1. CASE d = c
      <3>1. ncli[c] = Cardinality(Held(c)) + 1 /\ spin'[c] = None
        BY Zenon DEF NcliCounts
      <3> QED
        BY <1>1, <1>5, <2>1, <3>1
    <2>2. CASE d # c
      BY <1>4, <2>2 DEF NcliCounts
    <2> QED
      BY <2>1, <2>2, Zenon
  <1>13. NeverOwnLock'
    BY Zenon DEF NeverOwnLock
  <1>14. IntenaRight'
    BY Zenon DEF IntenaRight, Keeps, Boot, RunOnce, SchedulerQuiet, OnMeansFree
  <1>15. ParkedRight'
    BY Zenon DEF ParkedRight, Keeps, Boot, RunOnce, IntenaRight, Unborn
  <1>16. BeforeFirst'
    BY Zenon DEF BeforeFirst, NoneRan, Unborn
  <1> QED
    BY <1>6, <1>7, <1>8, <1>9, <1>10, <1>11, <1>12, <1>13, <1>14, <1>15, <1>16, Zenon

(* So does release(). *)
LEMMA ReleaseIInv ==
  ASSUME CpuAssumption, IInv, NEW c \in CPUs, NEW l \in Locks, Release(c, l)
  PROVE  IInv'
  <1> USE DEF IInv, TypeOK, Threads, CpuAssumption, Release, Popcli
  <1>1. /\ IsFiniteSet(Held(c)) /\ Cardinality(Held(c)) \in Nat
        /\ ncli[c] = 0 <=> Held(c) = {} /\ spin[c] = None
        /\ Own(c) = Held(c)
    BY HeldCount, Zenon
  <1>2. l \in Held(c) /\ Held(c)' = Held(c) \ {l}
    BY <1>1, Zenon DEF Held
  <1>3. \A d \in CPUs \ {c} : Held(d)' = Held(d)
    BY <1>2 DEF Held
  <1>4. Cardinality(Held(c)') = Cardinality(Held(c)) - 1
    <2> HIDE DEF IInv, TypeOK, Threads, CpuAssumption, Release, Popcli
    <2> QED
      BY <1>1, <1>2, RemoveCount, Zenon
  <1>5. TypeOK'
    BY <1>1
  <1>6. RunOnce'
    BY Zenon DEF RunOnce
  <1>7. SchedulerQuiet'
    BY Zenon DEF SchedulerQuiet, RunOnce
  <1>8. Unborn'
    BY Zenon DEF Unborn, RunOnce
  <1>9. OnMeansFree'
    BY <1>1 DEF OnMeansFree
  <1>10. NothingUnder'
    BY Zenon DEF NothingUnder
  <1>11. NcliCounts'
    <2> SUFFICES ASSUME NEW d \in CPUs
                 PROVE  ncli'[d] = Cardinality(Held(d)') + (IF spin[d] = None THEN 0 ELSE 1)
      BY Zenon DEF NcliCounts
    <2>1. CASE d = c
      <3>1. ncli[c] = Cardinality(Held(c)) /\ ncli'[c] = ncli[c] - 1 /\ spin[c] = None
        BY <1>1 DEF NcliCounts
      <3> QED
        BY <1>1, <1>4, <2>1, <3>1
    <2>2. CASE d # c
      BY <1>3, <2>2, Zenon DEF NcliCounts
    <2> QED
      BY <2>1, <2>2, Zenon
  <1>12. NeverOwnLock'
    BY Zenon DEF NeverOwnLock
  <1>13. IntenaRight'
    BY <1>1 DEF IntenaRight, Keeps, Boot, RunOnce, SchedulerQuiet, OnMeansFree
  <1>14. ParkedRight'
    BY Zenon DEF ParkedRight, Keeps, Boot, RunOnce, IntenaRight, Unborn
  <1>15. BeforeFirst'
    BY <1>1 DEF BeforeFirst, NoneRan, Unborn
  <1> QED
    BY <1>5, <1>6, <1>7, <1>8, <1>9, <1>10, <1>11, <1>12, <1>13, <1>14, <1>15, Zenon

(* So does an interrupt: it finds no lock held. *)
LEMMA InterruptIInv ==
  ASSUME CpuAssumption, IInv, NEW c \in CPUs, Interrupt(c)
  PROVE  IInv'
  <1> USE DEF IInv, TypeOK, Threads, CpuAssumption, Interrupt
  <1>1. /\ IsFiniteSet(Held(c)) /\ Cardinality(Held(c)) \in Nat
        /\ ncli[c] = 0 <=> Held(c) = {} /\ spin[c] = None
        /\ Own(c) = Held(c)
    BY HeldCount, Zenon
  <1>2. \A d \in CPUs : Held(d)' = Held(d)
    BY Zenon DEF Held
  <1>3. TypeOK'
    BY DEF Held
  <1>4. RunOnce'
    BY Zenon DEF RunOnce
  <1>5. SchedulerQuiet'
    BY DEF SchedulerQuiet, RunOnce
  <1>6. Unborn'
    BY Zenon DEF Unborn, RunOnce
  <1>7. OnMeansFree'
    BY Zenon DEF OnMeansFree
  <1>8. NothingUnder'
    BY <1>1, Zenon DEF NothingUnder, OnMeansFree
  <1>9. NcliCounts'
    BY <1>2, Zenon DEF NcliCounts
  <1>10. NeverOwnLock'
    BY Zenon DEF NeverOwnLock
  <1>11. IntenaRight'
    BY Zenon DEF IntenaRight, Keeps, Boot, RunOnce, SchedulerQuiet, OnMeansFree
  <1>12. ParkedRight'
    BY Zenon DEF ParkedRight, Keeps, Boot, RunOnce, IntenaRight, Unborn
  <1>13. BeforeFirst'
    BY Zenon DEF BeforeFirst, NoneRan, Unborn
  <1> QED
    BY <1>3, <1>4, <1>5, <1>6, <1>7, <1>8, <1>9, <1>10, <1>11, <1>12, <1>13, Zenon

(* So does the end of a handler. *)
LEMMA IretIInv ==
  ASSUME CpuAssumption, IInv, NEW c \in CPUs, Iret(c)
  PROVE  IInv'
  <1> USE DEF IInv, TypeOK, Threads, CpuAssumption, Iret
  <1>1. /\ IsFiniteSet(Held(c)) /\ Cardinality(Held(c)) \in Nat
        /\ ncli[c] = 0 <=> Held(c) = {} /\ spin[c] = None
        /\ Own(c) = Held(c)
    BY HeldCount, Zenon
  <1>2. \A d \in CPUs : Held(d)' = Held(d)
    BY Zenon DEF Held
  <1>3. TypeOK'
    BY Zenon
  <1>4. RunOnce'
    BY Zenon DEF RunOnce
  <1>5. SchedulerQuiet'
    BY Zenon DEF SchedulerQuiet, RunOnce
  <1>6. Unborn'
    BY Zenon DEF Unborn, RunOnce
  <1>7. OnMeansFree'
    BY <1>1, Zenon DEF OnMeansFree
  <1>8. NothingUnder'
    BY Zenon DEF NothingUnder
  <1>9. NcliCounts'
    BY <1>2, Zenon DEF NcliCounts
  <1>10. NeverOwnLock'
    BY Zenon DEF NeverOwnLock
  <1>11. IntenaRight'
    BY <1>1 DEF IntenaRight, Keeps, Boot, RunOnce, SchedulerQuiet, OnMeansFree
  <1>12. ParkedRight'
    BY Zenon DEF ParkedRight, Keeps, Boot, RunOnce, IntenaRight, Unborn
  <1>13. BeforeFirst'
    BY <1>1, Zenon DEF BeforeFirst, NoneRan, Unborn, RunOnce
  <1> QED
    BY <1>3, <1>4, <1>5, <1>6, <1>7, <1>8, <1>9, <1>10, <1>11, <1>12, <1>13, Zenon

(* So does the end of forkret(). *)
LEMMA TrapretIInv ==
  ASSUME CpuAssumption, IInv, NEW c \in CPUs, Trapret(c)
  PROVE  IInv'
  <1> USE DEF IInv, TypeOK, Threads, CpuAssumption, Trapret
  <1>1. /\ IsFiniteSet(Held(c)) /\ Cardinality(Held(c)) \in Nat
        /\ ncli[c] = 0 <=> Held(c) = {} /\ spin[c] = None
        /\ Own(c) = Held(c)
    BY HeldCount, Zenon
  <1>2. \A d \in CPUs : Held(d)' = Held(d)
    BY Zenon DEF Held
  <1>3. TypeOK'
    BY Zenon
  <1>4. RunOnce'
    BY Zenon DEF RunOnce
  <1>5. SchedulerQuiet'
    BY Zenon DEF SchedulerQuiet, RunOnce
  <1>6. Unborn'
    BY DEF Unborn, RunOnce
  <1>7. OnMeansFree'
    BY <1>1, Zenon DEF OnMeansFree
  <1>8. NothingUnder'
    BY Zenon DEF NothingUnder
  <1>9. NcliCounts'
    BY <1>2, Zenon DEF NcliCounts
  <1>10. NeverOwnLock'
    BY Zenon DEF NeverOwnLock
  <1>11. IntenaRight'
    BY <1>1 DEF IntenaRight, Keeps, Boot, RunOnce, SchedulerQuiet, OnMeansFree
  <1>12. ParkedRight'
    BY DEF ParkedRight, Keeps, Boot, RunOnce, IntenaRight, Unborn
  <1>13. BeforeFirst'
    BY DEF BeforeFirst, NoneRan, Unborn
  <1> QED
    BY <1>3, <1>4, <1>5, <1>6, <1>7, <1>8, <1>9, <1>10, <1>11, <1>12, <1>13, Zenon

(* So does fork(). *)
LEMMA ForkIInv ==
  ASSUME CpuAssumption, IInv, NEW c \in CPUs, Fork(c)
  PROVE  IInv'
  <1> USE DEF IInv, TypeOK, Threads, CpuAssumption, Fork
  <1>1. \A d \in CPUs : Held(d)' = Held(d)
    BY Zenon DEF Held
  <1>2. TypeOK'
    BY Zenon
  <1>3. RunOnce'
    BY Zenon DEF RunOnce
  <1>4. SchedulerQuiet'
    BY Zenon DEF SchedulerQuiet, RunOnce
  <1>5. Unborn'
    BY DEF Unborn, RunOnce
  <1>6. OnMeansFree'
    BY Zenon DEF OnMeansFree
  <1>7. NothingUnder'
    BY Zenon DEF NothingUnder
  <1>8. NcliCounts'
    BY <1>1 DEF NcliCounts
  <1>9. NeverOwnLock'
    BY Zenon DEF NeverOwnLock
  <1>10. IntenaRight'
    BY DEF IntenaRight, Keeps, Boot, RunOnce, SchedulerQuiet, OnMeansFree
  <1>11. ParkedRight'
    BY DEF ParkedRight, Keeps, Boot, RunOnce, IntenaRight, Unborn
  <1>12. BeforeFirst'
    BY DEF BeforeFirst, NoneRan, Unborn
  <1> QED
    BY <1>2, <1>3, <1>4, <1>5, <1>6, <1>7, <1>8, <1>9, <1>10, <1>11, <1>12, Zenon

(* So does the switch from a process to the scheduler. *)
LEMMA SchedIInv ==
  ASSUME CpuAssumption, IInv, NEW c \in CPUs, Sched(c)
  PROVE  IInv'
  <1> USE DEF IInv, TypeOK, Threads, CpuAssumption, Sched
  <1>1. /\ IsFiniteSet(Held(c)) /\ Cardinality(Held(c)) \in Nat
        /\ ncli[c] = 0 <=> Held(c) = {} /\ spin[c] = None
        /\ Own(c) = Held(c)
    BY HeldCount, Zenon
  <1>2. \A d \in CPUs : Held(d)' = Held(d)
    BY Zenon DEF Held
  <1>3. TypeOK'
    BY Zenon
  <1>4. RunOnce'
    BY DEF RunOnce
  <1>5. SchedulerQuiet'
    BY Zenon DEF SchedulerQuiet, RunOnce
  <1>6. Unborn'
    BY DEF Unborn, RunOnce
  <1>7. OnMeansFree'
    BY Zenon DEF OnMeansFree
  <1>8. NothingUnder'
    BY Zenon DEF NothingUnder
  <1>9. NcliCounts'
    BY <1>2, Zenon DEF NcliCounts
  <1>10. NeverOwnLock'
    BY Zenon DEF NeverOwnLock
  <1>11. IntenaRight'
    BY DEF IntenaRight, Keeps, Boot, RunOnce, SchedulerQuiet, OnMeansFree
  <1>12. ParkedRight'
    BY <1>1 DEF ParkedRight, Keeps, Boot, RunOnce, IntenaRight, Unborn
  <1>13. BeforeFirst'
    BY Zenon DEF BeforeFirst, NoneRan, Unborn
  <1> QED
    BY <1>3, <1>4, <1>5, <1>6, <1>7, <1>8, <1>9, <1>10, <1>11, <1>12, <1>13, Zenon

(* So does sti() in the scheduler. *)
LEMMA StiIInv ==
  ASSUME CpuAssumption, IInv, NEW c \in CPUs, Sti(c)
  PROVE  IInv'
  <1> USE DEF IInv, TypeOK, Threads, CpuAssumption, Sti
  <1>1. /\ IsFiniteSet(Held(c)) /\ Cardinality(Held(c)) \in Nat
        /\ ncli[c] = 0 <=> Held(c) = {} /\ spin[c] = None
        /\ Own(c) = Held(c)
    BY HeldCount, Zenon
  <1>2. \A d \in CPUs : Held(d)' = Held(d)
    BY Zenon DEF Held
  <1>3. TypeOK'
    BY Zenon
  <1>4. RunOnce'
    BY Zenon DEF RunOnce
  <1>5. SchedulerQuiet'
    BY Zenon DEF SchedulerQuiet, RunOnce
  <1>6. Unborn'
    BY Zenon DEF Unborn, RunOnce
  <1>7. OnMeansFree'
    BY <1>1, Zenon DEF OnMeansFree
  <1>8. NothingUnder'
    BY Zenon DEF NothingUnder
  <1>9. NcliCounts'
    BY <1>2, Zenon DEF NcliCounts
  <1>10. NeverOwnLock'
    BY Zenon DEF NeverOwnLock
  <1>11. IntenaRight'
    BY DEF IntenaRight, Keeps, Boot, RunOnce, SchedulerQuiet, OnMeansFree
  <1>12. ParkedRight'
    BY Zenon DEF ParkedRight, Keeps, Boot, RunOnce, IntenaRight, Unborn
  <1>13. BeforeFirst'
    BY Zenon DEF BeforeFirst, NoneRan, Unborn
  <1> QED
    BY <1>3, <1>4, <1>5, <1>6, <1>7, <1>8, <1>9, <1>10, <1>11, <1>12, <1>13, Zenon

(* So does the switch from the scheduler to a process. *)
LEMMA DispatchIInv ==
  ASSUME CpuAssumption, IInv, NEW c \in CPUs, NEW p \in Procs, Dispatch(c, p)
  PROVE  IInv'
  <1> USE DEF IInv, TypeOK, Threads, CpuAssumption, Dispatch, Resume, Waiting
  <1>1. /\ IsFiniteSet(Held(c)) /\ Cardinality(Held(c)) \in Nat
        /\ ncli[c] = 0 <=> Held(c) = {} /\ spin[c] = None
        /\ Own(c) = Held(c)
    BY HeldCount, Zenon
  <1>2. \A d \in CPUs : Held(d)' = Held(d)
    BY Zenon DEF Held
  <1>3. ncli[c] # 0 /\ ~fl_if[c]
    BY <1>1, Zenon DEF Held, OnMeansFree
  <1>4. TypeOK'
    BY Zenon
  <1>5. RunOnce'
    BY DEF RunOnce
  <1>6. SchedulerQuiet'
    BY Zenon DEF SchedulerQuiet, RunOnce
  <1>7. Unborn'
    BY DEF Unborn, RunOnce
  <1>8. OnMeansFree'
    BY Zenon DEF OnMeansFree
  <1>9. NothingUnder'
    BY Zenon DEF NothingUnder
  <1>10. NcliCounts'
    BY <1>2 DEF NcliCounts
  <1>11. NeverOwnLock'
    BY Zenon DEF NeverOwnLock
  <1>12. IntenaRight'
    BY <1>1, <1>2, <1>3
    DEF IntenaRight, Keeps, Boot, RunOnce, SchedulerQuiet, ParkedRight, BeforeFirst,
        NoneRan, Unborn
  <1>13. ParkedRight'
    BY DEF ParkedRight, Keeps, Boot, RunOnce, IntenaRight, Unborn
  <1>14. BeforeFirst'
    BY DEF BeforeFirst, NoneRan, Unborn
  <1> QED
    BY <1>4, <1>5, <1>6, <1>7, <1>8, <1>9, <1>10, <1>11, <1>12, <1>13, <1>14, Zenon

(* Every step of every CPU keeps the invariant. *)
LEMMA NextIInv == ASSUME CpuAssumption, IInv, [Next]_vars PROVE IInv'
  <1>1. ASSUME NEW c \in CPUs, Step(c) PROVE IInv'
    BY <1>1, AcquireIInv, XchgIInv, ReleaseIInv, InterruptIInv, IretIInv, TrapretIInv, ZenonT(40),
       ForkIInv, SchedIInv, StiIInv, DispatchIInv
    DEF Step
  <1>2. CASE UNCHANGED vars
    BY <1>2
    DEF vars, IInv, TypeOK, RunOnce, SchedulerQuiet, Unborn, OnMeansFree, NothingUnder,
        NcliCounts, Held, NeverOwnLock, IntenaRight, ParkedRight, Keeps, Boot,
        BeforeFirst, NoneRan
  <1> QED
    BY <1>1, <1>2, Zenon DEF Next

(* The whole invariant holds in every reachable state. *)
THEOREM CpuInvariance == ASSUME CpuAssumption PROVE Spec => []IInv
  <1>1. Init => IInv
    BY InitIInv, Zenon
  <1>2. IInv /\ [Next]_vars => IInv'
    BY NextIInv, Zenon
  <1> QED
    BY <1>1, <1>2, PTL DEF Spec

(* acquire() never finds the lock held by its own CPU, so it never panics:     *)
(* pushcli() comes before the xchg and popcli() after the lock is free.        *)
THEOREM AcquireNeverPanics == ASSUME CpuAssumption PROVE Spec => []NeverOwnLock
  <1>1. IInv => NeverOwnLock
    BY Zenon DEF IInv
  <1> QED
    BY CpuInvariance, <1>1, PTL

(* ncli is the number of acquires without a release, so that sched() finds it  *)
(* 1 and popcli() never below 1.                                               *)
THEOREM NcliIsLockCount == ASSUME CpuAssumption PROVE Spec => []NcliCounts
  <1>1. IInv => NcliCounts
    BY Zenon DEF IInv
  <1> QED
    BY CpuInvariance, <1>1, PTL

(* A thread without locks has the interrupt flag it started with, although     *)
(* other threads changed cpu->intena while it was switched out in sched().     *)
THEOREM FlagRestored == ASSUME CpuAssumption PROVE Spec => []InterruptsRestored
  <1>1. IInv => InterruptsRestored
    BY Zenon DEF IInv, TypeOK, Threads, IntenaRight, Keeps, InterruptsRestored
  <1> QED
    BY CpuInvariance, <1>1, PTL

(* The first process has interrupts on when forkret() waits for the disk. *)
THEOREM FirstProcessInterruptible ==
  ASSUME CpuAssumption PROVE Spec => []FirstTakesInterrupts
  <1>1. IInv => FirstTakesInterrupts
    BY Zenon DEF IInv, TypeOK, Threads, IntenaRight, Keeps, FirstTakesInterrupts
  <1> QED
    BY CpuInvariance, <1>1, PTL
==============================================================================
