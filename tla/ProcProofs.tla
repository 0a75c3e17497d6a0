------------------------------ MODULE ProcProofs ------------------------------
(* Proofs about Proc for any number of slots, CPUs, channels and pages. *)
EXTENDS Proc, FiniteSetTheorems, TLAPS

(* Where the thread of p goes on once it has a CPU again. *)
Place(p) == IF pc[p] \in {"yield", "sleep"} THEN ret[p] ELSE pc[p]

Forking == {"allocproc", "copyuvm", "publish"}

NoThread == {"UNUSED", "EMBRYO"}

Alive == {"SLEEPING", "RUNNABLE", "RUNNING"}

(* What the state of a process says of the place its thread is at. *)
Threads ==
  \A s \in Slots :
    /\ state[s] \in NoThread <=> pc[s] = "none"
    /\ state[s] = "RUNNING" <=> pc[s] \in Interruptible \cup {"wait_loop"}
    /\ state[s] = "ZOMBIE" <=> pc[s] = "exit"
    /\ state[s] = "SLEEPING" => pc[s] \in {"sleep", "wait"}
    /\ pc[s] = "sleep" => ret[s] \in {"run", "closing"}
    /\ pc[s] \notin {"yield", "sleep"} => ret[s] = "run"

(* A process on a CPU is RUNNING, or about to leave it with ptable.lock held   *)
(* on that CPU; a RUNNING one is on a CPU.                                     *)
Running ==
  /\ \A c, d \in CPUs : cpuproc[c] = cpuproc[d] /\ cpuproc[c] # null => c = d
  /\ \A c \in CPUs : cpuproc[c] # null =>
       \/ state[cpuproc[c]] = "RUNNING"
       \/ lock = c /\ pc[cpuproc[c]] \in InSched
  /\ \A s \in Slots : state[s] = "RUNNING" => \E c \in CPUs : cpuproc[c] = s
  /\ \A c \in CPUs : cpuproc[c] # null /\ pc[cpuproc[c]] = "wait_loop" => lock = c

(* A fork() under way owns its EMBRYO slot. *)
Forks ==
  /\ \A p \in Slots : np[p] # null <=> Place(p) \in Forking
  /\ \A p \in Slots : np[p] # null => state[np[p]] = "EMBRYO"
  /\ \A p, q \in Slots : np[p] = np[q] /\ np[p] # null => p = q

(* Which slots have pages: those with a thread, and what fork() has got so far. *)
Owned ==
  \A s \in Slots :
    /\ kstack[s] <=> \/ state[s] \notin NoThread
                     \/ \E p \in Slots : np[p] = s /\ Place(p) \in {"copyuvm", "publish"}
    /\ pgdir[s] <=> \/ state[s] \notin NoThread
                    \/ \E p \in Slots : np[p] = s /\ Place(p) = "publish"

(* A parent is alive; fork() has set it before the child has a thread. *)
Families ==
  /\ \A s \in Slots : parent[s] # null => state[parent[s]] \in Alive
  /\ \A s \in Slots \ {initproc} : state[s] \notin NoThread => parent[s] # null
  /\ \A s \in Slots : state[s] = "UNUSED" => parent[s] = null
  /\ \A p \in Slots : Place(p) \in {"allocproc", "copyuvm"} => parent[np[p]] = null
  /\ \A p \in Slots : Place(p) = "publish" => parent[np[p]] = p
  /\ \A s \in Slots : parent[s] # s
  /\ state[initproc] \in Alive /\ Place(initproc) # "closing" /\ parent[initproc] = null

(* Whoever sleeps in wait() has a child, none that exited, and is not killed,  *)
(* also while a CPU has ptable.lock.                                           *)
Waiting ==
  \A p \in Slots : state[p] = "SLEEPING" /\ pc[p] = "wait" =>
    chan[p] = p /\ Zombies(p) = {} /\ ~NoPointWaiting(p)

(* How many slots have a page of this kind; with the free ones these are all. *)
Count(f) == Cardinality({s \in Slots : f[s]})

Counted == free + Count(kstack) + Count(pgdir) = NPAGES

IInv == TypeOK /\ Threads /\ Running /\ Forks /\ Owned /\ Families /\ Waiting /\ Counted

------------------------------------------------------------------------------
(* A set of slots that is not empty has a least one. *)
LEMMA Least == ASSUME NEW S \in SUBSET Slots, S # {} PROVE Min(S) \in S
  <1>1. S \subseteq Nat
    BY ProcAssumption DEF Slots
  <1>2. PICK x \in S : \A y \in S : ~ (<<y, x>> \in OpToRel(<, Nat))
    BY <1>1, NatLessThanWellFounded, WFMin, Zenon
  <1>3. ASSUME NEW y \in S, y < x PROVE <<y, x>> \in OpToRel(<, Nat)
    BY <1>1, <1>3, Zenon DEF OpToRel
  <1>4. \A y \in S : ~ (y < x)
    BY <1>2, <1>3, Zenon
  <1>5. \A y \in S : x <= y
    BY <1>1, <1>4
  <1> QED
    BY <1>5, Zenon DEF Min

(* Giving a page to a slot, and taking it back, changes the count by one. *)
LEMMA Given ==
  ASSUME NEW f \in [Slots -> BOOLEAN]
  PROVE  /\ Count(f) \in Nat
         /\ \A s \in Slots : ~f[s] => Count([f EXCEPT ![s] = TRUE]) = Count(f) + 1
         /\ \A s \in Slots : f[s] => Count([f EXCEPT ![s] = FALSE]) = Count(f) - 1
  <1> DEFINE T == {t \in Slots : f[t]}
  <1>1. IsFiniteSet(T) /\ Cardinality(T) \in Nat
    <2>1. IsFiniteSet(Slots)
      BY FS_Interval, ProcAssumption DEF Slots
    <2> QED
      BY <2>1, FS_Subset, FS_CardinalityType, Zenon
  <1>2. ASSUME NEW s \in Slots, ~f[s]
        PROVE  {t \in Slots : [f EXCEPT ![s] = TRUE][t]} = T \cup {s} /\ s \notin T
    BY <1>2, Zenon
  <1>3. ASSUME NEW s \in Slots, f[s]
        PROVE  {t \in Slots : [f EXCEPT ![s] = FALSE][t]} = T \ {s} /\ s \in T
    BY <1>3, Zenon
  <1> HIDE DEF T
  <1>4. ASSUME NEW s \in Slots, ~f[s]
        PROVE  Cardinality({t \in Slots : [f EXCEPT ![s] = TRUE][t]}) = Cardinality(T) + 1
    BY <1>1, <1>2, <1>4, FS_AddElement
  <1>5. ASSUME NEW s \in Slots, f[s]
        PROVE  Cardinality({t \in Slots : [f EXCEPT ![s] = FALSE][t]}) = Cardinality(T) - 1
    <2>1. Cardinality(T \ {s}) = Cardinality(T) - 1
      BY <1>1, <1>3, <1>5, FS_RemoveElement, Zenon
    <2> QED
      BY <1>3, <1>5, <2>1, Zenon
  <1> QED
    BY <1>1, <1>4, <1>5, Zenon DEF T, Count

(* userinit() leaves a table that is in order. *)
LEMMA InitIInv == Init => IInv
  <1> SUFFICES ASSUME Init PROVE IInv
    BY Zenon
  <1> USE ProcAssumption DEF Slots, null, initproc
  <1>1. TypeOK
    BY DEF Init, TypeOK, InSched, Interruptible
  <1>2. Threads
    BY Zenon DEF Init, Threads, NoThread, Interruptible
  <1>3. Running
    BY Zenon DEF Init, Running
  <1>4. Forks
    BY Zenon DEF Init, Forks, Place, Forking
  <1>5. Owned
    BY Zenon DEF Init, Owned, NoThread, Place
  <1>6. Families
    BY DEF Init, Families, Place, Alive, NoThread
  <1>7. Waiting
    BY Zenon DEF Init, Waiting
  <1>8. Counted
    <2> DEFINE stacks == {s \in Slots : kstack[s]}
               dirs == {s \in Slots : pgdir[s]}
    <2>1. \A s \in Slots : (kstack[s] <=> s = 1) /\ (pgdir[s] <=> s = 1)
      BY Zenon DEF Init
    <2>2. stacks = {1} /\ dirs = {1}
      BY <2>1
    <2>3. Cardinality({1}) = 1 /\ free = NPAGES - 2
      BY FS_Singleton, Zenon DEF Init
    <2> HIDE DEF stacks, dirs
    <2>4. free + Cardinality(stacks) + Cardinality(dirs) = NPAGES
      BY <2>2, <2>3
    <2> QED
      BY <2>4, Zenon DEF Counted, Count, stacks, dirs
  <1> QED
    BY <1>1, <1>2, <1>3, <1>4, <1>5, <1>6, <1>7, <1>8 DEF IInv

------------------------------------------------------------------------------
(* References into the table that are not null lead to slots. *)
LEMMA SlotFacts ==
  ASSUME TypeOK
  PROVE  /\ initproc \in Slots /\ null \notin Slots
         /\ \A c \in CPUs : cpuproc[c] # null => cpuproc[c] \in Slots
         /\ \A s \in Slots : parent[s] # null => parent[s] \in Slots
         /\ \A s \in Slots : np[s] # null => np[s] \in Slots
  <1>1. /\ initproc \in Slots /\ null \notin Slots
        /\ \A s \in 0..NPROC : s # null => s \in Slots
    BY ProcAssumption DEF Slots, null, initproc
  <1> QED
    BY <1>1, Zenon DEF TypeOK

(* What a thread has reached of fork() and exit(). *)
Stage(p) == IF Place(p) \in Forking \cup {"closing"} THEN Place(p) ELSE "other"

(* Steps that neither create nor end a process, nor move in fork(), keep what  *)
(* relates slots to each other.                                                *)
LEMMA FamiliesFrame ==
  ASSUME IInv, UNCHANGED <<np, kstack, pgdir, parent, free>>,
         \A p \in Slots : Stage(p)' = Stage(p),
         \A s \in Slots : state[s] \in NoThread \/ state'[s] \in NoThread => state'[s] = state[s],
         \A s \in Slots : state[s] \in Alive => state'[s] \in Alive
  PROVE  Forks' /\ Owned' /\ Families' /\ Counted'
  <1>1. /\ initproc \in Slots
        /\ \A s \in Slots : parent[s] # null => parent[s] \in Slots
        /\ \A s \in Slots : np[s] # null => np[s] \in Slots
    BY SlotFacts, Zenon DEF IInv
  <1>2. \A p \in Slots :
          /\ \A place \in Forking \cup {"closing"} : Place(p)' = place <=> Place(p) = place
          /\ Place(p)' \in Forking <=> Place(p) \in Forking
    BY Zenon DEF Stage, Forking
  <1>3. Forks'
    BY <1>1, <1>2, Zenon DEF IInv, Forks, NoThread, null
  <1>4. Owned'
    BY <1>2 DEF IInv, Owned, NoThread, Forking
  <1>5. Families'
    BY <1>1, <1>2 DEF IInv, Families, Forking, NoThread
  <1> QED
    BY <1>3, <1>4, <1>5, Zenon DEF IInv, Counted

(* A step that makes nobody sleep in wait(), kills nobody who does and leaves  *)
(* parents alone, except that children exit.                                   *)
LEMMA WaitingFrame ==
  ASSUME IInv, UNCHANGED <<parent, killed>>,
         \A s \in Slots : state'[s] = "ZOMBIE" => state[s] = "ZOMBIE",
         \A s \in Slots : state'[s] = "SLEEPING" /\ pc'[s] = "wait" =>
                            state[s] = "SLEEPING" /\ pc[s] = "wait" /\ chan'[s] = chan[s]
  PROVE  Waiting'
  BY ZenonT(40) DEF IInv, Waiting, Zombies, NoPointWaiting

------------------------------------------------------------------------------
(* Each step keeps the invariant. *)

(* The thread of p goes on at another place and keeps its stage: yield(),      *)
(* sleep(), and wait() when it starts, gives up or sleeps.                     *)
Move(c, p) ==
  \/ /\ pc[p] \in Interruptible /\ pc'[p] = "yield" /\ ret'[p] = pc[p]
     /\ state'[p] = "RUNNABLE" /\ chan'[p] = chan[p] /\ lock = NoCPU /\ lock' = c
  \/ /\ pc[p] \in {"run", "closing"} /\ pc'[p] = "sleep" /\ ret'[p] = pc[p]
     /\ state'[p] = "SLEEPING" /\ chan'[p] \in Chans /\ lock = NoCPU /\ lock' = c
  \/ /\ pc[p] = "run" /\ pc'[p] = "wait_loop" /\ ret'[p] = ret[p]
     /\ state'[p] = "RUNNING" /\ chan'[p] = chan[p] /\ lock = NoCPU /\ lock' = c
  \/ /\ pc[p] = "wait_loop" /\ pc'[p] = "run" /\ ret'[p] = ret[p]
     /\ state'[p] = "RUNNING" /\ chan'[p] = chan[p] /\ lock = c /\ lock' = NoCPU
  \/ /\ pc[p] = "wait_loop" /\ pc'[p] = "wait" /\ ret'[p] = ret[p]
     /\ state'[p] = "SLEEPING" /\ chan'[p] = p /\ lock = c /\ lock' = c
     /\ Zombies(p) = {} /\ ~NoPointWaiting(p)

Moves(c, p) ==
  /\ state' = [state EXCEPT ![p] = state'[p]]
  /\ pc' = [pc EXCEPT ![p] = pc'[p]]
  /\ ret' = [ret EXCEPT ![p] = ret'[p]]
  /\ chan' = [chan EXCEPT ![p] = chan'[p]]
  /\ UNCHANGED <<pid, parent, killed, kstack, pgdir, nextpid, free, cpuproc, scan, np>>
  /\ Move(c, p)

(* Such a step keeps the invariant. *)
LEMMA MovesIInv ==
  ASSUME IInv, NEW c \in CPUs, NEW p \in Slots, p = cpuproc[c], state[p] = "RUNNING", Moves(c, p)
  PROVE  IInv'
  <1>1. p # null /\ NoCPU \notin CPUs
    BY SlotFacts, ProcAssumption, Zenon DEF IInv
  <1>2. TypeOK'
    <2>1. /\ state'[p] \in {"UNUSED", "EMBRYO", "SLEEPING", "RUNNABLE", "RUNNING", "ZOMBIE"}
          /\ pc'[p] \in InSched \cup {"run", "wait_loop"} /\ ret'[p] \in Interruptible
          /\ chan'[p] \in Chans \cup 0..NPROC /\ lock' \in CPUs \cup {NoCPU}
      BY DEF IInv, TypeOK, Moves, Move, InSched, Interruptible, Slots
    <2> QED
      BY <2>1 DEF IInv, TypeOK, Moves
  <1>3. \A q \in Slots \ {p} : /\ state'[q] = state[q] /\ pc'[q] = pc[q]
                              /\ ret'[q] = ret[q] /\ chan'[q] = chan[q]
    BY Zenon DEF IInv, TypeOK, Moves
  <1>4. Threads'
    BY <1>3, SMTT(30) DEF IInv, Threads, Moves, Move, NoThread, Interruptible
  <1>5. Running'
    BY <1>1, <1>3, <1>4, SlotFacts, SMTT(30)
    DEF IInv, Threads, Running, Moves, Move, InSched, Interruptible
  <1>6. \A q \in Slots : Stage(q)' = Stage(q)
    BY <1>3 DEF IInv, Stage, Place, Moves, Move, Interruptible, Forking
  <1>7. Forks' /\ Owned' /\ Families' /\ Counted'
    BY <1>3, <1>6, FamiliesFrame, Zenon DEF Moves, Move, NoThread, Alive
  <1>8. Waiting'
    BY <1>3 DEF IInv, Waiting, Zombies, NoPointWaiting, Moves, Move
  <1> QED
    BY <1>2, <1>4, <1>5, <1>7, <1>8, Zenon DEF IInv

(* yield() *)
LEMMA YieldIInv == ASSUME IInv, NEW c \in CPUs, Yield(c) PROVE IInv'
  <1> DEFINE p == cpuproc[c]
  <1>1. p \in Slots /\ state[p] = "RUNNING"
    BY SlotFacts, ProcAssumption, Zenon DEF IInv, Yield, Running
  <1>2. Moves(c, p)
    BY <1>1, Zenon DEF IInv, TypeOK, Yield, Goto, Moves, Move
  <1> QED
    BY <1>1, <1>2, MovesIInv, Zenon

(* sleep() *)
LEMMA SleepIInv ==
  ASSUME IInv, NEW c \in CPUs, NEW ch \in Chans, Sleep(c, ch)
  PROVE  IInv'
  <1> DEFINE p == cpuproc[c]
  <1>1. p \in Slots /\ state[p] = "RUNNING" /\ pc[p] \in {"run", "closing"}
    BY SlotFacts, ProcAssumption, Zenon DEF IInv, Sleep, Running, At
  <1>2. Moves(c, p)
    BY <1>1, Zenon DEF IInv, TypeOK, Sleep, Goto, Moves, Move
  <1> QED
    BY <1>1, <1>2, MovesIInv, Zenon

(* wait(): it starts, returns -1, or sleeps *)
LEMMA WaitIInv ==
  ASSUME IInv, NEW c \in CPUs, WaitStart(c) \/ WaitFails(c) \/ WaitSleeps(c)
  PROVE  IInv'
  <1> DEFINE p == cpuproc[c]
  <1>1. /\ p \in Slots /\ state[p] = "RUNNING"
        /\ pc[p] = "wait_loop" => lock = c
    BY SlotFacts, Zenon
       DEF IInv, WaitStart, WaitFails, WaitSleeps, At, Running, Threads, Interruptible
  <1>2. Moves(c, p)
    BY <1>1 DEF IInv, TypeOK, WaitStart, WaitFails, WaitSleeps, At, Goto, Moves, Move, table
  <1> QED
    BY <1>1, <1>2, MovesIInv, Zenon

(* wait() frees an exited child *)
LEMMA WaitReapIInv == ASSUME IInv, NEW c \in CPUs, WaitReap(c) PROVE IInv'
  <1> DEFINE p == cpuproc[c]
             s == Min(Zombies(p))
  <1>1. /\ p \in Slots /\ p # null /\ pc[p] = "wait_loop" /\ lock = c /\ state[p] = "RUNNING"
        /\ NoCPU \notin CPUs
    BY SlotFacts, ProcAssumption, Zenon DEF IInv, WaitReap, At, Running, Threads
  <1>2. /\ s \in Slots /\ parent[s] = p /\ state[s] = "ZOMBIE"
    BY Least, Zenon DEF WaitReap, Zombies
  <1>3. /\ kstack' = [kstack EXCEPT ![s] = FALSE]
        /\ pgdir' = [pgdir EXCEPT ![s] = FALSE]
        /\ free' = free + 2
        /\ pid' = [pid EXCEPT ![s] = 0]
        /\ parent' = [parent EXCEPT ![s] = null]
        /\ killed' = [killed EXCEPT ![s] = NotKilled]
        /\ state' = [state EXCEPT ![s] = "UNUSED"]
        /\ pc' = [pc EXCEPT ![s] = "none", ![p] = "run"]
        /\ lock' = NoCPU
        /\ UNCHANGED <<chan, nextpid, cpuproc, scan, ret, np>>
    BY Zenon DEF WaitReap
  <1> HIDE DEF p, s
  <1>4. /\ s # p /\ s # initproc /\ pc[s] = "exit" /\ Place(s) = "exit" /\ np[s] = null
        /\ Place(p) = "wait_loop"
    BY <1>1, <1>2, Zenon DEF IInv, Threads, Place, Forks, Forking, Families, Alive
  <1>5. \A q \in Slots :
          /\ Place(q)' = IF q = p THEN "run" ELSE IF q = s THEN "none" ELSE Place(q)
          /\ np[q] # s
    BY <1>1, <1>2, <1>3, <1>4, SlotFacts DEF IInv, TypeOK, Place, Forks
  <1>6. /\ \A t \in Slots : state'[t] = IF t = s THEN "UNUSED" ELSE state[t]
        /\ \A t \in Slots : parent'[t] = IF t = s THEN null ELSE parent[t]
        /\ \A t \in Slots : parent[t] # s
    BY <1>2, <1>3, SlotFacts DEF IInv, TypeOK, Families, Alive
  <1>7. kstack[s] /\ pgdir[s]
    BY <1>2, Zenon DEF IInv, Owned, NoThread
  <1>8. Counted' /\ free' \in 0..NPAGES
    <2>1. kstack \in [Slots -> BOOLEAN] /\ pgdir \in [Slots -> BOOLEAN]
          /\ kstack' \in [Slots -> BOOLEAN] /\ pgdir' \in [Slots -> BOOLEAN]
      BY <1>3, Zenon DEF IInv, TypeOK
    <2>2. Count(kstack') \in Nat /\ Count(pgdir') \in Nat /\ Count(kstack) \in Nat
          /\ Count(pgdir) \in Nat /\ free \in Nat
          /\ free + Count(kstack) + Count(pgdir) = NPAGES
      BY <2>1, Given, ProcAssumption DEF IInv, TypeOK, Counted
    <2>3. Count(kstack') = Count(kstack) - 1
      BY <1>2, <1>3, <1>7, <2>1, Given, Zenon
    <2>4. Count(pgdir') = Count(pgdir) - 1
      BY <1>2, <1>3, <1>7, <2>1, Given, Zenon
    <2> QED
      BY <1>3, <2>2, <2>3, <2>4, ProcAssumption DEF Counted
  <1>9. TypeOK'
    <2>1. null \in 0..NPROC /\ 0 \in 0..MaxPid
      BY ProcAssumption DEF null
    <2> QED
      BY <1>3, <1>8, <2>1, Zenon DEF IInv, TypeOK
  <1>10. Threads'
    BY <1>1, <1>2, <1>3, <1>4 DEF IInv, TypeOK, Threads, NoThread, Interruptible
  <1>11. Running'
    <2>1. \A d \in CPUs : cpuproc[d] # s
      BY <1>1, <1>2, <1>4, SlotFacts, Zenon DEF IInv, Running, p
    <2>2. \A d \in CPUs : cpuproc[d] # null =>
            /\ cpuproc[d] \in Slots \ {s} /\ state[cpuproc[d]] = "RUNNING"
            /\ d # c => cpuproc[d] # p /\ pc[cpuproc[d]] # "wait_loop"
      BY <1>1, <2>1, SlotFacts, Zenon DEF IInv, Running, p
    <2>3. \A t \in Slots \ {s} : /\ t # p => pc'[t] = pc[t]
                                 /\ state'[t] = state[t]
      BY <1>3, Zenon DEF IInv, TypeOK
    <2>4. pc'[p] = "run" /\ cpuproc[c] = p
      BY <1>1, <1>3, <1>4, Zenon DEF IInv, TypeOK, p
    <2>5. \A d \in CPUs : cpuproc[d] # null =>
            state'[cpuproc[d]] = "RUNNING" /\ pc'[cpuproc[d]] # "wait_loop"
      BY <2>2, <2>3, <2>4, Zenon
    <2>6. \A t \in Slots : state'[t] = "RUNNING" => state[t] = "RUNNING"
      BY <1>6, Zenon
    <2> QED
      BY <1>3, <2>5, <2>6, Zenon DEF IInv, Running
  <1>12. Forks'
    BY <1>1, <1>2, <1>3, <1>4, <1>5, <1>6, SlotFacts, SMTT(30) DEF IInv, Forks, Forking
  <1>13. Owned'
    <2>1. \A t \in Slots \ {s} : (kstack'[t] <=> kstack[t]) /\ (pgdir'[t] <=> pgdir[t])
      BY <1>3, Zenon DEF IInv, TypeOK
    <2>2. ~kstack'[s] /\ ~pgdir'[s]
      BY <1>2, <1>3, Zenon DEF IInv, TypeOK
    <2>3. \A q \in Slots : \A place \in {"copyuvm", "publish"} : Place(q)' = place <=> Place(q) = place
      BY <1>4, <1>5, Zenon
    <2> QED
      BY <1>3, <1>5, <1>6, <2>1, <2>2, <2>3 DEF IInv, Owned, NoThread
  <1>14. Families'
    BY <1>1, <1>2, <1>3, <1>4, <1>5, <1>6, SlotFacts, SMTT(30)
       DEF IInv, Families, NoThread, Alive, Forks, Forking
  <1>15. Waiting'
    <2>1. \A q \in Slots : state'[q] = "SLEEPING" /\ pc'[q] = "wait" =>
            state[q] = "SLEEPING" /\ pc[q] = "wait" /\ q # p /\ q # s /\ killed'[q] = killed[q]
      BY <1>1, <1>2, <1>3, Zenon DEF IInv, TypeOK
    <2> QED
      BY <1>2, <1>3, <1>6, <2>1, SlotFacts DEF IInv, Waiting, Zombies, NoPointWaiting
  <1> QED
    BY <1>8, <1>9, <1>10, <1>11, <1>12, <1>13, <1>14, <1>15 DEF IInv

(* exit() ends *)
LEMMA ExitIInv == ASSUME IInv, NEW c \in CPUs, Exit(c) PROVE IInv'
  <1> DEFINE p == cpuproc[c]
             orphan == \E k \in Slots : parent[k] = p /\ state[k] = "ZOMBIE"
  <1>1. /\ p \in Slots /\ p # null /\ pc[p] = "closing" /\ state[p] = "RUNNING"
        /\ lock = NoCPU /\ NoCPU \notin CPUs
    BY SlotFacts, ProcAssumption, Zenon DEF IInv, Exit, At, Running
  <1>2. /\ lock' = c
        /\ pc' = [pc EXCEPT ![p] = "exit"]
        /\ parent' = [s \in Slots |-> IF parent[s] = p THEN initproc ELSE parent[s]]
        /\ UNCHANGED <<pid, chan, killed, kstack, pgdir, nextpid, free, cpuproc, scan, ret, np>>
    BY Zenon DEF Exit, Goto
  <1>3. /\ \A s \in Slots :
             state'[s] = IF s = p THEN "ZOMBIE"
                         ELSE IF state[s] = "SLEEPING"
                                 /\ (chan[s] = parent[p] \/ (orphan /\ chan[s] = initproc))
                         THEN "RUNNABLE" ELSE state[s]
        /\ state' \in [Slots -> {"UNUSED", "EMBRYO", "SLEEPING", "RUNNABLE", "RUNNING", "ZOMBIE"}]
    <2> DEFINE woken == Wakeup1(state, parent[p])
               all == Wakeup1(woken, initproc)
    <2>1. state' = [(IF orphan THEN all ELSE woken) EXCEPT ![p] = "ZOMBIE"]
      BY Zenon DEF Exit
    <2>2. /\ woken \in [Slots -> {"UNUSED", "EMBRYO", "SLEEPING", "RUNNABLE", "RUNNING", "ZOMBIE"}]
          /\ \A s \in Slots : woken[s] = IF state[s] = "SLEEPING" /\ chan[s] = parent[p]
                                         THEN "RUNNABLE" ELSE state[s]
      BY Zenon DEF IInv, TypeOK, Wakeup1
    <2> HIDE DEF woken
    <2>3. /\ all \in [Slots -> {"UNUSED", "EMBRYO", "SLEEPING", "RUNNABLE", "RUNNING", "ZOMBIE"}]
          /\ \A s \in Slots : all[s] = IF woken[s] = "SLEEPING" /\ chan[s] = initproc
                                       THEN "RUNNABLE" ELSE woken[s]
      BY <2>2, Zenon DEF Wakeup1
    <2> HIDE DEF all, orphan, p
    <2> QED
      BY <1>1, <2>1, <2>2, <2>3, Zenon
  <1>4. \A s \in Slots : parent[s] = p /\ state[s] = "ZOMBIE" => orphan
    BY Zenon
  <1> HIDE DEF p, orphan
  <1>5. p # initproc /\ Place(p) = "closing" /\ np[p] = null
    BY <1>1, Zenon DEF IInv, Families, Place, Forks, Forking
  <1>6. \A q \in Slots : Place(q)' = IF q = p THEN "exit" ELSE Place(q)
    BY <1>1, <1>2, Zenon DEF IInv, TypeOK, Place
  <1>7. parent[p] # null /\ parent[p] # p /\ parent[p] \in Slots
    BY <1>1, <1>5, SlotFacts, Zenon DEF IInv, Families, NoThread
  <1>8. TypeOK'
    <2>1. initproc \in 0..NPROC
      BY ProcAssumption DEF initproc
    <2> QED
      BY <1>2, <1>3, <2>1, Zenon DEF IInv, TypeOK, InSched
  <1>9. Threads'
    BY <1>1, <1>2, <1>3 DEF IInv, TypeOK, Threads, NoThread, Interruptible
  <1>10. Running'
    <2>1. \A d \in CPUs \ {c} : cpuproc[d] # null => cpuproc[d] \in Slots \ {p}
      BY <1>1, SlotFacts, Zenon DEF IInv, Running, p
    <2>2. \A s \in Slots : state'[s] = "RUNNING" => state[s] = "RUNNING"
      BY <1>3, Zenon
    <2>3. \A s \in Slots \ {p} : pc'[s] = pc[s] /\ (state[s] = "RUNNING" => state'[s] = "RUNNING")
      BY <1>2, <1>3, Zenon DEF IInv, TypeOK
    <2>4. pc'[p] = "exit" /\ p = cpuproc[c]
      BY <1>1, <1>2, Zenon DEF IInv, TypeOK, p
    <2>5. \A d \in CPUs \ {c} : cpuproc[d] # null =>
            state'[cpuproc[d]] = "RUNNING" /\ pc'[cpuproc[d]] # "wait_loop"
      BY <1>1, <2>1, <2>3, Zenon DEF IInv, Running
    <2> QED
      BY <1>2, <2>2, <2>4, <2>5 DEF IInv, Running, InSched
  <1>11. Forks'
    BY <1>1, <1>2, <1>3, <1>5, <1>6, SlotFacts DEF IInv, Forks, Forking
  <1>12. Owned'
    <2>1. \A s \in Slots : state'[s] \in NoThread <=> state[s] \in NoThread
      BY <1>1, <1>3, Zenon DEF NoThread
    <2>2. \A q \in Slots : \A place \in {"copyuvm", "publish"} : Place(q)' = place <=> Place(q) = place
      BY <1>5, <1>6, Zenon
    <2> QED
      BY <1>2, <2>1, <2>2, ZenonT(40) DEF IInv, Owned
  <1>13. Families'
    <2>1. \A s \in Slots : parent'[s] = IF parent[s] = p THEN initproc ELSE parent[s]
      BY <1>2, Zenon
    <2>2. \A s \in Slots \ {p} : state[s] \in Alive => state'[s] \in Alive
      BY <1>3, Zenon DEF Alive
    <2>3. \A s \in Slots : /\ state'[s] \in NoThread => state'[s] = state[s]
                           /\ state[s] \in NoThread => state'[s] = state[s]
      BY <1>1, <1>3, Zenon DEF NoThread
    <2>4. /\ \A s \in Slots : parent[s] # null => state[parent[s]] \in Alive /\ parent[s] \in Slots
          /\ \A s \in Slots : parent[s] # s
          /\ state[initproc] \in Alive /\ parent[initproc] = null /\ initproc \in Slots
      BY SlotFacts, Zenon DEF IInv, Families
    <2>5. \A s \in Slots : parent'[s] # null => state'[parent'[s]] \in Alive
      BY <1>5, <2>1, <2>2, <2>4, Zenon
    <2>6. \A s \in Slots : parent'[s] # s
      BY <1>1, <2>1, <2>4, Zenon
    <2>7. \A q \in Slots : /\ Place(q) \in Forking => np[q] \in Slots
                           /\ Place(q) \in {"allocproc", "copyuvm"} => parent[np[q]] = null
                           /\ Place(q) = "publish" => parent[np[q]] = q
      BY SlotFacts, Zenon DEF IInv, Families, Forks
    <2>8. \A q \in Slots : /\ Place(q)' \in {"allocproc", "copyuvm"} => parent'[np'[q]] = null
                           /\ Place(q)' = "publish" => parent'[np'[q]] = q
      BY <1>1, <1>2, <1>5, <1>6, <2>1, <2>7, Zenon DEF Forking
    <2> QED
      BY <1>1, <1>2, <1>5, <1>6, <2>1, <2>2, <2>3, <2>5, <2>6, <2>8, SlotFacts, SMTT(30)
         DEF IInv, Families, NoThread
  <1>14. Waiting'
    <2> SUFFICES ASSUME NEW q \in Slots, state'[q] = "SLEEPING", pc'[q] = "wait"
                 PROVE  chan'[q] = q /\ Zombies(q)' = {} /\ ~NoPointWaiting(q)'
      BY Zenon DEF Waiting
    <2>1. /\ q # p /\ state[q] = "SLEEPING" /\ pc[q] = "wait"
          /\ chan[q] # parent[p] /\ ~(orphan /\ chan[q] = initproc)
      BY <1>1, <1>2, <1>3, Zenon DEF IInv, TypeOK
    <2>2. chan[q] = q /\ Zombies(q) = {} /\ ~NoPointWaiting(q)
      BY <2>1, Zenon DEF IInv, Waiting
    <2>3. \A s \in Slots : parent'[s] = q /\ state'[s] = "ZOMBIE" => FALSE
      BY <1>2, <1>3, <1>4, <1>7, <2>1, <2>2, Zenon DEF Zombies
    <2> QED
      BY <1>2, <2>1, <2>2, <2>3, Zenon DEF Zombies, NoPointWaiting
  <1> QED
    BY <1>2, <1>8, <1>9, <1>10, <1>11, <1>12, <1>13, <1>14, Zenon DEF IInv, Counted

(* fork() fails: allocproc() found no page, or copyuvm() did not. *)
LEMMA ForkFailsIInv ==
  ASSUME IInv, NEW p \in Slots, state[p] = "RUNNING", ForkFails(p),
         pc[p] \in {"allocproc", "copyuvm"},
         UNCHANGED chan,
         kstack' = [kstack EXCEPT ![np[p]] = FALSE],
         free' = IF pc[p] = "copyuvm" THEN free + 1 ELSE free
  PROVE  IInv'
  <1> DEFINE s == np[p]
  <1>1. Place(p) = pc[p]
    BY Zenon DEF Place
  <1>2. /\ s \in Slots /\ s # null /\ s # p /\ state[s] = "EMBRYO" /\ pc[s] = "none"
    BY <1>1, SlotFacts, Zenon DEF IInv, Forks, Forking, Threads, NoThread
  <1>3. /\ state' = [state EXCEPT ![s] = "UNUSED"]
        /\ pc' = [pc EXCEPT ![p] = "run"]
        /\ np' = [np EXCEPT ![p] = null]
        /\ UNCHANGED <<pid, parent, killed, pgdir, nextpid, lock, cpuproc, scan, ret>>
    BY Zenon DEF ForkFails, Goto
  <1>4. kstack' = [kstack EXCEPT ![s] = FALSE]
    BY Zenon
  <1> HIDE DEF s
  <1>5. \A q \in Slots : /\ Place(q)' = IF q = p THEN "run" ELSE Place(q)
                         /\ np'[q] = IF q = p THEN null ELSE np[q]
                         /\ np[q] = s <=> q = p
    BY <1>2, <1>3, Zenon DEF IInv, TypeOK, Place, Forks, s
  <1>6. \A t \in Slots : state'[t] = IF t = s THEN "UNUSED" ELSE state[t]
    BY <1>2, <1>3, Zenon DEF IInv, TypeOK
  <1>7. kstack[s] <=> pc[p] = "copyuvm"
    BY <1>1, <1>2, <1>5 DEF IInv, Owned, NoThread
  <1>8. /\ Counted'
        /\ free' \in 0..NPAGES
    <2>1. Count(kstack) \in Nat /\ Count(pgdir) \in Nat /\ free \in Nat
          /\ free + Count(kstack) + Count(pgdir) = NPAGES
      BY Given, ProcAssumption DEF IInv, TypeOK, Counted
    <2>2. kstack' \in [Slots -> BOOLEAN] /\ Count(kstack') \in Nat
      <3>1. kstack' \in [Slots -> BOOLEAN]
        BY <1>4, Zenon DEF IInv, TypeOK
      <3> QED
        BY <3>1, Given, Zenon
    <2>3. Count(kstack') = IF pc[p] = "copyuvm" THEN Count(kstack) - 1 ELSE Count(kstack)
      <3>1. CASE kstack[s]
        <4>1. kstack \in [Slots -> BOOLEAN]
          BY Zenon DEF IInv, TypeOK
        <4>2. Count(kstack') = Count(kstack) - 1
          BY <1>2, <1>4, <3>1, <4>1, Given, Zenon
        <4> QED
          BY <1>7, <3>1, <4>2, Zenon
      <3>2. CASE ~kstack[s]
        <4>1. kstack' = kstack
          BY <1>2, <1>4, <3>2 DEF IInv, TypeOK
        <4> QED
          BY <1>7, <3>2, <4>1, Zenon
      <3> QED
        BY <3>1, <3>2, Zenon
    <2> QED
      BY <1>3, <2>1, <2>2, <2>3, ProcAssumption DEF Counted
  <1>9. TypeOK'
    <2>1. null \in 0..NPROC
      BY ProcAssumption DEF null
    <2> QED
      BY <1>3, <1>4, <1>8, <2>1, Zenon DEF IInv, TypeOK
  <1>10. Threads'
    BY <1>2, <1>3, SMTT(30) DEF IInv, TypeOK, Threads, NoThread, Interruptible
  <1>11. Running'
    <2>1. \A d \in CPUs : cpuproc[d] # s
      BY <1>2, Zenon DEF IInv, Running, InSched
    <2> QED
      BY <1>2, <1>3, <2>1, SlotFacts DEF IInv, TypeOK, Running, InSched
  <1>12. Forks'
    BY <1>2, <1>5, <1>6, SlotFacts, SMTT(30) DEF IInv, Forks, Forking
  <1>13. Owned'
    <2>1. \A t \in Slots \ {s} : (kstack'[t] <=> kstack[t]) /\ (pgdir'[t] <=> pgdir[t])
      BY <1>3, <1>4, Zenon DEF IInv, TypeOK
    <2>2. ~kstack'[s] /\ ~pgdir'[s]
      BY <1>1, <1>2, <1>3, <1>4, <1>5, SMTT(30) DEF IInv, TypeOK, Owned, NoThread
    <2>3. \A q \in Slots, t \in Slots \ {s} : \A place \in {"copyuvm", "publish"} :
            np'[q] = t /\ Place(q)' = place <=> np[q] = t /\ Place(q) = place
      BY <1>2, <1>5, SlotFacts, Zenon DEF IInv
    <2>4. \A q \in Slots : np'[q] # s
      BY <1>2, <1>5, Zenon
    <2> QED
      BY <1>2, <1>6, <2>1, <2>2, <2>3, <2>4 DEF IInv, Owned, NoThread
  <1>14. Families'
    <2>1. parent[s] = null
      BY <1>1, Zenon DEF IInv, Families, s
    <2> QED
      BY <1>2, <1>3, <1>5, <1>6, <2>1, SlotFacts DEF IInv, Families, NoThread, Alive
  <1>15. Waiting'
    BY <1>2, <1>3, WaitingFrame, Zenon DEF IInv, TypeOK
  <1> QED
    BY <1>8, <1>9, <1>10, <1>11, <1>12, <1>13, <1>14, <1>15 DEF IInv

(* fork() gets the next page *)
LEMMA ForkGoesOnIInv ==
  ASSUME IInv, NEW p \in Slots, state[p] = "RUNNING", free > 0,
         free' = free - 1,
         UNCHANGED <<state, pid, chan, killed, nextpid, lock, cpuproc, scan, ret, np>>,
         \/ /\ pc[p] = "allocproc" /\ Goto(p, "copyuvm")
            /\ kstack' = [kstack EXCEPT ![np[p]] = TRUE]
            /\ UNCHANGED <<pgdir, parent>>
         \/ /\ pc[p] = "copyuvm" /\ Goto(p, "publish")
            /\ pgdir' = [pgdir EXCEPT ![np[p]] = TRUE]
            /\ parent' = [parent EXCEPT ![np[p]] = p]
            /\ UNCHANGED kstack
  PROVE  IInv'
  <1> DEFINE s == np[p]
             next == IF pc[p] = "allocproc" THEN "copyuvm" ELSE "publish"
  <1>1. Place(p) = pc[p] /\ pc[p] \in {"allocproc", "copyuvm"}
    BY Zenon DEF Place
  <1>2. /\ s \in Slots /\ s # null /\ s # p /\ state[s] = "EMBRYO"
    BY <1>1, SlotFacts, Zenon DEF IInv, Forks, Forking
  <1>3. /\ pc' = [pc EXCEPT ![p] = next]
        /\ kstack' = IF pc[p] = "allocproc" THEN [kstack EXCEPT ![s] = TRUE] ELSE kstack
        /\ pgdir' = IF pc[p] = "copyuvm" THEN [pgdir EXCEPT ![s] = TRUE] ELSE pgdir
        /\ parent' = IF pc[p] = "copyuvm" THEN [parent EXCEPT ![s] = p] ELSE parent
    BY Zenon DEF Goto
  <1>4. next \in {"copyuvm", "publish"} /\ (next = "publish" <=> pc[p] = "copyuvm")
    BY <1>1, Zenon
  <1> HIDE DEF s, next
  <1>5. \A q \in Slots : /\ Place(q)' = IF q = p THEN next ELSE Place(q)
                         /\ np[q] = s <=> q = p
    BY <1>1, <1>2, <1>3, <1>4, Zenon DEF IInv, TypeOK, Place, Forks, s
  <1>6. ~pgdir[s] /\ (kstack[s] <=> pc[p] = "copyuvm")
    BY <1>1, <1>2, <1>5 DEF IInv, Owned, NoThread
  <1>7. TypeOK'
    <2>1. p \in 0..NPROC /\ free - 1 \in 0..NPAGES
      BY ProcAssumption DEF IInv, TypeOK, Slots
    <2> QED
      BY <1>3, <1>4, <2>1, Zenon DEF IInv, TypeOK
  <1>8. Counted'
    <2>1. Count(kstack) \in Nat /\ Count(pgdir) \in Nat /\ free \in Nat
          /\ free + Count(kstack) + Count(pgdir) = NPAGES
      BY Given, ProcAssumption DEF IInv, TypeOK, Counted
    <2>2. kstack \in [Slots -> BOOLEAN] /\ pgdir \in [Slots -> BOOLEAN]
      BY Zenon DEF IInv, TypeOK
    <2>3. CASE pc[p] = "allocproc"
      <3>1. Count(kstack') = Count(kstack) + 1
        <4>1. ~kstack[s] /\ kstack' = [kstack EXCEPT ![s] = TRUE]
          BY <1>3, <1>6, <2>3, Zenon
        <4> QED
          BY <1>2, <2>2, <4>1, Given, Zenon
      <3>2. pgdir' = pgdir
        BY <1>3, <2>3, Zenon
      <3> QED
        BY <2>1, <3>1, <3>2 DEF Counted
    <2>4. CASE pc[p] = "copyuvm"
      <3>1. Count(pgdir') = Count(pgdir) + 1
        <4>1. ~pgdir[s] /\ pgdir' = [pgdir EXCEPT ![s] = TRUE]
          BY <1>3, <1>6, <2>4, Zenon
        <4> QED
          BY <1>2, <2>2, <4>1, Given, Zenon
      <3>2. kstack' = kstack
        BY <1>3, <2>4, Zenon
      <3> QED
        BY <2>1, <3>1, <3>2 DEF Counted
    <2> QED
      BY <1>1, <2>3, <2>4, Zenon
  <1>9. Threads'
    BY <1>2, <1>3, <1>4, SMTT(30) DEF IInv, TypeOK, Threads, NoThread, Interruptible
  <1>10. Running'
    BY <1>2, <1>3, <1>4, SlotFacts, SMTT(30) DEF IInv, TypeOK, Running, InSched
  <1>11. Forks'
    BY <1>1, <1>2, <1>4, <1>5, SlotFacts, SMTT(30) DEF IInv, Forks, Forking
  <1>12. Owned'
    <2>1. \A t \in Slots \ {s} : (kstack'[t] <=> kstack[t]) /\ (pgdir'[t] <=> pgdir[t])
      BY <1>3, Zenon DEF IInv, TypeOK
    <2>2. kstack'[s] /\ (pgdir'[s] <=> next = "publish")
      BY <1>1, <1>2, <1>3, <1>4, <1>6, Zenon DEF IInv, TypeOK
    <2>3. \A q \in Slots, t \in Slots \ {s} : \A place \in {"copyuvm", "publish"} :
            np'[q] = t /\ Place(q)' = place <=> np[q] = t /\ Place(q) = place
      BY <1>2, <1>5, Zenon
    <2>4. \A q \in Slots : np'[q] = s <=> q = p
      BY <1>5, ZenonT(40)
    <2> QED
      BY <1>2, <1>4, <1>5, <2>1, <2>2, <2>3, <2>4 DEF IInv, Owned, NoThread
  <1>13. Families'
    <2>1. \A t \in Slots : parent'[t] = IF t = s /\ pc[p] = "copyuvm" THEN p ELSE parent[t]
      BY <1>3, Zenon DEF IInv, TypeOK
    <2> QED
      BY <1>1, <1>2, <1>4, <1>5, <2>1, SlotFacts
         DEF IInv, Families, NoThread, Alive, Forks, Forking
  <1>14. Waiting'
    <2>1. \A t \in Slots : parent'[t] = parent[t] \/ (t = s /\ parent'[t] = p)
      BY <1>3, Zenon DEF IInv, TypeOK
    <2>2. \A q \in Slots : state'[q] = "SLEEPING" /\ pc'[q] = "wait" =>
            state[q] = "SLEEPING" /\ pc[q] = "wait" /\ q # p
      BY <1>3, <1>4 DEF IInv, TypeOK
    <2>3. parent[s] = null
      BY <1>1, Zenon DEF IInv, Families, s
    <2> QED
      BY <1>2, <2>1, <2>2, <2>3, SlotFacts DEF IInv, Waiting, Zombies, NoPointWaiting
  <1> QED
    BY <1>7, <1>8, <1>9, <1>10, <1>11, <1>12, <1>13, <1>14, SMTT(30) DEF IInv

(* allocproc() and copyuvm(), where kalloc() may fail *)
LEMMA ForkStepIInv == ASSUME IInv, NEW c \in CPUs, AllocStack(c) \/ CopyUvm(c) PROVE IInv'
  <1> DEFINE p == cpuproc[c]
  <1>1. p \in Slots /\ state[p] = "RUNNING" /\ pc[p] \in {"allocproc", "copyuvm"}
    BY SlotFacts, Zenon DEF IInv, AllocStack, CopyUvm, At, Threads, Interruptible
  <1>2. CASE AllocStack(c) /\ ForkFails(p) /\ UNCHANGED <<kstack, free>>
    <2>1. pc[p] = "allocproc" /\ Place(p) = "allocproc"
      BY <1>2, ZenonT(40) DEF AllocStack, At, Place
    <2>2. np[p] \in Slots /\ ~kstack[np[p]]
      BY <1>1, <2>1, SlotFacts DEF IInv, Owned, Forks, Forking, NoThread
    <2>3. kstack' = kstack /\ kstack \in [Slots -> BOOLEAN]
      BY <1>2, Zenon DEF IInv, TypeOK
    <2>4. kstack' = [kstack EXCEPT ![np[p]] = FALSE]
      BY <2>2, <2>3, Zenon
    <2> QED
      BY <1>1, <1>2, <2>1, <2>4, ForkFailsIInv, Zenon DEF ForkFails
  <1>3. CASE AllocStack(c) /\ ~(ForkFails(p) /\ UNCHANGED <<kstack, free>>)
    BY <1>1, <1>3, ForkGoesOnIInv, Zenon DEF AllocStack, At
  <1>4. CASE CopyUvm(c)
    BY <1>1, <1>4, ForkFailsIInv, ForkGoesOnIInv, Zenon DEF CopyUvm, At, ForkFails
  <1> QED
    BY <1>2, <1>3, <1>4, Zenon

(* fork() publishes the child *)
LEMMA PublishIInv == ASSUME IInv, NEW c \in CPUs, Publish(c) PROVE IInv'
  <1> DEFINE p == cpuproc[c]
             s == np[p]
  <1>1. p \in Slots /\ p # null /\ pc[p] = "publish" /\ Place(p) = "publish"
    BY SlotFacts, Zenon DEF IInv, Publish, At, Place
  <1>2. /\ s \in Slots /\ s # null /\ s # p /\ state[p] = "RUNNING" /\ state[s] = "EMBRYO"
        /\ parent[s] = p /\ pc[s] = "none" /\ ret[s] = "run"
    BY <1>1, SlotFacts, Zenon DEF IInv, Forks, Forking, Threads, Interruptible, Families, NoThread
  <1>3. /\ state' = [state EXCEPT ![s] = "RUNNABLE"]
        /\ pc' = [pc EXCEPT ![p] = "run", ![s] = "forkret"]
        /\ np' = [np EXCEPT ![p] = null]
        /\ UNCHANGED <<pid, parent, chan, killed, kstack, pgdir, nextpid, free, lock, cpuproc,
                       scan, ret>>
    BY Zenon DEF Publish
  <1> HIDE DEF p, s
  <1>4. TypeOK'
    <2>1. null \in 0..NPROC
      BY ProcAssumption, SMTT(30) DEF null
    <2> QED
      BY <1>3, <2>1, Zenon DEF IInv, TypeOK
  <1>5. Threads'
    BY <1>1, <1>2, <1>3, SMTT(30) DEF IInv, TypeOK, Threads, NoThread, Interruptible
  <1>6. Running'
    <2>1. \A d \in CPUs : cpuproc[d] # s
      BY <1>2, Zenon DEF IInv, Running, InSched
    <2> QED
      BY <1>1, <1>2, <1>3, <2>1, SlotFacts DEF IInv, TypeOK, Running, InSched
  <1>7. \A q \in Slots :
          /\ Place(q)' = IF q = p THEN "run" ELSE IF q = s THEN "forkret" ELSE Place(q)
          /\ np'[q] = IF q = p THEN null ELSE np[q]
          /\ np[q] = s <=> q = p
    BY <1>1, <1>2, <1>3, Zenon DEF IInv, TypeOK, Place, Forks, s
  <1>8. \A t \in Slots : state'[t] = IF t = s THEN "RUNNABLE" ELSE state[t]
    BY <1>1, <1>3, Zenon DEF IInv, TypeOK
  <1>9. Place(s) = "none" /\ np[s] = null
    BY <1>2, Zenon DEF IInv, Place, Forks, Forking
  <1>10. Forks'
    <2>1. \A q \in Slots : np'[q] # null <=> Place(q)' \in Forking
      BY <1>1, <1>7, <1>9, ZenonT(40) DEF IInv, Forks, Forking
    <2>2. \A q \in Slots : np'[q] # null => state'[np'[q]] = "EMBRYO"
      BY <1>7, <1>8, SlotFacts, Zenon DEF IInv, Forks
    <2> QED
      BY <1>7, <2>1, <2>2, Zenon DEF IInv, Forks
  <1>11. Owned'
    <2>1. \A t \in Slots : kstack'[t] = kstack[t] /\ pgdir'[t] = pgdir[t]
      BY <1>3, Zenon
    <2>2. kstack[s] /\ pgdir[s]
      BY <1>1, <1>2, <1>7, Zenon DEF IInv, Owned
    <2>3. \A q \in Slots, t \in Slots \ {s} : \A place \in {"copyuvm", "publish"} :
            np'[q] = t /\ Place(q)' = place <=> np[q] = t /\ Place(q) = place
      BY <1>1, <1>2, <1>7, <1>9, SlotFacts, ZenonT(40) DEF IInv
    <2>4. \A t \in Slots \ {s} : state'[t] = state[t]
      BY <1>8, Zenon
    <2>5. state'[s] = "RUNNABLE"
      BY <1>2, <1>8, Zenon
    <2>6. \A t \in Slots \ {s} : state'[t] \in NoThread <=> state[t] \in NoThread
      BY <2>4, Zenon
    <2>7. \A t \in Slots \ {s} :
            /\ kstack'[t] <=> \/ state'[t] \notin NoThread
                              \/ \E q \in Slots : np'[q] = t /\ Place(q)' \in {"copyuvm", "publish"}
            /\ pgdir'[t] <=> \/ state'[t] \notin NoThread
                             \/ \E q \in Slots : np'[q] = t /\ Place(q)' = "publish"
      BY <2>1, <2>3, <2>6, SMTT(30) DEF IInv, Owned
    <2> QED
      BY <2>1, <2>2, <2>5, <2>7 DEF Owned, NoThread
  <1>12. Families'
    BY <1>1, <1>2, <1>3, <1>7, <1>8, <1>9, SlotFacts DEF IInv, Families, NoThread, Alive
  <1>13. Waiting'
    BY <1>1, <1>2, <1>3, WaitingFrame, Zenon DEF IInv, TypeOK
  <1> QED
    BY <1>3, <1>4, <1>5, <1>6, <1>10, <1>11, <1>12, <1>13, Zenon DEF IInv, Counted

(* fork() takes a slot *)
LEMMA AllocProcIInv == ASSUME IInv, NEW c \in CPUs, AllocProc(c) PROVE IInv'
  <1> DEFINE p == cpuproc[c]
             s == Min({t \in Slots : state[t] = "UNUSED"})
  <1>1. /\ p \in Slots /\ p # null /\ pc[p] = "run" /\ s \in Slots /\ s # null
        /\ state[p] = "RUNNING" /\ state[s] = "UNUSED"
        /\ nextpid <= MaxPid
    BY Least, SlotFacts DEF IInv, AllocProc, At, Running, Threads, Interruptible
  <1>2. /\ state' = [state EXCEPT ![s] = "EMBRYO"]
        /\ pid' = [pid EXCEPT ![s] = nextpid]
        /\ nextpid' = nextpid + 1
        /\ np' = [np EXCEPT ![p] = s]
        /\ pc' = [pc EXCEPT ![p] = "allocproc"]
        /\ UNCHANGED <<parent, chan, killed, kstack, pgdir, free, lock, cpuproc, scan, ret>>
    BY Zenon DEF AllocProc, Goto
  <1> HIDE DEF p, s
  <1>3. TypeOK'
    <2>1. nextpid \in 0..MaxPid /\ nextpid + 1 \in 1..(MaxPid + 1) /\ s \in 0..NPROC
      BY <1>1, ProcAssumption, SMTT(30) DEF IInv, TypeOK, Slots
    <2> QED
      BY <1>2, <2>1, Zenon DEF IInv, TypeOK
  <1>4. Threads'
    BY <1>1, <1>2, SMTT(30) DEF IInv, TypeOK, Threads, NoThread, Interruptible
  <1>5. Running'
    BY <1>1, <1>2, SlotFacts DEF IInv, TypeOK, Running, InSched, Threads, NoThread
  <1>6. Place(p) = "run" /\ np[p] = null
    BY <1>1, Zenon DEF IInv, Place, Forks, Forking
  <1>7. \A q \in Slots : /\ Place(q)' = IF q = p THEN "allocproc" ELSE Place(q)
                         /\ np'[q] = IF q = p THEN s ELSE np[q]
                         /\ np[q] # s
    BY <1>1, <1>2, Zenon DEF IInv, TypeOK, Place, Forks
  <1>8. \A t \in Slots : state'[t] = IF t = s THEN "EMBRYO" ELSE state[t]
    BY <1>1, <1>2, ZenonT(40) DEF IInv, TypeOK
  <1>9. Forks'
    BY <1>1, <1>6, <1>7, <1>8, SlotFacts DEF IInv, Forks, Forking
  <1>10. Owned'
    <2>1. \A t \in Slots : kstack'[t] = kstack[t] /\ pgdir'[t] = pgdir[t]
      BY <1>2, Zenon
    <2>2. \A q, t \in Slots : \A place \in {"copyuvm", "publish"} :
            np'[q] = t /\ Place(q)' = place <=> np[q] = t /\ Place(q) = place
      BY <1>1, <1>6, <1>7, ZenonT(40)
    <2> QED
      BY <1>1, <1>8, <2>1, <2>2 DEF IInv, Owned, NoThread
  <1>11. Families'
    BY <1>1, <1>2, <1>6, <1>7, <1>8, SlotFacts DEF IInv, Families, NoThread, Alive
  <1>12. Waiting'
    BY <1>1, <1>2, WaitingFrame, Zenon DEF IInv, TypeOK
  <1> QED
    BY <1>2, <1>3, <1>4, <1>5, <1>9, <1>10, <1>11, <1>12, ZenonT(40) DEF IInv, Counted

(* scheduler() switches to a process *)
LEMMA DispatchIInv == ASSUME IInv, NEW c \in CPUs, Dispatch(c) PROVE IInv'
  <1> DEFINE p == Min(Candidates(c))
  <1>1. /\ p \in Slots /\ p # null /\ state[p] = "RUNNABLE"
        /\ cpuproc[c] = null /\ lock = c /\ NoCPU \notin CPUs
    BY Least, SlotFacts, ProcAssumption DEF Dispatch, Candidates, IInv
  <1>2. /\ cpuproc' = [cpuproc EXCEPT ![c] = p]
        /\ state' = [state EXCEPT ![p] = "RUNNING"]
        /\ chan' = [chan EXCEPT ![p] = null]
        /\ pc' = [pc EXCEPT ![p] = IF pc[p] = "wait" THEN "wait_loop" ELSE ret[p]]
        /\ ret' = [ret EXCEPT ![p] = "run"]
        /\ lock' = IF pc[p] = "wait" THEN c ELSE NoCPU
        /\ UNCHANGED <<pid, parent, killed, kstack, pgdir, nextpid, free, scan, np>>
    BY Zenon DEF Dispatch, Goto
  <1> HIDE DEF p
  <1>0. pc[p] \in {"yield", "sleep", "wait", "forkret"} /\ ret[p] \in Interruptible
    BY <1>1, Zenon DEF IInv, TypeOK, Threads, NoThread, InSched, Interruptible
  <1>3. TypeOK'
    BY <1>0, <1>1, <1>2, SMTT(30) DEF IInv, TypeOK, Slots, null, Interruptible
  <1>4. Threads'
    BY <1>0, <1>1, <1>2 DEF IInv, TypeOK, Threads, NoThread, Interruptible
  <1>5. Running'
    <2>1. \A d \in CPUs : cpuproc[d] # p
      BY <1>0, <1>1, Zenon DEF IInv, Running, InSched
    <2>2. \A d \in CPUs \ {c} : cpuproc[d] # null =>
            cpuproc[d] \in Slots \ {p} /\ state[cpuproc[d]] = "RUNNING"
              /\ pc[cpuproc[d]] # "wait_loop"
      BY <1>1, <2>1, SlotFacts, Zenon DEF IInv, Running
    <2>3. \A d \in CPUs : cpuproc'[d] = IF d = c THEN p ELSE cpuproc[d]
      BY <1>2, Zenon DEF IInv, TypeOK
    <2>4. \A s \in Slots : /\ state'[s] = IF s = p THEN "RUNNING" ELSE state[s]
                           /\ s # p => pc'[s] = pc[s]
      BY <1>2, Zenon DEF IInv, TypeOK
    <2>5. pc'[p] = "wait_loop" => lock' = c
      BY <1>0, <1>1, <1>2, Zenon DEF IInv, TypeOK, Interruptible
    <2>6. \A s \in Slots : state'[s] = "RUNNING" => \E d \in CPUs : cpuproc'[d] = s
      <3> SUFFICES ASSUME NEW s \in Slots, state'[s] = "RUNNING"
                   PROVE  \E d \in CPUs : cpuproc'[d] = s
        BY Zenon
      <3>1. CASE s = p
        BY <2>3, <3>1, Zenon
      <3>2. CASE s # p
        <4>1. PICK d \in CPUs : cpuproc[d] = s
          BY <2>4, <3>2, Zenon DEF IInv, Running
        <4>2. d # c
          BY <1>1, <4>1, SlotFacts, Zenon DEF IInv
        <4> QED
          BY <2>3, <4>1, <4>2, Zenon
      <3> QED
        BY <3>1, <3>2, Zenon
    <2>7. \A d, e \in CPUs : cpuproc'[d] = cpuproc'[e] /\ cpuproc'[d] # null => d = e
      BY <1>1, <2>1, <2>3 DEF IInv, Running
    <2>8. \A d \in CPUs : cpuproc'[d] # null =>
            state'[cpuproc'[d]] = "RUNNING" /\ (pc'[cpuproc'[d]] = "wait_loop" => lock' = d)
      <3>1. state'[cpuproc'[c]] = "RUNNING" /\ (pc'[cpuproc'[c]] = "wait_loop" => lock' = c)
        BY <1>1, <2>3, <2>4, <2>5, ZenonT(40)
      <3>2. \A d \in CPUs \ {c} : cpuproc'[d] # null =>
              state'[cpuproc'[d]] = "RUNNING" /\ pc'[cpuproc'[d]] # "wait_loop"
        BY <2>2, <2>3, <2>4, SMTT(30)
      <3> QED
        BY <3>1, <3>2, Zenon
    <2> QED
      BY <2>6, <2>7, <2>8, Zenon DEF Running
  <1>6. \A q \in Slots : Stage(q)' = Stage(q)
    BY <1>0, <1>1, <1>2 DEF IInv, TypeOK, Threads, Stage, Place, Forking
  <1>7. Forks' /\ Owned' /\ Families' /\ Counted'
    BY <1>1, <1>2, <1>6, FamiliesFrame, Zenon DEF IInv, TypeOK, NoThread, Alive
  <1>8. Waiting'
    BY <1>1, <1>2, WaitingFrame, Zenon DEF IInv, TypeOK
  <1> QED
    BY <1>3, <1>4, <1>5, <1>7, <1>8, Zenon DEF IInv

(* sched(): the thread leaves its CPU *)
LEMMA SwtchIInv == ASSUME IInv, NEW c \in CPUs, Swtch(c) PROVE IInv'
  <1> DEFINE p == cpuproc[c]
  <1>1. p \in Slots /\ p # null /\ pc[p] \in InSched
    BY SlotFacts, Zenon DEF IInv, Swtch
  <1>2. /\ cpuproc' = [cpuproc EXCEPT ![c] = null]
        /\ scan' = [scan EXCEPT ![c] = p + 1]
        /\ UNCHANGED <<state, pid, parent, chan, killed, kstack, pgdir, nextpid, free, lock,
                       pc, ret, np>>
    BY Zenon DEF Swtch, table, threads
  <1>3. TypeOK'
    <2>1. p + 1 \in 1..(NPROC + 1) /\ null \in 0..NPROC
      BY <1>1, ProcAssumption DEF Slots, null
    <2> HIDE DEF p
    <2> QED
      BY <1>2, <2>1, Zenon DEF IInv, TypeOK
  <1>4. Threads'
    BY <1>2, Zenon DEF IInv, Threads
  <1>5. Running'
    BY <1>1, <1>2 DEF IInv, TypeOK, Running, Threads, InSched, Interruptible, null
  <1>6. Forks' /\ Owned' /\ Families' /\ Counted'
    BY <1>2, FamiliesFrame, Zenon DEF Stage, Place
  <1>7. Waiting'
    BY <1>2, WaitingFrame, Zenon
  <1> QED
    BY <1>3, <1>4, <1>5, <1>6, <1>7, Zenon DEF IInv

(* scheduler() takes ptable.lock, and releases it after a scan *)
LEMMA ScanIInv == ASSUME IInv, NEW c \in CPUs, ScanStart(c) \/ ScanEnd(c) PROVE IInv'
  <1>1. /\ lock' \in {c, NoCPU} /\ lock \in {c, NoCPU} /\ cpuproc[c] = null
        /\ scan' \in {scan, [scan EXCEPT ![c] = 1]}
        /\ UNCHANGED <<state, pid, parent, chan, killed, kstack, pgdir, nextpid, free, cpuproc,
                       pc, ret, np>>
    BY Zenon DEF ScanStart, ScanEnd, table, threads
  <1>3. TypeOK'
    BY <1>1, ProcAssumption DEF IInv, TypeOK
  <1>4. Threads'
    BY <1>1, Zenon DEF IInv, Threads
  <1>5. Running'
    BY <1>1, ProcAssumption DEF IInv, Running
  <1>6. Forks' /\ Owned' /\ Families' /\ Counted'
    BY <1>1, FamiliesFrame, Zenon DEF Stage, Place
  <1>7. Waiting'
    BY <1>1, WaitingFrame, Zenon
  <1> QED
    BY <1>3, <1>4, <1>5, <1>6, <1>7, Zenon DEF IInv

(* wakeup() *)
LEMMA WakeupIInv == ASSUME IInv, NEW ch \in Chans, Wakeup(ch) PROVE IInv'
  <1>1. /\ \A s \in Slots : state'[s] = IF state[s] = "SLEEPING" /\ chan[s] = ch
                                        THEN "RUNNABLE" ELSE state[s]
        /\ state' \in [Slots -> {"UNUSED", "EMBRYO", "SLEEPING", "RUNNABLE", "RUNNING", "ZOMBIE"}]
        /\ UNCHANGED <<pid, parent, chan, killed, kstack, pgdir, nextpid, free, lock,
                       cpuproc, scan, pc, ret, np>>
    BY Zenon DEF Wakeup, Wakeup1, threads, IInv, TypeOK
  <1>3. TypeOK'
    BY <1>1, Zenon DEF IInv, TypeOK
  <1>4. Threads'
    BY <1>1, ZenonT(40) DEF IInv, Threads, NoThread, Interruptible
  <1>5. Running'
    BY <1>1, SlotFacts, Zenon DEF IInv, Running
  <1>6. \A q \in Slots : Stage(q)' = Stage(q)
    BY <1>1, Zenon DEF Stage, Place
  <1>7. Forks' /\ Owned' /\ Families' /\ Counted'
    BY <1>1, <1>6, FamiliesFrame, Zenon DEF NoThread, Alive
  <1>8. Waiting'
    BY <1>1, WaitingFrame, Zenon
  <1> QED
    BY <1>3, <1>4, <1>5, <1>7, <1>8, Zenon DEF IInv

(* kill() *)
LEMMA KillIInv ==
  ASSUME IInv, NEW c \in CPUs, NEW k \in KillPids, Kill(c, k)
  PROVE  IInv'
  <1> DEFINE s == Min({t \in Slots : pid[t] = k})
  <1>1. s \in Slots
    BY Least DEF Kill
  <1>2. /\ killed' = [killed EXCEPT ![s] = k]
        /\ state' = IF state[s] = "SLEEPING" THEN [state EXCEPT ![s] = "RUNNABLE"] ELSE state
        /\ UNCHANGED <<pid, parent, chan, kstack, pgdir, nextpid, free, lock, cpuproc, scan,
                       pc, ret, np>>
    BY Zenon DEF Kill, threads
  <1> HIDE DEF s
  <1>3. TypeOK'
    BY <1>1, <1>2, Zenon DEF IInv, TypeOK
  <1>4. Threads'
    BY <1>1, <1>2, ZenonT(40) DEF IInv, TypeOK, Threads, NoThread, Interruptible
  <1>5. Running'
    BY <1>1, <1>2, SlotFacts DEF IInv, TypeOK, Running
  <1>6. \A q \in Slots : Stage(q)' = Stage(q)
    BY <1>2, Zenon DEF Stage, Place
  <1>7. Forks' /\ Owned' /\ Families' /\ Counted'
    BY <1>1, <1>2, <1>6, FamiliesFrame, Zenon DEF IInv, TypeOK, NoThread, Alive
  <1>8. Waiting'
    BY <1>1, <1>2 DEF IInv, TypeOK, Waiting, Zombies, NoPointWaiting
  <1> QED
    BY <1>3, <1>4, <1>5, <1>7, <1>8, ZenonT(40) DEF IInv

(* exit() begins *)
LEMMA ExitStartIInv == ASSUME IInv, NEW c \in CPUs, ExitStart(c) PROVE IInv'
  <1> DEFINE p == cpuproc[c]
  <1>1. p \in Slots /\ p # null /\ p # initproc /\ pc[p] = "run"
    BY SlotFacts, Zenon DEF IInv, ExitStart, At
  <1>2. /\ pc' = [pc EXCEPT ![p] = "closing"]
        /\ UNCHANGED <<state, pid, parent, chan, killed, kstack, pgdir, nextpid, free, lock,
                       cpuproc, scan, ret, np>>
    BY Zenon DEF ExitStart, Goto, table
  <1> HIDE DEF p
  <1>3. TypeOK'
    BY <1>1, <1>2, Zenon DEF IInv, TypeOK
  <1>4. Threads'
    BY <1>1, <1>2 DEF IInv, TypeOK, Threads, NoThread, Interruptible
  <1>5. Running'
    BY <1>1, <1>2, SlotFacts, Zenon DEF IInv, TypeOK, Running, InSched
  <1>6. Place(p) = "run"
    BY <1>1, Zenon DEF Place
  <1>7. \A q \in Slots : Place(q)' = IF q = p THEN "closing" ELSE Place(q)
    BY <1>1, <1>2, Zenon DEF IInv, TypeOK, Place
  <1>8. Forks'
    BY <1>1, <1>2, <1>6, <1>7, ZenonT(40) DEF IInv, Forks, Forking
  <1>9. Owned'
    BY <1>1, <1>2, <1>6, <1>7 DEF IInv, Owned
  <1>10. Families'
    BY <1>1, <1>2, <1>6, <1>7, SlotFacts, Zenon DEF IInv, Families
  <1>11. Waiting'
    BY <1>1, <1>2, WaitingFrame, Zenon DEF IInv, TypeOK
  <1> QED
    BY <1>2, <1>3, <1>4, <1>5, <1>8, <1>9, <1>10, <1>11, Zenon DEF IInv, Counted

------------------------------------------------------------------------------
(* So does every step of Next. *)
LEMMA NextIInv == IInv /\ [Next]_vars => IInv'
  <1> SUFFICES ASSUME IInv, [Next]_vars PROVE IInv'
    BY Zenon
  <1>1. ASSUME NEW c \in CPUs, InKernel(c) PROVE IInv'
    BY <1>1, ForkStepIInv, WaitReapIInv, WaitIInv, SwtchIInv, DispatchIInv, ScanIInv
    DEF InKernel
  <1>2. ASSUME NEW c \in CPUs, Spins(c) PROVE IInv'
    BY <1>2, PublishIInv, ExitIInv, ScanIInv, Zenon DEF Spins
  <1>3. CASE UNCHANGED vars
    <2>1. UNCHANGED <<state, pid, parent, chan, killed, kstack, pgdir, nextpid, free, lock,
                      cpuproc, scan, pc, ret, np>>
      BY <1>3, Zenon DEF vars, table, threads
    <2>2. TypeOK' /\ Threads' /\ Running'
      BY <2>1 DEF IInv, TypeOK, Threads, Running
    <2>3. \A q \in Slots : Stage(q)' = Stage(q)
      BY <2>1, Zenon DEF Place, Stage
    <2>4. Forks' /\ Owned' /\ Families' /\ Counted'
      BY <2>1, <2>3, FamiliesFrame, Zenon
    <2>5. Waiting'
      BY <2>1, WaitingFrame, Zenon
    <2> QED
      BY <2>2, <2>4, <2>5, Zenon DEF IInv
  <1> QED
    BY <1>1, <1>2, <1>3, AllocProcIInv, YieldIInv, ExitStartIInv, WaitIInv, SleepIInv,
       KillIInv, WakeupIInv DEF Next

(* The process table of proc.c stays in order. *)
THEOREM Inductive == Spec => []IInv
  BY InitIInv, NextIInv, PTL DEF Spec

(* However many slots, CPUs, channels and pages there are, exit() and wait()   *)
(* never miss each other and no process is without a parent to wait for it.    *)
THEOREM FamiliesTheorem == Spec => []FamiliesKept
  <1>1. IInv => FamiliesKept
    <2> SUFFICES ASSUME IInv PROVE NoLostExit /\ ParentAlive
      BY Zenon DEF IInv, FamiliesKept
    <2>1. NoLostExit
      BY Zenon DEF IInv, NoLostExit, Waiting
    <2>2. ParentAlive
      BY Zenon DEF IInv, ParentAlive, Families, NoThread, Alive
    <2> QED
      BY <2>1, <2>2, Zenon
  <1> QED
    BY <1>1, Inductive, PTL

(* No two CPUs execute one process, and none executes one whose kernel stack   *)
(* or page table wait() has freed.                                             *)
THEOREM OneCpuTheorem == Spec => []OneCpuEach
  <1>1. IInv => OneCpuEach
    <2> SUFFICES ASSUME IInv PROVE OneCpuEach
      BY Zenon
    <2>1. \A c \in CPUs : cpuproc[c] # null =>
            cpuproc[c] \in Slots /\ state[cpuproc[c]] \notin NoThread
      BY SlotFacts, Zenon DEF IInv, Running, Threads, NoThread, InSched
    <2>2. \A c \in CPUs : cpuproc[c] # null => kstack[cpuproc[c]] /\ pgdir[cpuproc[c]]
      BY <2>1, ZenonT(40) DEF IInv, Owned
    <2>3. lock = NoCPU => \A s \in Slots : state[s] = "RUNNING" <=> \E c \in CPUs : cpuproc[c] = s
      BY SlotFacts, ProcAssumption DEF IInv, Running
    <2> QED
      BY <2>2, <2>3, Zenon DEF IInv, Running, OneCpuEach
  <1> QED
    BY <1>1, Inductive, PTL

(* Kernel stacks and page tables are neither leaked nor freed twice. *)
THEOREM PagesTheorem == Spec => []PagesConserved
  <1>1. IInv => PagesConserved
    <2> SUFFICES ASSUME IInv PROVE PagesConserved
      BY Zenon
    <2>1. \A s \in Slots : state[s] = "UNUSED" => ~kstack[s] /\ ~pgdir[s]
      BY SlotFacts DEF IInv, Owned, Forks, NoThread
    <2> QED
      BY <2>1, Zenon DEF IInv, Counted, Count, PagesConserved
  <1> QED
    BY <1>1, Inductive, PTL
==============================================================================
