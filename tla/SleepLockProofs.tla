--------------------------- MODULE SleepLockProofs ---------------------------
(* Proofs about SleepLock, and about the clock of Ticks, for any set of        *)
(* processes.                                                                  *)
EXTENDS MCSleepLock, Modular, TLAPS

(* initsleeplock establishes the invariant. *)
LEMMA InitIInv == Init => IInv
  BY NoneAssumption, Zenon
  DEF Init, IInv, TypeOK, Pcs, HolderIsInside, HoldingSleep, Inside,
      SpinlocksHeld, SleepersWait, WakeupPending, NoLostWakeup

(* Every step of acquiresleep, sleep, releasesleep, wakeup and kill keeps it. *)
LEMMA NextIInv == IInv /\ [Next]_vars => IInv'
  <1> SUFFICES ASSUME IInv, [Next]_vars PROVE IInv'
    BY Zenon
  <1> USE NoneAssumption
      DEF IInv, TypeOK, Pcs, HolderIsInside, HoldingSleep, Inside,
          SpinlocksHeld, SleepersWait, WakeupPending, NoLostWakeup, Goto
  <1>1. ASSUME NEW p \in Procs, AcquireLk(p) PROVE IInv'
    BY <1>1 DEF AcquireLk
  <1>2. ASSUME NEW p \in Procs, TakeLock(p) PROVE IInv'
    BY <1>2 DEF TakeLock
  <1>3. ASSUME NEW p \in Procs, MustSleep(p) PROVE IInv'
    BY <1>3, ZenonT(40) DEF MustSleep
  <1>4. ASSUME NEW p \in Procs, SleepSwapLocks(p) PROVE IInv'
    BY <1>4 DEF SleepSwapLocks, LockPtable, ReleaseLk
  <1>5. ASSUME NEW p \in Procs, SleepSched(p) PROVE IInv'
    BY <1>5 DEF SleepSched
  <1>6. ASSUME NEW p \in Procs, SleepResume(p) PROVE IInv'
    BY <1>6 DEF SleepResume
  <1>7. ASSUME NEW p \in Procs, SleepTidy(p) PROVE IInv'
    BY <1>7 DEF SleepTidy
  <1>8. ASSUME NEW p \in Procs, SleepReacquire(p) PROVE IInv'
    BY <1>8 DEF SleepReacquire
  <1>9. ASSUME NEW p \in Procs, ReleaseStart(p) PROVE IInv'
    BY <1>9 DEF ReleaseStart
  <1>10. ASSUME NEW p \in Procs, ClearLocked(p) PROVE IInv'
    <2>1. pc'[p] = "wk_acquire" /\ pid' = None /\ ~locked'
      BY <1>10, Zenon DEF ClearLocked
    <2>2. TypeOK'
      BY <1>10, Zenon DEF ClearLocked
    <2>3. (locked <=> pid # None)' /\ HolderIsInside'
      BY <1>10 DEF ClearLocked
    <2>4. SpinlocksHeld' /\ SleepersWait'
      BY <1>10, ZenonT(40) DEF ClearLocked
    <2>5. WakeupPending' /\ NoLostWakeup'
      BY <1>10, <2>1, ZenonT(40) DEF ClearLocked
    <2> QED
      BY <2>2, <2>3, <2>4, <2>5, Zenon
  <1>11. ASSUME NEW p \in Procs, WakeupAcquire(p) PROVE IInv'
    BY <1>11 DEF WakeupAcquire, LockPtable
  <1>12. ASSUME NEW p \in Procs, WakeupScan(p) PROVE IInv'
    BY <1>12 DEF WakeupScan, Wakeup1
  <1>13. ASSUME NEW p \in Procs, ReleaseEnd(p) PROVE IInv'
    BY <1>13 DEF ReleaseEnd, ReleaseLk
  <1>14. ASSUME NEW p \in Procs, Kill(p) PROVE IInv'
    BY <1>14, ZenonT(40) DEF Kill
  <1>15. CASE UNCHANGED vars
    BY <1>15, Zenon DEF vars
  <1> QED
    BY <1>1, <1>2, <1>3, <1>4, <1>5, <1>6, <1>7, <1>8, <1>9, <1>10, <1>11,
       <1>12, <1>13, <1>14, <1>15, Zenon
    DEF Next, Step

(* The whole invariant holds in every reachable state. *)
THEOREM Invariance == Spec => []IInv
  BY InitIInv, NextIInv, PTL DEF Spec

(* holdingsleep() is true of exactly the process between acquiresleep and      *)
(* releasesleep, so at most one process is ever there.                         *)
THEOREM Exclusion == Spec => []HolderIsInside
  <1>1. IInv => HolderIsInside
    BY Zenon DEF IInv
  <1> QED
    BY Invariance, <1>1, PTL

(* sleep() never loses the wakeup of releasesleep(). *)
THEOREM WakeupNotLost == Spec => []NoLostWakeup
  <1>1. IInv => NoLostWakeup
    BY Zenon DEF IInv
  <1> QED
    BY Invariance, <1>1, PTL

(* acquiresleep and releasesleep implement a mutex: every step of theirs takes *)
(* the lock when nobody has it, gives it up when the process has it, or leaves *)
(* it alone.                                                                   *)
THEOREM RefinesMutex == Spec => Abs!Safety
  <1>1. Init => Abs!Init
    BY Zenon DEF Init, Abs!Init
  <1>2. IInv /\ [Next]_vars => [Abs!Next]_(IF locked THEN pid ELSE None)
    <2> SUFFICES ASSUME IInv, Next PROVE [Abs!Next]_(IF locked THEN pid ELSE None)
      BY DEF vars
    <2>1. ASSUME NEW p \in Procs, TakeLock(p) PROVE Abs!Acquire(p)
      BY <2>1, Zenon DEF TakeLock, Abs!Acquire
    <2>2. ASSUME NEW p \in Procs, ClearLocked(p) PROVE Abs!Release(p)
      BY <2>2, Zenon DEF IInv, ClearLocked, Goto, HolderIsInside, HoldingSleep, Inside,
                  Abs!Release
    <2>3. CASE UNCHANGED <<locked, pid>>
      BY <2>3, Zenon
    <2> QED
      BY <2>1, <2>2, <2>3, Zenon
      DEF Next, Step, AcquireLk, MustSleep, SleepSwapLocks, LockPtable, ReleaseLk,
          SleepSched, SleepResume, SleepTidy, SleepReacquire, ReleaseStart,
          WakeupAcquire, WakeupScan, ReleaseEnd, Kill, Abs!Next
  <1> QED
    BY <1>1, <1>2, Invariance, PTL DEF Spec, Abs!Safety

------------------------------------------------------------------------------
(* sys_sleep() and the clock *)

TicksTyped ==
  /\ ticks \in 0..(Wrap - 1)
  /\ tickslock \in Two \cup {None}
  /\ sleeper \in [Two -> {"user", "entering", "asleep", "woken", "slept", "failed"}]
  /\ n \in [Two -> 0..(Wrap - 1)] /\ ticks0 \in [Two -> 0..(Wrap - 1)]
  /\ stopped \subseteq Two
  /\ elapsed \in [Two -> 0..Wrap]
  /\ waited \in [Two -> Nat] /\ late \in [Two -> Nat]

(* A process has tickslock between its test and its sleep, where the clock     *)
(* does not tick.                                                              *)
EnteringLocked == \A p \in Two : sleeper[p] = "entering" <=> tickslock = p

(* Until the clock has come round once, ticks - ticks0 is the time that went by. *)
ClockRight ==
  \A p \in Two : sleeper[p] \in T!InCall /\ elapsed[p] < Wrap =>
    (ticks - ticks0[p]) % Wrap = elapsed[p]

(* Who was killed before it was SLEEPING has not missed a tick; from the next  *)
(* one on it is awake, and late only while it waits for a CPU.                 *)
KilledOnTime ==
  \A p \in Two :
    /\ p \notin stopped => late[p] = 0
    /\ sleeper[p] \in {"entering", "asleep"} => late[p] = 0
    /\ sleeper[p] = "woken" => waited[p] <= Lag /\ late[p] <= waited[p] + 1

TicksInv ==
  TicksTyped /\ EnteringLocked /\ ClockRight /\ KilledOnTime /\ T!SleptEnough /\ T!KilledLeaves

(* The machine starts with nobody in the call. *)
LEMMA TicksInit == ASSUME T!TicksAssumption, T!Init PROVE TicksInv
  <1>1. /\ ticks = 0 /\ tickslock = None /\ stopped = {}
        /\ \A p \in Two : /\ sleeper[p] = "user" /\ n[p] = 0 /\ ticks0[p] = 0
                          /\ elapsed[p] = 0 /\ waited[p] = 0 /\ late[p] = 0
    BY Zenon DEF T!Init, T!Zero
  <1>2. TicksTyped
    BY DEF T!TicksAssumption, T!Init, T!Zero, TicksTyped
  <1>3. EnteringLocked /\ ClockRight /\ KilledOnTime
    BY <1>1, Zenon DEF T!TicksAssumption, EnteringLocked, ClockRight, KilledOnTime, T!InCall
  <1>4. T!SleptEnough /\ T!KilledLeaves
    BY <1>1 DEF T!TicksAssumption, T!SleptEnough, T!KilledLeaves
  <1> QED
    BY <1>2, <1>3, <1>4, Zenon DEF TicksInv

(* A tick moves the distance to any earlier moment on by one. *)
LEMMA TickCounts ==
  ASSUME T!TicksAssumption, NEW t \in 0..(Wrap - 1), NEW s \in 0..(Wrap - 1), NEW k \in Nat,
         (t - s) % Wrap = k, k + 1 < Wrap
  PROVE  (((t + 1) % Wrap) - s) % Wrap = k + 1
  <1> DEFINE u == (t + 1) % Wrap
  <1>1. Wrap \in Nat \ {0}
    BY Zenon DEF T!TicksAssumption
  <1>2. u = IF t + 1 < Wrap THEN t + 1 ELSE 0
    <2>1. 1 \in 0..Wrap
      BY <1>1
    <2>2. u = IF t + 1 < Wrap THEN t + 1 ELSE t + 1 - Wrap
      BY <1>1, <2>1, Shifted, Zenon
    <2> QED
      BY <1>1, <2>2
  <1>3. u \in 0..(Wrap - 1)
    BY <1>1, <1>2
  <1> HIDE DEF u
  <1>4. k = IF t >= s THEN t - s ELSE t - s + Wrap
    <2>1. s \in 0..Wrap
      BY <1>1
    <2> QED
      BY <1>1, <2>1, Distance, Zenon
  <1>5. (u - s) % Wrap = IF u >= s THEN u - s ELSE u - s + Wrap
    <2>1. s \in 0..Wrap
      BY <1>1
    <2> QED
      BY <1>1, <1>3, <2>1, Distance, Zenon
  <1>6. (IF u >= s THEN u - s ELSE u - s + Wrap) = k + 1
    BY <1>1, <1>2, <1>4
  <1> QED
    BY <1>5, <1>6, Zenon DEF u

(* The timer interrupt comes when nobody is between its test and its sleep. *)
LEMMA TimerKeeps ==
  ASSUME T!TicksAssumption, TicksInv, T!Timer
  PROVE  TicksInv'
  <1>1. /\ tickslock = None /\ ticks' = (ticks + 1) % Wrap
        /\ UNCHANGED <<tickslock, n, ticks0, stopped>>
    BY Zenon DEF T!Timer
  <1>2. \A p \in Two :
          /\ sleeper'[p] = IF sleeper[p] = "asleep" THEN "woken" ELSE sleeper[p]
          /\ waited'[p] = IF sleeper[p] = "woken" THEN waited[p] + 1 ELSE 0
          /\ elapsed'[p] = IF sleeper[p] \in T!InCall /\ elapsed[p] < Wrap
                           THEN elapsed[p] + 1 ELSE elapsed[p]
          /\ late'[p] = IF sleeper[p] \in T!InCall /\ p \in stopped /\ late[p] < Lag + 2
                        THEN late[p] + 1 ELSE late[p]
    BY Zenon DEF T!Timer, T!wakeup
  <1>3. \A p \in Two : sleeper[p] = "woken" => waited[p] < Lag
    BY Zenon DEF T!Timer
  <1>4. \A p \in Two : sleeper[p] # "entering"
    BY <1>1, Zenon DEF T!TicksAssumption, TicksInv, EnteringLocked
  <1>5. TicksTyped'
    <2>1. ticks' \in 0..(Wrap - 1)
      BY <1>1, Division DEF T!TicksAssumption, TicksInv, TicksTyped
    <2>2. sleeper' \in [Two -> {"user", "entering", "asleep", "woken", "slept", "failed"}]
      BY Zenon DEF T!Timer, T!wakeup, TicksInv, TicksTyped
    <2>3. elapsed' \in [Two -> 0..Wrap]
      <3>1. \A p \in Two : elapsed[p] \in 0..Wrap
        BY Zenon DEF TicksInv, TicksTyped
      <3>2. \A p \in Two : elapsed'[p] \in 0..Wrap
        BY <1>2, <3>1 DEF T!TicksAssumption
      <3>3. elapsed' = [p \in Two |-> elapsed'[p]]
        BY Zenon DEF T!Timer
      <3> QED
        BY <3>2, <3>3, Zenon
    <2>4. waited' \in [Two -> Nat] /\ late' \in [Two -> Nat]
      <3>1. \A p \in Two : waited[p] \in Nat /\ late[p] \in Nat
        BY Zenon DEF TicksInv, TicksTyped
      <3>2. \A p \in Two : waited'[p] \in Nat /\ late'[p] \in Nat
        BY <1>2, <3>1
      <3>3. waited' = [p \in Two |-> waited'[p]] /\ late' = [p \in Two |-> late'[p]]
        BY Zenon DEF T!Timer
      <3> QED
        BY <3>2, <3>3, Zenon
    <2> QED
      BY <1>1, <2>1, <2>2, <2>3, <2>4, Zenon DEF TicksInv, TicksTyped
  <1>6. EnteringLocked'
    BY <1>1, <1>2, <1>4, Zenon DEF T!TicksAssumption, EnteringLocked
  <1>7. ClockRight'
    <2> SUFFICES ASSUME NEW p \in Two, sleeper'[p] \in T!InCall, elapsed'[p] < Wrap
                 PROVE  (ticks' - ticks0[p]) % Wrap = elapsed'[p]
      BY <1>1, Zenon DEF ClockRight, T!InCall
    <2>1. sleeper[p] \in T!InCall
      BY <1>2, Zenon DEF T!InCall
    <2>2. /\ elapsed[p] \in 0..Wrap /\ Wrap \in Nat
          /\ ticks \in 0..(Wrap - 1) /\ ticks0[p] \in 0..(Wrap - 1)
      BY Zenon DEF T!TicksAssumption, TicksInv, TicksTyped
    <2>3. elapsed[p] < Wrap /\ elapsed'[p] = elapsed[p] + 1 /\ elapsed[p] \in Nat
      BY <1>2, <2>1, <2>2
    <2>4. (ticks - ticks0[p]) % Wrap = elapsed[p]
      BY <2>1, <2>3, Zenon DEF TicksInv, ClockRight
    <2> QED
      BY <1>1, <2>2, <2>3, <2>4, TickCounts, Zenon
  <1>8. KilledOnTime' /\ T!KilledLeaves'
    <2> SUFFICES ASSUME NEW p \in Two
                 PROVE  /\ p \notin stopped => late'[p] = 0
                        /\ sleeper'[p] \in {"entering", "asleep"} => late'[p] = 0
                        /\ sleeper'[p] = "woken" =>
                             waited'[p] <= Lag /\ late'[p] <= waited'[p] + 1
                        /\ late'[p] <= Lag + 1
      BY <1>1, Zenon DEF KilledOnTime, T!KilledLeaves
    <2>1. /\ waited[p] \in Nat /\ late[p] \in Nat /\ Lag \in Nat
          /\ p \notin stopped => late[p] = 0
          /\ sleeper[p] = "asleep" => late[p] = 0
          /\ sleeper[p] = "woken" => waited[p] < Lag /\ late[p] <= waited[p] + 1
          /\ late[p] <= Lag + 1 /\ sleeper[p] # "entering"
      BY <1>3, <1>4, Zenon
         DEF T!TicksAssumption, TicksInv, TicksTyped, KilledOnTime, T!KilledLeaves
    <2> QED
      BY <1>2, <2>1 DEF T!InCall
  <1>9. T!SleptEnough'
    BY <1>1, <1>2, Zenon DEF TicksInv, T!SleptEnough, T!InCall
  <1> QED
    BY <1>5, <1>6, <1>7, <1>8, <1>9, Zenon DEF TicksInv

(* A turn of the loop leaves with the time over, or because of kill(), or goes *)
(* to sleep.                                                                   *)
LEMMA LoopTurns ==
  ASSUME NEW p \in Two, NEW start, NEW len, T!Loop(p, start, len)
  PROVE  \/ /\ ~T!TimeLeft(ticks, start, len)
            /\ tickslock' = None /\ sleeper' = [sleeper EXCEPT ![p] = "slept"]
         \/ /\ tickslock' = None /\ sleeper' = [sleeper EXCEPT ![p] = "failed"]
         \/ /\ p \notin stopped
            /\ tickslock' = p /\ sleeper' = [sleeper EXCEPT ![p] = "entering"]
  BY Zenon DEF T!Loop

(* A turn of the loop keeps the invariant, if what is known of the caller's    *)
(* time is right.                                                              *)
LEMMA LoopKeeps ==
  ASSUME T!TicksAssumption, TicksInv, NEW p \in Two, tickslock = None,
         NEW start \in 0..(Wrap - 1), NEW len \in 0..(Wrap - 1), T!Loop(p, start, len),
         n' = [n EXCEPT ![p] = len], ticks0' = [ticks0 EXCEPT ![p] = start],
         NEW k \in 0..Wrap, elapsed' = [elapsed EXCEPT ![p] = k],
         k < Wrap => (ticks - start) % Wrap = k,
         UNCHANGED <<ticks, stopped, waited, late>>
  PROVE  TicksInv'
  <1>1. PICK to \in {"slept", "failed", "entering"} :
          /\ sleeper' = [sleeper EXCEPT ![p] = to]
          /\ tickslock' = IF to = "entering" THEN p ELSE None
          /\ to = "slept" => ~T!TimeLeft(ticks, start, len)
          /\ to = "entering" => p \notin stopped
    BY LoopTurns, Zenon
  <1>2. /\ \A q \in Two \ {p} : /\ sleeper'[q] = sleeper[q] /\ n'[q] = n[q]
                                /\ ticks0'[q] = ticks0[q] /\ elapsed'[q] = elapsed[q]
        /\ sleeper'[p] = to /\ n'[p] = len /\ ticks0'[p] = start /\ elapsed'[p] = k
    BY <1>1, Zenon DEF TicksInv, TicksTyped
  <1>3. TicksTyped'
    BY <1>1, Zenon DEF TicksInv, TicksTyped
  <1>4. EnteringLocked'
    BY <1>1, <1>2, ZenonT(40) DEF T!TicksAssumption, TicksInv, EnteringLocked
  <1>5. ClockRight'
    BY <1>2, Zenon DEF TicksInv, ClockRight
  <1>6. KilledOnTime' /\ T!KilledLeaves'
    BY <1>1, <1>2, Zenon DEF TicksInv, KilledOnTime, T!KilledLeaves
  <1>7. T!SleptEnough'
    <2>1. to = "slept" => k >= len
      <3>1. ASSUME to = "slept", k < Wrap PROVE k >= len
        <4>1. ~(k < len)
          BY <1>1, <3>1, Zenon DEF T!TimeLeft
        <4> QED
          BY <4>1
      <3>2. ASSUME ~(k < Wrap) PROVE k >= len
        BY <3>2 DEF T!TicksAssumption
      <3> QED
        BY <3>1, <3>2, Zenon
    <2> QED
      BY <1>2, <2>1, Zenon DEF TicksInv, T!SleptEnough
  <1> QED
    BY <1>3, <1>4, <1>5, <1>6, <1>7, Zenon DEF TicksInv

(* sys_sleep() reads the clock and makes its first turn. *)
LEMMA SysSleepKeeps ==
  ASSUME T!TicksAssumption, TicksInv, NEW p \in Two, NEW len \in Lens, T!sys_sleep(p, len)
  PROVE  TicksInv'
  <1>1. ticks \in 0..(Wrap - 1) /\ len \in 0..(Wrap - 1) /\ 0 \in 0..Wrap
    BY DEF T!TicksAssumption, TicksInv, TicksTyped
  <1>2. (ticks - ticks) % Wrap = 0
    BY <1>1 DEF T!TicksAssumption
  <1> QED
    BY <1>1, <1>2, LoopKeeps, Zenon DEF T!sys_sleep

(* A woken process makes another one. *)
LEMMA WakeKeeps ==
  ASSUME T!TicksAssumption, TicksInv, NEW p \in Two, T!Wake(p)
  PROVE  TicksInv'
  <1>1. /\ n[p] \in 0..(Wrap - 1) /\ ticks0[p] \in 0..(Wrap - 1) /\ elapsed[p] \in 0..Wrap
        /\ n = [n EXCEPT ![p] = n[p]] /\ ticks0 = [ticks0 EXCEPT ![p] = ticks0[p]]
        /\ elapsed = [elapsed EXCEPT ![p] = elapsed[p]]
    BY Zenon DEF TicksInv, TicksTyped
  <1>2. elapsed[p] < Wrap => (ticks - ticks0[p]) % Wrap = elapsed[p]
    BY Zenon DEF T!Wake, T!InCall, TicksInv, ClockRight
  <1> QED
    BY <1>1, <1>2, LoopKeeps, Zenon DEF T!Wake

(* sleep() and kill() *)
LEMMA SleepKeeps ==
  ASSUME T!TicksAssumption, TicksInv, NEW p \in Two, T!Sleep(p)
  PROVE  TicksInv'
  <1>1. /\ sleeper[p] = "entering" /\ tickslock' = None
        /\ sleeper' = [sleeper EXCEPT ![p] = "asleep"]
        /\ UNCHANGED <<ticks, n, ticks0, stopped, elapsed, waited, late>>
    BY Zenon DEF T!Sleep
  <1>2. sleeper'[p] = "asleep" /\ \A q \in Two \ {p} : sleeper'[q] = sleeper[q]
    BY <1>1, Zenon DEF TicksInv, TicksTyped
  <1>3. TicksTyped'
    BY <1>1, Zenon DEF TicksInv, TicksTyped
  <1>4. EnteringLocked'
    BY <1>1, <1>2, Zenon DEF T!TicksAssumption, TicksInv, EnteringLocked
  <1>5. ClockRight'
    BY <1>1, <1>2, Zenon DEF TicksInv, ClockRight, T!InCall
  <1>6. KilledOnTime' /\ T!KilledLeaves' /\ T!SleptEnough'
    BY <1>1, <1>2, Zenon DEF TicksInv, KilledOnTime, T!KilledLeaves, T!SleptEnough
  <1> QED
    BY <1>3, <1>4, <1>5, <1>6, Zenon DEF TicksInv

LEMMA KillKeeps ==
  ASSUME T!TicksAssumption, TicksInv, NEW p \in Two, T!kill(p)
  PROVE  TicksInv'
  <1>1. /\ p \notin stopped /\ sleeper[p] \in T!InCall /\ stopped' = stopped \cup {p}
        /\ UNCHANGED <<ticks, tickslock, n, ticks0, elapsed, late>>
    BY Zenon DEF T!kill
  <1>2. /\ sleeper'[p] = IF sleeper[p] = "asleep" THEN "woken" ELSE sleeper[p]
        /\ waited'[p] = IF sleeper[p] = "asleep" THEN 0 ELSE waited[p]
        /\ \A q \in Two \ {p} : sleeper'[q] = sleeper[q] /\ waited'[q] = waited[q]
    BY Zenon DEF T!kill, TicksInv, TicksTyped
  <1>3. TicksTyped'
    <2>1. /\ sleeper' \in [Two -> {"user", "entering", "asleep", "woken", "slept", "failed"}]
          /\ waited' \in [Two -> Nat]
      BY Zenon DEF T!kill, TicksInv, TicksTyped
    <2> QED
      BY <1>1, <2>1, Zenon DEF TicksInv, TicksTyped
  <1>4. EnteringLocked'
    BY <1>1, <1>2, Zenon DEF TicksInv, EnteringLocked
  <1>5. ClockRight'
    BY <1>1, <1>2, Zenon DEF TicksInv, ClockRight, T!InCall
  <1>6. KilledOnTime'
    <2>1. late[p] = 0 /\ Lag \in Nat
      BY <1>1, Zenon DEF T!TicksAssumption, TicksInv, KilledOnTime
    <2> QED
      BY <1>1, <1>2, <2>1 DEF TicksInv, TicksTyped, KilledOnTime
  <1>7. T!KilledLeaves' /\ T!SleptEnough'
    BY <1>1, <1>2, Zenon DEF TicksInv, T!KilledLeaves, T!SleptEnough, T!InCall
  <1> QED
    BY <1>3, <1>4, <1>5, <1>6, <1>7, Zenon DEF TicksInv

(* Every step of the clock, of sleepers and of kill() keeps the invariant. *)
LEMMA TicksNext ==
  ASSUME T!TicksAssumption, TicksInv, [T!Next]_T!vars
  PROVE  TicksInv'
  <1>1. CASE T!Timer
    BY <1>1, TimerKeeps, Zenon
  <1>2. ASSUME NEW p \in Two, NEW len \in Lens, T!sys_sleep(p, len) PROVE TicksInv'
    BY <1>2, SysSleepKeeps, Zenon
  <1>3. ASSUME NEW p \in Two, T!Step(p) PROVE TicksInv'
    BY <1>3, SleepKeeps, WakeKeeps, Zenon DEF T!Step
  <1>4. ASSUME NEW p \in Two, T!kill(p) PROVE TicksInv'
    BY <1>4, KillKeeps, Zenon
  <1>5. CASE UNCHANGED T!vars
    BY <1>5, Zenon
       DEF T!vars, TicksInv, TicksTyped, EnteringLocked, ClockRight, KilledOnTime,
           T!SleptEnough, T!KilledLeaves
  <1> QED
    BY <1>1, <1>2, <1>3, <1>4, <1>5, Zenon DEF T!Next

(* sys_sleep(n) returns 0 only after n ticks, also across the wrap of the      *)
(* clock, and a killed process leaves it within a tick and the time it waits   *)
(* for a CPU, at most Lag ticks, wherever kill() came.                         *)
THEOREM SleepTheorem == ASSUME T!TicksAssumption PROVE MCSpec => []SleepTimed
  <1>1. MCInit => TicksInv
    BY TicksInit, Zenon DEF MCInit
  <1>2. TicksInv /\ [MCNext]_all => TicksInv'
    <2>1. [MCNext]_all => [T!Next]_T!vars
      BY Zenon DEF MCNext, all, ticksVars, T!vars
    <2> QED
      BY <2>1, TicksNext, Zenon
  <1>3. TicksInv => SleepTimed
    BY Zenon DEF TicksInv, SleepTimed
  <1> QED
    BY <1>1, <1>2, <1>3, PTL DEF MCSpec
==============================================================================
