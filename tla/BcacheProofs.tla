----------------------------- MODULE BcacheProofs -----------------------------
(* Proofs about Bcache for any processes, buffers, blocks and contents. *)
EXTENDS Bcache, FiniteSetTheorems, TLAPS

(* Where a process has the lock of its buffer. *)
Inside == {"iderw", "sleep", "test", "have"}

(* What the place of a process says of its buffer. *)
Places ==
  \A p \in Procs :
    /\ pc[p] = "idle" <=> buf[p] = None
    /\ pc[p] # "idle" => blk[p] \in Blocks
    /\ pc[p] \in Inside => holder[buf[p]] = p
    /\ pc[p] = "have" => valid[buf[p]]
    /\ pc[p] = "iderw" => ~valid[buf[p]] \/ dirty[buf[p]]

(* Whoever holds the lock of a buffer is at a place where it may. *)
Locks == \A b \in Bufs : holder[b] # None => buf[holder[b]] = b /\ pc[holder[b]] \in Inside

(* What is dirty was read before; what was read is some block. *)
Flags == \A b \in Bufs : (dirty[b] => valid[b]) /\ (valid[b] => blockno[b] \in Blocks)

(* No block is in two buffers. *)
OneCopy == \A b, c \in Bufs : blockno[b] = blockno[c] /\ blockno[b] # None => b = c

(* The disk interrupts for a command, and has done it by then. *)
Interrupts ==
  irq => /\ device # None
         /\ dirty[Head(idequeue)] => disk[blockno[Head(idequeue)]] = data[Head(idequeue)]

(* Without read errors a clean buffer is what the disk has. *)
Clean == Outcomes = {TRUE} => ValidIsRead

IInv ==
  /\ BuffersCounted /\ QueueOwned
  /\ Places /\ Locks /\ Flags /\ OneCopy /\ Interrupts /\ Clean

(* A process waits for the disk to deal with b. *)
Waited(b) ==
  \E p \in Procs : /\ pc[p] \in {"sleep", "test"} /\ buf[p] = b /\ holder[b] = p
                   /\ ~valid[b] \/ dirty[b]

Users(b) == {p \in Procs : buf[p] = b}

------------------------------------------------------------------------------
(* The set of processes that use a buffer is finite. *)
LEMMA Counts ==
  \A S \in SUBSET Procs : IsFiniteSet(S) /\ Cardinality(S) \in 0..Cardinality(Procs)
  <1> TAKE S \in SUBSET Procs
  <1>1. IsFiniteSet(S) /\ Cardinality(S) <= Cardinality(Procs)
    BY BcacheAssumption, FS_Subset, Zenon
  <1>2. Cardinality(S) \in Nat /\ Cardinality(Procs) \in Nat
    BY <1>1, BcacheAssumption, FS_CardinalityType, Zenon
  <1> QED
    BY <1>1, <1>2

(* bget() adds its caller to the users of the buffer. *)
LEMMA Taken ==
  ASSUME TypeOK, NEW p \in Procs, buf[p] = None, NEW b \in Bufs, buf' = [buf EXCEPT ![p] = b]
  PROVE  /\ \A c \in Bufs \ {b} : Users(c)' = Users(c)
         /\ Cardinality(Users(b)') = Cardinality(Users(b)) + 1
  <1>1. \A c \in Bufs \ {b} : Users(c)' = Users(c)
    BY BcacheAssumption DEF TypeOK, Users
  <1>2. Users(b)' = Users(b) \cup {p} /\ p \notin Users(b)
    BY BcacheAssumption DEF TypeOK, Users
  <1>3. IsFiniteSet(Users(b))
    BY Counts, Zenon DEF Users
  <1>4. Cardinality(Users(b) \cup {p}) = Cardinality(Users(b)) + 1
    BY <1>2, <1>3, FS_AddElement, Zenon
  <1> QED
    BY <1>1, <1>2, <1>4, Zenon

(* brelse() removes it. *)
LEMMA Returned ==
  ASSUME TypeOK, NEW p \in Procs, NEW b \in Bufs, buf[p] = b, buf' = [buf EXCEPT ![p] = None]
  PROVE  /\ \A c \in Bufs \ {b} : Users(c)' = Users(c)
         /\ Cardinality(Users(b)') = Cardinality(Users(b)) - 1
  <1>1. \A c \in Bufs \ {b} : Users(c)' = Users(c)
    BY BcacheAssumption, Zenon DEF TypeOK, Users
  <1>2. Users(b)' = Users(b) \ {p} /\ p \in Users(b)
    BY BcacheAssumption, Zenon DEF TypeOK, Users
  <1>3. IsFiniteSet(Users(b))
    BY Counts, Zenon DEF Users
  <1>4. Cardinality(Users(b) \ {p}) = Cardinality(Users(b)) - 1
    BY <1>2, <1>3, FS_RemoveElement, Zenon
  <1> QED
    BY <1>1, <1>2, <1>4, Zenon

(* If some buffer is unused, the scan of bget() from the far end finds one. *)
LEMMA LastUnused ==
  ASSUME TypeOK, NEW c \in Bufs, Unused(c)
  PROVE  Recycled \in Bufs /\ Unused(Recycled)
  <1> DEFINE N == Cardinality(Bufs)
             U == {n \in 1..N : Unused(lru[n])}
             S == {N - n : n \in U}
  <1>1. N \in Nat /\ DOMAIN lru = 1..N /\ \A n \in 1..N : lru[n] \in Bufs
    BY BcacheAssumption, FS_CardinalityType, Zenon DEF TypeOK
  <1>2. PICK i \in 1..N : lru[i] = c
    BY <1>1, Zenon DEF TypeOK, Range
  <1> HIDE DEF N
  <1>3. S \subseteq Nat /\ S # {}
    <2>1. \A n \in 1..N : N - n \in Nat
      BY <1>1
    <2>2. i \in U
      BY <1>2, Zenon
    <2> QED
      BY <2>1, <2>2, Zenon
  <1> HIDE DEF S
  <1>4. PICK x \in S : \A y \in S : ~ (<<y, x>> \in OpToRel(<, Nat))
    BY <1>3, NatLessThanWellFounded, WFMin, Zenon
  <1>5. PICK n \in U : x = N - n
    BY <1>4, Zenon DEF S
  <1>6. ASSUME NEW m \in 1..N, m > n PROVE ~Unused(lru[m])
    <2> SUFFICES ASSUME Unused(lru[m]) PROVE FALSE
      BY Zenon
    <2>1. N - m \in S
      BY Zenon DEF S
    <2>2. N - m < x /\ N - m \in Nat /\ x \in Nat
      BY <1>1, <1>5, <1>6
    <2> QED
      BY <1>4, <2>1, <2>2, Zenon DEF OpToRel
  <1>7. \E n1 \in DOMAIN lru : Unused(lru[n1]) /\ \A m \in DOMAIN lru : m > n1 => ~Unused(lru[m])
    BY <1>1, <1>5, <1>6, Zenon
  <1> DEFINE n0 == CHOOSE n1 \in DOMAIN lru :
                     Unused(lru[n1]) /\ \A m \in DOMAIN lru : m > n1 => ~Unused(lru[m])
  <1>8. n0 \in DOMAIN lru /\ Unused(lru[n0])
    BY <1>7, Zenon
  <1> QED
    BY <1>1, <1>8, Zenon DEF Recycled

(* Moving a buffer to the front leaves all buffers on the list. *)
LEMMA FrontIsList ==
  ASSUME TypeOK, NEW b \in Bufs
  PROVE  ToFront(b) \in [1..Cardinality(Bufs) -> Bufs] /\ Range(ToFront(b)) = Bufs
  <1> DEFINE N == Cardinality(Bufs)
             n == CHOOSE n \in DOMAIN lru : lru[n] = b
             new == ToFront(b)
  <1>1. N \in Nat /\ lru \in [1..N -> Bufs] /\ Range(lru) = Bufs
    BY BcacheAssumption, FS_CardinalityType, Zenon DEF TypeOK
  <1>2. n \in 1..N /\ lru[n] = b
    BY <1>1, Zenon DEF Range
  <1>3. new = [m \in 1..N |-> IF m = 1 THEN b ELSE IF m <= n THEN lru[m - 1] ELSE lru[m]]
    BY <1>1, Zenon DEF ToFront
  <1> HIDE DEF N, n, new
  <1>4. new \in [1..N -> Bufs]
    BY <1>1, <1>2, <1>3
  <1>5. ASSUME NEW c \in Bufs PROVE \E m \in 1..N : new[m] = c
    <2>1. PICK i \in 1..N : lru[i] = c
      BY <1>1, Zenon DEF Range
    <2>2. CASE i = n
      BY <1>1, <1>2, <1>3, <2>1, <2>2
    <2>3. CASE i < n
      <3>1. i + 1 \in 1..N /\ i + 1 # 1 /\ i + 1 <= n /\ (i + 1) - 1 = i
        BY <1>1, <1>2, <2>1, <2>3
      <3> QED
        BY <1>3, <2>1, <3>1, Zenon
    <2>4. CASE n < i
      BY <1>1, <1>2, <1>3, <2>1, <2>4
    <2> QED
      BY <1>1, <1>2, <2>2, <2>3, <2>4
  <1>6. Range(new) = Bufs
    BY <1>4, <1>5, Zenon DEF Range
  <1> QED
    BY <1>4, <1>6, Zenon DEF new, N

(* What iderw() does to the queue. *)
LEMMA Queued ==
  ASSUME NEW q \in Seq(Bufs), NEW b \in Bufs
  PROVE  /\ Append(q, b) \in Seq(Bufs) /\ Append(q, b) # <<>>
         /\ Range(Append(q, b)) = Range(q) \cup {b}
         /\ Injective(q) /\ b \notin Range(q) => Injective(Append(q, b))
         /\ Head(Append(q, b)) = IF q = <<>> THEN b ELSE Head(q)
  <1> DEFINE n == Len(q)
  <1>0. /\ n \in Nat /\ DOMAIN q = 1..n /\ DOMAIN Append(q, b) = 1..(n + 1)
        /\ Append(q, b)[n + 1] = b /\ \A i \in 1..n : Append(q, b)[i] = q[i]
    OBVIOUS
  <1>1. /\ Append(q, b) \in Seq(Bufs) /\ Append(q, b) # <<>>
        /\ Head(Append(q, b)) = IF q = <<>> THEN b ELSE Head(q)
    <2>0. Append(q, b) \in Seq(Bufs)
      OBVIOUS
    <2>1. Append(q, b) # <<>>
      <3>1. Len(Append(q, b)) = n + 1 /\ n \in Nat /\ Len(<<>>) = 0
        OBVIOUS
      <3> HIDE DEF n
      <3> QED
        BY <3>1
    <2>2. CASE q = <<>>
      BY <2>2
    <2>3. CASE q # <<>>
      BY <2>3
    <2> QED
      BY <2>0, <2>1, <2>2, <2>3, Zenon
  <1>2. Range(Append(q, b)) = Range(q) \cup {b}
    <2> HIDE DEF n
    <2>1. 1..(n + 1) = 1..n \cup {n + 1}
      BY <1>0
    <2> QED
      BY <1>0, <2>1 DEF Range
  <1>3. Injective(q) /\ b \notin Range(q) => Injective(Append(q, b))
    BY DEF Range, Injective
  <1> QED
    BY <1>1, <1>2, <1>3, Zenon

(* What ideintr() does to it. *)
LEMMA Dequeued ==
  ASSUME NEW q \in Seq(Bufs), q # <<>>, Injective(q)
  PROVE  /\ Head(q) \in Range(q) /\ Head(q) \in Bufs /\ Tail(q) \in Seq(Bufs)
         /\ Range(Tail(q)) = Range(q) \ {Head(q)} /\ Injective(Tail(q))
         /\ Tail(q) # <<>> => Head(Tail(q)) \in Range(Tail(q))
  <1>1. Head(q) = q[1] /\ 1 \in DOMAIN q /\ Head(q) \in Bufs /\ Tail(q) \in Seq(Bufs)
    OBVIOUS
  <1>2. Injective(Tail(q))
    BY DEF Injective
  <1>3. Range(Tail(q)) = Range(q) \ {Head(q)}
    <2> DEFINE n == Len(q)
    <2>1. /\ n \in Nat /\ DOMAIN q = 1..n /\ DOMAIN Tail(q) = 1..(n - 1)
          /\ \A i \in 1..(n - 1) : Tail(q)[i] = q[i + 1]
      OBVIOUS
    <2> HIDE DEF n
    <2>2. \A i \in 1..(n - 1) : i + 1 \in 1..n /\ i + 1 # 1
      BY <2>1
    <2>3. \A i \in 1..n : i # 1 => i - 1 \in 1..(n - 1) /\ Tail(q)[i - 1] = q[i]
      BY <2>1
    <2>4. \A i \in 1..n : q[i] = q[1] => i = 1
      BY <1>1, <2>1, Zenon DEF Injective
    <2>5. \A x \in Range(Tail(q)) : x \in Range(q) /\ x # q[1]
      BY <2>1, <2>2, <2>4 DEF Range
    <2>6. ASSUME NEW x \in Range(q), x # q[1] PROVE x \in Range(Tail(q))
      <3>1. PICK i \in 1..n : q[i] = x
        BY <2>1, Zenon DEF Range
      <3>2. i - 1 \in DOMAIN Tail(q) /\ Tail(q)[i - 1] = x
        BY <2>1, <2>3, <2>6, <3>1, Zenon
      <3> QED
        BY <3>2, Zenon DEF Range
    <2> QED
      BY <1>1, <2>5, <2>6, Zenon
  <1>4. Tail(q) # <<>> => Head(Tail(q)) \in Range(Tail(q))
    BY <1>1 DEF Range
  <1> QED
    BY <1>1, <1>2, <1>3, <1>4, Zenon DEF Range

(* What the invariant says of the buffer of a process. *)
LEMMA Facts ==
  ASSUME IInv
  PROVE  /\ \A p \in Procs : pc[p] # "idle" =>
              buf[p] \in Bufs /\ blockno[buf[p]] = blk[p] /\ blk[p] \in Blocks
         /\ \A p \in Procs : pc[p] \in Inside => holder[buf[p]] = p
         /\ \A b \in Bufs : holder[b] \in Procs \cup {None}
         /\ \A b \in Bufs : holder[b] # None => holder[b] \in Procs
  <1>1. \A p \in Procs : pc[p] # "idle" =>
          buf[p] \in Bufs /\ blockno[buf[p]] = blk[p] /\ blk[p] \in Blocks
    BY BcacheAssumption, ZenonT(40) DEF IInv, BuffersCounted, TypeOK, RefsCounted, Places
  <1>2. \A b \in Bufs : holder[b] \in Procs \cup {None}
    BY Zenon DEF IInv, BuffersCounted, TypeOK
  <1> QED
    BY <1>1, <1>2, Zenon DEF IInv, Places

(* A step that leaves the buffers alone keeps what is known of them. *)
LEMMA SameBuffers ==
  ASSUME IInv, UNCHANGED <<blockno, valid, dirty, data, disk>>
  PROVE  Flags' /\ OneCopy' /\ Clean'
  <1>1. Flags'
    BY Zenon DEF IInv, Flags
  <1>2. OneCopy'
    BY Zenon DEF IInv, OneCopy
  <1>3. Clean'
    BY Zenon DEF IInv, Clean, ValidIsRead
  <1> QED
    BY <1>1, <1>2, <1>3, Zenon

(* A step that leaves the users alone keeps the counts. *)
LEMMA SameUsers ==
  ASSUME IInv, ~panicked, UNCHANGED <<blockno, refcnt, panicked, blk, buf>>, TypeOK'
  PROVE  BuffersCounted'
  <1>1. RefsCounted'
    BY Zenon DEF IInv, BuffersCounted, RefsCounted
  <1>2. NoneLeaks'
    BY Zenon DEF NoneLeaks
  <1> QED
    BY <1>1, <1>2, Zenon DEF BuffersCounted

(* The request at the head of the queue is somebody's. *)
LEMMA HeadWaited ==
  ASSUME IInv, idequeue # <<>>
  PROVE  /\ Head(idequeue) \in Bufs /\ Head(idequeue) \in Range(idequeue)
         /\ Waited(Head(idequeue))
         /\ device = Command(Head(idequeue)) /\ device # None
  <1>1. idequeue \in Seq(Bufs) /\ Injective(idequeue)
    BY Zenon DEF IInv, BuffersCounted, TypeOK, QueueOwned
  <1>2. Head(idequeue) \in Bufs /\ Head(idequeue) \in Range(idequeue)
    BY <1>1, Dequeued, Zenon
  <1> QED
    BY <1>2, Zenon DEF IInv, QueueOwned, Waited

(* The command for a buffer with a block is one the disk knows. *)
LEMMA CommandIsRequest ==
  ASSUME TypeOK, NEW b \in Bufs, blockno[b] \in Blocks
  PROVE  Command(b) \in Commands /\ Command(b) # None
  BY BcacheAssumption DEF Command, Commands, TypeOK

(* A step that changes no request keeps what is known of the queue. *)
LEMMA SameQueue ==
  ASSUME IInv, UNCHANGED <<idequeue, device>>,
         \A b \in Bufs : Waited(b)' <=> Waited(b),
         \A b \in Bufs : Waited(b) =>
           blockno'[b] = blockno[b] /\ dirty'[b] = dirty[b] /\ data'[b] = data[b]
  PROVE  QueueOwned' /\ (UNCHANGED <<irq, disk>> => Interrupts')
  <1> DEFINE h == Head(idequeue)
  <1>1. idequeue # <<>> => Command(h)' = Command(h)
    BY HeadWaited, Zenon DEF Command
  <1>2. idequeue' = idequeue /\ device' = device /\ h' = h
    BY Zenon
  <1>3. idequeue' # <<>> => device' = Command(Head(idequeue))'
    BY <1>1, <1>2, HeadWaited, Zenon
  <1>4. QueueOwned'
    BY <1>2, <1>3, Zenon DEF IInv, QueueOwned, Waited
  <1>5. ASSUME UNCHANGED <<irq, disk>> PROVE Interrupts'
    <2> SUFFICES ASSUME irq
                 PROVE  device # None /\ (dirty'[h] => disk[blockno'[h]] = data'[h])
      BY <1>2, <1>5, Zenon DEF Interrupts
    <2>1. device # None /\ (dirty[h] => disk[blockno[h]] = data[h])
      BY Zenon DEF IInv, Interrupts
    <2>2. idequeue # <<>>
      BY <2>1, Zenon DEF IInv, QueueOwned
    <2> QED
      BY <2>1, <2>2, HeadWaited, Zenon
  <1> QED
    BY <1>4, <1>5, Zenon

(* acquiresleep() of the buffer. *)
LEMMA LockBufIInv ==
  ASSUME IInv, NEW p \in Procs, LockBuf(p)
  PROVE  IInv'
  <1>1. PICK b \in Bufs :
        /\ b = buf[p] /\ holder[b] = None /\ pc[p] = "lock" /\ ~panicked
        /\ holder' = [holder EXCEPT ![b] = p]
        /\ pc' = [pc EXCEPT ![p] = IF valid[b] THEN "have" ELSE "iderw"]
        /\ UNCHANGED <<lru, blockno, refcnt, valid, dirty, data, idequeue, device, irq, disk,
                       panicked, blk, buf>>
    BY Facts, Zenon DEF LockBuf, At, Goto, cache, flags, driver
  <1>2. TypeOK'
    BY <1>1, Zenon DEF IInv, BuffersCounted, TypeOK
  <1>3. BuffersCounted'
    BY <1>1, <1>2, SameUsers, Zenon
  <1>4. Flags' /\ OneCopy' /\ Clean'
    BY <1>1, SameBuffers, Zenon
  <1>5. \A c \in Bufs : Waited(c)' <=> Waited(c)
    BY <1>1, <1>2, BcacheAssumption DEF Waited, IInv, BuffersCounted, TypeOK
  <1>6. QueueOwned' /\ Interrupts'
    BY <1>1, <1>5, SameQueue, Zenon
  <1>7. Places'
    <2>0. \A q \in Procs : pc[q] \in Inside => buf[q] # b
      BY <1>1, Facts, BcacheAssumption, Zenon
    <2>1. /\ \A q \in Procs \ {p} : pc'[q] = pc[q]
          /\ pc'[p] = IF valid[b] THEN "have" ELSE "iderw"
      BY <1>1, Zenon DEF IInv, BuffersCounted, TypeOK
    <2>2. holder'[b] = p /\ \A c \in Bufs \ {b} : holder'[c] = holder[c]
      BY <1>1, Zenon DEF IInv, BuffersCounted, TypeOK
    <2> QED
      BY <1>1, <2>0, <2>1, <2>2, Facts DEF IInv, Places, Inside
  <1>8. Locks'
    BY <1>1, Facts DEF IInv, BuffersCounted, TypeOK, Locks, Inside
  <1> QED
    BY <1>3, <1>4, <1>6, <1>7, <1>8, Zenon DEF IInv

(* iderw() enqueues a buffer that nobody else can have enqueued. *)
LEMMA IderwIInv ==
  ASSUME IInv, NEW p \in Procs, Iderw(p)
  PROVE  IInv'
  <1>1. PICK b \in Bufs :
        /\ b = buf[p] /\ holder[b] = p /\ pc[p] = "iderw" /\ ~panicked
        /\ ~valid[b] \/ dirty[b]
        /\ Command(b) \in Commands /\ Command(b) # None
        /\ idequeue' = Append(idequeue, b)
        /\ device' = (IF idequeue = <<>> THEN Command(b) ELSE device)
        /\ pc' = [pc EXCEPT ![p] = "sleep"]
        /\ UNCHANGED <<lru, blockno, refcnt, valid, dirty, holder, data, irq, disk,
                       panicked, blk, buf>>
    <2>1. pc[p] = "iderw"
      BY Zenon DEF Iderw, At
    <2>2. buf[p] \in Bufs /\ holder[buf[p]] = p /\ (~valid[buf[p]] \/ dirty[buf[p]])
      BY <2>1, Facts, Zenon DEF IInv, Places, Inside
    <2>3. Command(buf[p]) \in Commands /\ Command(buf[p]) # None
      <3>1. buf[p] \in Bufs /\ blockno[buf[p]] \in Blocks
        BY <2>1, Facts, Zenon
      <3> QED
        BY <3>1, CommandIsRequest, Zenon DEF IInv, BuffersCounted
    <2> QED
      BY <2>1, <2>2, <2>3, Zenon DEF Iderw, At, Goto, cache, flags
  <1>q. idequeue \in Seq(Bufs) /\ Injective(idequeue)
    BY Zenon DEF IInv, BuffersCounted, TypeOK, QueueOwned
  <1>2. TypeOK'
    <2>1. idequeue' \in Seq(Bufs)
      BY <1>1, <1>q, Queued, Zenon
    <2> QED
      BY <1>1, <2>1, Zenon DEF IInv, BuffersCounted, TypeOK
  <1>3. BuffersCounted'
    BY <1>1, <1>2, SameUsers, Zenon
  <1>4. Flags' /\ OneCopy' /\ Clean'
    BY <1>1, SameBuffers, Zenon
  <1>5. \A c \in Bufs : Waited(c)' <=> Waited(c) \/ c = b
    <2>1. \A c \in Bufs \ {b} : Waited(c)' <=> Waited(c)
      BY <1>1, Zenon DEF Waited, IInv, BuffersCounted, TypeOK
    <2>2. Waited(b)'
      BY <1>1, Zenon DEF Waited, IInv, BuffersCounted, TypeOK
    <2> QED
      BY <2>1, <2>2, Zenon
  <1>6. b \notin Range(idequeue)
    <2>1. ~Waited(b)
      BY <1>1, Zenon DEF Waited
    <2> QED
      BY <1>1, <2>1, Zenon DEF IInv, QueueOwned, Waited
  <1>7. /\ Injective(idequeue') /\ idequeue' # <<>>
        /\ Range(idequeue') = Range(idequeue) \cup {b}
        /\ Head(idequeue') = IF idequeue = <<>> THEN b ELSE Head(idequeue)
    BY <1>1, <1>q, <1>6, Queued, Zenon
  <1>8. QueueOwned' /\ Interrupts'
    <2>1. device' = Command(Head(idequeue')) /\ device' # None
      <3>1. idequeue # <<>> => device = Command(Head(idequeue)) /\ device # None
        BY HeadWaited, Zenon
      <3> QED
        BY <1>1, <1>7, <3>1, Zenon
    <2>2. Command(Head(idequeue))' = Command(Head(idequeue'))
      BY <1>1, Zenon DEF Command
    <2>3. \A c \in Bufs : c \in Range(idequeue') <=> Waited(c)'
      BY <1>1, <1>5, <1>7, Zenon DEF IInv, QueueOwned, Waited
    <2>4. QueueOwned'
      BY <1>7, <2>1, <2>2, <2>3, Zenon DEF QueueOwned, Waited
    <2>5. irq => idequeue # <<>>
      BY Zenon DEF IInv, Interrupts, QueueOwned
    <2>6. Interrupts'
      BY <1>1, <1>7, <2>1, <2>5, Zenon DEF IInv, Interrupts
    <2> QED
      BY <2>4, <2>6, Zenon
  <1>9. Places'
    BY <1>1, Facts DEF IInv, BuffersCounted, TypeOK, Places, Inside
  <1>10. Locks'
    BY <1>1, Facts, Zenon DEF IInv, BuffersCounted, TypeOK, Locks, Inside
  <1> QED
    BY <1>3, <1>4, <1>8, <1>9, <1>10, Zenon DEF IInv

(* The disk carries out the command for the head of the queue. *)
LEMMA DiskWorksIInv ==
  ASSUME IInv, DiskWorks
  PROVE  IInv'
  <1>1. /\ ~panicked /\ device # None /\ ~irq /\ irq' = TRUE
        /\ disk' = IF device.op = "write" THEN [disk EXCEPT ![device.block] = device.data]
                   ELSE disk
        /\ UNCHANGED <<lru, blockno, refcnt, valid, dirty, holder, data, idequeue, device,
                       panicked, pc, blk, buf>>
    BY Zenon DEF DiskWorks, cache, flags, driver, procs
  <1>2. PICK h \in Bufs :
          h = Head(idequeue) /\ idequeue # <<>> /\ Waited(h) /\ device = Command(h)
    BY <1>1, HeadWaited, Zenon DEF IInv, QueueOwned
  <1>3. blockno[h] \in Blocks
    BY <1>2, Facts, Zenon DEF Waited
  <1>4. disk' = IF dirty[h] THEN [disk EXCEPT ![blockno[h]] = data[h]] ELSE disk
    BY <1>1, <1>2, Zenon DEF Command
  <1>5. TypeOK'
    <2>1. disk' \in [Blocks -> Vals]
      BY <1>3, <1>4, Zenon DEF IInv, BuffersCounted, TypeOK
    <2> QED
      BY <1>1, <2>1, Zenon DEF IInv, BuffersCounted, TypeOK
  <1>6. BuffersCounted'
    BY <1>1, <1>5, SameUsers, Zenon
  <1>7. QueueOwned'
    <2>1. \A c \in Bufs : Waited(c)' <=> Waited(c)
      BY <1>1, Zenon DEF Waited
    <2> QED
      BY <1>1, <2>1, SameQueue, Zenon
  <1>8. Places' /\ Locks' /\ Flags' /\ OneCopy'
    BY <1>1, Zenon DEF IInv, Places, Locks, Flags, OneCopy
  <1>9. Interrupts'
    BY <1>1, <1>2, <1>3, <1>4, Zenon DEF IInv, BuffersCounted, TypeOK, Interrupts
  <1>10. Clean'
    <2> SUFFICES ASSUME Outcomes = {TRUE}, NEW c \in Bufs, valid[c], ~dirty[c]
                 PROVE  data[c] = disk'[blockno[c]]
      BY <1>1, Zenon DEF Clean, ValidIsRead
    <2>1. data[c] = disk[blockno[c]] /\ blockno[c] \in Blocks
      BY Zenon DEF IInv, Clean, ValidIsRead, Flags
    <2>2. CASE dirty[h]
      <3>1. blockno[c] # blockno[h]
        BY <1>2, <2>1, <2>2, BcacheAssumption, Zenon DEF IInv, OneCopy
      <3> QED
        BY <1>4, <2>1, <2>2, <3>1, Zenon DEF IInv, BuffersCounted, TypeOK
    <2> QED
      BY <1>4, <2>1, <2>2, Zenon
  <1> QED
    BY <1>6, <1>7, <1>8, <1>9, <1>10, Zenon DEF IInv

(* ideintr() ends the request at the head of the queue and starts the next. *)
LEMMA IdeintrIInv ==
  ASSUME IInv, NEW ok \in Outcomes, Ideintr(ok)
  PROVE  IInv'
  <1>0. idequeue \in Seq(Bufs) /\ Injective(idequeue) /\ idequeue # <<>>
    BY Zenon DEF IInv, BuffersCounted, TypeOK, QueueOwned, Ideintr
  <1>1. PICK h \in Bufs, rest \in Seq(Bufs) :
        /\ h = Head(idequeue) /\ rest = Tail(idequeue)
        /\ ~panicked /\ irq /\ irq' = FALSE /\ idequeue' = rest
        /\ data' = (IF ~dirty[h] /\ ok THEN [data EXCEPT ![h] = disk[blockno[h]]] ELSE data)
        /\ valid' = [valid EXCEPT ![h] = TRUE] /\ dirty' = [dirty EXCEPT ![h] = FALSE]
        /\ pc' = [p \in Procs |-> IF pc[p] = "sleep" /\ buf[p] = h THEN "test" ELSE pc[p]]
        /\ device' = (IF rest = <<>> THEN None ELSE Command(Head(rest)))
        /\ UNCHANGED <<lru, blockno, refcnt, holder, disk, panicked, blk, buf>>
    <2>1. Head(idequeue) \in Bufs /\ Tail(idequeue) \in Seq(Bufs)
      BY <1>0, Dequeued, Zenon
    <2> QED
      BY <2>1, Zenon DEF Ideintr, cache
  <1>2. /\ Waited(h) /\ Injective(rest) /\ Range(rest) = Range(idequeue) \ {h}
        /\ rest # <<>> => Head(rest) \in Range(rest)
    BY <1>0, <1>1, Dequeued, HeadWaited, Zenon
  <1>3. blockno[h] \in Blocks
    BY <1>2, Facts, ZenonT(40) DEF Waited
  <1>4. \A c \in Bufs : c \in Range(idequeue) <=> Waited(c)
    BY Zenon DEF IInv, QueueOwned, Waited
  <1>5. rest # <<>> => /\ Head(rest) \in Bufs \ {h} /\ Waited(Head(rest))
                       /\ Command(Head(rest)) \in Commands /\ Command(Head(rest)) # None
    <2> SUFFICES ASSUME rest # <<>>
                 PROVE  /\ Head(rest) \in Bufs \ {h} /\ Waited(Head(rest))
                        /\ Command(Head(rest)) \in Commands /\ Command(Head(rest)) # None
      BY Zenon
    <2>1. Head(rest) \in Bufs
      BY <1>2
    <2>2. Head(rest) # h /\ Waited(Head(rest))
      BY <1>2, <1>4, <2>1, Zenon
    <2>3. blockno[Head(rest)] \in Blocks
      BY <2>1, <2>2, Facts, Zenon DEF Waited
    <2> QED
      BY <2>1, <2>2, <2>3, CommandIsRequest, Zenon DEF IInv, BuffersCounted
  <1>6. TypeOK'
    <2>1. data' \in [Bufs -> Vals]
      BY <1>1, <1>3, Zenon DEF IInv, BuffersCounted, TypeOK
    <2>2. device' \in Commands \cup {None}
      BY <1>1, <1>5, Zenon
    <2>3. pc' \in [Procs -> {"idle", "lock", "iderw", "sleep", "test", "have", "unref"}]
      BY <1>1, Zenon DEF IInv, BuffersCounted, TypeOK
    <2> QED
      BY <1>1, <1>2, <2>1, <2>2, <2>3, Zenon DEF IInv, BuffersCounted, TypeOK
  <1>7. BuffersCounted'
    BY <1>1, <1>6, SameUsers, Zenon
  <1>8. \A c \in Bufs : Waited(c)' <=> Waited(c) /\ c # h
    <2>1. ~Waited(h)'
      BY <1>1, <1>2, Zenon DEF Waited, IInv, BuffersCounted, TypeOK
    <2>2. \A c \in Bufs \ {h} : Waited(c)' <=> Waited(c)
      BY <1>1, <1>2, SMTT(30) DEF Waited, IInv, BuffersCounted, TypeOK
    <2> QED
      BY <2>1, <2>2, Zenon
  <1>9. QueueOwned'
    <2>1. \A c \in Bufs : c \in Range(idequeue') <=> Waited(c)'
      BY <1>1, <1>2, <1>4, <1>8, Zenon
    <2>2. ASSUME rest # <<>> PROVE Command(Head(rest))' = Command(Head(rest))
      <3>1. PICK n \in Bufs \ {h} : n = Head(rest)
        BY <1>5, <2>2, Zenon
      <3>2. dirty'[n] = dirty[n] /\ data'[n] = data[n] /\ blockno'[n] = blockno[n]
        BY <1>1, <3>1, Zenon DEF IInv, BuffersCounted, TypeOK
      <3> QED
        BY <3>1, <3>2, Zenon DEF Command
    <2>3. idequeue' # <<>> => device' = Command(Head(idequeue))'
      BY <1>1, <2>2, Zenon
    <2>4. idequeue' = <<>> <=> device' = None
      BY <1>1, <1>5, Zenon
    <2> QED
      BY <1>1, <1>2, <2>1, <2>3, <2>4, Zenon DEF QueueOwned, Waited
  <1>10. Places'
    <2>1. \A p \in Procs : pc'[p] # pc[p] => pc[p] = "sleep" /\ pc'[p] = "test"
      BY <1>1, Zenon
    <2>2. \A p \in Procs : pc[p] # "idle" => buf[p] \in Bufs /\ (valid[buf[p]] => valid'[buf[p]])
      BY <1>1, Facts, Zenon DEF IInv, BuffersCounted, TypeOK
    <2>3. \A p \in Procs : pc[p] = "iderw" => buf[p] # h
      BY <1>2, Facts, Zenon DEF Waited, Inside
    <2>4. \A p \in Procs : pc'[p] = "iderw" => ~valid'[buf[p]] \/ dirty'[buf[p]]
      BY <1>1, <2>1, <2>2, <2>3, Zenon DEF IInv, BuffersCounted, TypeOK, Places
    <2> QED
      BY <1>1, <2>1, <2>2, <2>4, Zenon DEF IInv, Places, Inside
  <1>11. Locks'
    BY <1>1, Facts, Zenon DEF IInv, Locks, Inside
  <1>12. Flags' /\ OneCopy'
    BY <1>1, <1>3, ZenonT(40) DEF IInv, BuffersCounted, TypeOK, Flags, OneCopy
  <1>13. Interrupts'
    BY <1>1, Zenon DEF Interrupts
  <1>14. Clean'
    <2> SUFFICES ASSUME Outcomes = {TRUE}, NEW c \in Bufs, valid'[c], ~dirty'[c]
                 PROVE  data'[c] = disk[blockno[c]]
      BY <1>1, Zenon DEF Clean, ValidIsRead
    <2>1. CASE c # h
      BY <1>1, <1>2, <2>1, Zenon DEF IInv, BuffersCounted, TypeOK, Clean, ValidIsRead
    <2>2. CASE c = h /\ dirty[h]
      BY <1>1, <2>2, Zenon DEF IInv, Interrupts
    <2>3. CASE c = h /\ ~dirty[h]
      <3>1. ok
        BY Zenon
      <3> QED
        BY <1>1, <1>2, <2>3, <3>1, Zenon DEF IInv, BuffersCounted, TypeOK
    <2> QED
      BY <2>1, <2>2, <2>3, Zenon
  <1> QED
    BY <1>7, <1>9, <1>10, <1>11, <1>12, <1>13, <1>14, Zenon DEF IInv

(* kill() wakes a process that waits for the disk, and iderw() tests again. *)
LEMMA WakesIInv ==
  ASSUME IInv, NEW p \in Procs, Kill(p) \/ IderwTest(p)
  PROVE  IInv'
  <1>1. PICK b \in Bufs :
        /\ b = buf[p] /\ pc[p] \in {"sleep", "test"} /\ holder[b] = p /\ ~panicked
        /\ pc' = [pc EXCEPT ![p] = pc'[p]] /\ pc'[p] \in {"sleep", "test", "have"}
        /\ pc'[p] = "have" => valid[b] /\ ~dirty[b]
        /\ UNCHANGED <<lru, blockno, refcnt, valid, dirty, holder, data, idequeue, device, irq,
                       disk, panicked, blk, buf>>
    <2>1. pc[p] \in {"sleep", "test"} /\ ~panicked
      BY Zenon DEF Kill, IderwTest, At
    <2>2. buf[p] \in Bufs /\ holder[buf[p]] = p
      BY <2>1, Facts, Zenon DEF Inside
    <2>3. CASE Kill(p)
      BY <2>1, <2>2, <2>3, Zenon
         DEF Kill, Goto, cache, flags, driver, IInv, BuffersCounted, TypeOK
    <2>4. CASE IderwTest(p)
      BY <2>1, <2>2, <2>4, Zenon
         DEF IderwTest, Goto, cache, flags, driver, IInv, BuffersCounted, TypeOK
    <2> QED
      BY <2>3, <2>4, Zenon
  <1>2. TypeOK'
    BY <1>1 DEF IInv, BuffersCounted, TypeOK
  <1>3. BuffersCounted'
    BY <1>1, <1>2, SameUsers, Zenon
  <1>4. Flags' /\ OneCopy' /\ Clean'
    BY <1>1, SameBuffers, Zenon
  <1>5. \A c \in Bufs : Waited(c)' <=> Waited(c)
    <2>1. \A q \in Procs \ {p} : pc'[q] = pc[q]
      BY <1>1, <1>2, Zenon DEF TypeOK
    <2>2. \A c \in Bufs \ {b} : Waited(c)' <=> Waited(c)
      BY <1>1, <2>1, Zenon DEF Waited
    <2>3. Waited(b)' <=> Waited(b)
      BY <1>1, <2>1, Zenon DEF Waited
    <2> QED
      BY <2>2, <2>3, Zenon
  <1>6. QueueOwned' /\ Interrupts'
    BY <1>1, <1>5, SameQueue, Zenon
  <1>7. Places'
    BY <1>1, Facts DEF IInv, BuffersCounted, TypeOK, Places, Inside
  <1>8. Locks'
    BY <1>1, Facts, Zenon DEF IInv, BuffersCounted, TypeOK, Locks, Inside
  <1> QED
    BY <1>3, <1>4, <1>6, <1>7, <1>8, Zenon DEF IInv

(* A process changes the buffer it has, for bwrite() or for log_write(). *)
LEMMA ModifyIInv ==
  ASSUME IInv, NEW p \in Procs, NEW v \in Vals, Bwrite(p, v) \/ LogWrite(p, v)
  PROVE  IInv'
  <1>1. PICK b \in Bufs :
        /\ b = buf[p] /\ pc[p] = "have" /\ holder[b] = p /\ valid[b] /\ ~panicked
        /\ data' = [data EXCEPT ![b] = v] /\ dirty' = [dirty EXCEPT ![b] = TRUE]
        /\ pc' = [pc EXCEPT ![p] = pc'[p]] /\ pc'[p] \in {"have", "iderw"}
        /\ UNCHANGED <<lru, blockno, refcnt, valid, holder, idequeue, device, irq, disk,
                       panicked, blk, buf>>
    <2>1. pc[p] = "have" /\ ~panicked /\ Modify(p, v)
      BY Zenon DEF Bwrite, LogWrite, Modify, At
    <2>2. buf[p] \in Bufs /\ holder[buf[p]] = p /\ valid[buf[p]]
      BY <2>1, Facts, Zenon DEF IInv, Places, Inside
    <2>3. pc' = [pc EXCEPT ![p] = pc'[p]] /\ pc'[p] \in {"have", "iderw"}
      BY <2>1, Zenon DEF Bwrite, LogWrite, Goto, IInv, BuffersCounted, TypeOK
    <2> QED
      BY <2>1, <2>2, <2>3, Zenon DEF Modify, cache, driver
  <1>2. TypeOK'
    <2>1. data' \in [Bufs -> Vals] /\ dirty' \in [Bufs -> BOOLEAN]
      BY <1>1, Zenon DEF IInv, BuffersCounted, TypeOK
    <2>2. pc' \in [Procs -> {"idle", "lock", "iderw", "sleep", "test", "have", "unref"}]
      BY <1>1, Zenon DEF IInv, BuffersCounted, TypeOK
    <2> QED
      BY <1>1, <2>1, <2>2, Zenon DEF IInv, BuffersCounted, TypeOK
  <1>3. BuffersCounted'
    BY <1>1, <1>2, SameUsers, Zenon
  <1>4. Flags' /\ OneCopy' /\ Clean'
    <2>1. /\ dirty'[b]
          /\ \A c \in Bufs \ {b} : data'[c] = data[c] /\ dirty'[c] = dirty[c]
      BY <1>1, ZenonT(40) DEF IInv, BuffersCounted, TypeOK
    <2>2. Flags' /\ OneCopy'
      BY <1>1, <2>1, Zenon DEF IInv, Flags, OneCopy
    <2>3. Clean'
      BY <1>1, <2>1 DEF IInv, Clean, ValidIsRead
    <2> QED
      BY <2>2, <2>3, Zenon
  <1>5. ~Waited(b) /\ \A c \in Bufs : Waited(c)' <=> Waited(c)
    <2>1. \A q \in Procs \ {p} : pc'[q] = pc[q]
      BY <1>1, <1>2 DEF TypeOK
    <2>2. ~Waited(b) /\ ~Waited(b)'
      BY <1>1, Zenon DEF Waited
    <2>3. \A c \in Bufs \ {b} : Waited(c)' <=> Waited(c)
      BY <1>1, <2>1 DEF Waited, IInv, BuffersCounted, TypeOK
    <2> QED
      BY <2>2, <2>3, Zenon
  <1>6. QueueOwned' /\ Interrupts'
    <2>1. \A c \in Bufs : Waited(c) =>
            blockno'[c] = blockno[c] /\ dirty'[c] = dirty[c] /\ data'[c] = data[c]
      BY <1>1, <1>5, Zenon DEF IInv, BuffersCounted, TypeOK
    <2> QED
      BY <1>1, <1>5, <2>1, SameQueue, Zenon
  <1>7. Places'
    <2>1. \A q \in Procs \ {p} : pc'[q] = pc[q] /\ (pc[q] \in Inside => buf[q] # b)
      BY <1>1, <1>2, Facts DEF TypeOK, Inside
    <2>2. \A q \in Procs \ {p} : pc[q] = "iderw" => ~valid'[buf[q]] \/ dirty'[buf[q]]
      BY <1>1, <2>1, Facts, Zenon DEF IInv, BuffersCounted, TypeOK, Places, Inside
    <2> QED
      BY <1>1, <2>1, <2>2 DEF IInv, BuffersCounted, TypeOK, Places, Inside
  <1>8. Locks'
    BY <1>1, Facts, Zenon DEF IInv, BuffersCounted, TypeOK, Locks, Inside
  <1> QED
    BY <1>3, <1>4, <1>6, <1>7, <1>8, Zenon DEF IInv

(* brelse() releases the sleep lock ... *)
LEMMA BrelseUnlockIInv ==
  ASSUME IInv, NEW p \in Procs, BrelseUnlock(p)
  PROVE  IInv'
  <1>1. PICK b \in Bufs :
        /\ b = buf[p] /\ pc[p] = "have" /\ holder[b] = p /\ ~panicked
        /\ holder' = [holder EXCEPT ![b] = None]
        /\ pc' = [pc EXCEPT ![p] = "unref"]
        /\ UNCHANGED <<lru, blockno, refcnt, valid, dirty, data, idequeue, device, irq, disk,
                       panicked, blk, buf>>
    BY Facts, Zenon DEF BrelseUnlock, At, Goto, cache, flags, driver, Inside
  <1>2. TypeOK'
    BY <1>1, Zenon DEF IInv, BuffersCounted, TypeOK
  <1>3. BuffersCounted'
    BY <1>1, <1>2, SameUsers, Zenon
  <1>4. Flags' /\ OneCopy' /\ Clean'
    BY <1>1, SameBuffers, Zenon
  <1>5. \A c \in Bufs : Waited(c)' <=> Waited(c)
    <2>1. ~Waited(b) /\ ~Waited(b)'
      BY <1>1, BcacheAssumption, Zenon DEF Waited, IInv, BuffersCounted, TypeOK
    <2>2. \A c \in Bufs \ {b} : Waited(c)' <=> Waited(c)
      BY <1>1, ZenonT(40) DEF Waited, IInv, BuffersCounted, TypeOK
    <2> QED
      BY <2>1, <2>2, Zenon
  <1>6. QueueOwned' /\ Interrupts'
    BY <1>1, <1>5, SameQueue, Zenon
  <1>7. Places'
    <2>1. \A q \in Procs \ {p} : pc'[q] = pc[q] /\ (pc[q] \in Inside => buf[q] # b)
      BY <1>1, <1>2, Facts DEF IInv, BuffersCounted, TypeOK, Inside
    <2>2. \A q \in Procs \ {p} : pc[q] \in Inside => holder'[buf[q]] = q
      BY <1>1, <2>1, Facts, Zenon DEF IInv, BuffersCounted, TypeOK, Inside
    <2> QED
      BY <1>1, <2>1, <2>2 DEF IInv, BuffersCounted, TypeOK, Places, Inside
  <1>8. Locks'
    BY <1>1, Facts DEF IInv, BuffersCounted, TypeOK, Locks, Inside
  <1> QED
    BY <1>3, <1>4, <1>6, <1>7, <1>8, Zenon DEF IInv

(* ... and then the reference. *)
LEMMA BrelseIInv ==
  ASSUME IInv, NEW p \in Procs, Brelse(p)
  PROVE  IInv'
  <1>1. PICK b \in Bufs :
        /\ b = buf[p] /\ pc[p] = "unref" /\ ~panicked
        /\ refcnt' = [refcnt EXCEPT ![b] = refcnt[b] - 1]
        /\ lru' \in [1..Cardinality(Bufs) -> Bufs] /\ Range(lru') = Bufs
        /\ buf' = [buf EXCEPT ![p] = None] /\ blk' = [blk EXCEPT ![p] = None]
        /\ pc' = [pc EXCEPT ![p] = "idle"]
        /\ UNCHANGED <<blockno, valid, dirty, holder, data, idequeue, device, irq, disk,
                       panicked>>
    <2>1. buf[p] \in Bufs /\ pc[p] = "unref" /\ ~panicked
      BY Facts, Zenon DEF Brelse, At
    <2>2. lru' = ToFront(buf[p]) \/ lru' = lru
      BY Zenon DEF Brelse
    <2>3. lru' \in [1..Cardinality(Bufs) -> Bufs] /\ Range(lru') = Bufs
      BY <2>1, <2>2, FrontIsList, Zenon DEF IInv, BuffersCounted, TypeOK
    <2> QED
      BY <2>1, <2>3, Zenon DEF Brelse, Goto, flags, driver
  <1>r. \A c \in Bufs : refcnt'[c] = Cardinality(Users(c)')
    <2>1. \A c \in Bufs : refcnt[c] = Cardinality(Users(c))
      BY Zenon DEF IInv, BuffersCounted, RefsCounted, Users
    <2>2. /\ \A c \in Bufs \ {b} : Users(c)' = Users(c)
          /\ Cardinality(Users(b)') = Cardinality(Users(b)) - 1
      BY <1>1, Returned, Zenon DEF IInv, BuffersCounted
    <2> QED
      BY <1>1, <2>1, <2>2, Zenon DEF IInv, BuffersCounted, TypeOK
  <1>2. TypeOK'
    <2>1. \A c \in Bufs : Users(c)' \in SUBSET Procs
      BY Zenon DEF Users
    <2>2. \A c \in Bufs : refcnt'[c] \in 0..Cardinality(Procs)
      BY <1>r, <2>1, Counts, Zenon
    <2>3. refcnt' \in [Bufs -> 0..Cardinality(Procs)]
      BY <1>1, <2>2, Zenon DEF IInv, BuffersCounted, TypeOK
    <2> QED
      BY <1>1, <2>3, Zenon DEF IInv, BuffersCounted, TypeOK
  <1>3. BuffersCounted'
    <2>1. RefsCounted'
      BY <1>1, <1>r, ZenonT(40) DEF IInv, BuffersCounted, TypeOK, RefsCounted, Users
    <2> QED
      BY <1>1, <1>2, <2>1, Zenon DEF BuffersCounted, NoneLeaks
  <1>4. Flags' /\ OneCopy' /\ Clean'
    BY <1>1, SameBuffers, Zenon
  <1>5. \A c \in Bufs : Waited(c)' <=> Waited(c)
    BY <1>1, Zenon DEF Waited, IInv, BuffersCounted, TypeOK
  <1>6. QueueOwned' /\ Interrupts'
    BY <1>1, <1>5, SameQueue, Zenon
  <1>7. Places'
    BY <1>1, ZenonT(40) DEF IInv, BuffersCounted, TypeOK, Places, Inside
  <1>8. Locks'
    BY <1>1, Facts, Zenon DEF IInv, BuffersCounted, TypeOK, Locks, Inside
  <1> QED
    BY <1>3, <1>4, <1>6, <1>7, <1>8, Zenon DEF IInv

(* bget() finds the block. *)
LEMMA BgetHitIInv ==
  ASSUME IInv, NEW p \in Procs, NEW k \in Blocks, BgetHit(p, k)
  PROVE  IInv'
  <1>1. PICK b \in Bufs :
          /\ blockno[b] = k /\ pc[p] = "idle" /\ buf[p] = None /\ ~panicked
          /\ refcnt' = [refcnt EXCEPT ![b] = refcnt[b] + 1]
          /\ buf' = [buf EXCEPT ![p] = b] /\ blk' = [blk EXCEPT ![p] = k]
          /\ pc' = [pc EXCEPT ![p] = "lock"]
          /\ UNCHANGED <<lru, blockno, valid, dirty, holder, data, idequeue, device, irq, disk,
                         panicked>>
    <2>1. pc[p] = "idle" /\ buf[p] = None /\ ~panicked
      BY Zenon DEF BgetHit, At, IInv, Places
    <2> QED
      BY <2>1, Zenon DEF BgetHit, Cached, Chosen, Goto, flags, driver
  <1>r. \A c \in Bufs : refcnt'[c] = Cardinality(Users(c)')
    <2>1. \A c \in Bufs : refcnt[c] = Cardinality(Users(c))
      BY Zenon DEF IInv, BuffersCounted, RefsCounted, Users
    <2>2. /\ \A c \in Bufs \ {b} : Users(c)' = Users(c)
          /\ Cardinality(Users(b)') = Cardinality(Users(b)) + 1
      BY <1>1, Taken, Zenon DEF IInv, BuffersCounted
    <2> QED
      BY <1>1, <2>1, <2>2, ZenonT(40) DEF IInv, BuffersCounted, TypeOK
  <1>2. TypeOK'
    <2>1. \A c \in Bufs : Users(c)' \in SUBSET Procs
      BY Zenon DEF Users
    <2>2. \A c \in Bufs : refcnt'[c] \in 0..Cardinality(Procs)
      BY <1>r, <2>1, Counts, Zenon
    <2>3. refcnt' \in [Bufs -> 0..Cardinality(Procs)]
      BY <1>1, <2>2, Zenon DEF IInv, BuffersCounted, TypeOK
    <2> QED
      BY <1>1, <2>3, Zenon DEF IInv, BuffersCounted, TypeOK
  <1>3. BuffersCounted'
    <2>1. RefsCounted'
      BY <1>1, <1>r, ZenonT(40) DEF IInv, BuffersCounted, TypeOK, RefsCounted, Users
    <2> QED
      BY <1>1, <1>2, <2>1, Zenon DEF BuffersCounted, NoneLeaks
  <1>4. Flags' /\ OneCopy' /\ Clean'
    BY <1>1, SameBuffers, Zenon
  <1>5. \A c \in Bufs : Waited(c)' <=> Waited(c)
    BY <1>1, Zenon DEF Waited, IInv, BuffersCounted, TypeOK
  <1>6. QueueOwned' /\ Interrupts'
    BY <1>1, <1>5, SameQueue, Zenon
  <1>7. Places'
    <2>1. /\ \A q \in Procs \ {p} : pc'[q] = pc[q] /\ buf'[q] = buf[q] /\ blk'[q] = blk[q]
          /\ pc'[p] = "lock" /\ buf'[p] = b /\ blk'[p] = k
      BY <1>1, Zenon DEF IInv, BuffersCounted, TypeOK
    <2> QED
      BY <1>1, <2>1, BcacheAssumption DEF IInv, Places, Inside
  <1>8. Locks'
    BY <1>1, Facts, Zenon DEF IInv, BuffersCounted, TypeOK, Locks, Inside
  <1> QED
    BY <1>3, <1>4, <1>6, <1>7, <1>8, Zenon DEF IInv

(* A buffer without references is nobody's, and nobody's request. *)
LEMMA UnusedIsFree ==
  ASSUME IInv, NEW b \in Bufs, refcnt[b] = 0
  PROVE  /\ Users(b) = {} /\ holder[b] = None /\ ~Waited(b)
         /\ \A p \in Procs : buf[p] # b
  <1>1. Users(b) = {}
    <2>1. IsFiniteSet(Users(b)) /\ Cardinality(Users(b)) = 0
      BY Counts, Zenon DEF Users, IInv, BuffersCounted, RefsCounted
    <2> QED
      BY <2>1, FS_EmptySet, Zenon
  <1>2. \A p \in Procs : buf[p] # b
    BY <1>1, Zenon DEF Users
  <1> QED
    BY <1>1, <1>2, Facts, Zenon DEF IInv, Locks, Waited

(* bget() recycles a buffer. *)
LEMMA BgetRecycleIInv ==
  ASSUME IInv, NEW p \in Procs, NEW k \in Blocks, BgetRecycle(p, k)
  PROVE  IInv'
  <1>1. PICK b \in Bufs :
        /\ b = Recycled /\ refcnt[b] = 0 /\ ~dirty[b]
        /\ pc[p] = "idle" /\ buf[p] = None /\ ~panicked /\ \A c \in Bufs : blockno[c] # k
        /\ blockno' = [blockno EXCEPT ![b] = k]
        /\ valid' = [valid EXCEPT ![b] = FALSE] /\ dirty' = [dirty EXCEPT ![b] = FALSE]
        /\ refcnt' = [refcnt EXCEPT ![b] = 1]
        /\ buf' = [buf EXCEPT ![p] = b] /\ blk' = [blk EXCEPT ![p] = k]
        /\ pc' = [pc EXCEPT ![p] = "lock"]
        /\ UNCHANGED <<lru, holder, data, idequeue, device, irq, disk, panicked>>
    <2>1. pc[p] = "idle" /\ buf[p] = None /\ ~panicked
      BY Zenon DEF BgetRecycle, At, IInv, Places
    <2>2. Recycled \in Bufs /\ refcnt[Recycled] = 0 /\ ~dirty[Recycled]
      BY LastUnused, Zenon DEF BgetRecycle, Unused, IInv, BuffersCounted
    <2>3. \A c \in Bufs : blockno[c] # k
      BY Zenon DEF BgetRecycle, Cached
    <2> QED
      BY <2>1, <2>2, <2>3, Zenon DEF BgetRecycle, Chosen, Goto, driver
  <1>f. /\ Users(b) = {} /\ holder[b] = None /\ ~Waited(b)
        /\ \A q \in Procs : buf[q] # b
    BY <1>1, UnusedIsFree, Zenon
  <1>r. \A c \in Bufs : refcnt'[c] = Cardinality(Users(c)')
    <2>1. \A c \in Bufs : refcnt[c] = Cardinality(Users(c))
      BY Zenon DEF IInv, BuffersCounted, RefsCounted, Users
    <2>2. /\ \A c \in Bufs \ {b} : Users(c)' = Users(c)
          /\ Cardinality(Users(b)') = Cardinality(Users(b)) + 1
      BY <1>1, Taken, Zenon DEF IInv, BuffersCounted
    <2>3. Cardinality(Users(b)') = 1
      BY <1>1, <2>1, <2>2
    <2> QED
      BY <1>1, <2>1, <2>2, <2>3 DEF IInv, BuffersCounted, TypeOK
  <1>2. TypeOK'
    <2>1. \A c \in Bufs : Users(c)' \in SUBSET Procs
      BY Zenon DEF Users
    <2>2. \A c \in Bufs : refcnt'[c] \in 0..Cardinality(Procs)
      BY <1>r, <2>1, Counts, Zenon
    <2>3. refcnt' \in [Bufs -> 0..Cardinality(Procs)]
      BY <1>1, <2>2, Zenon DEF IInv, BuffersCounted, TypeOK
    <2> QED
      BY <1>1, <2>3, Zenon DEF IInv, BuffersCounted, TypeOK
  <1>3. BuffersCounted'
    <2>1. \A q \in Procs : buf'[q] # None => blockno'[buf'[q]] = blk'[q]
      BY <1>1, <1>f, BcacheAssumption, ZenonT(40) DEF IInv, BuffersCounted, TypeOK, RefsCounted
    <2>2. RefsCounted'
      BY <1>r, <2>1, Zenon DEF RefsCounted, Users
    <2> QED
      BY <1>1, <1>2, <2>2, Zenon DEF BuffersCounted, NoneLeaks
  <1>4. Flags' /\ OneCopy' /\ Clean'
    <2>1. Flags'
      BY <1>1, Zenon DEF IInv, BuffersCounted, TypeOK, Flags
    <2>2. OneCopy'
      BY <1>1, Zenon DEF IInv, BuffersCounted, TypeOK, OneCopy
    <2>3. Clean'
      BY <1>1, Zenon DEF IInv, BuffersCounted, TypeOK, Clean, ValidIsRead
    <2> QED
      BY <2>1, <2>2, <2>3, Zenon
  <1>5. \A c \in Bufs : Waited(c)' <=> Waited(c)
    <2>1. ~Waited(b)'
      BY <1>1, <1>f, BcacheAssumption, Zenon DEF Waited
    <2>2. \A c \in Bufs \ {b} : Waited(c)' <=> Waited(c)
      BY <1>1 DEF Waited, IInv, BuffersCounted, TypeOK
    <2> QED
      BY <1>f, <2>1, <2>2, Zenon
  <1>6. QueueOwned' /\ Interrupts'
    <2>1. \A c \in Bufs : Waited(c) =>
            blockno'[c] = blockno[c] /\ dirty'[c] = dirty[c] /\ data'[c] = data[c]
      BY <1>1, <1>f, ZenonT(40) DEF IInv, BuffersCounted, TypeOK
    <2> QED
      BY <1>1, <1>5, <2>1, SameQueue, Zenon
  <1>7. Places'
    <2>1. \A q \in Procs \ {p} : /\ pc'[q] = pc[q] /\ buf'[q] = buf[q] /\ blk'[q] = blk[q]
                                 /\ buf[q] # b
      BY <1>1, <1>f, Zenon DEF IInv, BuffersCounted, TypeOK
    <2>2. \A q \in Procs \ {p} : pc[q] # "idle" =>
            valid'[buf[q]] = valid[buf[q]] /\ dirty'[buf[q]] = dirty[buf[q]]
      BY <1>1, <2>1, Facts, Zenon DEF IInv, BuffersCounted, TypeOK
    <2>3. pc'[p] = "lock" /\ buf'[p] = b /\ blk'[p] = k
      BY <1>1, Zenon DEF IInv, BuffersCounted, TypeOK
    <2> QED
      BY <1>1, <2>1, <2>2, <2>3, BcacheAssumption DEF IInv, Places, Inside
  <1>8. Locks'
    BY <1>1, <1>f, Facts, Zenon DEF IInv, BuffersCounted, TypeOK, Locks, Inside
  <1> QED
    BY <1>3, <1>4, <1>6, <1>7, <1>8, Zenon DEF IInv

(* When bget() panics, users and pinned buffers make up the whole cache. *)
LEMMA BgetPanicsIInv ==
  ASSUME IInv, NEW p \in Procs, NEW k \in Blocks, BgetPanics(p, k)
  PROVE  IInv'
  <1>1. /\ \A b \in Bufs : ~Unused(b)
        /\ UNCHANGED <<lru, blockno, refcnt, valid, dirty, holder, data, idequeue, device, irq,
                       disk, pc, blk, buf>>
        /\ panicked' = TRUE
    BY Zenon DEF BgetPanics, cache, flags, driver, procs
  <1> DEFINE P == {q \in Procs : buf[q] # None}
             D == {b \in Bufs : dirty[b] /\ holder[b] = None}
             I == {buf[q] : q \in P}
             f == [q \in P |-> buf[q]]
  <1>2. Bufs \subseteq I \cup D
    <2> SUFFICES ASSUME NEW b \in Bufs, b \notin D PROVE b \in I
      BY Zenon
    <2>1. ASSUME NEW q \in Procs, buf[q] = b PROVE b \in I
      BY <2>1, BcacheAssumption, Zenon
    <2>2. CASE refcnt[b] # 0
      <3>1. Users(b) # {}
        BY <2>2, FS_EmptySet, Zenon DEF IInv, BuffersCounted, RefsCounted, Users
      <3> QED
        BY <2>1, <3>1, Zenon DEF Users
    <2>3. CASE refcnt[b] = 0
      BY <1>1, <2>1, <2>3, Facts, Zenon DEF Unused, IInv, Locks
    <2> QED
      BY <2>2, <2>3, Zenon
  <1>3. IsFiniteSet(P) /\ IsFiniteSet(D) /\ Cardinality(D) \in Nat /\ Cardinality(P) \in Nat
    BY BcacheAssumption, FS_Subset, FS_CardinalityType, Zenon
  <1>4. IsFiniteSet(I) /\ Cardinality(I) <= Cardinality(P) /\ Cardinality(I) \in Nat
    <2>1. f \in Surjection(P, I)
      BY Zenon DEF Surjection
    <2> HIDE DEF P, I, f
    <2>2. IsFiniteSet(I) /\ Cardinality(I) <= Cardinality(P)
      BY <1>3, <2>1, FS_Surjection, Zenon
    <2> QED
      BY <2>2, FS_CardinalityType, Zenon
  <1>5. /\ IsFiniteSet(I \cup D)
        /\ Cardinality(I \cup D) = Cardinality(I) + Cardinality(D) - Cardinality(I \cap D)
        /\ Cardinality(I \cap D) \in Nat
    <2>1. IsFiniteSet(I \cap D)
      BY <1>3, FS_Subset, Zenon
    <2> QED
      BY <1>3, <1>4, <2>1, FS_Union, FS_CardinalityType, Zenon
  <1>6. Cardinality(Bufs) <= Cardinality(I \cup D) /\ Cardinality(Bufs) \in Nat
    BY <1>2, <1>5, BcacheAssumption, FS_Subset, FS_CardinalityType, Zenon
  <1> HIDE DEF P, D, I, f
  <1>7. Cardinality(Bufs) <= Cardinality(P) + Cardinality(D)
    BY <1>3, <1>4, <1>5, <1>6
  <1>8. NoneLeaks'
    BY <1>1, <1>7, Zenon DEF NoneLeaks, P, D
  <1>9. TypeOK' /\ RefsCounted'
    BY <1>1, ZenonT(40) DEF IInv, BuffersCounted, TypeOK, RefsCounted
  <1>10. \A c \in Bufs : Waited(c)' <=> Waited(c)
    BY <1>1, Zenon DEF Waited
  <1>11. QueueOwned' /\ Interrupts'
    BY <1>1, <1>10, SameQueue, Zenon
  <1>12. Places' /\ Locks'
    BY <1>1, Zenon DEF IInv, Places, Locks
  <1>13. Flags' /\ OneCopy' /\ Clean'
    BY <1>1, SameBuffers, Zenon
  <1> QED
    BY <1>8, <1>9, <1>11, <1>12, <1>13, Zenon DEF IInv, BuffersCounted

(* binit() leaves a cache that is in order. *)
LEMMA InitIInv == Init => IInv
  <1> SUFFICES ASSUME Init PROVE IInv
    BY Zenon
  <1> DEFINE N == Cardinality(Bufs)
  <1>1. N \in Nat /\ Cardinality(Procs) \in Nat
    BY BcacheAssumption, FS_CardinalityType, Zenon
  <1>2. lru \in [1..N -> Bufs] /\ Range(lru) = Bufs
    <2>1. ExistsBijection(1..N, Bufs)
      BY BcacheAssumption, FS_CardinalityType, Zenon
    <2>2. PICK order \in [1..N -> Bufs] : \A b \in Bufs : \E n \in 1..N : order[n] = b
      BY <2>1, Zenon DEF ExistsBijection, Bijection, Injection, Surjection
    <2>3. Range(order) = Bufs
      BY <2>2, Zenon DEF Range
    <2> QED
      BY <2>3, Zenon DEF Init
  <1> HIDE DEF N
  <1>3. TypeOK
    <2>1. 0 \in 0..Cardinality(Procs) /\ idequeue \in Seq(Bufs)
      BY <1>1 DEF Init
    <2> QED
      BY <1>2, <2>1, BcacheAssumption, Zenon DEF Init, TypeOK, N
  <1>4. RefsCounted
    <2>1. \A b \in Bufs : {p \in Procs : buf[p] = b} = {}
      BY BcacheAssumption, Zenon DEF Init
    <2>2. \A b \in Bufs : refcnt[b] = 0
      BY Zenon DEF Init
    <2> QED
      BY <2>1, <2>2, FS_EmptySet, Zenon DEF Init, RefsCounted
  <1>5. BuffersCounted
    BY <1>3, <1>4, Zenon DEF BuffersCounted, NoneLeaks, Init
  <1>6. QueueOwned
    <2>1. Range(idequeue) = {} /\ Injective(idequeue)
      BY DEF Init, Range, Injective
    <2> QED
      BY <2>1, Zenon DEF Init, QueueOwned
  <1>7. Places /\ Locks /\ Flags /\ OneCopy /\ Interrupts /\ Clean
    BY Zenon DEF Init, Places, Locks, Flags, OneCopy, Interrupts, Clean, ValidIsRead, Inside
  <1> QED
    BY <1>5, <1>6, <1>7, Zenon DEF IInv

(* Every step keeps the invariant. *)
LEMMA NextIInv == IInv /\ [Next]_vars => IInv'
  <1> SUFFICES ASSUME IInv, [Next]_vars PROVE IInv'
    BY Zenon
  <1>1. ASSUME NEW p \in Procs, Step(p) PROVE IInv'
    BY <1>1, LockBufIInv, IderwIInv, WakesIInv, BrelseUnlockIInv, BrelseIInv, Zenon DEF Step
  <1>2. ASSUME NEW p \in Procs, Kill(p) PROVE IInv'
    BY <1>2, WakesIInv, Zenon
  <1>3. ASSUME NEW p \in Procs, NEW k \in Blocks,
               BgetHit(p, k) \/ BgetRecycle(p, k) \/ BgetPanics(p, k)
        PROVE  IInv'
    BY <1>3, BgetHitIInv, BgetRecycleIInv, BgetPanicsIInv, Zenon
  <1>4. ASSUME NEW p \in Procs, NEW v \in Vals, Bwrite(p, v) \/ LogWrite(p, v) PROVE IInv'
    BY <1>4, ModifyIInv, Zenon
  <1>5. ASSUME Hardware PROVE IInv'
    BY <1>5, DiskWorksIInv, IdeintrIInv, Zenon DEF Hardware
  <1>6. ASSUME UNCHANGED vars PROVE IInv'
    <2>1. UNCHANGED <<lru, blockno, refcnt, valid, dirty, holder, data, idequeue, device, irq,
                      disk, panicked, pc, blk, buf>>
      BY <1>6, Zenon DEF vars, cache, flags, driver, procs
    <2>2. \A c \in Bufs : Waited(c)' <=> Waited(c)
      BY <2>1, Zenon DEF Waited
    <2>3. QueueOwned' /\ Interrupts'
      BY <2>1, <2>2, SameQueue, Zenon
    <2>4. BuffersCounted'
      BY <2>1, ZenonT(40) DEF IInv, BuffersCounted, TypeOK, RefsCounted, NoneLeaks
    <2>5. Places' /\ Locks'
      BY <2>1, Zenon DEF IInv, Places, Locks
    <2>6. Flags' /\ OneCopy' /\ Clean'
      BY <2>1, SameBuffers, Zenon
    <2> QED
      BY <2>3, <2>4, <2>5, <2>6, Zenon DEF IInv
  <1> QED
    BY <1>1, <1>2, <1>3, <1>4, <1>5, <1>6, Zenon DEF Next

(* The invariant holds throughout. *)
THEOREM Inductive == Spec => []IInv
  <1> QED
    BY InitIInv, NextIInv, PTL DEF Spec

(* However many processes, buffers and blocks there are, the references of a   *)
(* buffer are the processes between bget() and brelse(), none is given another *)
(* block meanwhile, and bget() runs out of buffers only when all are in use.   *)
THEOREM ReferencesCounted == Spec => []BuffersCounted
  <1>1. IInv => BuffersCounted
    BY Zenon DEF IInv
  <1> QED
    BY <1>1, Inductive, PTL

(* The queue of the driver has each buffer once, for the one process that      *)
(* waits for it, and the disk works on its head.                               *)
THEOREM RequestsOwned == Spec => []QueueOwned
  <1>1. IInv => QueueOwned
    BY Zenon DEF IInv
  <1> QED
    BY <1>1, Inductive, PTL

(* As long as reads do not fail, iderw() returns with the block. *)
THEOREM ReadsReturnTheBlock == ASSUME Outcomes = {TRUE} PROVE Spec => []ValidIsRead
  <1>1. IInv => ValidIsRead
    BY Zenon DEF IInv, Clean
  <1> QED
    BY <1>1, Inductive, PTL

------------------------------------------------------------------------------
(* The refinement of BlockStore *)

(* What the abstract store sees of a block: its buffer, once that is read, or  *)
(* the disk.                                                                   *)
View ==
  /\ Holders = [k \in Blocks |-> Holders[k]] /\ Contents = [k \in Blocks |-> Contents[k]]
  /\ \A b \in Bufs, k \in Blocks : valid[b] /\ blockno[b] = k =>
       Holders[k] = holder[b] /\ Contents[k] = data[b]
  /\ \A k \in Blocks : (\A b \in Bufs : valid[b] => blockno[b] # k) =>
       Holders[k] = None /\ Contents[k] = disk[k]

LEMMA ViewFromIInv == IInv => View
  <1> SUFFICES ASSUME IInv PROVE View
    BY Zenon
  <1>1. ASSUME NEW b \in Bufs, NEW k \in Blocks, valid[b], blockno[b] = k
        PROVE  Holders[k] = holder[b] /\ Contents[k] = data[b]
    <2>1. Filled(k) = {b}
      BY <1>1, BcacheAssumption, Zenon DEF IInv, Flags, OneCopy, Filled, Cached
    <2>2. (CHOOSE c \in {b} : TRUE) = b
      BY Zenon
    <2> QED
      BY <1>1, <2>1, <2>2, Zenon DEF Holders, Contents, Holder, Content
  <1>2. ASSUME NEW k \in Blocks, \A b \in Bufs : valid[b] => blockno[b] # k
        PROVE  Holders[k] = None /\ Contents[k] = disk[k]
    <2>1. Filled(k) = {}
      BY <1>2, Zenon DEF Filled, Cached
    <2> QED
      BY <1>2, <2>1, Zenon DEF Holders, Contents, Holder, Content
  <1>3. Holders = [k \in Blocks |-> Holders[k]] /\ Contents = [k \in Blocks |-> Contents[k]]
    BY Zenon DEF Holders, Contents
  <1> QED
    BY <1>1, <1>2, <1>3, Zenon DEF View

LEMMA ViewAfter == IInv' => View'
  BY ViewFromIInv, PTL

(* A step that changes neither holder nor content of any block is a stutter. *)
LEMMA Unseen ==
  ASSUME View, View',
         \A k \in Blocks : Holders'[k] = Holders[k] /\ Contents'[k] = Contents[k]
  PROVE  UNCHANGED Abs!vars
  <1>1. Holders' = Holders
    BY Zenon DEF View
  <1>2. Contents' = Contents
    BY Zenon DEF View
  <1> QED
    BY <1>1, <1>2, Zenon DEF Abs!vars

(* Steps that change neither the lock nor the contents of a buffer. *)
LEMMA QuietIsUnseen ==
  ASSUME IInv, IInv', UNCHANGED <<blockno, valid, holder, data, disk>>
  PROVE  UNCHANGED Abs!vars
  <1>1. View /\ View'
    BY ViewFromIInv, ViewAfter, Zenon
  <1>2. ASSUME NEW k \in Blocks PROVE Holders'[k] = Holders[k] /\ Contents'[k] = Contents[k]
    <2>1. CASE \E b \in Bufs : valid[b] /\ blockno[b] = k
      BY <1>1, <2>1 DEF View
    <2>2. CASE \A b \in Bufs : valid[b] => blockno[b] # k
      BY <1>1, <2>2, ZenonT(40) DEF View
    <2> QED
      BY <2>1, <2>2, Zenon
  <1> QED
    BY <1>1, <1>2, Unseen, Zenon

(* The three steps of the abstract store, block by block. *)
LEMMA SeenAsGet ==
  ASSUME View, View', NEW p \in Procs, NEW k \in Blocks, Holders[k] = None, Holders'[k] = p,
         \A j \in Blocks \ {k} : Holders'[j] = Holders[j],
         \A j \in Blocks : Contents'[j] = Contents[j]
  PROVE  Abs!Get(p, k)
  <1>1. Holders' = [Holders EXCEPT ![k] = p]
    BY Zenon DEF View
  <1>2. Contents' = Contents
    BY Zenon DEF View
  <1> QED
    BY <1>1, <1>2, Zenon DEF Abs!Get

LEMMA SeenAsRelease ==
  ASSUME View, View', NEW p \in Procs, NEW k \in Blocks, Holders[k] = p, Holders'[k] = None,
         \A j \in Blocks \ {k} : Holders'[j] = Holders[j],
         \A j \in Blocks : Contents'[j] = Contents[j]
  PROVE  Abs!Release(p, k)
  <1>1. Holders' = [Holders EXCEPT ![k] = None]
    BY Zenon DEF View
  <1>2. Contents' = Contents
    BY Zenon DEF View
  <1> QED
    BY <1>1, <1>2, Zenon DEF Abs!Release

LEMMA SeenAsPut ==
  ASSUME View, View', NEW p \in Procs, NEW k \in Blocks, NEW v \in Vals, Holders[k] = p,
         Contents'[k] = v, \A j \in Blocks \ {k} : Contents'[j] = Contents[j],
         \A j \in Blocks : Holders'[j] = Holders[j]
  PROVE  Abs!Put(p, k, v)
  <1>1. Contents' = [Contents EXCEPT ![k] = v]
    BY Zenon DEF View
  <1>2. Holders' = Holders
    BY Zenon DEF View
  <1> QED
    BY <1>1, <1>2, Zenon DEF Abs!Put

(* Locking a valid buffer is taking its block; one that must be read first is  *)
(* not seen yet.                                                               *)
LEMMA LockBufIsGet ==
  ASSUME IInv, IInv', NEW p \in Procs, LockBuf(p)
  PROVE  Abs!Get(p, blk[p]) \/ UNCHANGED Abs!vars
  <1>1. PICK b \in Bufs, k \in Blocks :
        /\ b = buf[p] /\ k = blk[p] /\ blockno[b] = k /\ holder[b] = None
        /\ holder' = [holder EXCEPT ![b] = p]
        /\ UNCHANGED <<blockno, valid, data, disk>>
    BY Facts, Zenon DEF LockBuf, At, cache, flags
  <1>2. View /\ View'
    BY ViewFromIInv, ViewAfter, Zenon
  <1>3. \A j \in Blocks : Contents'[j] = Contents[j]
    <2> TAKE j \in Blocks
    <2>1. CASE \E c \in Bufs : valid[c] /\ blockno[c] = j
      BY <1>1, <1>2, <2>1 DEF View
    <2>2. CASE \A c \in Bufs : valid[c] => blockno[c] # j
      BY <1>1, <1>2, <2>2, Zenon DEF View
    <2> QED
      BY <2>1, <2>2, Zenon
  <1>4. \A j \in Blocks : j # k \/ ~valid[b] => Holders'[j] = Holders[j]
    <2> SUFFICES ASSUME NEW j \in Blocks, j # k \/ ~valid[b] PROVE Holders'[j] = Holders[j]
      BY Zenon
    <2>1. CASE \E c \in Bufs : valid[c] /\ blockno[c] = j
      <3>1. PICK c \in Bufs : valid[c] /\ blockno[c] = j
        BY <2>1, Zenon
      <3>2. c # b /\ holder'[c] = holder[c]
        BY <1>1, <3>1, Zenon DEF IInv, BuffersCounted, TypeOK
      <3> QED
        BY <1>1, <1>2, <3>1, <3>2, Zenon DEF View
    <2>2. CASE \A c \in Bufs : valid[c] => blockno[c] # j
      BY <1>1, <1>2, <2>2 DEF View
    <2> QED
      BY <2>1, <2>2, Zenon
  <1>5. CASE valid[b]
    <2>1. Holders[k] = None /\ Holders'[k] = p
      BY <1>1, <1>2, <1>5 DEF View, IInv, BuffersCounted, TypeOK
    <2>2. Abs!Get(p, k)
      BY <1>1, <1>3, <1>4, <2>1, <1>2, SeenAsGet, Zenon
    <2> QED
      BY <1>1, <2>2, Zenon
  <1>6. CASE ~valid[b]
    BY <1>3, <1>4, <1>2, <1>6, Unseen, Zenon
  <1> QED
    BY <1>5, <1>6, Zenon

(* Writing the buffer is putting the contents into the block. *)
LEMMA ModifyIsPut ==
  ASSUME IInv, IInv', NEW p \in Procs, NEW v \in Vals, Bwrite(p, v) \/ LogWrite(p, v)
  PROVE  blk[p] \in Blocks /\ Abs!Put(p, blk[p], v)
  <1>1. PICK b \in Bufs, k \in Blocks :
        /\ b = buf[p] /\ k = blk[p] /\ blockno[b] = k /\ holder[b] = p /\ valid[b]
        /\ data' = [data EXCEPT ![b] = v]
        /\ UNCHANGED <<blockno, valid, holder, disk>>
    <2>1. pc[p] = "have" /\ Modify(p, v)
      BY Zenon DEF Bwrite, LogWrite, Modify, At
    <2>2. /\ buf[p] \in Bufs /\ blk[p] \in Blocks /\ blockno[buf[p]] = blk[p]
          /\ holder[buf[p]] = p /\ valid[buf[p]]
      BY <2>1, Facts, Zenon DEF IInv, Places, Inside
    <2> QED
      BY <2>1, <2>2, Zenon DEF Modify, cache
  <1>2. View /\ View'
    BY ViewFromIInv, ViewAfter, Zenon
  <1>4. \A j \in Blocks : Holders'[j] = Holders[j]
    <2> TAKE j \in Blocks
    <2>1. CASE \E c \in Bufs : valid[c] /\ blockno[c] = j
      BY <1>1, <1>2, <2>1 DEF View
    <2>2. CASE \A c \in Bufs : valid[c] => blockno[c] # j
      BY <1>1, <1>2, <2>2 DEF View
    <2> QED
      BY <2>1, <2>2, Zenon
  <1>5. \A j \in Blocks \ {k} : Contents'[j] = Contents[j]
    <2> SUFFICES ASSUME NEW j \in Blocks \ {k} PROVE Contents'[j] = Contents[j]
      BY Zenon
    <2>1. CASE \E c \in Bufs : valid[c] /\ blockno[c] = j
      <3>1. PICK c \in Bufs : valid[c] /\ blockno[c] = j
        BY <2>1, Zenon
      <3>2. c # b /\ data'[c] = data[c]
        BY <1>1, <3>1, Zenon DEF IInv, BuffersCounted, TypeOK
      <3> QED
        BY <1>1, <1>2, <3>1, <3>2, Zenon DEF View
    <2>2. CASE \A c \in Bufs : valid[c] => blockno[c] # j
      BY <1>1, <1>2, <2>2, SMTT(30) DEF View
    <2> QED
      BY <2>1, <2>2, Zenon
  <1>6. Holders[k] = p /\ Contents'[k] = v
    BY <1>1, <1>2 DEF View, IInv, BuffersCounted, TypeOK
  <1>7. Abs!Put(p, k, v)
    BY <1>1, <1>4, <1>5, <1>6, <1>2, SeenAsPut, Zenon
  <1> QED
    BY <1>1, <1>7, Zenon

(* Releasing the sleep lock is releasing the block. *)
LEMMA BrelseIsRelease ==
  ASSUME IInv, IInv', NEW p \in Procs, BrelseUnlock(p)
  PROVE  blk[p] \in Blocks /\ Abs!Release(p, blk[p])
  <1>1. PICK b \in Bufs, k \in Blocks :
        /\ b = buf[p] /\ k = blk[p] /\ blockno[b] = k /\ holder[b] = p /\ valid[b]
        /\ holder' = [holder EXCEPT ![b] = None]
        /\ UNCHANGED <<blockno, valid, data, disk>>
    <2>1. pc[p] = "have"
      BY Zenon DEF BrelseUnlock, At
    <2>2. /\ buf[p] \in Bufs /\ blk[p] \in Blocks /\ blockno[buf[p]] = blk[p]
          /\ holder[buf[p]] = p /\ valid[buf[p]]
      BY <2>1, Facts, Zenon DEF IInv, Places, Inside
    <2> QED
      BY <2>2, Zenon DEF BrelseUnlock, cache, flags
  <1>2. View /\ View'
    BY ViewFromIInv, ViewAfter, Zenon
  <1>3. \A j \in Blocks : Contents'[j] = Contents[j]
    <2> TAKE j \in Blocks
    <2>1. CASE \E c \in Bufs : valid[c] /\ blockno[c] = j
      BY <1>1, <1>2, <2>1 DEF View
    <2>2. CASE \A c \in Bufs : valid[c] => blockno[c] # j
      BY <1>1, <1>2, <2>2 DEF View
    <2> QED
      BY <2>1, <2>2, Zenon
  <1>4. \A j \in Blocks \ {k} : Holders'[j] = Holders[j]
    <2> SUFFICES ASSUME NEW j \in Blocks \ {k} PROVE Holders'[j] = Holders[j]
      BY Zenon
    <2>1. CASE \E c \in Bufs : valid[c] /\ blockno[c] = j
      <3>1. PICK c \in Bufs : valid[c] /\ blockno[c] = j
        BY <2>1, Zenon
      <3>2. c # b /\ holder'[c] = holder[c]
        BY <1>1, <3>1, Zenon DEF IInv, BuffersCounted, TypeOK
      <3> QED
        BY <1>1, <1>2, <3>1, <3>2 DEF View
    <2>2. CASE \A c \in Bufs : valid[c] => blockno[c] # j
      BY <1>1, <1>2, <2>2 DEF View
    <2> QED
      BY <2>1, <2>2, Zenon
  <1>5. Holders[k] = p /\ Holders'[k] = None
    BY <1>1, <1>2 DEF View, IInv, BuffersCounted, TypeOK
  <1>6. Abs!Release(p, k)
    BY <1>1, <1>3, <1>4, <1>5, <1>2, SeenAsRelease, Zenon
  <1> QED
    BY <1>1, <1>6, Zenon

(* A clean buffer that is recycled leaves its block as the disk has it. *)
LEMMA RecycleIsUnseen ==
  ASSUME Outcomes = {TRUE}, IInv, IInv', NEW p \in Procs, NEW k \in Blocks, BgetRecycle(p, k)
  PROVE  UNCHANGED Abs!vars
  <1>1. PICK b \in Bufs :
        /\ b = Recycled /\ ~dirty[b] /\ holder[b] = None /\ \A c \in Bufs : blockno[c] # k
        /\ blockno' = [blockno EXCEPT ![b] = k] /\ valid' = [valid EXCEPT ![b] = FALSE]
        /\ UNCHANGED <<holder, data, disk>>
    <2>1. Recycled \in Bufs /\ refcnt[Recycled] = 0 /\ ~dirty[Recycled]
      BY LastUnused, Zenon DEF BgetRecycle, Unused, IInv, BuffersCounted
    <2>2. holder[Recycled] = None
      BY <2>1, UnusedIsFree, Zenon
    <2>3. \A c \in Bufs : blockno[c] # k
      BY Zenon DEF BgetRecycle, Cached
    <2> QED
      BY <2>1, <2>2, <2>3, Zenon DEF BgetRecycle, Chosen
  <1>2. View /\ View'
    BY ViewFromIInv, ViewAfter, Zenon
  <1>3. \A c \in Bufs \ {b} : valid'[c] = valid[c] /\ blockno'[c] = blockno[c]
    BY <1>1, Zenon DEF IInv, BuffersCounted, TypeOK
  <1>4. ~valid'[b]
    BY <1>1, Zenon DEF IInv, BuffersCounted, TypeOK
  <1>5. ASSUME NEW j \in Blocks PROVE Holders'[j] = Holders[j] /\ Contents'[j] = Contents[j]
    <2>1. CASE \E c \in Bufs \ {b} : valid[c] /\ blockno[c] = j
      BY <1>1, <1>2, <1>3, <2>1 DEF View
    <2>2. CASE \A c \in Bufs : valid[c] => blockno[c] # j
      BY <1>1, <1>2, <1>3, <1>4, <2>2 DEF View
    <2>3. CASE valid[b] /\ blockno[b] = j
      <3>1. Holders[j] = None /\ Contents[j] = disk[j]
        BY <1>1, <1>2, <2>3 DEF View, IInv, Clean, ValidIsRead
      <3>2. \A c \in Bufs \ {b} : valid[c] => blockno[c] # j
        BY <1>1, <2>3, BcacheAssumption, Zenon DEF IInv, OneCopy
      <3>3. Holders'[j] = None /\ Contents'[j] = disk[j]
        BY <1>1, <1>2, <1>3, <1>4, <3>2 DEF View
      <3> QED
        BY <3>1, <3>3, Zenon
    <2> QED
      BY <2>1, <2>2, <2>3, Zenon
  <1> QED
    BY <1>2, <1>5, Unseen, Zenon

(* The disk writes only what the cache shows already. *)
LEMMA DiskIsUnseen ==
  ASSUME IInv, IInv', DiskWorks
  PROVE  UNCHANGED Abs!vars
  <1>1. device # None /\ UNCHANGED <<blockno, valid, holder, data>>
        /\ disk' = IF device.op = "write" THEN [disk EXCEPT ![device.block] = device.data]
                   ELSE disk
    BY Zenon DEF DiskWorks, cache, flags
  <1>2. PICK h \in Bufs : device = Command(h)
    BY <1>1, HeadWaited, Zenon DEF IInv, QueueOwned
  <1>3. disk' = IF dirty[h] THEN [disk EXCEPT ![blockno[h]] = data[h]] ELSE disk
    BY <1>1, <1>2, Zenon DEF Command
  <1>4. View /\ View'
    BY ViewFromIInv, ViewAfter, Zenon
  <1>5. ASSUME NEW j \in Blocks PROVE Holders'[j] = Holders[j] /\ Contents'[j] = Contents[j]
    <2>1. CASE \E c \in Bufs : valid[c] /\ blockno[c] = j
      BY <1>1, <1>4, <2>1 DEF View
    <2>2. CASE \A c \in Bufs : valid[c] => blockno[c] # j
      <3>1. disk'[j] = disk[j]
        BY <1>2, <1>3, <2>2, Zenon DEF IInv, BuffersCounted, TypeOK, Flags
      <3> QED
        BY <1>1, <1>4, <2>2, <3>1, Zenon DEF View
    <2> QED
      BY <2>1, <2>2, Zenon
  <1> QED
    BY <1>4, <1>5, Unseen, Zenon

(* The end of a read gives the block to the process that waited for it. *)
LEMMA IdeintrIsGet ==
  ASSUME IInv, IInv', Ideintr(TRUE)
  PROVE  \/ UNCHANGED Abs!vars
         \/ \E p \in Procs, k \in Blocks : Abs!Get(p, k)
  <1>1. PICK h \in Bufs, p \in Procs, k \in Blocks :
        /\ p = holder[h] /\ k = blockno[h] /\ (~valid[h] \/ dirty[h])
        /\ data' = (IF ~dirty[h] THEN [data EXCEPT ![h] = disk[k]] ELSE data)
        /\ valid' = [valid EXCEPT ![h] = TRUE]
        /\ UNCHANGED <<blockno, holder, disk>>
    <2>1. PICK h \in Bufs : h = Head(idequeue) /\ Waited(h)
      BY HeadWaited, Zenon DEF Ideintr
    <2>2. holder[h] \in Procs /\ blockno[h] \in Blocks /\ (~valid[h] \/ dirty[h])
      BY <2>1, Facts, Zenon DEF Waited
    <2> QED
      BY <2>1, <2>2, Zenon DEF Ideintr, cache
  <1>4. View /\ View'
    BY ViewFromIInv, ViewAfter, Zenon
  <1>5. \A c \in Bufs \ {h} : valid'[c] = valid[c] /\ data'[c] = data[c]
    BY <1>1, Zenon DEF IInv, BuffersCounted, TypeOK
  <1>6. \A j \in Blocks \ {k} : Holders'[j] = Holders[j] /\ Contents'[j] = Contents[j]
    <2> SUFFICES ASSUME NEW j \in Blocks \ {k}
                 PROVE  Holders'[j] = Holders[j] /\ Contents'[j] = Contents[j]
      BY Zenon
    <2>1. CASE \E c \in Bufs : valid[c] /\ blockno[c] = j
      <3>1. PICK c \in Bufs : valid[c] /\ blockno[c] = j
        BY <2>1, Zenon
      <3>2. c # h
        BY <1>1, <3>1, Zenon
      <3> QED
        BY <1>1, <1>4, <1>5, <3>1, <3>2 DEF View
    <2>2. CASE \A c \in Bufs : valid[c] => blockno[c] # j
      <3>1. \A c \in Bufs : valid'[c] => blockno[c] # j
        BY <1>1, <1>5, <2>2, Zenon
      <3> QED
        BY <1>1, <1>4, <2>2, <3>1, ZenonT(40) DEF View
    <2> QED
      BY <2>1, <2>2, Zenon
  <1>7. valid'[h] /\ Holders'[k] = p /\ Contents'[k] = data'[h]
    BY <1>1, <1>4 DEF View, IInv, BuffersCounted, TypeOK
  <1>8. CASE valid[h]
    <2>1. Holders[k] = p /\ Contents[k] = data[h] /\ data' = data
      BY <1>1, <1>4, <1>8 DEF View
    <2> QED
      BY <1>6, <1>4, <1>7, <2>1, Unseen, Zenon
  <1>9. CASE ~valid[h]
    <2>1. ~dirty[h]
      BY <1>9, Zenon DEF IInv, Flags
    <2>2. \A c \in Bufs : valid[c] => blockno[c] # k
      BY <1>1, <1>9, BcacheAssumption, Zenon DEF IInv, OneCopy
    <2>3. Holders[k] = None /\ Contents[k] = disk[k]
      BY <1>4, <2>2, Zenon DEF View
    <2>4. data'[h] = disk[k]
      BY <1>1, <2>1, Zenon DEF IInv, BuffersCounted, TypeOK
    <2>5. Abs!Get(p, k)
      BY <1>6, <1>7, <2>3, <1>4, <2>4, SeenAsGet, Zenon
    <2> QED
      BY <2>5, Zenon
  <1> QED
    BY <1>8, <1>9, Zenon

(* The empty cache shows the disk. *)
LEMMA InitIsInit == Init => Abs!Init
  <1> SUFFICES ASSUME Init PROVE Abs!Init
    BY Zenon
  <1>1. \A k \in Blocks : Filled(k) = {}
    BY Zenon DEF Init, Filled, Cached
  <1>2. Holders = [k \in Blocks |-> None]
    BY <1>1, Zenon DEF Holders, Holder
  <1>3. \A k \in Blocks : Contents[k] \in Vals
    BY <1>1, Zenon DEF Contents, Content, Init
  <1>4. Contents \in [Blocks -> Vals]
    BY <1>3, Zenon DEF Contents
  <1> QED
    BY <1>2, <1>4, Zenon DEF Abs!Init

(* Every step of the cache is a step of the store or is not seen. *)
LEMMA NextIsNext ==
  ASSUME Outcomes = {TRUE}, IInv, IInv', [Next]_vars
  PROVE  [Abs!Next]_(Abs!vars)
  <1>1. ASSUME NEW p \in Procs, Step(p) PROVE [Abs!Next]_(Abs!vars)
    <2>1. CASE LockBuf(p)
      <3>1. blk[p] \in Blocks
        BY <2>1, Facts, Zenon DEF LockBuf, At
      <3> QED
        BY <2>1, <3>1, LockBufIsGet, Zenon DEF Abs!Next
    <2>2. CASE BrelseUnlock(p)
      BY <2>2, BrelseIsRelease, Zenon DEF Abs!Next
    <2>3. CASE Iderw(p) \/ IderwTest(p) \/ Brelse(p)
      <3>1. UNCHANGED <<blockno, valid, holder, data, disk>>
        BY <2>3, Zenon DEF Iderw, IderwTest, Brelse, cache, flags
      <3> QED
        BY <3>1, QuietIsUnseen, Zenon
    <2> QED
      BY <1>1, <2>1, <2>2, <2>3, Zenon DEF Step
  <1>2. ASSUME NEW p \in Procs, Kill(p) PROVE [Abs!Next]_(Abs!vars)
    <2>1. UNCHANGED <<blockno, valid, holder, data, disk>>
      BY <1>2, Zenon DEF Kill, cache, flags
    <2> QED
      BY <2>1, QuietIsUnseen, Zenon
  <1>3. ASSUME NEW p \in Procs, NEW k \in Blocks,
               BgetHit(p, k) \/ BgetRecycle(p, k) \/ BgetPanics(p, k)
        PROVE  [Abs!Next]_(Abs!vars)
    <2>1. CASE BgetRecycle(p, k)
      BY <2>1, RecycleIsUnseen, Zenon
    <2>2. CASE BgetHit(p, k) \/ BgetPanics(p, k)
      <3>1. UNCHANGED <<blockno, valid, holder, data, disk>>
        BY <2>2, Zenon DEF BgetHit, BgetPanics, Chosen, cache, flags
      <3> QED
        BY <3>1, QuietIsUnseen, Zenon
    <2> QED
      BY <1>3, <2>1, <2>2, Zenon
  <1>4. ASSUME NEW p \in Procs, NEW v \in Vals, Bwrite(p, v) \/ LogWrite(p, v)
        PROVE  [Abs!Next]_(Abs!vars)
    BY <1>4, ModifyIsPut, Zenon DEF Abs!Next
  <1>5. ASSUME Hardware PROVE [Abs!Next]_(Abs!vars)
    <2>1. CASE DiskWorks
      BY <2>1, DiskIsUnseen, Zenon
    <2>2. CASE Ideintr(TRUE)
      BY <2>2, IdeintrIsGet, Zenon DEF Abs!Next
    <2> QED
      BY <1>5, <2>1, <2>2, Zenon DEF Hardware
  <1>6. ASSUME UNCHANGED vars PROVE [Abs!Next]_(Abs!vars)
    <2>1. UNCHANGED <<blockno, valid, holder, data, disk>>
      BY <1>6, Zenon DEF vars, cache, flags
    <2> QED
      BY <2>1, QuietIsUnseen, Zenon
  <1> QED
    BY <1>1, <1>2, <1>3, <1>4, <1>5, <1>6, Zenon DEF Next

(* As long as reads do not fail, buffer cache, driver and disk together are a  *)
(* store with one cell for each block: bread() returns what was last put into  *)
(* it, whether that is in a buffer, on its way or on the disk.                 *)
THEOREM RefinesBlocks == ASSUME Outcomes = {TRUE} PROVE Spec => ImplementsBlocks
  <1>1. IInv /\ IInv' /\ [Next]_vars => [Abs!Next]_(Abs!vars)
    BY NextIsNext, Zenon
  <1> QED
    BY <1>1, InitIsInit, Inductive, PTL DEF Spec, ImplementsBlocks, Abs!Spec
==============================================================================
