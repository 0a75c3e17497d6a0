-------------------------------- MODULE Bcache --------------------------------
(* The buffer cache (bio.c) over the IDE driver (ide.c): processes look blocks *)
(* up, wait for buffers and for the disk, write through or leave dirty buffers *)
(* to the log, and recycle buffers in LRU order.  A step is what happens under *)
(* bcache.lock or under idelock; a buffer's sleep lock is taken in one step    *)
(* (module SleepLock).                                                         *)
EXTENDS Integers, Sequences, FiniteSets, Functions

CONSTANTS
  Procs,
  None,
  Bufs,       \* bcache.buf
  Blocks,
  Vals,       \* contents of a block
  Zero,       \* a block of zeroes
  MaxPinned,  \* bound: dirty buffers the log leaves in the cache
  Outcomes    \* what idewait(1) may say of a read: {TRUE}, or BOOLEAN with errors

(* What idestart() tells the disk to do. *)
Commands == [op : {"read"}, block : Blocks] \cup [op : {"write"}, block : Blocks, data : Vals]

ASSUME BcacheAssumption ==
  /\ IsFiniteSet(Procs) /\ IsFiniteSet(Bufs)
  /\ None \notin Procs \cup Bufs \cup Blocks \cup Commands
  /\ Zero \in Vals /\ MaxPinned \in Nat /\ TRUE \in Outcomes /\ Outcomes \subseteq BOOLEAN

VARIABLES
  lru,       \* the list from bcache.head: most recently used first
  blockno,   \* b->blockno, None before its first use
  valid,     \* B_VALID
  dirty,     \* B_DIRTY
  refcnt,
  holder,    \* who holds b->lock
  data,
  idequeue,  \* the list from idequeue through qnext
  device,    \* command the disk works on, or None
  irq,       \* the disk has raised its interrupt
  disk,      \* what is on the disk
  panicked,  \* bget() found no buffer
  pc, blk, buf  \* of a process: where it is, the block it wants, its buffer

cache == <<lru, blockno, refcnt>>
flags == <<valid, dirty>>
driver == <<idequeue, device>>
procs == <<pc, blk, buf>>
vars == <<cache, flags, holder, data, driver, irq, disk, panicked, procs>>

Injective(s) == \A m, n \in DOMAIN s : s[m] = s[n] => m = n

(* binit() puts the buffers on the list; the memory they hold is zero. *)
Init ==
  /\ lru = CHOOSE order \in [1..Cardinality(Bufs) -> Bufs] : Range(order) = Bufs
  /\ blockno = [b \in Bufs |-> None]
  /\ valid = [b \in Bufs |-> FALSE] /\ dirty = [b \in Bufs |-> FALSE]
  /\ refcnt = [b \in Bufs |-> 0]
  /\ holder = [b \in Bufs |-> None]
  /\ data = [b \in Bufs |-> Zero]
  /\ idequeue = <<>> /\ device = None /\ irq = FALSE
  /\ disk \in [Blocks -> Vals]
  /\ panicked = FALSE
  /\ pc = [p \in Procs |-> "idle"]
  /\ blk = [p \in Procs |-> None]
  /\ buf = [p \in Procs |-> None]

At(p, place) == ~panicked /\ pc[p] = place

Goto(p, place) == pc' = [pc EXCEPT ![p] = place]

------------------------------------------------------------------------------
(* bget() *)

Cached(k) == {b \in Bufs : blockno[b] = k}

UnusedDirty(b) == refcnt[b] = 0

UnusedHeld(b) == holder[b] = None /\ ~dirty[b]

Unused(b) == refcnt[b] = 0 /\ ~dirty[b]

(* The scan from head.prev backwards stops at the last unused buffer. *)
Recycled ==
  LET n == CHOOSE n \in DOMAIN lru :
             Unused(lru[n]) /\ \A m \in DOMAIN lru : m > n => ~Unused(lru[m])
  IN lru[n]

Chosen(p, k, b) ==
  /\ buf' = [buf EXCEPT ![p] = b]
  /\ blk' = [blk EXCEPT ![p] = k]
  /\ Goto(p, "lock")
  /\ UNCHANGED <<lru, holder, data, driver, irq, disk, panicked>>

BgetHit(p, k) ==
  /\ At(p, "idle") /\ Cached(k) # {}
  /\ \E b \in Cached(k) :
       /\ refcnt' = [refcnt EXCEPT ![b] = @ + 1]
       /\ UNCHANGED <<blockno, flags>>
       /\ Chosen(p, k, b)

BgetRecycle(p, k) ==
  LET b == Recycled IN
  /\ At(p, "idle") /\ Cached(k) = {}
  /\ \E c \in Bufs : Unused(c)
  /\ blockno' = [blockno EXCEPT ![b] = k]
  /\ valid' = [valid EXCEPT ![b] = FALSE] /\ dirty' = [dirty EXCEPT ![b] = FALSE]
  /\ refcnt' = [refcnt EXCEPT ![b] = 1]
  /\ Chosen(p, k, b)

BgetPanics(p, k) ==
  /\ At(p, "idle") /\ Cached(k) = {}
  /\ \A b \in Bufs : ~Unused(b)
  /\ panicked' = TRUE
  /\ UNCHANGED <<cache, flags, holder, data, driver, irq, disk, procs>>

(* acquiresleep(&b->lock), and bread()'s test of B_VALID. *)
LockBuf(p) ==
  LET b == buf[p] IN
  /\ At(p, "lock") /\ holder[b] = None
  /\ holder' = [holder EXCEPT ![b] = p]
  /\ Goto(p, IF valid[b] THEN "have" ELSE "iderw")
  /\ UNCHANGED <<cache, flags, data, driver, irq, disk, panicked, blk, buf>>

------------------------------------------------------------------------------
(* ide.c *)

(* idestart(): the data to write is handed over at once. *)
Command(b) ==
  IF dirty[b] THEN [op |-> "write", block |-> blockno[b], data |-> data[b]]
  ELSE [op |-> "read", block |-> blockno[b]]

(* iderw() up to its first sleep(). *)
Iderw(p) ==
  LET b == buf[p] IN
  /\ At(p, "iderw")
  /\ idequeue' = Append(idequeue, b)
  /\ device' = IF idequeue = <<>> THEN Command(b) ELSE device
  /\ Goto(p, "sleep")
  /\ UNCHANGED <<cache, flags, holder, data, irq, disk, panicked, blk, buf>>

(* The disk carries the command out and interrupts. *)
DiskWorks ==
  /\ ~panicked /\ device # None /\ ~irq
  /\ irq' = TRUE
  /\ disk' = IF device.op = "write" THEN [disk EXCEPT ![device.block] = device.data] ELSE disk
  /\ UNCHANGED <<cache, flags, holder, data, driver, panicked, procs>>

(* ideintr(), with what idewait(1) says of a read. *)
IdeintrStopsDisk(ok) ==
  LET b == Head(idequeue) IN
  /\ ~panicked /\ irq /\ idequeue # <<>>
  /\ irq' = FALSE
  /\ idequeue' = Tail(idequeue)
  /\ data' = IF ~dirty[b] /\ ok THEN [data EXCEPT ![b] = disk[blockno[b]]] ELSE data
  /\ valid' = [valid EXCEPT ![b] = TRUE] /\ dirty' = [dirty EXCEPT ![b] = FALSE]
  /\ pc' = [p \in Procs |-> IF pc[p] = "sleep" /\ buf[p] = b THEN "test" ELSE pc[p]]
  /\ device' = None
  /\ UNCHANGED <<cache, holder, disk, panicked, blk, buf>>

Ideintr(ok) ==
  LET b == Head(idequeue) IN
  /\ ~panicked /\ irq /\ idequeue # <<>>
  /\ irq' = FALSE
  /\ idequeue' = Tail(idequeue)
  /\ data' = IF ~dirty[b] /\ ok THEN [data EXCEPT ![b] = disk[blockno[b]]] ELSE data
  /\ valid' = [valid EXCEPT ![b] = TRUE] /\ dirty' = [dirty EXCEPT ![b] = FALSE]
  /\ pc' = [p \in Procs |-> IF pc[p] = "sleep" /\ buf[p] = b THEN "test" ELSE pc[p]]
  /\ device' = IF Tail(idequeue) = <<>> THEN None ELSE Command(Head(Tail(idequeue)))
  /\ UNCHANGED <<cache, holder, disk, panicked, blk, buf>>

(* kill() ends the sleep() of a process, and iderw() has to notice. *)
Kill(p) ==
  /\ At(p, "sleep")
  /\ Goto(p, "test")
  /\ UNCHANGED <<cache, flags, holder, data, driver, irq, disk, panicked, blk, buf>>

(* The loop of iderw() after sleep(). *)
IderwTestOnce(p) ==
  /\ At(p, "test")
  /\ Goto(p, "have")
  /\ UNCHANGED <<cache, flags, holder, data, driver, irq, disk, panicked, blk, buf>>

IderwTest(p) ==
  /\ At(p, "test")
  /\ Goto(p, IF valid[buf[p]] /\ ~dirty[buf[p]] THEN "have" ELSE "sleep")
  /\ UNCHANGED <<cache, flags, holder, data, driver, irq, disk, panicked, blk, buf>>

------------------------------------------------------------------------------
(* What a process does with the buffer that bread() gave it. *)

Modify(p, v) ==
  /\ At(p, "have")
  /\ data' = [data EXCEPT ![buf[p]] = v]
  /\ dirty' = [dirty EXCEPT ![buf[p]] = TRUE]
  /\ UNCHANGED <<cache, valid, holder, driver, irq, disk, panicked, blk, buf>>

(* It changes the data and calls bwrite(). *)
Bwrite(p, v) == Modify(p, v) /\ Goto(p, "iderw")

(* It changes the data and calls log_write(), which leaves it in the cache. *)
LogWrite(p, v) ==
  /\ Cardinality({b \in Bufs : dirty[b]} \cup {buf[p]}) <= MaxPinned
  /\ Modify(p, v) /\ UNCHANGED pc

(* brelse(): the sleep lock first, then the reference. *)
BrelseUnlock(p) ==
  /\ At(p, "have")
  /\ holder' = [holder EXCEPT ![buf[p]] = None]
  /\ Goto(p, "unref")
  /\ UNCHANGED <<cache, flags, data, driver, irq, disk, panicked, blk, buf>>

(* The list with b taken out and put in behind bcache.head. *)
ToFront(b) ==
  LET n == CHOOSE n \in DOMAIN lru : lru[n] = b IN
  [m \in DOMAIN lru |-> IF m = 1 THEN b ELSE IF m <= n THEN lru[m - 1] ELSE lru[m]]

BrelseKeepsRef(p) ==
  LET b == buf[p] IN
  /\ At(p, "unref")
  /\ refcnt' = IF refcnt[b] > 1 THEN refcnt ELSE [refcnt EXCEPT ![b] = @ - 1]
  /\ lru' = IF refcnt[b] = 1 THEN ToFront(b) ELSE lru
  /\ buf' = [buf EXCEPT ![p] = None] /\ blk' = [blk EXCEPT ![p] = None]
  /\ Goto(p, "idle")
  /\ UNCHANGED <<blockno, flags, holder, data, driver, irq, disk, panicked>>

Brelse(p) ==
  LET b == buf[p] IN
  /\ At(p, "unref")
  /\ refcnt' = [refcnt EXCEPT ![b] = @ - 1]
  /\ lru' = IF refcnt[b] = 1 THEN ToFront(b) ELSE lru
  /\ buf' = [buf EXCEPT ![p] = None] /\ blk' = [blk EXCEPT ![p] = None]
  /\ Goto(p, "idle")
  /\ UNCHANGED <<blockno, flags, holder, data, driver, irq, disk, panicked>>

------------------------------------------------------------------------------
Step(p) == LockBuf(p) \/ Iderw(p) \/ IderwTest(p) \/ BrelseUnlock(p) \/ Brelse(p)

Hardware == DiskWorks \/ \E ok \in Outcomes : Ideintr(ok)

Next ==
  \/ \E p \in Procs :
       \/ Step(p) \/ Kill(p)
       \/ \E k \in Blocks : BgetHit(p, k) \/ BgetRecycle(p, k) \/ BgetPanics(p, k)
       \/ \E v \in Vals : Bwrite(p, v) \/ LogWrite(p, v)
  \/ Hardware

(* Disk and processes go on; who has a buffer releases it in the end, however  *)
(* often it writes it before, and who wants a buffer that is released over and *)
(* over gets it.                                                               *)
Fairness ==
  /\ WF_vars(Hardware)
  /\ \A p \in Procs : WF_vars(Iderw(p) \/ IderwTest(p) \/ Brelse(p)) /\ SF_vars(LockBuf(p))
                      /\ SF_vars(BrelseUnlock(p))

Spec == Init /\ [][Next]_vars /\ Fairness

------------------------------------------------------------------------------
(* Every variable has its type. *)
TypeOK ==
  /\ lru \in [1..Cardinality(Bufs) -> Bufs] /\ Range(lru) = Bufs
  /\ blockno \in [Bufs -> Blocks \cup {None}]
  /\ valid \in [Bufs -> BOOLEAN] /\ dirty \in [Bufs -> BOOLEAN]
  /\ refcnt \in [Bufs -> 0..Cardinality(Procs)]
  /\ holder \in [Bufs -> Procs \cup {None}]
  /\ data \in [Bufs -> Vals]
  /\ idequeue \in Seq(Bufs)
  /\ device \in Commands \cup {None}
  /\ irq \in BOOLEAN /\ panicked \in BOOLEAN
  /\ disk \in [Blocks -> Vals]
  /\ pc \in [Procs -> {"idle", "lock", "iderw", "sleep", "test", "have", "unref"}]
  /\ blk \in [Procs -> Blocks \cup {None}]
  /\ buf \in [Procs -> Bufs \cup {None}]

(* A buffer is counted once for every process between its bget() and the end   *)
(* of its brelse(), and is not given another block meanwhile.                  *)
RefsCounted ==
  /\ \A b \in Bufs : refcnt[b] = Cardinality({p \in Procs : buf[p] = b})
  /\ \A p \in Procs : buf[p] # None => blockno[buf[p]] = blk[p]

(* The disk works on the buffer at the head of the queue, every queued buffer  *)
(* is queued once, and the one process that waits for it holds its lock, so    *)
(* that the data does not change under the disk and nobody waits for a request *)
(* that is not there.                                                          *)
QueueOwned ==
  /\ Injective(idequeue)
  /\ idequeue = <<>> <=> device = None
  /\ idequeue # <<>> => device = Command(Head(idequeue))
  /\ \A b \in Bufs :
       b \in Range(idequeue) <=>
         \E p \in Procs : /\ pc[p] \in {"sleep", "test"} /\ buf[p] = b /\ holder[b] = p
                          /\ ~valid[b] \/ dirty[b]

(* "bget: no buffers" means that every buffer is with a process or pinned by   *)
(* the log: none leaks.                                                        *)
NoneLeaks ==
  panicked => Cardinality(Bufs) <= Cardinality({p \in Procs : buf[p] # None})
                                   + Cardinality({b \in Bufs : dirty[b] /\ holder[b] = None})

(* The cache is well formed, its buffers are counted, and none leaks. *)
BuffersCounted == TypeOK /\ RefsCounted /\ NoneLeaks

(* iderw() returns with the block in the buffer (B_VALID: "buffer has been     *)
(* read from disk", buf.h).                                                    *)
ValidIsRead ==
  \A b \in Bufs : valid[b] /\ ~dirty[b] => data[b] = disk[blockno[b]]

(* bread() returns: lock holders, the queue and the disk do not wait for each  *)
(* other in a circle.                                                          *)
BreadReturns == \A p \in Procs : pc[p] = "lock" ~> pc[p] = "have" \/ panicked

(* A block is in the buffer that holds it, if that is valid, or on the disk. *)
Filled(k) == {b \in Cached(k) : valid[b]}

Content(k) == IF Filled(k) = {} THEN disk[k] ELSE data[CHOOSE b \in Filled(k) : TRUE]

Holder(k) == IF Filled(k) = {} THEN None ELSE holder[CHOOSE b \in Filled(k) : TRUE]

Holders == [k \in Blocks |-> Holder(k)]

Contents == [k \in Blocks |-> Content(k)]

Abs == INSTANCE BlockStore WITH holder <- Holders, content <- Contents

(* Cache and disk together are a store of blocks: no two processes have the    *)
(* same block, and bread() returns what was last written, from the cache or    *)
(* from the disk.                                                              *)
ImplementsBlocks == Abs!Spec
==============================================================================
