--------------------------------- MODULE Log ---------------------------------
(* log.c: the write-ahead redo log shared by concurrent file system calls,     *)
(* with group commit, crashes and recovery.  A step is a critical section of   *)
(* log.lock or one synchronous sector write (iderw returns when the sector is  *)
(* on disk); sector writes are atomic.  sleep() and wakeup() are atomic with   *)
(* the critical section that calls them, which SleepLock justifies.            *)
EXTENDS Integers, Sequences, FiniteSets, Functions

CONSTANTS
  Procs,        \* processes that make file system calls
  Blocks,       \* home locations on the disk
  AfterLog,     \* the home location that follows the log (inode block 0)
  Vals,         \* block contents
  Uncached,     \* no buffer of the cache holds the block
  NoBlock,      \* the process is not in log_write
  LOGSIZE,      \* what begin_op divides among system calls
  MAXOPBLOCKS,  \* what begin_op reserves for one
  NLOG,         \* log.size: sectors mkfs gives the log, header included
  OpMax         \* distinct blocks a system call really writes

ASSUME LogAssumption ==
  /\ LOGSIZE \in Nat /\ MAXOPBLOCKS \in Nat /\ OpMax \in Nat
  /\ NLOG \in Nat \ {0}
  /\ OpMax <= MAXOPBLOCKS
  /\ AfterLog \in Blocks /\ IsFiniteSet(Procs)
  /\ Uncached \notin Vals /\ NoBlock \notin Blocks

VARIABLES
  home,         \* disk: the blocks at their home locations
  logd,         \* disk: data blocks of the log
  head,         \* disk: header block of the log, the first n entries of block[]
  lh,           \* log.lh
  outstanding,  \* log.outstanding
  committing,   \* log.committing
  cache,        \* b->data of the buffer that caches a block, or Uncached
  dirty,        \* blocks whose buffer has B_DIRTY
  pc,           \* where a process is: out, begin_op, asleep, op, log_write
  wblock,       \* the block a process at log_write holds locked
  written,      \* blocks the current system call of a process has written
  phase,        \* where commit() or recover_from_log() is
  tail,         \* its loop variable
  booting,      \* recover_from_log() has not finished
  panicked      \* panic() froze the machine

disk == <<home, logd, head>>
procs == <<pc, wblock, written>>
vars == <<home, logd, head, lh, outstanding, committing, cache, dirty,
          pc, wblock, written, phase, tail, booting, panicked>>

(* What bread() returns. *)
View(b) == IF cache[b] = Uncached THEN home[b] ELSE cache[b]

(* Contents of the sector log.start + i: past the log lies AfterLog. *)
LogSector(i) == IF i < NLOG THEN logd[i] ELSE View(AfterLog)

Volatile ==
  /\ lh' = <<>> /\ outstanding' = 0 /\ committing' = FALSE
  /\ cache' = [b \in Blocks |-> Uncached]
  /\ dirty' = {}
  /\ pc' = [p \in Procs |-> "out"]
  /\ wblock' = [p \in Procs |-> NoBlock]
  /\ written' = [p \in Procs |-> {}]
  /\ tail' = 0 /\ booting' = TRUE /\ panicked' = FALSE
  /\ phase' = "read_head"

(* mkfs leaves an empty log. *)
Init ==
  /\ home \in [Blocks -> Vals]
  /\ logd \in {[i \in 1..(NLOG - 1) |-> v] : v \in Vals}
  /\ head = <<>>
  /\ lh = <<>> /\ outstanding = 0 /\ committing = FALSE
  /\ cache = [b \in Blocks |-> Uncached]
  /\ dirty = {}
  /\ pc = [p \in Procs |-> "out"]
  /\ wblock = [p \in Procs |-> NoBlock]
  /\ written = [p \in Procs |-> {}]
  /\ tail = 0 /\ booting = TRUE /\ panicked = FALSE
  /\ phase = "read_head"

Crash == Volatile /\ UNCHANGED disk

------------------------------------------------------------------------------
(* begin_op() *)

NoRoom == Len(lh) + (outstanding + 1) * MAXOPBLOCKS > LOGSIZE

AdmitIgnoringCommit == ~NoRoom

AdmitOneTooMany == ~committing /\ Len(lh) + outstanding * MAXOPBLOCKS <= LOGSIZE

Admit == ~committing /\ ~NoRoom

Call(p) ==
  /\ ~booting /\ pc[p] = "out"
  /\ pc' = [pc EXCEPT ![p] = "begin_op"]
  /\ UNCHANGED <<disk, lh, outstanding, committing, cache, dirty, wblock,
                 written, phase, tail, booting, panicked>>

BeginOp(p) ==
  /\ pc[p] = "begin_op"
  /\ Admit
  /\ outstanding' = outstanding + 1
  /\ pc' = [pc EXCEPT ![p] = "op"]
  /\ written' = [written EXCEPT ![p] = {}]
  /\ UNCHANGED <<disk, lh, committing, cache, dirty, wblock, phase, tail,
                 booting, panicked>>

BeginOpSleeps(p) ==
  /\ pc[p] = "begin_op"
  /\ ~Admit
  /\ pc' = [pc EXCEPT ![p] = "asleep"]
  /\ UNCHANGED <<disk, lh, outstanding, committing, cache, dirty, wblock,
                 written, phase, tail, booting, panicked>>

(* wakeup(&log) *)
Woken(pcs) == [q \in Procs |-> IF pcs[q] = "asleep" THEN "begin_op" ELSE pcs[q]]

------------------------------------------------------------------------------
(* bread(b), modify b->data, log_write(b), brelse(b) by a system call that     *)
(* stays within its OpMax blocks.  log_write looks at lh.n before it takes     *)
(* log.lock.                                                                   *)

TooBig == Len(lh) >= LOGSIZE \/ Len(lh) >= NLOG - 1

Modify(p, b, v) ==
  /\ pc[p] = "op"
  /\ \A q \in Procs : wblock[q] # b
  /\ b \in written[p] \/ Cardinality(written[p]) < OpMax
  /\ cache' = [cache EXCEPT ![b] = v]
  /\ IF TooBig \/ outstanding < 1
     THEN panicked' = TRUE /\ UNCHANGED procs
     ELSE /\ pc' = [pc EXCEPT ![p] = "log_write"]
          /\ wblock' = [wblock EXCEPT ![p] = b]
          /\ written' = [written EXCEPT ![p] = @ \cup {b}]
          /\ UNCHANGED panicked
  /\ UNCHANGED <<disk, lh, outstanding, committing, dirty, phase, tail, booting>>

LogWrite(p) ==
  /\ pc[p] = "log_write"
  /\ lh' = IF wblock[p] \in Range(lh) THEN lh ELSE Append(lh, wblock[p])
  /\ dirty' = dirty \cup {wblock[p]}
  /\ pc' = [pc EXCEPT ![p] = "op"]
  /\ wblock' = [wblock EXCEPT ![p] = NoBlock]
  /\ UNCHANGED <<disk, outstanding, committing, cache, written, phase, tail,
                 booting, panicked>>

(* bget() recycles the buffer of a block nobody has locked or pinned. *)
Evict(b) ==
  /\ cache[b] # Uncached
  /\ b \notin dirty
  /\ \A p \in Procs : wblock[p] # b
  /\ cache' = [cache EXCEPT ![b] = Uncached]
  /\ UNCHANGED <<disk, lh, outstanding, committing, dirty, procs, phase, tail,
                 booting, panicked>>

------------------------------------------------------------------------------
(* end_op() and commit() *)

CommitStart == IF lh = <<>> THEN "done" ELSE "write_log"

EndOpNoCommit(p) ==
  /\ pc[p] = "op"
  /\ outstanding' = outstanding - 1
  /\ pc' = Woken([pc EXCEPT ![p] = "out"])
  /\ UNCHANGED <<disk, lh, committing, cache, dirty, wblock, written, phase,
                 tail, booting, panicked>>

EndOp(p) ==
  /\ pc[p] = "op"
  /\ outstanding' = outstanding - 1
  /\ panicked' = committing
  /\ IF outstanding = 1
     THEN /\ committing' = TRUE
          /\ phase' = CommitStart
          /\ tail' = 0
          /\ pc' = [pc EXCEPT ![p] = "commit"]
     ELSE /\ pc' = Woken([pc EXCEPT ![p] = "out"])
          /\ UNCHANGED <<committing, phase, tail>>
  /\ UNCHANGED <<disk, lh, cache, dirty, wblock, written, booting>>

(* One iteration of write_log(), or its end. *)
WriteLog ==
  /\ phase = "write_log"
  /\ IF tail < Len(lh)
     THEN LET v == View(lh[tail + 1]) IN
          /\ IF tail + 1 < NLOG
             THEN logd' = [logd EXCEPT ![tail + 1] = v] /\ UNCHANGED <<home, cache>>
             ELSE /\ home' = [home EXCEPT ![AfterLog] = v]
                  /\ cache' = [cache EXCEPT ![AfterLog] = v]
                  /\ UNCHANGED logd
          /\ tail' = tail + 1
          /\ UNCHANGED phase
     ELSE phase' = "write_head" /\ UNCHANGED <<home, logd, cache, tail>>
  /\ UNCHANGED <<head, lh, outstanding, committing, dirty, procs, booting, panicked>>

WriteHead ==
  /\ phase = "write_head"
  /\ head' = lh
  /\ phase' = "install" /\ tail' = 0
  /\ UNCHANGED <<home, logd, lh, outstanding, committing, cache, dirty, procs,
                 booting, panicked>>

(* One iteration of install_trans(), or its end. *)
InstallTrans ==
  /\ phase = "install"
  /\ IF tail < Len(lh)
     THEN LET b == lh[tail + 1]
              v == LogSector(tail + 1) IN
          /\ home' = [home EXCEPT ![b] = v]
          /\ cache' = [cache EXCEPT ![b] = v]
          /\ dirty' = dirty \ {b}
          /\ tail' = tail + 1
          /\ UNCHANGED phase
     ELSE phase' = "clear" /\ UNCHANGED <<home, cache, dirty, tail>>
  /\ UNCHANGED <<logd, head, lh, outstanding, committing, procs, booting, panicked>>

ClearHeadEarly ==
  /\ phase = "install"
  /\ lh' = <<>> /\ head' = <<>>
  /\ phase' = "done"
  /\ UNCHANGED <<home, logd, outstanding, committing, cache, dirty, procs, tail,
                 booting, panicked>>

(* log.lh.n = 0; write_head() -- the end of commit() and of recovery. *)
ClearHead ==
  /\ phase = "clear"
  /\ lh' = <<>> /\ head' = <<>>
  /\ phase' = "done"
  /\ UNCHANGED <<home, logd, outstanding, committing, cache, dirty, procs, tail,
                 booting, panicked>>

EndCommitNoWakeup(p) ==
  /\ phase = "done" /\ pc[p] = "commit"
  /\ committing' = FALSE
  /\ phase' = "idle"
  /\ pc' = [pc EXCEPT ![p] = "out"]
  /\ UNCHANGED <<disk, lh, outstanding, cache, dirty, wblock, written, tail,
                 booting, panicked>>

EndCommit(p) ==
  /\ phase = "done" /\ pc[p] = "commit"
  /\ committing' = FALSE
  /\ phase' = "idle"
  /\ pc' = Woken([pc EXCEPT ![p] = "out"])
  /\ UNCHANGED <<disk, lh, outstanding, cache, dirty, wblock, written, tail,
                 booting, panicked>>

------------------------------------------------------------------------------
(* recover_from_log(), called from initlog() by the first process to run. *)

ReadHead ==
  /\ phase = "read_head"
  /\ lh' = head
  /\ phase' = "install" /\ tail' = 0
  /\ UNCHANGED <<disk, outstanding, committing, cache, dirty, procs, booting, panicked>>

Recovered ==
  /\ booting /\ phase = "done"
  /\ booting' = FALSE
  /\ phase' = "idle"
  /\ UNCHANGED <<disk, lh, outstanding, committing, cache, dirty, procs, tail, panicked>>

------------------------------------------------------------------------------
DiskStep == WriteLog \/ WriteHead \/ InstallTrans \/ ClearHead \/ ReadHead \/ Recovered

Step(p) ==
  BeginOp(p) \/ BeginOpSleeps(p) \/ LogWrite(p) \/ EndOp(p) \/ EndCommit(p)

Next ==
  \/ /\ ~panicked
     /\ \/ DiskStep
        \/ \E p \in Procs : \/ Call(p) \/ Step(p)
                            \/ \E b \in Blocks, v \in Vals : Modify(p, b, v)
        \/ \E b \in Blocks : Evict(b)
  \/ Crash

Spec == Init /\ [][Next]_vars

------------------------------------------------------------------------------
(* Every variable has its type. *)
TypeOK ==
  /\ home \in [Blocks -> Vals]
  /\ logd \in [1..(NLOG - 1) -> Vals]
  /\ head \in Seq(Blocks) /\ lh \in Seq(Blocks)
  /\ outstanding \in Nat
  /\ committing \in BOOLEAN
  /\ cache \in [Blocks -> Vals \cup {Uncached}]
  /\ dirty \subseteq Blocks
  /\ pc \in [Procs -> {"out", "begin_op", "asleep", "op", "log_write", "commit"}]
  /\ wblock \in [Procs -> Blocks \cup {NoBlock}]
  /\ written \in [Procs -> SUBSET Blocks]
  /\ phase \in {"idle", "read_head", "write_log", "write_head", "install", "clear", "done"}
  /\ tail \in Nat
  /\ booting \in BOOLEAN /\ panicked \in BOOLEAN

Active == {p \in Procs : pc[p] \in {"op", "log_write"}}

(* "The logging system only commits when there are no FS system calls active":*)
(* while commit() runs without log.lock no call is between begin_op and        *)
(* end_op, and log.outstanding counts exactly those that are.                  *)
CommitAlone ==
  /\ outstanding = Cardinality(Active)
  /\ committing => Active = {}

(* A call that begin_op let in, and that keeps to its blocks, never finds the  *)
(* log full: log_write does not panic, and commit never writes past the log.   *)
NoTooBigPanic == ~panicked /\ Len(lh) < NLOG

(* What recover_from_log would leave at the home locations, were the machine   *)
(* to crash now.                                                               *)
Restored(at, log, hd) ==
  [b \in Blocks |-> IF b \in Range(hd)
                    THEN log[CHOOSE i \in DOMAIN hd : hd[i] = b]
                    ELSE at[b]]

AfterRecovery == Restored(home, logd, head)

(* end_op of the last active call returns only once all that was written is    *)
(* on disk: with no call active and no commit under way a crash loses nothing. *)
QuiescentIsDurable ==
  outstanding = 0 /\ ~committing /\ ~booting =>
    /\ AfterRecovery = [b \in Blocks |-> View(b)]
    /\ dirty = {}

(* Group commit is atomic over crashes at any point, crashes during recovery   *)
(* included: what survives is always all that had been written at some moment  *)
(* when no system call was active.                                             *)
Abs == INSTANCE AtomicDisk WITH
         durable <- AfterRecovery,
         view <- IF booting THEN AfterRecovery ELSE [b \in Blocks |-> View(b)],
         active <- Active

CrashAtomicity == Abs!Spec

(* The inductive invariant behind the three: a buffer that is neither pinned   *)
(* nor held agrees with the disk, the pinned ones are those still to be        *)
(* installed, and each phase of commit() and recovery finds the log on disk as *)
(* the phases before it left it.                                               *)
Injective(s) == \A i, j \in DOMAIN s : s[i] = s[j] => i = j

Held(b) == \E p \in Procs : wblock[p] = b

Holding == \A p \in Procs : (wblock[p] # NoBlock) <=> (pc[p] = "log_write")

OneCommitter ==
  /\ \A p \in Procs : pc[p] = "commit" => committing
  /\ \A p, q \in Procs : pc[p] = "commit" /\ pc[q] = "commit" => p = q

CleanIsHome ==
  ~panicked => \A b \in Blocks : b \notin dirty /\ ~Held(b) => View(b) = home[b]

Phases ==
  /\ booting => /\ ~committing /\ dirty = {}
                /\ \A p \in Procs : pc[p] = "out"
                /\ phase \in {"read_head", "install", "clear", "done"}
  /\ committing => phase \in {"write_log", "write_head", "install", "clear", "done"}
  /\ ~booting /\ ~committing => phase = "idle"
  /\ phase \in {"idle", "write_log", "write_head", "done"} => head = <<>>
  /\ phase \in {"install", "clear"} => head = lh
  /\ phase = "done" => lh = <<>>
  /\ phase = "read_head" => lh = <<>>

Pinned ==
  ~booting =>
    dirty = IF phase \in {"install", "clear", "done"}
            THEN {lh[i] : i \in {j \in 1..Len(lh) : j > tail}}
            ELSE Range(lh)

LogCopied ==
  /\ tail <= Len(lh) \/ phase \in {"idle", "done"}
  /\ phase \in {"write_head", "clear"} => tail = Len(lh)
  /\ phase \in {"write_log", "write_head"} =>
       \A i \in 1..tail : logd[i] = View(lh[i])
  /\ phase \in {"install", "clear"} /\ committing =>
       \A i \in 1..Len(lh) : logd[i] = View(lh[i])
  /\ phase \in {"install", "clear"} =>
       \A i \in 1..tail : home[lh[i]] = logd[i]

NothingPending == ~booting /\ ~committing /\ Active = {} => lh = <<>> /\ ~panicked

IInv ==
  /\ TypeOK /\ CommitAlone /\ NothingPending
  /\ Injective(lh) /\ Injective(head) /\ Len(head) < NLOG
  /\ Holding /\ OneCommitter /\ CleanIsHome /\ Phases /\ Pinned /\ LogCopied

(* Why the log does not overflow: Reserved has an element for each block that  *)
(* an active call may still add to lh, and begin_op leaves room for all.       *)
Used(p) ==
  IF pc[p] = "log_write" /\ wblock[p] \notin Range(lh)
  THEN Cardinality(written[p]) - 1 ELSE Cardinality(written[p])

Reserved == {r \in Active \X (1..MAXOPBLOCKS) : r[2] > Used(r[1])}

Reservation ==
  /\ Len(lh) + Cardinality(Reserved) <= LOGSIZE
  /\ Len(head) <= LOGSIZE
  /\ Len(lh) < NLOG
  /\ \A p \in Active :
       /\ written[p] \subseteq Range(lh) \cup {wblock[p]}
       /\ pc[p] = "log_write" => wblock[p] \in written[p]
       /\ IsFiniteSet(written[p]) /\ Cardinality(written[p]) <= OpMax

(* A process that begin_op put to sleep has somebody to wake it: a call that   *)
(* will end, or a commit that will.                                            *)
SleeperHasWaker ==
  \A p \in Procs : pc[p] = "asleep" => committing \/ Active # {}
==============================================================================
