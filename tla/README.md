# A verification of xv6 and of the compiler beside it

This directory holds TLA+ models of the programs of the repository
`compiling-to-assembly`: the kernel xv6 (`projects/xv6`), whose concurrency is
the hard part, and the sequential code with an algorithm in it: the compiler of
`chapter-08`, the programs that come with xv6 (shell, `grep`, `malloc`, `mkfs`) and
the sequential parts of the kernel.  TLC checks the models on small
instances; TLAPS proves the most important properties for all instances.
`PROJECT.json` lists components, runs, mutants, theorems, hazards and findings,
and maps every definition to the lines it models.

Run a configuration with `tlc -workers 2 -config MCLog.cfg MCLog`, a proof with
`tlapm LogProofs.tla`.

## 1. Inventory

Paths are below `src/projects/xv6` unless they start with `src/`.

| part | state | operations | what is hard | modelled in |
|---|---|---|---|---|
| sleep locks, `sleep`/`wakeup` (`sleeplock.c`, `proc.c:420-472`) | `locked`, `pid`, the spinlock, `state`, `chan` | acquiresleep, releasesleep, sleep, wakeup, kill | two spinlocks are swapped on the way to sleep; a woken process competes with new ones | `SleepLock`, `Mutex` |
| log (`log.c`) | header in memory and on disk, log blocks, home blocks, `outstanding`, `committing` | begin_op, log_write, end_op, commit, recovery | group commit without the lock, crashes anywhere, a fixed space shared by reservation | `Log`, `AtomicDisk` |
| processes (`proc.c`) | process table, CPUs, `ptable.lock`, pages | fork, exit, wait, kill, yield, sleep, wakeup, scheduler | a lock that changes hands across a context switch, orphans, partial failure of fork, starvation | `Proc` |
| pipes (`pipe.c`) | ring buffer, two counters, two ends | pipewrite, piperead, pipeclose; fork and close of descriptors | wrapping counters, two channels under one lock, kill in the middle, last close frees the page | `Pipe`, `Fifo` |
| buffer cache and disk driver (`bio.c`, `ide.c`) | buffers, LRU list, flags, request queue | bread, bwrite, brelse, log_write's pinning, iderw, ideintr | recycling, the wait for an interrupt, requests queued behind others | `Bcache`, `BlockStore` |
| compiler (`src/chapter-08/src`) | none | Lexer.next, parse, assembler | precedence and association, longest match, register use | `Compiler` |
| grep (`grep.c`) | buffer of a line begun | match, grep | backtracking, lines cut by read() | `Grep` |
| spinlocks and interrupts (`spinlock.c`, `trap.c`, `sched` and `scheduler` of `proc.c`) | lock holders, FL_IF, `ncli`, `intena` | acquire, release, pushcli, popcli, interrupt, sched, scheduler, forkret | a handler on top of code with a lock; fields of the CPU that belong to the thread | `Cpu` |
| clock (`sysproc.c`, `trap.c`) | `ticks`, `tickslock` | sys_sleep, timer interrupt, kill | `ticks` wraps, kill without the lock | `Ticks` |
| console input (`console.c`) | `input.buf` and its `r`, `w`, `e` | consoleintr, consoleread, kill | three wrapping indices between interrupt and readers, a full buffer | `Console` |
| open files (`file.c`, `sysfile.c`, `pipe.c`) | `ftable`, `ofile`, ends of pipes | open, pipe, dup, close, fork, exit | counts and descriptors change at different times, error paths of several steps | `FileTable` |
| inodes, directories (`fs.c`, `sysfile.c`) | inode cache, dinodes, directory entries | ialloc, iget, ilock, iput, dirlookup, dirlink, namex; link, unlink, mkdir, chdir | lock order along paths, freeing an inode that somebody looks up, link counts | `Fs` |
| contents of files (`fs.c`, `file.c`), `mkfs.c` | bitmap, addresses, blocks, `f->off` | balloc, bfree, bmap, itrunc, readi, writei, fileread, filewrite; mkfs's main | direct and indirect blocks, reuse of freed ones, a write in several transactions | `FileData`, `Mkfs` |
| memory (`kalloc.c`, `vm.c`, `exec.c`) | free list, page tables, `sz` | kalloc, kfree, setupkvm, allocuvm, deallocuvm, copyuvm, freevm, growproc, exec | giving back what a failing call took, unaligned sizes | `Vm`; a count in `Proc` |
| user heap (`umalloc.c`) | the circular free list | malloc, free, morecore | splitting, joining on both sides | `Heap` |
| shell (`sh.c`) | none | gettoken, parsecmd, nulterminate, runcmd | recursive descent, terminators written into the line, descriptors of pipes | `Shell` |
| output (`console.c`, `printf.c`) | the screen | printint, cprintf, printf, cgaputc | smallest int, scrolling | `Text` |
| memory and names (`string.c`, `ulib.c`, `fs.c`, `syscall.c`) | none | memmove, strncmp, strncpy, namecmp, skipelem, fetchint, argptr | overlap, names without terminator, addresses that wrap | `Strings` |

What each part must do, as far as it is modelled, is the list of properties in
section 4.  Parts that stay out are in section 8.

How they interact: every file system call runs between `begin_op` and `end_op`
(log), reads and writes blocks through `bread`/`log_write` (cache), which wait
for the driver.  Cache, log, pipes and `wait()` sleep and wake through `proc.c`,
and buffers and inodes are protected by sleep locks.  The modules compose along
these lines: `SleepLock` justifies that the other modules treat "release the
spinlock and sleep" as one step and a sleep lock as a variable that names its
holder; `Bcache` implements `BlockStore`, a cell for each block, which is how
`Log` sees a buffer.

## 2. Plan

1. *Done:* sleep locks, log, processes, pipes, cache and driver, inodes and
   directories, the compiler and grep; proofs for sleep locks, log and pipes.
2. *Done:* contents of files from the image of mkfs on; file descriptors; console
   input and spinlocks with interrupts, both with proofs; memory; ticks; heap,
   shell, output and strings.  Modules without state in common share two runs.
3. *Done:* `ProcProofs` (one CPU for each process, no page lost) and
   `BcacheProofs` (references counted, the queue owned, the refinement of
   `BlockStore`).
4. `..` in the paths of `Fs`, which needs a model of the panic it ends in.

## 3. Modules

* **SleepLock** takes one step for each acquire or release of a spinlock.
  `AcquireLk`, `TakeLock`, `MustSleep` are `acquiresleep`; `SleepSwapLocks` to
  `SleepReacquire` are `sleep`; `ReleaseStart` to `ReleaseEnd` are
  `releasesleep` with `wakeup` inside.  A process that spins is one whose step is
  not enabled.  **Mutex** is what it promises.
* **Log** takes one step for each critical section of `log.lock` and each sector
  written.  `Call`, `BeginOp`, `BeginOpSleeps`, `Modify`, `LogWrite`, `EndOp`,
  `EndCommit` are the processes; `WriteLog`, `WriteHead`, `InstallTrans`,
  `ClearHead` the commit; `ReadHead`, `Recovered` with the installing steps the
  recovery; `Crash` may come at any time and leaves the disk; `Evict` is the
  cache dropping a clean buffer.  **AtomicDisk** promises that a crash leaves
  the state of a moment when no call was active.
* **Proc** has the process table, the CPUs and `ptable.lock`.  `AllocProc` to
  `Publish` are `fork` with its failures; `ScanStart`, `Dispatch`, `ScanEnd` are
  `scheduler` and `Swtch` the switch back to it; `Yield`, `Sleep`, `Wakeup`, `Kill`,
  `Exit` and the `Wait...` actions are the functions of these names.  Memory is the number of free pages.
* **Pipe** takes one step for each byte, test or change of `p->lock`, as `kill`
  does not take it.  `PipeClose` follows `CloseRead` or `CloseWrite`, the steps of
  `fileclose` that drop the last descriptor.  **Fifo** is a bounded queue whose
  reads return 0 only at the end of the stream.
* **Bcache** takes one step for each critical section of `bcache.lock` or
  `idelock`.  `BgetHit`, `BgetRecycle`, `BgetPanics`, `LockBuf` are `bread` up to
  the driver; `Iderw`, `IderwTest` the loop of `iderw`; `DiskWorks` is the disk
  (external); `Ideintr` the interrupt; `Bwrite` and `LogWrite` the two ways to
  write; `BrelseUnlock`, `Brelse` the release.  **BlockStore** is one cell and one
  holder for each block.
* **Fs** goes from one `acquiresleep` to the next, or to a change of `ip->ref`.
  `todo` is the stack of a call: functions it has still to run, with the inode
  that each is called with.  `IputTest`, `IputFree`, `IputDeref` are `iput`;
  `Namei` and `Nameiparent` take one turn of `namex`; the `Create...`, `Link...`
  and `Unlink...` actions are `create`, `sys_link` and `sys_unlink` between their
  locks, the failing ways out included.  A step that would panic is not
  enabled; `NoPanic` says that none is due.
* **Cpu** takes one step for pushcli and one for the xchg of `acquire`, one for
  `release`, and lets an interrupt come whenever `fl_if` is set.  A thread is a
  process or a CPU's scheduler.  `under` remembers what the interrupted code held:
  a handler acquires locks in order without knowing of it.  `Sched` and `Dispatch`
  are the two directions of `swtch`, `Trapret` the end of `forkret`.
* **Ticks** and **Console** cut `sys_sleep` and `consoleread` where `kill` can come
  in: after the test of `killed`, and before the process is SLEEPING.  `elapsed`,
  `waited` and `late` count ticks for the properties; `ready` and `line` are an
  ideal line editor that the three counters are compared with.
* **FileTable** keeps, like `Fs`, a list of the steps that a call has still to
  make, one for each critical section of `ftable.lock` or change of an object.
* **Mkfs** builds the image, **FileData** goes on from it: `Write` and `WriteChunk`
  are `filewrite` and one turn of its loop, in one transaction; `Read`, `Reopen`,
  `Replace` are a read, a close with an open, and an unlink with a create.  `content`
  is each file as a sequence; `dinodes` what iupdate has put on disk; `log` the
  blocks of the transaction.
* **Vm** makes each system call one step, as memory belongs to one process, with
  `left` pages for it before kalloc() fails (others may take pages meanwhile).
  `image` is what the process should see.
* **Heap** has the headers as arrays of sizes and pointers; `Sbrk` is the program
  moving the break on its own.
* **Shell**, **Text**, **Strings**, **Compiler** and **Grep** hold operators with the
  names of the functions they model, and reference definitions: a token language,
  a grammar as sets of trees, arithmetic, the meaning of an expression as a way to
  cut the text, a tape for the screen.
* **MC...** modules instantiate them: symmetry sets for `MCLog`, `MCPipe`,
  `MCProc` and `MCFs`.  `MCSleepLock` puts the small machines of locks and sleep
  (`SleepLock`, `Cpu`, `Ticks`, `Console`) and a `Proc` with one CPU, for liveness,
  side by side, and `MCAlgorithms` a state for each input up to a bound next to the
  machines `FileData`, `FileTable`, `Heap` and `Vm`: the initial state chooses one,
  and the variables of the others stay.  Fairness is that of the machine that runs.
* **...Proofs** modules hold the theorems (section 6).

Definitions right before an action with a similar name (`AdmitOneTooMany` before
`Admit`) are plausible mistakes.  No run uses them; put in the place of what
follows them each makes TLC report the property that `PROJECT.json` pairs it with.

## 4. Runs

| run | question | properties |
|---|---|---|
| sleeplock | three processes and kill | `HolderIsInside` holdingsleep tells the truth; `NoLostWakeup`; `SleeperIsWoken`; `ImplementsMutex` |
| (the same) | two CPUs, two locks, two processes, interrupts | `LocksSafe`: `NeverOwnLock` acquire does not panic, `NcliCounts`; `InterruptsKept`: `InterruptsRestored`, `FirstTakesInterrupts` the first process can wait for the disk |
| (the same) | two sleepers, a clock modulo 4, kill | `SleepTimed`: `SleptEnough`, `KilledLeaves` within a tick and the time to get a CPU; `SleepersReturn` |
| (the same) | two readers, a buffer of 3 with counters modulo 6 | `InputKept`: `EditorAgrees` with the ideal editor, `FullIsReadable`, `AsleepMeansEmpty` |
| (the same) | one CPU, init and three processes | `RunnableRuns`; `OrphansReaped` |
| log | two processes, three blocks, crashes | `CommitAlone`; `NoTooBigPanic`; `QuiescentIsDurable` no loss when nothing is active; `SleeperHasWaker`; `CrashAtomicity` |
| proc | two CPUs, four slots, too few pages | `OneCpuEach` no shared or freed kernel stack; `PagesConserved`; `FamiliesKept`: `NoLostExit`, `ParentAlive` |
| proc_kill | kill of a pid nobody has | `KilledByPid` is violated |
| pipe | two processes, fork, close, one of them killable | `WriterWaitsForRoom`, `OnlyKilledForget` sleep with a reason; `FreedAfterUse`; `ImplementsFifo` |
| pipe_killed_writer | three processes, all killable | `ReaderWaitsForData` is violated |
| bcache | two processes, two buffers, three blocks | `BuffersCounted`: `RefsCounted`, `NoneLeaks`; `QueueOwned`; `BreadReturns`; `ImplementsBlocks` |
| bcache_error | the disk reports errors | `ValidIsRead` is violated |
| fs | two processes, three inodes, nine calls | `RefsKept`: `RefsCounted`, `HeldStay` nothing in use is freed; `NamesAreLinks` nothing with a name is freed; `WriteThrough` the inode cache agrees with the disk; `NoPanic` |
| fs_deadlock | the same | `NoWaitCycle` is violated |
| fs_orphan | the same | `FreedAtLast` is violated |
| algorithms | all inputs up to a bound | compiler and grep: `SyntaxRight`: `LongestMatch`, `ParsesGrammar`; `CodeAddsUp`; `GrepRight`: `MatchesExpression`, `GrepsLines` the lines written, for every way to cut the input into reads |
| (the same) | all lines, formats, texts, paths up to a bound | `ShellRight`: `ParsesShellGrammar`, `WordsTerminated`, `RunsAsMeant` every command has its descriptors and no other; `LibraryRight`: `NumeralsRight`, `FormatsAgree`, `ScreenRight`, `MovesAtOnce`, `MovesDown`, `PathsSplit`, `NamesFound`, `AddressesTested` |
| (the same) | two files, two writers, an image of 22 blocks | `FilesRight`: `ReadsBack`, `BlocksOwned`, `NoHoles` reading allocates nothing, `AddressesSaved`, `WithinReservation` |
| (the same) | two processes, three files, two descriptors each | `FilesCounted`: `RefsCounted`, `ObjectsCounted` |
| (the same) | a heap of ten units | `HeapRight`: `BlocksApart`, `Coalesced` |
| (the same) | two processes, 16 pages, five calls | `MemoryRight`: `FramesOwned` no page is lost or shared, `ImageAgrees` a process sees the memory it should, also after a call that failed |

A name before a colon is the conjunction of those behind it, one for each machine
or algorithm; every conjunct has a mutant of its own in `PROJECT.json`.  The type
invariant `TypeOK` is a conjunct of `FamiliesKept`, `BuffersCounted` and
`RefsKept`, and for the sleep lock, the log, pipes, `Cpu` and `Console` part of the inductive
invariant that is proved (section 6).

The five violations are findings:

* `proc.c:485` does not look at the state of the slot whose pid it compares.
* `pipe.c:86` leaves without the wakeup that the bytes already written call for.
* `ide.c:122` sets B_VALID after a read that failed.
* `fs.c:334` takes the inode's lock in every `iput`.  `create` puts the directory
  with the new inode locked (`sysfile.c:280`), while `unlink` of the new name has
  the directory locked and waits for the inode (`sysfile.c:209`).
* `fs.c:339` decides whether to free an inode before `fs.c:350` drops the
  reference.  A process between the two is still counted by the next one, and an
  inode without links that neither of them frees stays allocated for ever.

One more place needs care.  `log.c:218` panics one block earlier than `begin_op`
reserves for, since the log that mkfs makes has room for LOGSIZE-1 blocks, and it
tests before it absorbs.  With calls that stay below their reservation, as the
kernel's do, there is no panic; the theorem `NeverTooBig` says how far below.
Four more that no document speaks of: `grep` drops what it has of a line
after a read that brought no newline, and goes on with the rest as if it were the
line (`grep.c:29`; `GrepsLines` says exactly what it then tries and writes);
`growproc` that shrinks a process to nothing frees its pages and reports failure
with the old size (`proc.c:169`);
mkfs rounds a root directory whose entries fill a block up by another one that
has no address (`mkfs.c:161`); and `forkret` may run with interrupts off until it
returns to user space, except in the first process (`proc.c:401`).

## 5. Bounds and fairness

*Bounds.*  Three processes for the sleep lock: one that has it, one that sleeps,
one that overtakes.  Two calls, three blocks and a log of four for `Log`: two
calls share the log, a block is absorbed, a third call waits for space, and the
log is longer than one block so that a crash can come between two.  Three
children, two CPUs and pages for three processes for `Proc`: orphans, a zombie
under a parent that exits, a fork that fails at each place.  A pipe of two with
counters modulo four and calls of up to three bytes: each call can exceed the
pipe, and the counters wrap.  Two buffers and three blocks: every miss recycles.
Three inodes for `Fs`: a directory below the root and a file, so that names vanish
from a directory, and directories under a process, while others walk; a freed
inode is soon allocated again.  A second link for the file is `MaxLinks`.
Two CPUs, processes and locks for `Cpu`: a process is resumed on a CPU where
another one has left its `intena`, in a handler and outside.  A clock modulo 4 with
sleeps of 2: every call can meet the wrap.  A console buffer of 3 with counters
modulo 6: it fills up at each position.  Three files for two processes with two
descriptors: `ftable`, descriptors and pipes all run out.  Blocks of 2 with one
direct address, contents of up to 4: a write crosses into the indirect blocks in two
turns, and files reuse each other's blocks.  Pages of 6 and tables of 2 pages:
sizes that are not aligned, programs with several tables, memory that ends at
every page of fork, exec and sbrk; of the two programs that can start one needs most
of the 16 pages, and the other is small enough for a fork that copies its guard page.
Arguments fit the stack, reach the guard page, or take the stack pointer below 0.
Inputs of `grep` of up to 7 characters and cuts, with a buffer of 5: a line is cut
twice, after a newline and at the beginning, and the buffer fills up.
`MaxPid`, `MaxLen`, `MaxPinned`, `KillPids` and the `Max...` of `MCAlgorithms`
bound what the code leaves open, and `SleepLock` and `Pipe` kill each process
once.

*Fairness.*  `SleepLock`: a process inside the code goes on, as the scheduler
gives it a CPU (`RunnableRuns` shows that), and a holder releases.  `Proc`: a CPU
goes on with what it does, since interrupts return and the code between two
steps is finite, an acquire that finds the lock free again and again
succeeds, the timer interrupts user code, whoever sleeps on a channel of the
rest of the kernel is woken, and init calls `wait` for ever (`init.c`).  `Bcache`: disk and driver go
on, who has a buffer releases it, and who waits for a sleep lock that is free
again and again gets it; the code keeps no order among waiters, so the last is
an assumption on the scheduler.  `Ticks`: the clock goes on ticking, a process
that can go on does, and a RUNNABLE process runs within `Lag` ticks (the timer
makes the others yield); `SleepersReturn` is about sleeps that leave that much
before the counter comes round.  `Log` and `Pipe` state safety only: that a
sleeper has somebody to wake it is an invariant there.

*Deadlock* is checked in `sleeplock`, `log` and `proc`.  It is
not for pipes (all ends may be closed), the cache (bget may panic), `Fs`
(where `NoWaitCycle` asks more precisely, and an ialloc without a free inode
panics) and the algorithms (the longest inputs have no successor).

## 6. Proofs

| module | theorems | argument |
|---|---|---|
| SleepLockProofs | `Exclusion`, `WakeupNotLost`, `RefinesMutex` | `IInv`: which spinlock is held at each place, and that a process on the way to sleep sees the lock taken or a wakeup still to come |
| SleepLockProofs, the clock | `SleepTheorem` | `TicksInv`: until the clock has come round once, `ticks - ticks0` is the time that went by (`ClockRight`); who is killed before it is asleep has missed no tick, and afterwards is late only while it waits for a CPU (`KilledOnTime`); the clock stands still between the test and the sleep |
| LogProofs, first part | `Invariance`, `Durability`, `Atomicity`, as long as the header does not overflow | `IInv`: clean buffers agree with the disk, pinned ones are those still to be installed, each phase finds the log on disk as the phase before left it |
| LogProofs, second part | `NoOverflow`, then without the condition `CommitsAlone`, `Durable`, `Atomic`, `NeverTooBig`; `SleepersWaitForSomebody` | `Reservation`: header entries plus the blocks active calls may still add fit LOGSIZE |
| PipeProofs | `WriterSleepsOnFull`, `ReaderSleepsOnEmpty`, `FreedOnce`; `RefinesFifo` | `IInv`: who holds the lock where, when an end is open, what a process about to sleep relies on; `FifoInv`: counters at most PIPESIZE apart |
| ProcProofs | `FamiliesTheorem`, `OneCpuTheorem`, `PagesTheorem` | `IInv`: what each state says of the place of the thread (`Threads`), who is on a CPU on its way out with ptable.lock held (`Running`), which EMBRYO a fork under way owns (`Forks`) and which pages it has got (`Owned`), parents are alive (`Families`), sleepers in wait() have something to wait for (`Waiting`), pages add up (`Counted`) |
| BcacheProofs | `ReferencesCounted`, `RequestsOwned`; without read errors `ReadsReturnTheBlock`, `RefinesBlocks` | `IInv`: where a process holds its buffer's lock and in which state it then finds the buffer (`Places`, `Locks`), no block is in two buffers (`OneCopy`), a dirty buffer is valid (`Flags`), the interrupt belongs to a command that the disk has carried out (`Interrupts`), clean buffers agree with the disk (`Clean`) |
| CpuProofs | `AcquireNeverPanics`, `NcliIsLockCount`, `FlagRestored`, `FirstProcessInterruptible` | `IInv`: interrupts on means no lock, so handlers start with none; the running thread's `intena`, or the one it has parked in `sched`, is what its kind of code started with; a thread runs on one CPU |
| ConsoleProofs | `ConsoleIsEditor`, `FullBufferReadable`, `ReaderSleepsOnEmptyConsole` | `IInv`: the counters are as far apart as what the ideal editor holds, at most INPUT_BUF in all; the line being edited has no newline, so ^U stops only at `w`; a reader in the loop has the lock |
| Modular | lemmas for the three modules with wrapping counters | `%` is periodic, distinct near counters have distinct places, and the places of a counter survive its wrap |

The theorems hold for any number of processes, any blocks, contents, capacities
and lengths.  They assume what the named `ASSUME`s of the modules say, which the
code guarantees: null values differ from the others, and PIPESIZE divides the
range of its counters.  Those in the second part of `LogProofs` have the sizes as a premise:
calls write fewer blocks than reserved and the log on disk has room for what
begin_op hands out.  Those of `CpuProofs` have `CpuAssumption`: finitely many
locks, numbered in the order in which the code acquires them, `ptable.lock` among them, and threads
that are not both a process and a scheduler.  Those of `ConsoleProofs` have
`ConsoleAssumption`: INPUT_BUF is positive and divides the range of the counters,
and is smaller than it; no reader is the null value.  `SleepTheorem` has
`TicksAssumption`: arguments of `sleep` are below the range of `ticks`.  `BcacheAssumption` adds that
processes and buffers are finitely many, since references are counted.  That
`Bcache` implements `BlockStore` has the premise that reads do not fail
(`Outcomes = {TRUE}`): the run `bcache_error` shows that it is needed.  The
refinement argues block by block: a block is seen in the one valid buffer that
has it, or else on disk, so recycling a clean buffer, and the disk carrying out a
command for a buffer whose contents are seen already, change nothing.

None of the properties is inductive.  That the disk holds a committed group, for
example, depends on which blocks have been installed, so the invariant must
relate the loop variable of each phase to the log, the home blocks and the cache.
The leaves that cite `SMTT` or `ZenonT` need most of the provers' default time on
a slow machine and are given more.

## 7. Only model-checked

Liveness (`SleeperIsWoken`, `RunnableRuns`, `OrphansReaped`, `BreadReturns`,
`SleepersReturn`, and the fairness of `Mutex`), since the prover does not handle
ENABLED; the algorithms, `FileData`, `Heap` and `Vm`, whose recursive definitions
need induction over data; `Fs`, whose inductive invariant must relate every
program counter of a system call to the references, link counts and directory
entries it owes, so that a proof of its steps outgrows what the prover handles in
one module; and `FileTable`.

## 8. Not modelled

Boot code, interrupt controllers and processor discovery (registers and tables,
no interleaving); scan codes and the serial port, whose characters are the input
of `Console`; `memide.c` (no queue); segment registers and the switch of page
tables; `fetchstr` and the table of system calls; user programs that wrap single
calls; the tests; the exercises under
`src/ostep-projects` and `src/ostep`, `src/rust-os`, the earlier chapters and the
token visualizer.

Abstractions to keep in mind: a sector write is atomic; memory is sequentially
consistent (acquire and release contain barriers); `SleepLock` lets every process
have a CPU; `Cpu` has locks acquired in one order, and panics of `popcli` and
`sched` as the properties say; `FileData` takes a turn of `filewrite` as atomic, since
the inode is locked; `Vm` takes a call as atomic, and frees a process at its `wait`;
`Log` sees a call as a sequence of at most `OpMax` block writes;
`Fs` has an entry of the inode cache for every inode (iget never panics), one
descriptor for each process, and paths that do not contain `..`: a removed
directory keeps its `..`, whose inode may be freed, and a walk through it then
panics;
`CodeAddsUp` is about sums whose right operands are numbers, as `asm_add` keeps
only one operand; `Vm` has `VmAssumption`, that no argument of exec is longer than
the addresses from DEVSPACE on: `uva2ka` does not test what `walkpgdir` returns
(`vm.c:354`), and with a longer one the stack pointer of exec could wrap to an
address that has no page table.
