---------------------------------- MODULE Vm ----------------------------------
(* The memory of processes: the page allocator (kalloc.c), page tables (vm.c), *)
(* exec (exec.c), sbrk (sysproc.c, growproc of proc.c) and what fork(), exit() *)
(* and wait() copy and free.  Sizes and addresses are in words; the contents   *)
(* of a page is one value.  A system call is one step: of the calls that run   *)
(* beside it on other CPUs it sees the pages they hold, so it finds any number *)
(* of the free pages.                                                          *)
EXTENDS Integers, Sequences, FiniteSets
LOCAL INSTANCE SequencesExt

CONSTANTS
  Procs, Initproc,
  NFRAMES,    \* the pages of kalloc()
  PGSIZE,
  NPTENTRIES, \* the pages that a page table maps
  NUSER,      \* the page tables below KERNBASE, ...
  NKERNEL,    \* ... and those above
  DEVSPACE,   \* where the devices begin, which are mapped up to ...
  Limit,      \* ... 2^32: an address is a uint
  MAXARG,
  Binaries,   \* sequences of segments [vaddr, memsz, filesz, value]
  Args,       \* sequences of the sizes of argument strings
  Brks,       \* the n of sbrk(n)
  Values,     \* what a process stores
  MaxCalls    \* bounds a behaviour

Frames == 1 .. NFRAMES
Pages == 0 .. NUSER * NPTENTRIES - 1
KERNBASE == NUSER * NPTENTRIES * PGSIZE
Junk == -1
Zero == 0
Stacked == -2   \* a page of the stack that holds the arguments
Guard == -3     \* the page below it, in an image
Initcode == -4

(* An argument is no longer than the devices' part of the addresses.  uva2ka() *)
(* does not test what walkpgdir() returns: with a longer one the stack pointer *)
(* of exec() can wrap to an address without a page table, of which the model   *)
(* says nothing.                                                               *)
VmAssumption ==
  /\ KERNBASE < DEVSPACE /\ 4 + MAXARG <= Limit - DEVSPACE
  /\ \A args \in Args : \A i \in DOMAIN args : args[i] <= Limit - DEVSPACE

VARIABLES
  free,      \* kmem.freelist
  data,      \* the contents of the pages
  kstack,
  pgdir,     \* of a process: [dir, tab, pa, u], or None
  sz,
  image,     \* what the process should see: its pages, with Guard for the guard page
  doomed,    \* processes without memory below sz
  calls

vars == <<free, data, kstack, pgdir, sz, image, doomed, calls>>

None == [dir |-> 0]

PGROUNDUP(n) == ((n + PGSIZE - 1) \div PGSIZE) * PGSIZE
PDX(page) == page \div NPTENTRIES
Least(S) == CHOOSE x \in S : \A y \in S : x <= y

------------------------------------------------------------------------------
(* A call works on m = [free, left, data], where left bounds what it can still *)
(* allocate; it returns [ok, m, pd].                                           *)

Result(ok, m, pd) == [ok |-> ok, m |-> m, pd |-> pd]

kalloc(m) == IF m.left = 0 THEN 0 ELSE Least(m.free)

Taken(m, f, v) ==
  [m EXCEPT !.free = @ \ {f}, !.left = @ - 1, !.data[f] = v]

kfree(m, S) ==
  [m EXCEPT !.free = @ \cup S, !.data = [f \in Frames |-> IF f \in S THEN Junk ELSE @[f]]]

(* walkpgdir() with alloc, for page table number i. *)
walkpgdir(m, pd, i) ==
  IF pd.tab[i] # 0 THEN Result(TRUE, m, pd)
  ELSE IF kalloc(m) = 0 THEN Result(FALSE, m, pd)
  ELSE Result(TRUE, Taken(m, kalloc(m), Zero), [pd EXCEPT !.tab[i] = kalloc(m)])

SetPte(walk, page, f, u) ==
  IF walk.ok THEN [walk EXCEPT !.pd.pa[page] = f, !.pd.u[page] = u] ELSE walk

(* mappages() of one user page *)
mappages(m, pd, page, f, u) == SetPte(walkpgdir(m, pd, PDX(page)), page, f, u)

Mapped(pd, S) == {page \in S : pd.tab[PDX(page)] # 0 /\ pd.pa[page] # 0}

deallocuvm(m, pd, oldsz, newsz) ==
  LET gone == Mapped(pd, {page \in Pages :
                 page * PGSIZE >= PGROUNDUP(newsz) /\ page * PGSIZE < oldsz})
  IN IF newsz >= oldsz THEN [m |-> m, pd |-> pd, size |-> oldsz]
     ELSE [m |-> kfree(m, {pd.pa[page] : page \in gone}),
           pd |-> [pd EXCEPT !.pa = [page \in Pages |-> IF page \in gone THEN 0 ELSE @[page]]],
           size |-> newsz]

freevmKeepsTables(m, pd) == kfree(deallocuvm(m, pd, KERNBASE, 0).m, {pd.dir})

freevm(m, pd) ==
  LET user == deallocuvm(m, pd, KERNBASE, 0)
      tabs == {pd.tab[i] : i \in {j \in DOMAIN pd.tab : pd.tab[j] # 0}}
  IN kfree(user.m, tabs \cup {pd.dir})

(* The tables i, ..., of the kernel, when those below are as in walk. *)
RECURSIVE KernelTables(_, _)
KernelTables(walk, i) ==
  IF ~walk.ok THEN Result(FALSE, freevm(walk.m, walk.pd), None)
  ELSE IF i = NUSER + NKERNEL THEN walk
  ELSE KernelTables(walkpgdir(walk.m, walk.pd, i), i + 1)

(* The kernel's part of a page table: kmap[] fills the tables above KERNBASE. *)
setupkvm(m) ==
  LET dir == kalloc(m)
      pd == [dir |-> dir, tab |-> [i \in 0 .. NUSER + NKERNEL - 1 |-> 0],
             pa |-> [page \in Pages |-> 0], u |-> [page \in Pages |-> FALSE]]
  IN IF dir = 0 THEN Result(FALSE, m, None)
     ELSE KernelTables(Result(TRUE, Taken(m, dir, Zero), pd), NUSER)

(* kalloc() of a page for the loops of allocuvm() and copyuvm(), and           *)
(* mappages(): to no avail when there is none, or when there is no page for    *)
(* the table, after which the first is freed.                                  *)
Mapping(map, mem) == IF map.ok THEN map ELSE [map EXCEPT !.m = kfree(@, {mem})]

MapNew(m, pd, page, v, u) ==
  IF kalloc(m) = 0 THEN Result(FALSE, m, pd)
  ELSE Mapping(mappages(Taken(m, kalloc(m), v), pd, page, kalloc(m), u), kalloc(m))

(* The loops run from a on, with r = [ok, m, pd] so far. *)
RECURSIVE Grow(_, _, _)
Grow(r, a, newsz) ==
  IF a >= newsz \/ ~r.ok THEN r
  ELSE Grow(MapNew(r.m, r.pd, a \div PGSIZE, Zero, TRUE), a + PGSIZE, newsz)

Sized(grown, oldsz, newsz) ==
  IF grown.ok THEN [m |-> grown.m, pd |-> grown.pd, size |-> newsz]
  ELSE [deallocuvm(grown.m, grown.pd, newsz, oldsz) EXCEPT !.size = 0]

(* allocuvm(): its size is 0 on error. *)
allocuvm(m, pd, oldsz, newsz) ==
  IF newsz >= KERNBASE THEN [m |-> m, pd |-> pd, size |-> 0]
  ELSE IF newsz < oldsz THEN [m |-> m, pd |-> pd, size |-> oldsz]
  ELSE Sized(Grow(Result(TRUE, m, pd), PGROUNDUP(oldsz), newsz), oldsz, newsz)

RECURSIVE CopyPages(_, _, _, _)
CopyPages(r, pd, page, size) ==
  IF ~r.ok THEN Result(FALSE, freevm(r.m, r.pd), None)
  ELSE IF page * PGSIZE >= size THEN r
  ELSE CopyPages(MapNew(r.m, r.pd, page, r.m.data[pd.pa[page]], pd.u[page]), pd, page + 1, size)

CopyInto(d, pd, size) == IF d.ok THEN CopyPages(d, pd, 0, size) ELSE d

copyuvm(m, pd, size) == CopyInto(setupkvm(m), pd, size)

------------------------------------------------------------------------------
(* exec *)

Covers(seg, page) ==
  page * PGSIZE >= seg.vaddr /\ page * PGSIZE < seg.vaddr + seg.filesz

(* loaduvm(): readi() into the pages of the segment. *)
loaduvm(m, pd, seg) ==
  LET hit == {pd.pa[page] : page \in {k \in Pages : Covers(seg, k)}}
  IN [m EXCEPT !.data = [f \in Frames |-> IF f \in hit THEN seg.value ELSE @[f]]]

(* exec() works on x = [ok, m, pd, size, sp], ok until it goes to bad. *)

(* What allocuvm() got for it. *)
Got(x, got) ==
  IF got.size = 0 THEN [x EXCEPT !.ok = FALSE, !.m = got.m, !.pd = got.pd]
  ELSE [x EXCEPT !.m = got.m, !.pd = got.pd, !.size = got.size]

Loaded(x, seg) ==
  IF x.ok /\ seg.vaddr % PGSIZE = 0 THEN [x EXCEPT !.m = loaduvm(@, x.pd, seg)]
  ELSE [x EXCEPT !.ok = FALSE]

LoadSegment(x, seg) ==
  LET top == (seg.vaddr + seg.memsz) % Limit
  IN IF ~x.ok \/ seg.memsz < seg.filesz \/ top < seg.vaddr THEN [x EXCEPT !.ok = FALSE]
     ELSE Loaded(Got(x, allocuvm(x.m, x.pd, x.size, top)), seg)

clearpteuNot(pd, page) == pd

clearpteu(pd, page) == [pd EXCEPT !.u[page] = FALSE]

(* The guard page and the stack *)
Guarded(x, base) ==
  IF x.ok THEN [x EXCEPT !.pd = clearpteu(@, base \div PGSIZE), !.sp = x.size] ELSE x

Stack(x) ==
  LET base == PGROUNDUP(x.size)
  IN IF x.ok THEN Guarded(Got(x, allocuvm(x.m, x.pd, base, base + 2 * PGSIZE)), base) ELSE x

(* copyout() of len words to the new stack: uva2ka() refuses a page without    *)
(* PTE_U, of the image or, where sp has wrapped below 0, of the devices.       *)
copyout(x, len) ==
  LET to == (x.sp - len) % Limit
      pages == {page \in Pages : page * PGSIZE < x.sp /\ (page + 1) * PGSIZE > to}
      hit == {x.pd.pa[page] : page \in pages}
  IN IF ~x.ok \/ to >= DEVSPACE \/ \E page \in pages : x.pd.pa[page] = 0 \/ ~x.pd.u[page]
     THEN [x EXCEPT !.ok = FALSE]
     ELSE [x EXCEPT !.sp = to,
                    !.m.data = [f \in Frames |-> IF f \in hit THEN Stacked ELSE @[f]]]

(* The argument strings, then ustack with its four words and their addresses. *)
PushArgs(x, args) ==
  IF Len(args) > MAXARG THEN [x EXCEPT !.ok = FALSE]
  ELSE copyout(FoldLeft(copyout, x, args), 4 + Len(args))

OrBad(x) == IF x.ok THEN x ELSE [ok |-> FALSE, m |-> freevm(x.m, x.pd)]

ExecIn(new, prog, args) ==
  LET x == [ok |-> TRUE, m |-> new.m, pd |-> new.pd, size |-> 0, sp |-> 0]
  IN IF new.ok THEN OrBad(PushArgs(Stack(FoldLeft(LoadSegment, x, prog)), args)) ELSE new

Exec(m, prog, args) == ExecIn(setupkvm(m), prog, args)

------------------------------------------------------------------------------
(* The system calls *)

(* userinit(): the first process has the page of initcode. *)
Init ==
  LET m == [free |-> Frames, left |-> NFRAMES, data |-> [f \in Frames |-> Junk]]
  IN \E new \in {setupkvm(Taken(m, 1, Junk))} :
     \E map \in {MapNew(new.m, new.pd, 0, Initcode, TRUE)} :
     /\ free = map.m.free /\ data = map.m.data
     /\ kstack = [p \in Procs |-> IF p = Initproc THEN 1 ELSE 0]
     /\ pgdir = [p \in Procs |-> IF p = Initproc THEN map.pd ELSE None]
     /\ sz = [p \in Procs |-> IF p = Initproc THEN PGSIZE ELSE 0]
     /\ image = [p \in Procs |-> IF p = Initproc THEN <<Initcode>> ELSE <<>>]
     /\ doomed = {}
     /\ calls = 0

Memory == {[free |-> free, left |-> n, data |-> data] : n \in 0 .. Cardinality(free)}

SetMemory(m) == free' = m.free /\ data' = m.data

Alive(p) == kstack[p] # 0

fork(p, q) ==
  /\ Alive(p) /\ p \notin doomed /\ ~Alive(q)
  /\ \E m \in {x \in Memory : kalloc(x) # 0} :
     \E new \in {copyuvm(Taken(m, kalloc(m), Junk), pgdir[p], sz[p])} :
       IF new.ok
       THEN /\ SetMemory(new.m)
            /\ kstack' = [kstack EXCEPT ![q] = kalloc(m)]
            /\ pgdir' = [pgdir EXCEPT ![q] = new.pd]
            /\ sz' = [sz EXCEPT ![q] = sz[p]]
            /\ image' = [image EXCEPT ![q] = image[p]]
       ELSE SetMemory(kfree(new.m, {kalloc(m)})) /\ UNCHANGED <<kstack, pgdir, sz, image>>
  /\ UNCHANGED doomed

Resized(img, size) ==
  [i \in 1 .. PGROUNDUP(size) \div PGSIZE |-> IF i <= Len(img) THEN img[i] ELSE Zero]

(* growproc(): a size of 0 counts as a failure, though deallocuvm() has freed  *)
(* the pages when it was asked for 0.                                          *)
sbrk(p, n) ==
  /\ Alive(p) /\ p \notin doomed /\ n # 0
  /\ \E m \in Memory :
     \E got \in {LET new == (sz[p] + n) % Limit
                 IN IF n > 0 THEN allocuvm(m, pgdir[p], sz[p], new)
                    ELSE deallocuvm(m, pgdir[p], sz[p], new)} :
       /\ SetMemory(got.m)
       /\ pgdir' = [pgdir EXCEPT ![p] = got.pd]
       /\ IF got.size = 0
          THEN UNCHANGED <<sz, image>>
          ELSE /\ sz' = [sz EXCEPT ![p] = got.size]
               /\ image' = [image EXCEPT ![p] = Resized(@, got.size)]
       /\ doomed' = IF n < 0 /\ got.size = 0 THEN doomed \cup {p} ELSE doomed
  /\ UNCHANGED kstack

(* What a program of these segments starts with. *)
Started(prog) ==
  LET tops == {0} \cup {prog[i].vaddr + prog[i].memsz : i \in DOMAIN prog}
      n == PGROUNDUP(CHOOSE t \in tops : \A u \in tops : u <= t) \div PGSIZE
      In(page) == SelectSeq(prog, LAMBDA seg : Covers(seg, page))
  IN [i \in 1 .. n |-> IF In(i - 1) = <<>> THEN Zero ELSE Last(In(i - 1)).value]
     \o <<Guard, Stacked>>

exec(p, prog, args) ==
  /\ Alive(p) /\ p \notin doomed
  /\ \E m \in Memory : \E new \in {Exec(m, prog, args)} :
       IF new.ok
       THEN /\ SetMemory(freevm(new.m, pgdir[p]))
            /\ pgdir' = [pgdir EXCEPT ![p] = new.pd]
            /\ sz' = [sz EXCEPT ![p] = new.size]
            /\ image' = [image EXCEPT ![p] = Started(prog)]
       ELSE SetMemory(new.m) /\ UNCHANGED <<pgdir, sz, image>>
  /\ UNCHANGED <<kstack, doomed>>

(* exit(), and the parent's wait(), which frees the memory. *)
wait(p) ==
  /\ Alive(p) /\ p # Initproc
  /\ SetMemory(freevm(kfree([free |-> free, left |-> 0, data |-> data], {kstack[p]}), pgdir[p]))
  /\ kstack' = [kstack EXCEPT ![p] = 0]
  /\ pgdir' = [pgdir EXCEPT ![p] = None]
  /\ sz' = [sz EXCEPT ![p] = 0]
  /\ image' = [image EXCEPT ![p] = <<>>]
  /\ doomed' = doomed \ {p}

(* The process writes to one of its pages. *)
Store(p, i, v) ==
  /\ Alive(p) /\ p \notin doomed
  /\ i \in DOMAIN image[p] /\ image[p][i] # Guard
  /\ data' = [data EXCEPT ![pgdir[p].pa[i - 1]] = v]
  /\ image' = [image EXCEPT ![p][i] = v]
  /\ UNCHANGED <<free, kstack, pgdir, sz, doomed>>

Step(p) ==
  \/ \E q \in Procs : fork(p, q)
  \/ \E n \in Brks : sbrk(p, n)
  \/ \E prog \in Binaries, args \in Args : exec(p, prog, args)
  \/ wait(p)
  \/ \E i \in 1 .. Cardinality(Pages), v \in Values : Store(p, i, v)

Next == calls < MaxCalls /\ calls' = calls + 1 /\ \E p \in Procs : Step(p)

Spec == Init /\ [][Next]_vars

------------------------------------------------------------------------------
Tables(p) == {i \in DOMAIN pgdir[p].tab : pgdir[p].tab[i] # 0}
Present(p) == Mapped(pgdir[p], Pages)

(* What a process owns, with the number of times it does. *)
Owned(p) ==
  IF Alive(p)
  THEN {kstack[p], pgdir[p].dir} \cup {pgdir[p].tab[i] : i \in Tables(p)}
       \cup {pgdir[p].pa[page] : page \in Present(p)}
  ELSE {}

Uses(p) == IF Alive(p) THEN 2 + Cardinality(Tables(p)) + Cardinality(Present(p)) ELSE 0

(* Every page is free or belongs to one process in one place: no call leaks a  *)
(* page, frees one twice or shares one, wherever its memory runs out.          *)
FramesOwned ==
  /\ \A p \in Procs : Cardinality(Owned(p)) = Uses(p) /\ Owned(p) \cap free = {}
  /\ \A p, q \in Procs : p # q => Owned(p) \cap Owned(q) = {}
  /\ Frames = free \cup UNION {Owned(p) : p \in Procs}

(* A process sees the memory it should through its page table: fork() gives    *)
(* the child a copy of its own, sbrk() grows it by zeroes, exec() starts the   *)
(* program with its segments intact, the arguments on the stack and a page     *)
(* below it that it cannot use, and a call that fails leaves the memory as it  *)
(* was.  The exception is a process that has asked sbrk() to take it all.      *)
ImageAgrees ==
  \A p \in Procs : Alive(p) /\ p \notin doomed =>
    /\ Len(image[p]) = PGROUNDUP(sz[p]) \div PGSIZE
    /\ Present(p) = 0 .. Len(image[p]) - 1
    /\ \A i \in DOMAIN image[p] :
         IF image[p][i] = Guard THEN ~pgdir[p].u[i - 1]
         ELSE pgdir[p].u[i - 1] /\ data[pgdir[p].pa[i - 1]] = image[p][i]
==============================================================================
