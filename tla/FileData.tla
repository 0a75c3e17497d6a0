------------------------------- MODULE FileData -------------------------------
(* The contents of files: bitmap, block map, readi, writei and itrunc of fs.c, *)
(* with fileread and filewrite of file.c above them, on the disk mkfs made.    *)
(* Processes share struct files, as after fork() or dup(), and a filewrite is  *)
(* cut into transactions, between which others run.                            *)
EXTENDS Integers, Sequences, FiniteSetsExt, SequencesExt

CONSTANTS BSIZE, BPB, NDIRECT, FSSIZE, NINODES, IPB, LOGSIZE, MAXOPBLOCKS,
          Procs,
          Files,     \* struct files, ...
          ip,        \* ... the inode of each, ...
          Contents,  \* ... what mkfs puts into the inodes after the root, ...
          Data,      \* ... and what write() is called with
          MaxCalls   \* bound on the system calls of a behaviour

VARIABLES
  disk,     \* bitmap, inodes in memory and on disk, contents of blocks,
            \* and the blocks logged in the last transaction
  off,      \* f->off
  call,     \* what filewrite() of each process has still to write, and where
  calls,    \* how many system calls there were
  content   \* what each file contains, as a sequence

vars == <<disk, off, call, calls, content>>

M == INSTANCE Mkfs

zeroes == M!zeroes

FreeBlock(d) == Min((0..(M!sb.size - 1)) \ d.used)

(* balloc() with bzero(); the block is FreeBlock(d).  Without a free block the *)
(* kernel panics; FSSIZE is large enough.                                      *)
balloc(d) ==
  [d EXCEPT !.used = @ \cup {FreeBlock(d)}, !.blk[FreeBlock(d)] = zeroes,
            !.log = @ \cup {M!BBLOCK(FreeBlock(d)), FreeBlock(d)}]

bfree(d, b) == [d EXCEPT !.used = @ \ {b}, !.log = @ \cup {M!BBLOCK(b)}]

Direct(d, i, k) ==
  IF d.inodes[i].addrs[k] # 0 THEN d
  ELSE [balloc(d) EXCEPT !.inodes[i].addrs[k] = FreeBlock(d)]

Indirect(d, i, k) ==
  LET e == Direct(d, i, NDIRECT)
      list == e.inodes[i].addrs[NDIRECT]
  IN IF e.blk[list][k] # 0 THEN e
     ELSE [balloc(e) EXCEPT !.blk[list][k] = FreeBlock(e), !.log = @ \cup {list}]

(* bmap() is the disk after it; the block it returns is BlockOf. *)
bmap(d, i, bn) == IF bn < NDIRECT THEN Direct(d, i, bn) ELSE Indirect(d, i, bn - NDIRECT)

BlockOf(d, i, bn) == M!BlockOf(d, i, bn)

iupdate(d, i) == [d EXCEPT !.dinodes[i] = d.inodes[i], !.log = @ \cup {M!IBLOCK(i)}]

(* The blocks an inode lists, the list itself included. *)
BlocksOf(d, i) ==
  LET direct == {d.inodes[i].addrs[k] : k \in 0..NDIRECT} \ {0}
      list == d.inodes[i].addrs[NDIRECT]
  IN direct \cup (IF list = 0 THEN {} ELSE Range(d.blk[list]) \ {0})

itruncKeepsIndirect(d, i) ==
  LET freed == FoldSet(LAMBDA b, e : bfree(e, b), d,
                       {d.inodes[i].addrs[k] : k \in 0..NDIRECT} \ {0})
  IN iupdate([freed EXCEPT !.inodes[i] = M!NoInode], i)

itruncKeepsSize(d, i) ==
  iupdate([FoldSet(LAMBDA b, e : bfree(e, b), d, BlocksOf(d, i)) EXCEPT
             !.inodes[i].addrs = M!NoInode.addrs], i)

itrunc(d, i) ==
  iupdate([FoldSet(LAMBDA b, e : bfree(e, b), d, BlocksOf(d, i)) EXCEPT !.inodes[i] = M!NoInode], i)

Span(n, o) == Min({n, BSIZE - (o % BSIZE)})

(* The loop of readi(): the disk after it, and the data. *)
RECURSIVE ReadLoop(_, _, _, _, _)
ReadLoop(d, i, o, n, got) ==
  IF n = 0 THEN [disk |-> d, data |-> got]
  ELSE LET e == bmap(d, i, o \div BSIZE)
           m == Span(n, o)
           block == e.blk[BlockOf(e, i, o \div BSIZE)]
       IN ReadLoop(e, i, o + m, n - m, got \o [k \in 1..m |-> block[(o % BSIZE) + k - 1]])

readiPastEnd(d, i, o, n) == ReadLoop(d, i, o, n, <<>>)

(* Offsets stay far below the range of uint, so that o + n does not wrap. *)
readi(d, i, o, n) ==
  IF o > d.inodes[i].size THEN [disk |-> d, data |-> <<>>]
  ELSE ReadLoop(d, i, o, Min({n, d.inodes[i].size - o}), <<>>)

RECURSIVE WriteLoop(_, _, _, _)
WriteLoop(d, i, src, o) ==
  IF src = <<>> THEN d
  ELSE LET e == bmap(d, i, o \div BSIZE)
           b == BlockOf(e, i, o \div BSIZE)
           m == Span(Len(src), o)
           at == o % BSIZE
       IN WriteLoop([e EXCEPT !.blk[b] = [k \in DOMAIN zeroes |->
                                 IF k \in at..(at + m - 1) THEN src[k - at + 1] ELSE @[k]],
                              !.log = @ \cup {b}],
                    i, SubSeq(src, m + 1, Len(src)), o + m)

Fits(d, i, src, o) == o <= d.inodes[i].size /\ o + Len(src) <= M!MAXFILE * BSIZE

writeiNoUpdate(d, i, src, o) ==
  LET e == WriteLoop(d, i, src, o)
  IN [e EXCEPT !.inodes[i].size = Max({@, o + Len(src)})]

(* writei() where it Fits; it returns -1 otherwise. *)
writei(d, i, src, o) ==
  LET e == WriteLoop(d, i, src, o)
  IN IF src # <<>> /\ o + Len(src) > e.inodes[i].size
     THEN iupdate([e EXCEPT !.inodes[i].size = o + Len(src)], i) ELSE e

------------------------------------------------------------------------------
Inodes == Range(ip)

Idle == [left |-> <<>>]

Init ==
  /\ \E files \in Contents :
       LET image == M!main(files)
       IN /\ disk = [used |-> image.used, blk |-> image.blk, inodes |-> image.inodes,
                     dinodes |-> image.inodes, log |-> {}]
          /\ content = [i \in Inodes |-> files[i - M!ROOTINO]]
  /\ off = [f \in Files |-> 0]
  /\ call = [p \in Procs |-> Idle]
  /\ calls = 0

Counted == calls < MaxCalls /\ calls' = calls + 1

(* sys_write() reaches filewrite(). *)
Write(p) ==
  /\ Counted
  /\ call[p] = Idle
  /\ \E f \in Files, data \in Data : call' = [call EXCEPT ![p] = [file |-> f, left |-> data]]
  /\ UNCHANGED <<disk, off, content>>

maxNoSlop == ((MAXOPBLOCKS - 1 - 1) \div 2) * BSIZE

max == ((MAXOPBLOCKS - 1 - 1 - 2) \div 2) * BSIZE

Overlay(old, o, new) ==
  SubSeq(old, 1, o) \o new \o SubSeq(old, o + Len(new) + 1, Len(old))

(* One turn of filewrite's loop: begin_op, ilock, writei, iunlock, end_op.     *)
(* A write that does not fit ends the call, which returns -1 although earlier  *)
(* turns have written.                                                         *)
WriteChunk(p) ==
  LET f == call[p].file
      i == ip[f]
      left == call[p].left
      chunk == SubSeq(left, 1, Min({Len(left), max}))
  IN /\ call[p] # Idle /\ UNCHANGED calls
     /\ \/ /\ Fits(disk, i, chunk, off[f])
           /\ disk' = writei([disk EXCEPT !.log = {}], i, chunk, off[f])
           /\ off' = [off EXCEPT ![f] = @ + Len(chunk)]
           /\ content' = [content EXCEPT ![i] = Overlay(@, off[f], chunk)]
           /\ call' = [call EXCEPT ![p] =
                         IF chunk = left THEN Idle
                         ELSE [@ EXCEPT !.left = SubSeq(@, Len(chunk) + 1, Len(@))]]
        \/ /\ ~Fits(disk, i, chunk, off[f])
           /\ call' = [call EXCEPT ![p] = Idle]
           /\ UNCHANGED <<disk, off, content>>

(* fileread() holds the inode's lock; it is not a transaction. *)
Read(f, n) ==
  LET r == readi(disk, ip[f], off[f], n)
  IN /\ Counted
     /\ disk' = r.disk
     /\ off' = [off EXCEPT ![f] = @ + Len(r.data)]
     /\ UNCHANGED <<call, content>>

Unused(f) == \A p \in Procs : call[p] # Idle => call[p].file # f

(* The file is closed and opened again; open() does not truncate. *)
Reopen(f) ==
  /\ Counted
  /\ Unused(f)
  /\ off' = [off EXCEPT ![f] = 0]
  /\ UNCHANGED <<disk, call, content>>

(* The last name and the last descriptor of the file go, iput() truncates it,  *)
(* and a file that is created next gets the inode and is opened.               *)
Replace(f) ==
  /\ Counted
  /\ Unused(f)
  /\ disk' = itrunc([disk EXCEPT !.log = {}], ip[f])
  /\ off' = [off EXCEPT ![f] = 0]
  /\ content' = [content EXCEPT ![ip[f]] = <<>>]
  /\ UNCHANGED call

Next ==
  \/ \E p \in Procs : Write(p) \/ WriteChunk(p)
  \/ \E f \in Files : Read(f, 1) \/ Reopen(f) \/ Replace(f)

Spec == Init /\ [][Next]_vars

------------------------------------------------------------------------------
(* What readi() and writei() do to blocks is what reading and writing do to a  *)
(* sequence: a file reads back as what was written to it, whichever file its   *)
(* blocks belonged to before, and others keep their contents.                  *)
ReadsBack ==
  \A i \in Inodes :
    /\ disk.inodes[i].size = Len(content[i])
    /\ readi(disk, i, 0, M!MAXFILE * BSIZE).data = content[i]

(* The bitmap marks the metadata and what the inodes list, each block in one   *)
(* place: balloc() and itrunc() neither lose nor share a block, from the image *)
(* that mkfs leaves on, and bfree() never finds a block free.  The bitmap has  *)
(* a bit for every block.                                                      *)
BlocksOwned ==
  LET Lists(i) == disk.inodes[i].addrs[NDIRECT]
      Listed(i) == IF Lists(i) = 0 THEN {} ELSE {k \in DOMAIN zeroes : disk.blk[Lists(i)][k] # 0}
      All == 1..NINODES
  IN /\ disk.used = 0..(M!nmeta - 1) \cup UNION {BlocksOf(disk, i) : i \in All}
     /\ \A i \in All : BlocksOf(disk, i) \cap 0..(M!nmeta - 1) = {}
     /\ MapThenSumSet(LAMBDA i : Cardinality({k \in 0..NDIRECT : disk.inodes[i].addrs[k] # 0})
                                 + Cardinality(Listed(i)), All)
          = Cardinality(disk.used) - M!nmeta
     /\ \A b \in 0..(FSSIZE - 1) : M!BBLOCK(b) \in M!sb.bmapstart..(M!nmeta - 1)

(* Every block below the size of a file has an address, so bmap() allocates    *)
(* nothing on behalf of readi(), which runs outside of a transaction.          *)
NoHoles ==
  \A i \in 1..NINODES : \A bn \in 0..(M!MAXFILE - 1) :
    bn * BSIZE < disk.inodes[i].size => bmap(disk, i, bn) = disk

(* Addresses that bmap() and itrunc() change in memory are on disk at the end  *)
(* of the transaction, though writei() calls iupdate() only when the file      *)
(* grows.                                                                      *)
AddressesSaved == disk.dinodes = disk.inodes

(* A turn of filewrite() logs no more blocks than begin_op() reserves for a    *)
(* system call, and neither does itrunc().                                     *)
WithinReservation == Cardinality(disk.log) <= MAXOPBLOCKS
===============================================================================
