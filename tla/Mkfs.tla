--------------------------------- MODULE Mkfs ---------------------------------
(* mkfs.c: the image a file system starts as.  A disk is a record of the       *)
(* blocks the bitmap marks, the inodes, and the contents of the data blocks.   *)
(* The unit of size is a directory entry; a block holds BSIZE of them, or as   *)
(* many block numbers.  xint and xshort are the identity on the values of the  *)
(* fields they store, whose byte order nothing here looks at.                  *)
LOCAL INSTANCE Integers
LOCAL INSTANCE Sequences
LOCAL INSTANCE SequencesExt
LOCAL INSTANCE FiniteSetsExt

CONSTANTS BSIZE, BPB, NDIRECT, FSSIZE, NINODES, IPB, LOGSIZE

NINDIRECT == BSIZE

MAXFILE == NDIRECT + NINDIRECT

nbitmap == FSSIZE \div BPB + 1

ninodeblocks == NINODES \div IPB + 1

(* The super block, which the kernel reads back with readsb(). *)
sb == [size |-> FSSIZE, ninodes |-> NINODES, logstart |-> 2, nlog |-> LOGSIZE,
       inodestart |-> 2 + LOGSIZE, bmapstart |-> 2 + LOGSIZE + ninodeblocks]

nmeta == 2 + LOGSIZE + ninodeblocks + nbitmap

IBLOCK(i) == i \div IPB + sb.inodestart

BBLOCK(b) == b \div BPB + sb.bmapstart

zeroes == [k \in 0..(BSIZE - 1) |-> 0]

NoInode == [size |-> 0, addrs |-> [k \in 0..NDIRECT |-> 0]]

ROOTINO == 1

(* The image before the first ialloc, with mkfs's own counters. *)
Blank ==
  [used |-> {}, inodes |-> [i \in 1..NINODES |-> NoInode],
   blk |-> [b \in 0..(FSSIZE - 1) |-> zeroes], freeinode |-> ROOTINO, freeblock |-> nmeta]

ialloc(d) == [d EXCEPT !.freeinode = @ + 1, !.inodes[d.freeinode] = NoInode]

(* The data block of file block fbn, allocated if there is none, and the one   *)
(* that lists the indirect blocks with it.                                     *)
Direct(d, i, k) ==
  IF d.inodes[i].addrs[k] # 0 THEN d
  ELSE [d EXCEPT !.inodes[i].addrs[k] = d.freeblock, !.freeblock = @ + 1]

Indirect(d, i, k) ==
  LET e == Direct(d, i, NDIRECT)
      list == e.inodes[i].addrs[NDIRECT]
  IN IF e.blk[list][k] # 0 THEN e
     ELSE [e EXCEPT !.blk[list][k] = e.freeblock, !.freeblock = @ + 1]

BlockOf(d, i, fbn) ==
  IF fbn < NDIRECT THEN d.inodes[i].addrs[fbn]
  ELSE d.blk[d.inodes[i].addrs[NDIRECT]][fbn - NDIRECT]

(* iappend() from offset off of file i on; p is what remains to be appended. *)
RECURSIVE iappend(_, _, _, _)
iappend(d, i, off, p) ==
  IF p = <<>> THEN [d EXCEPT !.inodes[i].size = off]
  ELSE LET fbn == off \div BSIZE
           e == IF fbn < NDIRECT THEN Direct(d, i, fbn) ELSE Indirect(d, i, fbn - NDIRECT)
           x == BlockOf(e, i, fbn)
           n1 == Min({Len(p), (fbn + 1) * BSIZE - off})
           at == off - fbn * BSIZE
       IN iappend([e EXCEPT !.blk[x] = [k \in DOMAIN zeroes |->
                                          IF k \in at..(at + n1 - 1) THEN p[k - at + 1] ELSE @[k]]],
                  i, off + n1, SubSeq(p, n1 + 1, Len(p)))

Append1(d, i, p) == iappend(d, i, d.inodes[i].size, p)

(* One turn of main's loop over the files: an inode, an entry of the root      *)
(* directory for it, and the contents, a buffer of BSIZE at a time.            *)
AddFile(d, content) ==
  LET inum == d.freeinode
      buffers == [k \in 1..((Len(content) + BSIZE - 1) \div BSIZE) |->
                    SubSeq(content, (k - 1) * BSIZE + 1, Min({k * BSIZE, Len(content)}))]
  IN FoldLeft(LAMBDA e, buf : Append1(e, inum, buf), Append1(ialloc(d), ROOTINO, <<inum>>), buffers)

(* The size of the root directory becomes a number of whole blocks. *)
FixRootSize(d) == [d EXCEPT !.inodes[ROOTINO].size = (@ \div BSIZE + 1) * BSIZE]

(* The bitmap marks the first freeblock blocks, which one block must hold. *)
balloc(d) == [d EXCEPT !.used = 0..(d.freeblock - 1)]

(* main(): root directory with . and .., files, size, bitmap. *)
main(contents) ==
  LET root == Append1(Append1(ialloc(Blank), ROOTINO, <<ROOTINO>>), ROOTINO, <<ROOTINO>>)
  IN balloc(FixRootSize(FoldLeft(AddFile, root, contents)))
===============================================================================
