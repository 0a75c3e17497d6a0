--------------------------------- MODULE Heap ---------------------------------
(* umalloc.c: first fit on a circular list of free blocks that is sorted by    *)
(* address.  Addresses and sizes are in units of a header.                     *)
EXTENDS Integers, FiniteSets

CONSTANTS
  HeaderBytes,  \* sizeof(Header)
  MinCore,      \* the least morecore() asks for
  Start, Limit, \* where the heap starts, and what sbrk() can grow it to
  Sizes,        \* arguments of malloc()
  MaxBlocks     \* bound on the blocks a program has at a time

base == 0

VARIABLES
  heap,   \* size and next block for every free block and base, freep, the break
  owned   \* the blocks of the program: a function from addresses to sizes

Headers == {base} \cup Start..(Limit - 1)

(* As the first malloc() leaves it.  sbrk() begins above base. *)
Empty ==
  [size |-> [a \in Headers |-> 0], ptr |-> [a \in Headers |-> base], freep |-> base, brk |-> Start]

(* Where free() stops: bp lies between p and its successor, or at an end. *)
RECURSIVE Before(_, _, _)
Before(h, bp, p) ==
  LET next == h.ptr[p]
  IN IF (bp > p /\ bp < next) \/ (p >= next /\ (bp > p \/ bp < next)) THEN p
     ELSE Before(h, bp, next)

(* A header inside a block is memory like any other, which nobody reads. *)
Forget(h, a) == [h EXCEPT !.size[a] = 0, !.ptr[a] = base]

JoinAbove(h, bp, next) ==
  IF bp + h.size[bp] = next
  THEN [Forget(h, next) EXCEPT !.size[bp] = @ + h.size[next], !.ptr[bp] = h.ptr[next]]
  ELSE [h EXCEPT !.ptr[bp] = next]

JoinBelowNever(h, bp, p) == [h EXCEPT !.ptr[p] = bp, !.freep = p]

JoinBelow(h, bp, p) ==
  IF p + h.size[p] = bp
  THEN [Forget(h, bp) EXCEPT !.size[p] = @ + h.size[bp], !.ptr[p] = h.ptr[bp], !.freep = p]
  ELSE [h EXCEPT !.ptr[p] = bp, !.freep = p]

(* free() of the block that starts at bp. *)
free(h, bp) ==
  LET p == Before(h, bp, h.freep) IN JoinBelow(JoinAbove(h, bp, h.ptr[p]), bp, p)

Larger(a, b) == IF a > b THEN a ELSE b

CanGrow(h, nu) == h.brk + Larger(nu, MinCore) <= Limit

morecore(h, nu) ==
  LET n == Larger(nu, MinCore)
  IN free([h EXCEPT !.brk = @ + n, !.size[h.brk] = n], h.brk)

TakeKeepsSize(h, prevp, p, nunits) ==
  IF h.size[p] = nunits
  THEN [heap |-> [h EXCEPT !.ptr[p] = base, !.ptr[prevp] = h.ptr[p], !.freep = prevp], block |-> p]
  ELSE LET rest == h.size[p] - nunits
       IN [heap |-> [h EXCEPT !.size[p + rest] = nunits, !.freep = prevp], block |-> p + rest]

(* The whole block when it fits exactly, its end otherwise. *)
Take(h, prevp, p, nunits) ==
  IF h.size[p] = nunits
  THEN [heap |-> [h EXCEPT !.ptr[p] = base, !.ptr[prevp] = h.ptr[p], !.freep = prevp], block |-> p]
  ELSE LET rest == h.size[p] - nunits
       IN [heap |-> [h EXCEPT !.size[p] = rest, !.size[p + rest] = nunits, !.freep = prevp],
           block |-> p + rest]

(* malloc's loop.  Back at freep it asks for more, and goes on from there. *)
RECURSIVE Search(_, _, _, _)
Search(h, prevp, p, nunits) ==
  IF h.size[p] >= nunits THEN Take(h, prevp, p, nunits)
  ELSE IF p # h.freep THEN Search(h, p, h.ptr[p], nunits)
  ELSE IF ~CanGrow(h, nunits) THEN [heap |-> h, block |-> base]
  ELSE LET g == morecore(h, nunits) IN Search(g, g.freep, g.ptr[g.freep], nunits)

Units(nbytes) == (nbytes + HeaderBytes - 1) \div HeaderBytes + 1

------------------------------------------------------------------------------
Init == heap = Empty /\ owned = [a \in {} |-> 0]

(* A result of base stands for 0. *)
Malloc(nbytes) ==
  LET r == Search(heap, heap.freep, heap.ptr[heap.freep], Units(nbytes))
  IN /\ Cardinality(DOMAIN owned) < MaxBlocks
     /\ heap' = r.heap
     /\ owned' = IF r.block = base THEN owned
                 ELSE [a \in DOMAIN owned \cup {r.block} |->
                         IF a = r.block THEN Units(nbytes) ELSE owned[a]]

Free(bp) ==
  /\ heap' = free(heap, bp)
  /\ owned' = [a \in DOMAIN owned \ {bp} |-> owned[a]]

(* The program moves the break itself, so that the next core is not adjacent. *)
Sbrk ==
  /\ heap.brk < Limit
  /\ heap' = [heap EXCEPT !.brk = @ + 1]
  /\ UNCHANGED owned

Next ==
  \/ \E nbytes \in Sizes : Malloc(nbytes)
  \/ \E bp \in DOMAIN owned : Free(bp)
  \/ Sbrk

Spec == Init /\ [][Next]_<<heap, owned>>

------------------------------------------------------------------------------
RECURSIVE ListFrom(_, _)
ListFrom(p, seen) == IF p \in seen THEN seen ELSE ListFrom(heap.ptr[p], seen \cup {p})

FreeBlocks == ListFrom(heap.freep, {})

Span(a, n) == a..(a + n - 1)

(* The blocks that malloc() has given out and the free ones do not overlap,    *)
(* free() keeps the size of a block it gets, and the list is one cycle through *)
(* base in the order of addresses.                                             *)
BlocksApart ==
  /\ base \in FreeBlocks
  /\ \A p \in FreeBlocks : LET next == heap.ptr[p] IN
       IF next = base THEN \A q \in FreeBlocks : q <= p
       ELSE next > p /\ \A q \in FreeBlocks : ~(p < q /\ q < next)
  /\ \A a \in DOMAIN owned :
       /\ heap.size[a] = owned[a]
       /\ \A b \in DOMAIN owned \ {a} : Span(a, owned[a]) \cap Span(b, owned[b]) = {}
       /\ \A b \in FreeBlocks : Span(a, owned[a]) \cap Span(b, heap.size[b]) = {}

(* Adjacent free blocks have been joined, so that what fits between two blocks *)
(* of the program can be given out as one.                                     *)
Coalesced == \A p, q \in FreeBlocks \ {base} : p + heap.size[p] # q
===============================================================================
