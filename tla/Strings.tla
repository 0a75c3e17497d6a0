------------------------------- MODULE Strings -------------------------------
(* Memory and names: memmove(), strncmp() and strncpy() of the kernel          *)
(* (string.c), the programs' memmove() (ulib.c), path elements and the         *)
(* comparison of names (fs.c), and the tests that system calls put to the      *)
(* addresses they are given (syscall.c).  Memory is a sequence; a C string is  *)
(* a sequence without NUL, which At() puts at its end.                         *)
LOCAL INSTANCE Integers
LOCAL INSTANCE Sequences
LOCAL INSTANCE SequencesExt
LOCAL INSTANCE FiniteSetsExt

CONSTANTS
  DIRSIZ,
  AddrBits  \* the width of an address, 32

NUL == ""

At(s, i) == IF i <= Len(s) THEN s[i] ELSE NUL

------------------------------------------------------------------------------
(* The bytes at d, d + 1, ... of mem, in the order of the offsets. *)
CopyInOrder(mem, d, s, offsets) ==
  FoldLeft(LAMBDA m, k : [m EXCEPT ![d + k] = m[s + k]], mem, offsets)

Rising(n) == [i \in 1 .. n |-> i - 1]

memmoveForward(mem, d, s, n) == CopyInOrder(mem, d, s, Rising(n))

memmove(mem, d, s, n) ==
  IF s < d /\ s + n > d THEN CopyInOrder(mem, d, s, Reverse(Rising(n)))
  ELSE CopyInOrder(mem, d, s, Rising(n))

user_memmoveBackward(mem, d, s, n) == CopyInOrder(mem, d, s, Reverse(Rising(n)))

(* ulib.c has the one loop only. *)
user_memmove(mem, d, s, n) == CopyInOrder(mem, d, s, Rising(n))

strncmpWhole(p, q, n) == p = q

(* Whether strncmp() returns 0. *)
strncmpEqual(p, q, n) ==
  LET stop == Min({i \in 1 .. n + 1 : i = n + 1 \/ At(p, i) = NUL \/ At(p, i) # At(q, i)})
  IN stop = n + 1 \/ At(p, stop) = At(q, stop)

(* The n bytes that strncpy() writes. *)
strncpy(t, n) == [i \in 1 .. n |-> At(t, i)]

namecmpEqual(s, t) == strncmpEqual(s, t, DIRSIZ)

(* A name as it stands in a buffer of DIRSIZ bytes, which may lack its NUL. *)
NameIn(buf) == SelectSeq(buf, LAMBDA c : c # NUL)

Slashes(path, i) == Min({j \in i .. Len(path) + 1 : At(path, j) # "/"})
ElementEnd(path, i) == Min({j \in i .. Len(path) + 1 : At(path, j) \in {"/", NUL}})

(* The element and the path behind it, or <<>> when there is none. *)
skipelemKeepsSlashes(path) ==
  LET s == Slashes(path, 1)
      e == ElementEnd(path, s)
  IN IF s > Len(path) THEN <<>>
     ELSE <<SubSeq(path, s, Min({e - 1, s + DIRSIZ - 1})), SubSeq(path, e, Len(path))>>

skipelem(path) ==
  LET s == Slashes(path, 1)
      e == ElementEnd(path, s)
  IN IF s > Len(path) THEN <<>>
     ELSE <<SubSeq(path, s, Min({e - 1, s + DIRSIZ - 1})),
            SubSeq(path, Slashes(path, e), Len(path))>>

------------------------------------------------------------------------------
Address(a) == a % 2^AddrBits

(* Each holds when the call goes on. *)
fetchintLastOnly(addr, sz) == Address(addr + 4) <= sz

fetchint(addr, sz) == addr < sz /\ Address(addr + 4) <= sz

argptr(i, size, sz) == size >= 0 /\ Address(i) < sz /\ Address(Address(i) + size) <= sz

------------------------------------------------------------------------------
Moved(mem, d, s, n) ==
  [i \in DOMAIN mem |-> IF i >= d /\ i < d + n THEN mem[s + i - d] ELSE mem[i]]

(* memmove() copies as if at once, wherever the two areas overlap. *)
MovesAtOnce(mem) ==
  \A d, s \in DOMAIN mem, n \in 0 .. Len(mem) :
    d + n - 1 <= Len(mem) /\ s + n - 1 <= Len(mem) =>
      memmove(mem, d, s, n) = Moved(mem, d, s, n)

(* The programs' memmove() does so towards lower addresses, as grep needs it.  *)
MovesDown(mem) ==
  \A d, s \in DOMAIN mem, n \in 0 .. Len(mem) :
    d <= s /\ s + n - 1 <= Len(mem) => user_memmove(mem, d, s, n) = Moved(mem, d, s, n)

(* The elements of a path: what stands between slashes, cut to DIRSIZ. *)
Elements(path) ==
  LET starts == {i \in DOMAIN path : path[i] # "/" /\ (i = 1 \/ path[i - 1] = "/")}
      order == SetToSortSeq(starts, LAMBDA i, j : i < j)
      End(i) == Min({j \in i .. Len(path) + 1 : j = Len(path) + 1 \/ path[j] = "/"})
  IN [k \in DOMAIN order |->
        SubSeq(path, order[k], Min({End(order[k]) - 1, order[k] + DIRSIZ - 1}))]

RECURSIVE Walked(_)
Walked(path) ==
  LET step == skipelem(path) IN IF step = <<>> THEN <<>> ELSE <<step[1]>> \o Walked(step[2])

(* skipelem() takes a path apart at its slashes, and says with an empty rest   *)
(* that an element is the last: namex() stops at the parent there.             *)
PathsSplit(path) ==
  /\ Walked(path) = Elements(path)
  /\ skipelem(path) # <<>> => (skipelem(path)[2] = <<>> <=> Len(Elements(path)) = 1)

(* A name that dirlink() has stored is found under every name that agrees with *)
(* it in the first DIRSIZ characters, and under no other.                      *)
NamesFound(s, t) ==
  namecmpEqual(s, NameIn(strncpy(t, DIRSIZ)))
    <=> (\A i \in 1 .. DIRSIZ : At(s, i) = At(t, i))

(* An address passes the tests exactly when all it stands for lies below the   *)
(* end of the process's memory, also near the end of the address space.        *)
AddressesTested ==
  \A sz \in 0 .. 2^(AddrBits - 1) :
    /\ \A addr \in 0 .. 2^AddrBits - 1 : fetchint(addr, sz) <=> addr + 4 <= sz
    /\ \A i \in 0 .. 2^AddrBits - 1, size \in -(2^(AddrBits - 1)) .. 2^(AddrBits - 1) - 1 :
         argptr(i, size, sz) <=> size >= 0 /\ i < sz /\ i + size <= sz
==============================================================================
