---------------------------- MODULE ConsoleProofs ----------------------------
(* Proofs about Console for any readers, any characters and any buffer whose   *)
(* size divides the range of its counters.                                     *)
EXTENDS Console, SequenceTheorems, Modular

Chars == Letters \cup {Newline, EOF}

Held == Len(ready) + Len(line)

(* The i-th character of a followed by b. *)
CharIn(a, b, i) == IF i <= Len(a) THEN a[i] ELSE b[i - Len(a)]

TypeOK ==
  /\ buf \in [0..(INPUT_BUF - 1) -> Chars \cup {None}]
  /\ r \in 0..(Wrap - 1)
  /\ lock \in Readers \cup {None}
  /\ pc \in [Readers -> {"user", "loop", "entering", "asleep", "woken"}]
  /\ ready \in Seq(Chars) /\ line \in Seq(Chars)

(* The counters count what is held, and a full buffer has been committed. *)
Counted ==
  /\ w = (r + Len(ready)) % Wrap /\ e = (r + Held) % Wrap
  /\ Held <= INPUT_BUF
  /\ Held = INPUT_BUF => line = <<>>

(* Every character held is in its place. *)
Placed == \A i \in 0..(Held - 1) : buf[At(r + i)] = CharIn(ready, line, i + 1)

(* The line that can be edited has no newline, so ^U does not stop in it. *)
Unended == \A i \in 1..Len(line) : line[i] # Newline

LockHeld == \A p \in Readers : pc[p] \in {"loop", "entering"} <=> lock = p

IInv == TypeOK /\ Counted /\ Placed /\ Unended /\ LockHeld /\ AsleepMeansEmpty

------------------------------------------------------------------------------
(* Positions in the buffer, behind the counter a. *)

(* Counters of a uint, k characters behind a. *)
LEMMA Along ==
  ASSUME ConsoleAssumption, NEW a \in 0..(Wrap - 1),
         NEW j \in 0..INPUT_BUF, NEW k \in 0..INPUT_BUF, j <= k
  PROVE  /\ (a + k) % Wrap \in 0..(Wrap - 1)
         /\ Dist((a + j) % Wrap, (a + k) % Wrap) = k - j
         /\ (((a + k) % Wrap) - j) % Wrap = (a + (k - j)) % Wrap
         /\ (a + j) % Wrap = (a + k) % Wrap => j = k
  <1>1. INPUT_BUF \in Nat \ {0} /\ Wrap \in Nat \ {0} /\ INPUT_BUF < Wrap
    BY DEF ConsoleAssumption
  <1>2. j \in 0..Wrap /\ k \in 0..Wrap /\ k - j \in 0..Wrap
    BY <1>1
  <1>3. /\ (a + j) % Wrap = IF a + j < Wrap THEN a + j ELSE a + j - Wrap
        /\ (a + k) % Wrap = IF a + k < Wrap THEN a + k ELSE a + k - Wrap
        /\ (a + (k - j)) % Wrap = IF a + (k - j) < Wrap THEN a + (k - j) ELSE a + (k - j) - Wrap
    BY <1>1, <1>2, Shifted, Zenon
  <1> DEFINE x == (a + j) % Wrap
             y == (a + k) % Wrap
  <1>4. x \in 0..(Wrap - 1) /\ y \in 0..(Wrap - 1) /\ x \in 0..Wrap
    BY <1>1, <1>2, <1>3
  <1>5. /\ (y - x) % Wrap = IF y >= x THEN y - x ELSE y - x + Wrap
        /\ (y - j) % Wrap = IF y >= j THEN y - j ELSE y - j + Wrap
    BY <1>1, <1>2, <1>4, Distance, Zenon
  <1>6. (y - x) % Wrap = k - j
    BY <1>1, <1>2, <1>3, <1>5
  <1>7. (y - j) % Wrap = (a + (k - j)) % Wrap
    BY <1>1, <1>2, <1>3, <1>5
  <1>8. x = y => j = k
    BY <1>1, <1>2, <1>3
  <1> QED
    BY <1>4, <1>6, <1>7, <1>8, Zenon DEF Dist

(* One further. *)
LEMMA Onward ==
  ASSUME ConsoleAssumption, NEW a \in 0..(Wrap - 1), NEW k \in 0..(INPUT_BUF - 1)
  PROVE  /\ (((a + k) % Wrap) + 1) % Wrap = (a + (k + 1)) % Wrap
         /\ (((a + 1) % Wrap) + k) % Wrap = (a + (k + 1)) % Wrap
  <1>1. INPUT_BUF \in Nat \ {0} /\ Wrap \in Nat \ {0} /\ INPUT_BUF < Wrap
    BY DEF ConsoleAssumption
  <1>2. 1 \in 0..Wrap /\ k \in 0..Wrap /\ k + 1 \in 0..Wrap
    BY <1>1
  <1> DEFINE x == (a + k) % Wrap
             y == (a + 1) % Wrap
  <1>3. /\ x = IF a + k < Wrap THEN a + k ELSE a + k - Wrap
        /\ y = IF a + 1 < Wrap THEN a + 1 ELSE a + 1 - Wrap
        /\ (a + (k + 1)) % Wrap = IF a + (k + 1) < Wrap THEN a + (k + 1) ELSE a + (k + 1) - Wrap
    BY <1>1, <1>2, Shifted, Zenon
  <1>4. x \in 0..(Wrap - 1) /\ y \in 0..(Wrap - 1)
    BY <1>1, <1>2, <1>3
  <1>5. /\ (x + 1) % Wrap = IF x + 1 < Wrap THEN x + 1 ELSE x + 1 - Wrap
        /\ (y + k) % Wrap = IF y + k < Wrap THEN y + k ELSE y + k - Wrap
    BY <1>1, <1>2, <1>4, Shifted, Zenon
  <1> QED
    BY <1>1, <1>2, <1>3, <1>5

(* A counter that has wrapped around indexes the buffer as if it had not. *)
LEMMA Indexed ==
  ASSUME ConsoleAssumption, NEW x \in Int, NEW k \in Int
  PROVE  At((x % Wrap) + k) = At(x + k) /\ At(x) \in 0..(INPUT_BUF - 1)
  <1>1. INPUT_BUF \in Nat \ {0} /\ Wrap \in Nat \ {0} /\ Wrap % INPUT_BUF = 0
    BY DEF ConsoleAssumption
  <1>2. ((x % Wrap) + k) % INPUT_BUF = (x + k) % INPUT_BUF
    BY <1>1, Nested, ZenonT(40)
  <1>3. x % INPUT_BUF \in 0..(INPUT_BUF - 1)
    BY <1>1, Division, Zenon
  <1> QED
    BY <1>2, <1>3, Zenon DEF At

(* Where the counters are. *)
LEMMA Positions ==
  ASSUME ConsoleAssumption, TypeOK, Counted
  PROVE  /\ Len(ready) \in 0..INPUT_BUF /\ Len(line) \in Nat
         /\ Held \in 0..INPUT_BUF /\ Len(ready) <= Held
         /\ Dist(r, w) = Len(ready) /\ Dist(w, e) = Len(line) /\ Dist(r, e) = Held
         /\ r = w <=> Len(ready) = 0
         /\ w = e <=> Len(line) = 0
  <1>1. INPUT_BUF \in Nat \ {0} /\ Wrap \in Nat \ {0} /\ INPUT_BUF < Wrap
    BY DEF ConsoleAssumption
  <1>2. Len(ready) \in Nat /\ Len(line) \in Nat
    BY DEF TypeOK
  <1>3. Held \in 0..INPUT_BUF /\ Len(ready) \in 0..INPUT_BUF /\ Len(ready) <= Held
        /\ Held - Len(ready) = Len(line) /\ 0 \in 0..INPUT_BUF
    BY <1>1, <1>2 DEF Held, Counted
  <1>4. r \in 0..(Wrap - 1)
    BY Zenon DEF TypeOK
  <1>5. r = (r + 0) % Wrap
    BY <1>1, <1>4, Shifted
  <1>6. w = (r + Len(ready)) % Wrap /\ e = (r + Held) % Wrap
    BY Zenon DEF Counted
  <1> DEFINE At0 == (r + 0) % Wrap
             At1 == (r + Len(ready)) % Wrap
             At2 == (r + Held) % Wrap
  <1>7. Dist(At0, At1) = Len(ready) - 0 /\ (At0 = At1 => 0 = Len(ready))
    <2> DEFINE o == 0
               l == Len(ready)
    <2>1. o \in 0..INPUT_BUF /\ l \in 0..INPUT_BUF /\ o <= l
      BY <1>3
    <2> HIDE DEF o, l
    <2>2. /\ Dist((r + o) % Wrap, (r + l) % Wrap) = l - o
          /\ (r + o) % Wrap = (r + l) % Wrap => o = l
      BY <1>4, <2>1, Along
    <2> QED
      BY <2>2, Zenon DEF o, l
  <1>8. Dist(r, e) = Held - 0
    BY <1>3, <1>4, <1>5, <1>6, Along
  <1>9. Dist(At1, At2) = Held - Len(ready) /\ (At1 = At2 => Len(ready) = Held)
    <2> DEFINE l == Len(ready)
               h == Held
    <2>1. l \in 0..INPUT_BUF /\ h \in 0..INPUT_BUF /\ l <= h
      BY <1>3, Zenon
    <2> HIDE DEF l, h
    <2>2. /\ Dist((r + l) % Wrap, (r + h) % Wrap) = h - l
          /\ (r + l) % Wrap = (r + h) % Wrap => l = h
      BY <1>4, <2>1, Along
    <2> QED
      BY <2>2, Zenon DEF l, h
  <1>10. Len(ready) = 0 => w = r
    BY <1>5, <1>6, Zenon
  <1>11. Len(line) = 0 => w = e
    BY <1>2, <1>3, <1>6
  <1> QED
    BY <1>2, <1>3, <1>5, <1>6, <1>7, <1>8, <1>9, <1>10, <1>11

------------------------------------------------------------------------------
(* The characters of two sequences, when one is added or taken away. *)

(* Store() appends to the line, or to what is ready. *)
LEMMA Added ==
  ASSUME NEW S, NEW a \in Seq(S), NEW b \in Seq(S), NEW c \in S
  PROVE  /\ Append(b, c) \in Seq(S) /\ Len(Append(b, c)) = Len(b) + 1
         /\ a \o Append(b, c) \in Seq(S)
         /\ Len(a \o Append(b, c)) = Len(a) + Len(b) + 1
         /\ \A i \in 1..Len(b) : Append(b, c)[i] = b[i]
         /\ Append(b, c)[Len(b) + 1] = c
         /\ \A i \in 1..(Len(a) + Len(b)) :
              /\ CharIn(a, Append(b, c), i) = CharIn(a, b, i)
              /\ CharIn(a \o Append(b, c), <<>>, i) = CharIn(a, b, i)
         /\ CharIn(a, Append(b, c), Len(a) + Len(b) + 1) = c
         /\ CharIn(a \o Append(b, c), <<>>, Len(a) + Len(b) + 1) = c
  <1> DEFINE t == Append(b, c)
             u == a \o t
  <1>1. Len(a) \in Nat /\ Len(b) \in Nat
    OBVIOUS
  <1>2. /\ t \in Seq(S) /\ Len(t) = Len(b) + 1
        /\ \A i \in 1..Len(b) : t[i] = b[i]
        /\ t[Len(b) + 1] = c
    BY AppendProperties
  <1> HIDE DEF t
  <1>3. /\ u \in Seq(S) /\ Len(u) = Len(a) + Len(t)
        /\ \A i \in 1..Len(u) : u[i] = IF i <= Len(a) THEN a[i] ELSE t[i - Len(a)]
    <2>1. /\ u \in Seq(S) /\ Len(u) = Len(a) + Len(t)
          /\ \A i \in 1..(Len(a) + Len(t)) :
               u[i] = IF i <= Len(a) THEN a[i] ELSE t[i - Len(a)]
      BY <1>2, ConcatProperties, Zenon
    <2> QED
      BY <2>1, Zenon
  <1> HIDE DEF u
  <1>4. ASSUME NEW i \in 1..(Len(a) + Len(b))
        PROVE  CharIn(a, t, i) = CharIn(a, b, i) /\ CharIn(u, <<>>, i) = CharIn(a, b, i)
    <2>1. i \in 1..Len(u) /\ i <= Len(u) /\ (i > Len(a) => i - Len(a) \in 1..Len(b))
      BY <1>1, <1>2, <1>3
    <2>2. i > Len(a) => t[i - Len(a)] = b[i - Len(a)]
      BY <1>2, <2>1, Zenon
    <2> QED
      BY <1>1, <1>3, <2>1, <2>2 DEF CharIn
  <1>5. CharIn(a, t, Len(a) + Len(b) + 1) = c
    <2>1. Len(a) + Len(b) + 1 > Len(a) /\ Len(a) + Len(b) + 1 - Len(a) = Len(b) + 1
      BY <1>1
    <2> QED
      BY <1>1, <1>2, <2>1 DEF CharIn
  <1>6. CharIn(u, <<>>, Len(a) + Len(b) + 1) = c
    <2>1. /\ Len(a) + Len(b) + 1 \in 1..Len(u) /\ Len(a) + Len(b) + 1 <= Len(u)
          /\ ~(Len(a) + Len(b) + 1 <= Len(a)) /\ Len(a) + Len(b) + 1 - Len(a) = Len(b) + 1
      BY <1>1, <1>2, <1>3
    <2> QED
      BY <1>2, <1>3, <2>1 DEF CharIn
  <1>7. Len(u) = Len(a) + Len(b) + 1
    BY <1>1, <1>2, <1>3
  <1> QED
    BY <1>2, <1>3, <1>4, <1>5, <1>6, <1>7, Zenon DEF t, u

(* consoleread() takes the first one. *)
LEMMA FirstTaken ==
  ASSUME NEW S, NEW a \in Seq(S), NEW b \in Seq(S), Len(a) # 0
  PROVE  /\ Tail(a) \in Seq(S) /\ Len(Tail(a)) = Len(a) - 1
         /\ \A i \in 1..(Len(a) + Len(b) - 1) : CharIn(Tail(a), b, i) = CharIn(a, b, i + 1)
  <1>1. Len(a) \in Nat /\ Len(b) \in Nat /\ a # <<>>
    OBVIOUS
  <1>2. /\ Tail(a) \in Seq(S) /\ Len(Tail(a)) = Len(a) - 1
        /\ \A i \in 1..(Len(a) - 1) : Tail(a)[i] = a[i + 1]
    BY <1>1, HeadTailProperties, Zenon
  <1>3. ASSUME NEW i \in 1..(Len(a) + Len(b) - 1)
        PROVE  CharIn(Tail(a), b, i) = CharIn(a, b, i + 1)
    <2>1. CASE i <= Len(a) - 1
      BY <1>1, <1>2, <2>1 DEF CharIn
    <2>2. CASE i > Len(a) - 1
      <3>1. i - (Len(a) - 1) = i + 1 - Len(a) /\ ~(i + 1 <= Len(a)) /\ ~(i <= Len(Tail(a)))
        BY <1>1, <1>2, <2>2
      <3> QED
        BY <1>2, <3>1 DEF CharIn
    <2> QED
      BY <1>1, <2>1, <2>2
  <1> QED
    BY <1>2, <1>3, Zenon

(* Backspace takes the last one. *)
LEMMA LastErased ==
  ASSUME NEW S, NEW b \in Seq(S)
  PROVE  /\ SubSeq(b, 1, Len(b) - 1) \in Seq(S)
         /\ Len(SubSeq(b, 1, Len(b) - 1)) = IF Len(b) = 0 THEN 0 ELSE Len(b) - 1
         /\ \A i \in 1..(Len(b) - 1) : SubSeq(b, 1, Len(b) - 1)[i] = b[i]
  <1> DEFINE t == SubSeq(b, 1, Len(b) - 1)
  <1>1. Len(b) \in Nat /\ \A i \in 1..Len(b) : b[i] \in S
    OBVIOUS
  <1>2. \A i \in 1..(Len(b) - 1) : i \in 1..Len(b)
    BY <1>1
  <1>3. /\ t \in Seq(S)
        /\ Len(t) = IF 1 <= Len(b) - 1 THEN Len(b) - 1 - 1 + 1 ELSE 0
        /\ \A i \in 1..(Len(b) - 1 - 1 + 1) : t[i] = b[1 + i - 1]
    BY <1>1, <1>2, SubSeqProperties
  <1> HIDE DEF t
  <1>4. Len(t) = IF Len(b) = 0 THEN 0 ELSE Len(b) - 1
    BY <1>1, <1>3
  <1>5. \A i \in 1..(Len(b) - 1) : t[i] = b[i]
    <2> TAKE i \in 1..(Len(b) - 1)
    <2>1. i \in 1..(Len(b) - 1 - 1 + 1) /\ 1 + i - 1 = i
      BY <1>1
    <2> QED
      BY <1>3, <2>1, Zenon
  <1> QED
    BY <1>3, <1>4, <1>5, Zenon DEF t

------------------------------------------------------------------------------
(* The handler *)

(* The handler finds no reader inside consoleread() but asleep. *)
LEMMA NobodyInside ==
  ASSUME ConsoleAssumption, IInv, lock = None
  PROVE  \A p \in Readers : pc[p] \notin {"loop", "entering"}
  BY Zenon DEF ConsoleAssumption, IInv, LockHeld

(* A character that is no command is stored. *)
LEMMA StoreIInv ==
  ASSUME ConsoleAssumption, IInv, lock = None, NEW c \in Chars, Store(c),
         UNCHANGED <<r, lock>>
  PROVE  IInv'
  <1> DEFINE next == (e + 1) % Wrap
             text == Append(line, c)
             full == Held + 1 = INPUT_BUF
             done == c \in {Newline, EOF} \/ full
  <1>1. TypeOK /\ Counted /\ Placed /\ Unended /\ LockHeld /\ AsleepMeansEmpty
    BY Zenon DEF IInv
  <1>2. INPUT_BUF \in Nat \ {0} /\ Wrap \in Nat \ {0} /\ INPUT_BUF < Wrap
    BY DEF ConsoleAssumption
  <1>3. /\ Len(ready) \in 0..INPUT_BUF /\ Len(line) \in Nat
        /\ Held \in 0..INPUT_BUF /\ Dist(r, e) = Held
    BY <1>1, Positions, Zenon
  <1>4. Held \in 0..(INPUT_BUF - 1) /\ Held + 1 \in 0..INPUT_BUF /\ Held = Len(ready) + Len(line)
    BY <1>2, <1>3 DEF Store, Held
  <1>5. r \in 0..(Wrap - 1) /\ r' = r /\ lock' = lock
    BY <1>1, Zenon DEF TypeOK
  <1>6. e = (r + Held) % Wrap
    BY <1>1, Zenon DEF Counted
  <1>7. next = (r + (Held + 1)) % Wrap
    BY <1>4, <1>5, <1>6, Onward, Zenon
  <1>8. Commits(c, next) <=> done
    <2>1. INPUT_BUF \in 0..INPUT_BUF /\ Held + 1 <= INPUT_BUF
      BY <1>2, <1>4
    <2>2. next = (r + INPUT_BUF) % Wrap => Held + 1 = INPUT_BUF
      BY <1>4, <1>5, <1>7, <2>1, Along
    <2>3. Held + 1 = INPUT_BUF => next = (r + INPUT_BUF) % Wrap
      BY <1>7, Zenon
    <2> QED
      BY <2>2, <2>3, Zenon DEF Commits
  <1>9. ready \in Seq(Chars) /\ line \in Seq(Chars)
    BY <1>1, Zenon DEF TypeOK
  <1>10. /\ text \in Seq(Chars) /\ Len(text) = Len(line) + 1
         /\ ready \o text \in Seq(Chars) /\ Len(ready \o text) = Held + 1
         /\ \A i \in 1..Len(line) : text[i] = line[i]
         /\ text[Len(line) + 1] = c
         /\ \A i \in 1..Held :
              /\ CharIn(ready, text, i) = CharIn(ready, line, i)
              /\ CharIn(ready \o text, <<>>, i) = CharIn(ready, line, i)
         /\ CharIn(ready, text, Held + 1) = c
         /\ CharIn(ready \o text, <<>>, Held + 1) = c
    BY <1>4, <1>9, Added
  <1>11. /\ buf' = [buf EXCEPT ![At(e)] = c] /\ e' = next
         /\ IF Commits(c, next) THEN w' = next /\ pc' = wakeup(pc) ELSE UNCHANGED <<w, pc>>
         /\ IF c \in {Newline, EOF} \/ Len(ready) + Len(text) = INPUT_BUF
            THEN ready' = ready \o text /\ line' = <<>>
            ELSE ready' = ready /\ line' = text
    BY Zenon DEF Store
  <1>12. Len(ready) + Len(text) = INPUT_BUF <=> full
    BY <1>3, <1>4, <1>10
  <1>13. \/ /\ done /\ w' = next /\ pc' = wakeup(pc)
            /\ ready' = ready \o text /\ line' = <<>>
         \/ /\ ~done /\ w' = w /\ pc' = pc /\ ready' = ready /\ line' = text
    BY <1>8, <1>11, <1>12, Zenon
  <1> HIDE DEF next, text
  <1>14. Held' = Held + 1 /\ ready' \in Seq(Chars) /\ line' \in Seq(Chars)
    <2>1. CASE ready' = ready \o text /\ line' = <<>>
      BY <1>4, <1>10, <2>1 DEF Held
    <2>2. CASE ready' = ready /\ line' = text
      BY <1>4, <1>9, <1>10, <2>2 DEF Held
    <2> QED
      BY <1>13, <2>1, <2>2, Zenon
  <1>15. Counted'
    <2>1. e' = (r' + Held') % Wrap /\ Held' <= INPUT_BUF
      BY <1>4, <1>5, <1>7, <1>11, <1>14
    <2>2. w' = (r' + Len(ready')) % Wrap
      BY <1>1, <1>5, <1>7, <1>10, <1>13, Zenon DEF Counted
    <2>3. Held' = INPUT_BUF => line' = <<>>
      BY <1>13, <1>14, Zenon
    <2> QED
      BY <2>1, <2>2, <2>3, Zenon DEF Counted
  <1>16. At(e) = At(r + Held) /\ At(r + Held) \in 0..(INPUT_BUF - 1)
    <2>1. r + Held \in Int /\ 0 \in Int /\ r + Held + 0 = r + Held
      BY <1>4, <1>5
    <2>2. e \in Int /\ e + 0 = e
      BY <1>2, <1>6, <2>1, Division, SMTT(30)
    <2> QED
      BY <1>6, <2>1, <2>2, Indexed, Zenon
  <1>17. buf \in [0..(INPUT_BUF - 1) -> Chars \cup {None}]
    BY <1>1, Zenon DEF TypeOK
  <1>18. buf' \in [0..(INPUT_BUF - 1) -> Chars \cup {None}] /\ buf'[At(r + Held)] = c
    BY <1>11, <1>16, <1>17, Zenon
  <1>19. ASSUME NEW i \in 0..(Held - 1)
         PROVE  buf'[At(r + i)] = buf[At(r + i)]
    <2>1. r + i \in Int /\ r + Held \in Int /\ r + i < r + Held /\ r + Held < r + i + INPUT_BUF
      BY <1>2, <1>4, <1>5
    <2>2. At(r + i) # At(r + Held)
      BY <1>2, <2>1, Apart, Zenon DEF At
    <2>3. At(r + i) \in 0..(INPUT_BUF - 1)
      BY <2>1, Indexed, Zenon
    <2> QED
      BY <1>11, <1>16, <1>17, <2>2, <2>3, Zenon
  <1>20. /\ \A i \in 1..Held : CharIn(ready', line', i) = CharIn(ready, line, i)
         /\ CharIn(ready', line', Held + 1) = c
    BY <1>10, <1>13, Zenon
  <1>21. Placed'
    <2>1. ASSUME NEW i \in 0..Held
          PROVE  buf'[At(r + i)] = CharIn(ready', line', i + 1)
      <3>1. CASE i = Held
        BY <1>18, <1>20, <3>1, Zenon
      <3>2. CASE i # Held
        <4>1. i \in 0..(Held - 1) /\ i + 1 \in 1..Held
          BY <1>4, <3>2
        <4> QED
          BY <1>1, <1>19, <1>20, <4>1, Zenon DEF Placed
      <3> QED
        BY <3>1, <3>2, Zenon
    <2>2. 0..(Held' - 1) = 0..Held
      BY <1>4, <1>14
    <2> QED
      BY <1>5, <2>1, <2>2, Zenon DEF Placed, At
  <1>22. Unended'
    <2>1. CASE line' = <<>>
      BY <2>1 DEF Unended
    <2>2. CASE ~done /\ line' = text
      <3>1. ASSUME NEW i \in 1..Len(text) PROVE text[i] # Newline
        <4>1. i \in 1..Len(line) \/ i = Len(line) + 1
          BY <1>3, <1>10
        <4> QED
          BY <1>1, <1>10, <2>2, <4>1, Zenon DEF Unended
      <3> QED
        BY <2>2, <3>1, Zenon DEF Unended
    <2> QED
      BY <1>13, <2>1, <2>2, Zenon
  <1>23. pc \in [Readers -> {"user", "loop", "entering", "asleep", "woken"}]
    BY <1>1, Zenon DEF TypeOK
  <1>24. \A p \in Readers : pc[p] \notin {"loop", "entering"}
    BY NobodyInside, Zenon
  <1>25. /\ pc' \in [Readers -> {"user", "loop", "entering", "asleep", "woken"}]
         /\ \A p \in Readers : pc'[p] \notin {"loop", "entering"}
         /\ pc' = wakeup(pc) => \A p \in Readers : pc'[p] # "asleep"
    BY <1>13, <1>23, <1>24, Zenon DEF wakeup
  <1>26. TypeOK'
    BY <1>1, <1>5, <1>14, <1>18, <1>25, Zenon DEF TypeOK
  <1>27. LockHeld'
    BY <1>5, <1>25, Zenon DEF LockHeld, ConsoleAssumption
  <1>28. AsleepMeansEmpty'
    <2>1. CASE pc' = wakeup(pc)
      BY <1>25, <2>1, Zenon DEF AsleepMeansEmpty
    <2>2. CASE pc' = pc /\ w' = w
      BY <1>1, <1>5, <2>2, Zenon DEF AsleepMeansEmpty
    <2> QED
      BY <1>13, <2>1, <2>2, Zenon
  <1> QED
    BY <1>15, <1>21, <1>22, <1>26, <1>27, <1>28, Zenon DEF IInv

(* The line is cut down to its first k characters. *)
LEMMA EditIInv ==
  ASSUME ConsoleAssumption, IInv, NEW k \in 0..Len(line),
         line' \in Seq(Chars), Len(line') = k, \A i \in 1..k : line'[i] = line[i],
         e' = (e - (Len(line) - k)) % Wrap, UNCHANGED <<buf, r, w, lock, pc, ready>>
  PROVE  IInv'
  <1>1. TypeOK /\ Counted /\ Placed /\ Unended /\ LockHeld /\ AsleepMeansEmpty
    BY Zenon DEF IInv
  <1>2. /\ Len(ready) \in 0..INPUT_BUF /\ Len(line) \in Nat /\ Held \in 0..INPUT_BUF
        /\ Held = Len(ready) + Len(line) /\ INPUT_BUF \in Nat
    BY <1>1, Positions, Zenon DEF Held, ConsoleAssumption
  <1>3. Held' = Len(ready) + k /\ Len(line) - k \in 0..INPUT_BUF
        /\ Len(line) - k <= Held /\ Held - (Len(line) - k) = Held'
    BY <1>2 DEF Held
  <1>4. r \in 0..(Wrap - 1)
    BY <1>1, Zenon DEF TypeOK
  <1>5. Counted'
    <2>1. (((r + Held) % Wrap) - (Len(line) - k)) % Wrap = (r + (Held - (Len(line) - k))) % Wrap
      <3> DEFINE j == Len(line) - k
                 h == Held
      <3>1. j \in 0..INPUT_BUF /\ h \in 0..INPUT_BUF /\ j <= h
        BY <1>2, <1>3, Zenon
      <3> HIDE DEF j, h
      <3>2. (((r + h) % Wrap) - j) % Wrap = (r + (h - j)) % Wrap
        BY <1>4, <3>1, Along
      <3> QED
        BY <3>2, Zenon DEF j, h
    <2>2. e' = (r' + Held') % Wrap
      BY <1>1, <1>3, <2>1, Zenon DEF Counted
    <2>3. Held' <= INPUT_BUF
      BY <1>2, <1>3
    <2>4. Held' = INPUT_BUF => line' = <<>>
      <3>1. Held' = INPUT_BUF => Held = INPUT_BUF /\ k = Len(line)
        BY <1>2, <1>3
      <3>2. Held' = INPUT_BUF => Len(line') = 0
        BY <1>1, <3>1, Zenon DEF Counted
      <3> QED
        BY <3>2, EmptySeq, Zenon
    <2>5. w' = (r' + Len(ready')) % Wrap
      BY <1>1, Zenon DEF Counted
    <2> QED
      BY <2>2, <2>3, <2>4, <2>5, Zenon DEF Counted
  <1>6. Placed'
    <2>1. ASSUME NEW i \in 0..(Held' - 1)
          PROVE  buf[At(r + i)] = CharIn(ready, line', i + 1)
      <3>1. i \in 0..(Held - 1) /\ (i + 1 > Len(ready) => i + 1 - Len(ready) \in 1..k)
        BY <1>2, <1>3, SMTT(30)
      <3>2. CharIn(ready, line', i + 1) = CharIn(ready, line, i + 1)
        BY <1>2, <3>1, SMTT(30) DEF CharIn
      <3> QED
        BY <1>1, <3>1, <3>2, Zenon DEF Placed
    <2> QED
      BY <2>1, Zenon DEF Placed, At
  <1>7. Unended'
    BY <1>1, <1>2 DEF Unended
  <1>8. TypeOK' /\ LockHeld' /\ AsleepMeansEmpty'
    BY <1>1, Zenon DEF TypeOK, LockHeld, AsleepMeansEmpty
  <1> QED
    BY <1>5, <1>6, <1>7, <1>8, Zenon DEF IInv

(* ^U goes back to the beginning of the line. *)
LEMMA KillLineIInv ==
  ASSUME ConsoleAssumption, IInv, e' = KillLineFrom(e), line' = <<>>,
         UNCHANGED <<buf, r, w, lock, pc, ready>>
  PROVE  IInv'
  <1> DEFINE stops == {k \in 0..Dist(w, e) : k = Dist(w, e) \/ buf[At(e - 1 - k)] = Newline}
  <1>1. TypeOK /\ Counted /\ Placed /\ Unended
    BY Zenon DEF IInv
  <1>2. /\ Len(ready) \in 0..INPUT_BUF /\ Len(line) \in Nat /\ Held \in 0..INPUT_BUF
        /\ Held = Len(ready) + Len(line) /\ INPUT_BUF \in Nat /\ Dist(w, e) = Len(line)
        /\ r \in Int
    BY <1>1, Positions DEF Held, ConsoleAssumption, TypeOK
  <1>3. ASSUME NEW k \in 0..(Len(line) - 1) PROVE buf[At(e - 1 - k)] # Newline
    <2>1. /\ Held - 1 - k \in 0..(Held - 1) /\ ~(Held - 1 - k + 1 <= Len(ready))
          /\ Held - 1 - k + 1 - Len(ready) = Len(line) - k
          /\ Len(line) - k \in 1..Len(line)
      BY <1>2
    <2>2. At(e - 1 - k) = At(r + (Held - 1 - k))
      <3>1. r + Held \in Int /\ -1 - k \in Int /\ r + Held + (-1 - k) = r + (Held - 1 - k)
        BY <1>2
      <3>2. e = (r + Held) % Wrap
        BY <1>1, Zenon DEF Counted
      <3>3. e \in Int
        BY <3>1, <3>2, Division DEF ConsoleAssumption
      <3>4. e - 1 - k = e + (-1 - k)
        BY <3>3
      <3> QED
        BY <3>1, <3>2, <3>4, Indexed, Zenon
    <2>3. buf[At(r + (Held - 1 - k))] = CharIn(ready, line, Held - 1 - k + 1)
      BY <1>1, <2>1, Zenon DEF Placed
    <2>4. CharIn(ready, line, Held - 1 - k + 1) = line[Len(line) - k]
      BY <2>1 DEF CharIn
    <2> QED
      BY <1>1, <2>1, <2>2, <2>3, <2>4, Zenon DEF Unended
  <1>4. stops = {Len(line)}
    <2>1. ASSUME NEW k \in 0..Len(line), k # Len(line) PROVE buf[At(e - 1 - k)] # Newline
      <3>1. k \in 0..(Len(line) - 1)
        BY <1>2, <2>1
      <3> QED
        BY <1>3, <3>1, Zenon
    <2>2. Len(line) \in 0..Len(line)
      BY <1>2
    <2> QED
      BY <1>2, <2>1, <2>2, Zenon
  <1>5. KillLineFrom(e) = (e - CHOOSE k \in stops : \A j \in stops : k <= j) % Wrap
    BY Zenon DEF KillLineFrom
  <1> HIDE DEF stops
  <1>6. (CHOOSE k \in stops : \A j \in stops : k <= j) = Len(line)
    <2>1. \E k \in stops : \A j \in stops : k <= j
      BY <1>2, <1>4
    <2> QED
      BY <1>4, <2>1, Zenon
  <1>7. e' = (e - (Len(line) - 0)) % Wrap
    <2>1. Len(line) - 0 = Len(line)
      BY <1>2
    <2>2. e' = (e - Len(line)) % Wrap
      BY <1>5, <1>6, Zenon
    <2> QED
      BY <2>1, <2>2, Zenon
  <1>8. 0 \in 0..Len(line) /\ line' \in Seq(Chars) /\ Len(line') = 0
    BY <1>2
  <1> QED
    BY <1>7, <1>8, EditIInv

(* Backspace does nothing at the beginning of the line. *)
LEMMA EraseIInv ==
  ASSUME ConsoleAssumption, IInv, e' = EraseFrom(e), line' = SubSeq(line, 1, Len(line) - 1),
         UNCHANGED <<buf, r, w, lock, pc, ready>>
  PROVE  IInv'
  <1>1. TypeOK /\ Counted
    BY Zenon DEF IInv
  <1>2. Len(line) \in Nat /\ (w = e <=> Len(line) = 0) /\ line \in Seq(Chars)
    BY <1>1, Positions, Zenon DEF TypeOK
  <1>3. /\ line' \in Seq(Chars)
        /\ Len(line') = IF Len(line) = 0 THEN 0 ELSE Len(line) - 1
        /\ \A i \in 1..(Len(line) - 1) : line'[i] = line[i]
    BY <1>2, LastErased, Zenon
  <1>4. CASE Len(line) = 0
    <2>1. Wrap \in Nat \ {0} /\ r \in Int /\ Held \in Int
      BY <1>1, Positions DEF ConsoleAssumption, TypeOK
    <2>2. e \in 0..(Wrap - 1)
      BY <1>1, <2>1, Division DEF Counted
    <2>3. (e - 0) % Wrap = e
      BY <2>1, <2>2, Distance
    <2>4. e' = (e - (Len(line) - 0)) % Wrap
      BY <1>2, <1>4, <2>2, <2>3 DEF EraseFrom
    <2>5. 0 \in 0..Len(line) /\ Len(line') = 0 /\ \A i \in 1..0 : line'[i] = line[i]
      BY <1>2, <1>3, <1>4
    <2> QED
      BY <1>3, <2>4, <2>5, EditIInv, Zenon
  <1>5. CASE Len(line) # 0
    <2>1. Len(line) - 1 \in 0..Len(line) /\ Len(line') = Len(line) - 1
          /\ Len(line) - (Len(line) - 1) = 1
      BY <1>2, <1>3, <1>5
    <2>2. e' = (e - (Len(line) - (Len(line) - 1))) % Wrap
      BY <1>2, <1>5, <2>1, Zenon DEF EraseFrom
    <2> QED
      BY <1>3, <2>1, <2>2, EditIInv, Zenon
  <1> QED
    BY <1>4, <1>5, Zenon

(* consoleintr() *)
LEMMA IntrIInv ==
  ASSUME ConsoleAssumption, IInv,
         NEW c \in Letters \cup {Newline, EOF, KillLine, Backspace}, consoleintr(c)
  PROVE  IInv'
  <1>1. lock = None /\ UNCHANGED <<r, lock>>
    BY Zenon DEF consoleintr
  <1>2. CASE c = KillLine
    <2>1. e' = KillLineFrom(e) /\ line' = <<>> /\ UNCHANGED <<buf, w, pc, ready>>
      BY <1>2, Zenon DEF consoleintr, KillLine, Backspace
    <2> QED
      BY <1>1, <2>1, KillLineIInv, Zenon
  <1>3. CASE c = Backspace
    <2>1. /\ e' = EraseFrom(e) /\ line' = SubSeq(line, 1, Len(line) - 1)
          /\ UNCHANGED <<buf, w, pc, ready>>
      BY <1>3, Zenon DEF consoleintr, KillLine, Backspace
    <2> QED
      BY <1>1, <2>1, EraseIInv, Zenon
  <1>4. CASE c # KillLine /\ c # Backspace
    <2>1. Store(c)
      BY <1>4, Zenon DEF consoleintr
    <2>2. c \in Chars
      BY <1>4, Zenon DEF Chars
    <2> QED
      BY <1>1, <2>1, <2>2, StoreIInv, Zenon
  <1> QED
    BY <1>2, <1>3, <1>4, Zenon

------------------------------------------------------------------------------
(* The readers *)

(* A step that leaves the buffer alone has only the locks to look after. *)
LEMMA SameBuffer ==
  ASSUME IInv, UNCHANGED <<buf, r, w, e, ready, line>>, LockHeld', AsleepMeansEmpty',
         lock' \in Readers \cup {None},
         pc' \in [Readers -> {"user", "loop", "entering", "asleep", "woken"}]
  PROVE  IInv'
  <1>1. Held' = Held
    BY Zenon DEF Held
  <1>2. TypeOK'
    BY Zenon DEF IInv, TypeOK
  <1>3. Counted' /\ Placed' /\ Unended'
    BY <1>1, Zenon DEF IInv, Counted, Placed, Unended, At, CharIn
  <1> QED
    BY <1>2, <1>3, Zenon DEF IInv

(* The steps of consoleread() and sleep() around the characters, and kill(). *)
LEMMA ReaderIInv ==
  ASSUME ConsoleAssumption, IInv, NEW p \in Readers,
         \/ \E size \in Sizes : consoleread(p, size)
         \/ Empty(p) \/ Sleep(p) \/ Wake(p) \/ kill(p)
  PROVE  IInv'
  <1>1. /\ LockHeld /\ AsleepMeansEmpty /\ lock \in Readers \cup {None}
        /\ pc \in [Readers -> {"user", "loop", "entering", "asleep", "woken"}]
        /\ None \notin Readers
    BY Zenon DEF IInv, TypeOK, ConsoleAssumption
  <1>2. CASE \E size \in Sizes : consoleread(p, size)
    BY <1>1, <1>2, SameBuffer DEF consoleread, LockHeld, AsleepMeansEmpty
  <1>3. CASE Empty(p)
    BY <1>1, <1>3, SameBuffer, Zenon DEF Empty, Return, LockHeld, AsleepMeansEmpty
  <1>4. CASE Sleep(p)
    BY <1>1, <1>4, SameBuffer, Zenon DEF Sleep, LockHeld, AsleepMeansEmpty
  <1>5. CASE Wake(p)
    BY <1>1, <1>5, SameBuffer, Zenon DEF Wake, LockHeld, AsleepMeansEmpty
  <1>6. CASE kill(p)
    BY <1>1, <1>6, SameBuffer, Zenon DEF kill, LockHeld, AsleepMeansEmpty
  <1> QED
    BY <1>2, <1>3, <1>4, <1>5, <1>6, Zenon

(* A character is taken, or a ^D left for the next call. *)
LEMMA TakeIInv ==
  ASSUME ConsoleAssumption, IInv, NEW p \in Readers, Take(p)
  PROVE  IInv'
  <1>1. TypeOK /\ Counted /\ Placed /\ Unended /\ LockHeld /\ AsleepMeansEmpty
    BY Zenon DEF IInv
  <1>2. /\ pc \in [Readers -> {"user", "loop", "entering", "asleep", "woken"}]
        /\ lock \in Readers \cup {None} /\ None \notin Readers
    BY <1>1, Zenon DEF TypeOK, ConsoleAssumption
  <1>3. pc[p] = "loop" /\ r # w /\ UNCHANGED <<buf, w, e, killed, line>>
    BY Zenon DEF Take
  <1>4. (lock' = lock /\ pc' = pc) \/ (lock' = None /\ pc' = [pc EXCEPT ![p] = "user"])
    BY Zenon DEF Take, Return
  <1>5. /\ lock' \in Readers \cup {None} /\ LockHeld'
        /\ pc' \in [Readers -> {"user", "loop", "entering", "asleep", "woken"}]
    BY <1>1, <1>2, <1>3, <1>4, Zenon DEF LockHeld
  <1>6. AsleepMeansEmpty'
    BY <1>1, <1>2, <1>3, <1>4, Zenon DEF AsleepMeansEmpty
  <1>7. (r' = r /\ ready' = ready) \/ (r' = (r + 1) % Wrap /\ ready' = Tail(ready))
    BY Zenon DEF Take
  <1>8. CASE r' = r /\ ready' = ready
    BY <1>3, <1>5, <1>6, <1>8, SameBuffer, Zenon
  <1>9. CASE r' = (r + 1) % Wrap /\ ready' = Tail(ready)
    <2>1. /\ Len(ready) \in 0..INPUT_BUF /\ Len(line) \in Nat /\ Held \in 0..INPUT_BUF
          /\ Held = Len(ready) + Len(line) /\ INPUT_BUF \in Nat \ {0} /\ Wrap \in Nat \ {0}
          /\ r \in 0..(Wrap - 1) /\ Len(ready) # 0
      BY <1>1, <1>3, Positions DEF Held, ConsoleAssumption, TypeOK
    <2>2. /\ ready' \in Seq(Chars) /\ Len(ready') = Len(ready) - 1
          /\ \A i \in 1..(Len(ready) + Len(line) - 1) :
               CharIn(ready', line, i) = CharIn(ready, line, i + 1)
      BY <1>1, <1>9, <2>1, FirstTaken DEF TypeOK
    <2>3. Held' = Held - 1
      BY <1>3, <2>1, <2>2 DEF Held
    <2>4. r' \in 0..(Wrap - 1)
      <3>1. r + 1 \in Int
        BY <2>1
      <3> QED
        BY <1>9, <2>1, <3>1, Division, Zenon
    <2>5. TypeOK'
      BY <1>1, <1>3, <1>5, <2>2, <2>4, Zenon DEF TypeOK
    <2>6. Counted'
      <3>1. /\ Len(ready) - 1 \in 0..(INPUT_BUF - 1) /\ Len(ready) - 1 + 1 = Len(ready)
            /\ Held - 1 \in 0..(INPUT_BUF - 1) /\ Held - 1 + 1 = Held
        BY <2>1
      <3>2. (((r + 1) % Wrap) + (Len(ready) - 1)) % Wrap = (r + (Len(ready) - 1 + 1)) % Wrap
        BY <2>1, <3>1, Onward, Zenon
      <3>3. (((r + 1) % Wrap) + (Held - 1)) % Wrap = (r + (Held - 1 + 1)) % Wrap
        BY <2>1, <3>1, Onward, Zenon
      <3>4. w' = (r' + Len(ready')) % Wrap /\ e' = (r' + Held') % Wrap
        BY <1>1, <1>3, <1>9, <2>2, <2>3, <3>1, <3>2, <3>3, Zenon DEF Counted
      <3>5. Held' < INPUT_BUF
        BY <2>1, <2>3
      <3> QED
        BY <2>1, <2>3, <3>4, <3>5 DEF Counted
    <2>7. Placed'
      <3>1. ASSUME NEW i \in 0..(Held' - 1)
            PROVE  buf[At(r' + i)] = CharIn(ready', line, i + 1)
        <4>1. /\ i + 1 \in 0..(Held - 1) /\ i + 1 \in 1..(Len(ready) + Len(line) - 1)
              /\ r + 1 \in Int /\ i \in Int /\ r + 1 + i = r + (i + 1)
          BY <2>1, <2>3
        <4>2. At(r' + i) = At(r + (i + 1))
          BY <1>9, <4>1, Indexed, Zenon
        <4>3. buf[At(r + (i + 1))] = CharIn(ready, line, i + 1 + 1)
          BY <1>1, <4>1, Zenon DEF Placed
        <4> QED
          BY <2>2, <4>1, <4>2, <4>3, Zenon
      <3> QED
        BY <1>3, <3>1, Zenon DEF Placed, At
    <2>8. Unended'
      BY <1>1, <1>3, Zenon DEF Unended
    <2> QED
      BY <1>5, <1>6, <2>5, <2>6, <2>7, <2>8, Zenon DEF IInv
  <1> QED
    BY <1>7, <1>8, <1>9, Zenon

------------------------------------------------------------------------------
(* The console starts empty. *)
LEMMA InitIInv == ASSUME ConsoleAssumption, Init PROVE IInv
  <1>1. INPUT_BUF \in Nat \ {0} /\ Wrap \in Nat \ {0} /\ 0 \in 0..(Wrap - 1) /\ None \notin Readers
    BY DEF ConsoleAssumption
  <1>2. Len(ready) = 0 /\ Len(line) = 0 /\ Held = 0
    BY DEF Init, Held
  <1>3. (0 + 0) % Wrap = 0
    BY <1>1, Shifted
  <1>4. TypeOK
    BY <1>1 DEF Init, TypeOK
  <1>5. Counted
    BY <1>1, <1>2, <1>3 DEF Init, Counted
  <1>6. Placed /\ Unended
    BY <1>2 DEF Placed, Unended
  <1>7. LockHeld /\ AsleepMeansEmpty
    BY <1>1, Zenon DEF Init, LockHeld, AsleepMeansEmpty
  <1> QED
    BY <1>4, <1>5, <1>6, <1>7, Zenon DEF IInv

(* Every step of the handler, of a reader or of kill() keeps the invariant. *)
LEMMA NextIInv == ASSUME ConsoleAssumption, IInv, [Next]_vars PROVE IInv'
  <1>1. CASE UNCHANGED vars
    BY <1>1, SameBuffer, Zenon DEF vars, IInv, TypeOK, LockHeld, AsleepMeansEmpty
  <1>2. CASE \E c \in Letters \cup {Newline, EOF, KillLine, Backspace} : consoleintr(c)
    BY <1>2, IntrIInv, Zenon
  <1>3. CASE \E p \in Readers : (\E size \in Sizes : consoleread(p, size)) \/ Step(p) \/ kill(p)
    BY <1>3, ReaderIInv, TakeIInv, Zenon DEF Step
  <1> QED
    BY <1>1, <1>2, <1>3, Zenon DEF Next

(* The invariant holds, for every buffer and any number of readers. *)
THEOREM ConsoleInvariance == ASSUME ConsoleAssumption PROVE Spec => []IInv
  <1>1. Init => IInv
    BY InitIInv, Zenon
  <1>2. IInv /\ [Next]_vars => IInv'
    BY NextIInv, Zenon
  <1> QED
    BY <1>1, <1>2, PTL DEF Spec

(* consoleintr() and consoleread() together are the ideal line editor: no      *)
(* character is lost, doubled or out of order, wherever the counters wrap.     *)
THEOREM ConsoleIsEditor == ASSUME ConsoleAssumption PROVE Spec => []EditorAgrees
  <1>1. IInv => EditorAgrees
    <2> SUFFICES ASSUME IInv PROVE EditorAgrees
      BY Zenon
    <2>1. TypeOK /\ Counted /\ Placed
      BY Zenon DEF IInv
    <2>2. /\ Len(ready) \in Nat /\ Len(line) \in Nat /\ Held = Len(ready) + Len(line)
          /\ Dist(r, w) = Len(ready) /\ Dist(w, e) = Len(line) /\ r \in Int
      BY <2>1, Positions DEF Held, TypeOK
    <2>3. ASSUME NEW i \in 1..Len(ready) PROVE buf[At(r + i - 1)] = ready[i]
      <3>1. /\ i - 1 \in 0..(Held - 1) /\ r + i - 1 = r + (i - 1)
            /\ i - 1 + 1 = i /\ i <= Len(ready)
        BY <2>2
      <3> QED
        BY <2>1, <3>1, Zenon DEF Placed, CharIn
    <2>4. ASSUME NEW i \in 1..Len(line) PROVE buf[At(w + i - 1)] = line[i]
      <3>1. /\ Len(ready) + i - 1 \in 0..(Held - 1) /\ Len(ready) + i - 1 + 1 = Len(ready) + i
            /\ ~(Len(ready) + i <= Len(ready)) /\ Len(ready) + i - Len(ready) = i
            /\ r + Len(ready) \in Int /\ i - 1 \in Int
            /\ r + Len(ready) + (i - 1) = r + (Len(ready) + i - 1)
        BY <2>2
      <3>2. w = (r + Len(ready)) % Wrap
        BY <2>1, Zenon DEF Counted
      <3>3. w \in Int
        BY <3>1, <3>2, Division DEF ConsoleAssumption
      <3>4. w + i - 1 = w + (i - 1)
        BY <3>3, Zenon
      <3>5. At(w + i - 1) = At(r + (Len(ready) + i - 1))
        BY <3>1, <3>2, <3>4, Indexed, Zenon
      <3> QED
        BY <2>1, <3>1, <3>5 DEF Placed, CharIn
    <2> QED
      BY <2>2, <2>3, <2>4, Zenon DEF EditorAgrees
  <1> QED
    BY <1>1, ConsoleInvariance, PTL

(* A full buffer has something to read: keyboard and reader never wait for     *)
(* each other.                                                                 *)
THEOREM FullBufferReadable == ASSUME ConsoleAssumption PROVE Spec => []FullIsReadable
  <1>1. IInv => FullIsReadable
    <2> SUFFICES ASSUME IInv, Dist(r, e) = INPUT_BUF, r = w PROVE FALSE
      BY Zenon DEF FullIsReadable
    <2>1. TypeOK /\ Counted
      BY Zenon DEF IInv
    <2>2. Held = INPUT_BUF /\ Len(ready) = 0
      BY <2>1, Positions, Zenon
    <2>3. Len(line) = 0
      BY <2>1, <2>2 DEF Counted
    <2> QED
      BY <2>2, <2>3 DEF Held, ConsoleAssumption
  <1> QED
    BY <1>1, ConsoleInvariance, PTL

(* No wakeup of a reader is lost: who sleeps has nothing to read. *)
THEOREM ReaderSleepsOnEmptyConsole == ASSUME ConsoleAssumption PROVE Spec => []AsleepMeansEmpty
  <1>1. IInv => AsleepMeansEmpty
    BY Zenon DEF IInv
  <1> QED
    BY <1>1, ConsoleInvariance, PTL
==============================================================================
