------------------------------- MODULE Console -------------------------------
(* Console input: consoleintr() and consoleread() of console.c, around the     *)
(* circular buffer input.buf with its three counters.  cons.lock is held by    *)
(* the interrupt handler for a character and by a reader from its acquire to   *)
(* its return or its sleep; kill() does not need it.  The echo and the return  *)
(* of ilock() are left out.                                                    *)
EXTENDS Integers, Sequences

CONSTANTS
  Readers, None,
  INPUT_BUF,
  Wrap,       \* 2^32, a multiple of INPUT_BUF: the counters are uint
  Letters,    \* characters without a meaning to the console
  Sizes       \* the n of a read

(* What the proofs need of the constants. *)
ConsoleAssumption ==
  /\ INPUT_BUF \in Nat \ {0} /\ Wrap \in Nat /\ INPUT_BUF < Wrap
  /\ Wrap % INPUT_BUF = 0
  /\ None \notin Readers

Newline == "\n"
EOF == "^D"
KillLine == "^U"
Backspace == "^H"

VARIABLES
  buf, r, w, e,
  lock,       \* the reader that holds cons.lock between two steps, or None
  pc,         \* "user", "loop", "entering" sleep(), "asleep", "woken"
  n, target,
  killed,
  ready,      \* an ideal editor's input: the characters to read, ...
  line        \* ... and the line that can still be edited

vars == <<buf, r, w, e, lock, pc, n, target, killed, ready, line>>

At(i) == i % INPUT_BUF
Dist(i, j) == (j - i) % Wrap

Init ==
  /\ buf = [i \in 0 .. INPUT_BUF - 1 |-> None]
  /\ r = 0 /\ w = 0 /\ e = 0
  /\ lock = None
  /\ pc = [p \in Readers |-> "user"]
  /\ n = [p \in Readers |-> 0] /\ target = [p \in Readers |-> 0]
  /\ killed = {}
  /\ ready = <<>> /\ line = <<>>

wakeup(was) == [p \in Readers |-> IF was[p] = "asleep" THEN "woken" ELSE was[p]]

(* ^U: back to the last newline, but not past w. *)
KillLineFrom(i) ==
  LET stops == {k \in 0 .. Dist(w, i) :
                  k = Dist(w, i) \/ buf[At(i - 1 - k)] = Newline}
  IN (i - CHOOSE k \in stops : \A j \in stops : k <= j) % Wrap

(* Backspace *)
EraseFromPastW(i) == IF i # r THEN (i - 1) % Wrap ELSE i

EraseFrom(i) == IF i # w THEN (i - 1) % Wrap ELSE i

CommitsLinesOnly(c, i) == c \in {Newline, EOF}

(* c, stored in front of i, makes the line available. *)
Commits(c, i) == c \in {Newline, EOF} \/ i = (r + INPUT_BUF) % Wrap

(* A character of the default case. *)
Store(c) ==
  LET next == (e + 1) % Wrap
      text == Append(line, c)
  IN /\ Dist(r, e) < INPUT_BUF
     /\ buf' = [buf EXCEPT ![At(e)] = c]
     /\ e' = next
     /\ IF Commits(c, next)
        THEN w' = next /\ pc' = wakeup(pc)
        ELSE UNCHANGED <<w, pc>>
     /\ IF c \in {Newline, EOF} \/ Len(ready) + Len(text) = INPUT_BUF
        THEN ready' = ready \o text /\ line' = <<>>
        ELSE ready' = ready /\ line' = text

consoleintr(c) ==
  /\ lock = None
  /\ CASE c = KillLine  -> e' = KillLineFrom(e) /\ line' = <<>>
                           /\ UNCHANGED <<buf, w, pc, ready>>
       [] c = Backspace -> e' = EraseFrom(e)
                           /\ line' = SubSeq(line, 1, Len(line) - 1)
                           /\ UNCHANGED <<buf, w, pc, ready>>
       [] OTHER         -> Store(c)
  /\ UNCHANGED <<r, lock, n, target, killed>>

consoleread(p, size) ==
  /\ pc[p] = "user" /\ p \notin killed /\ lock = None
  /\ lock' = p
  /\ pc' = [pc EXCEPT ![p] = "loop"]
  /\ n' = [n EXCEPT ![p] = size] /\ target' = [target EXCEPT ![p] = size]
  /\ UNCHANGED <<buf, r, w, e, killed, ready, line>>

Return(p) ==
  /\ lock' = None
  /\ pc' = [pc EXCEPT ![p] = "user"]
  /\ n' = [n EXCEPT ![p] = 0] /\ target' = [target EXCEPT ![p] = 0]

EmptyUnlocks(p) ==
  /\ pc[p] = "loop" /\ r = w
  /\ IF p \in killed THEN Return(p)
     ELSE pc' = [pc EXCEPT ![p] = "entering"] /\ lock' = None /\ UNCHANGED <<n, target>>
  /\ UNCHANGED <<buf, r, w, e, killed, ready, line>>

(* The inner loop, when there is nothing to read. *)
Empty(p) ==
  /\ pc[p] = "loop" /\ r = w
  /\ IF p \in killed THEN Return(p)
     ELSE pc' = [pc EXCEPT ![p] = "entering"] /\ UNCHANGED <<lock, n, target>>
  /\ UNCHANGED <<buf, r, w, e, killed, ready, line>>

(* A turn of the outer loop.  A ^D behind other characters stays for the next  *)
(* call.                                                                       *)
Take(p) ==
  LET c == buf[At(r)]
      keeps == c = EOF /\ n[p] < target[p]
  IN /\ pc[p] = "loop" /\ r # w
     /\ r' = IF keeps THEN r ELSE (r + 1) % Wrap
     /\ ready' = IF keeps THEN ready ELSE Tail(ready)
     /\ IF c \in {Newline, EOF} \/ n[p] = 1 THEN Return(p)
        ELSE n' = [n EXCEPT ![p] = @ - 1] /\ UNCHANGED <<lock, pc, target>>
     /\ UNCHANGED <<buf, w, e, killed, line>>

(* sleep(): SLEEPING and cons.lock released; and its end. *)
Sleep(p) ==
  /\ pc[p] = "entering"
  /\ pc' = [pc EXCEPT ![p] = "asleep"]
  /\ lock' = None
  /\ UNCHANGED <<buf, r, w, e, n, target, killed, ready, line>>

Wake(p) ==
  /\ pc[p] = "woken" /\ lock = None
  /\ pc' = [pc EXCEPT ![p] = "loop"]
  /\ lock' = p
  /\ UNCHANGED <<buf, r, w, e, n, target, killed, ready, line>>

kill(p) ==
  /\ p \notin killed /\ pc[p] # "user"
  /\ killed' = killed \cup {p}
  /\ pc' = IF pc[p] = "asleep" THEN [pc EXCEPT ![p] = "woken"] ELSE pc
  /\ UNCHANGED <<buf, r, w, e, lock, n, target, ready, line>>

Step(p) == Empty(p) \/ Take(p) \/ Sleep(p) \/ Wake(p)

Next ==
  \/ \E c \in Letters \cup {Newline, EOF, KillLine, Backspace} : consoleintr(c)
  \/ \E p \in Readers :
       (\E size \in Sizes : consoleread(p, size)) \/ Step(p) \/ kill(p)

Spec == Init /\ [][Next]_vars

------------------------------------------------------------------------------
(* The buffer and its counters are the ideal line editor: what the user has    *)
(* entered and not yet read lies between r and w, the line that can be edited  *)
(* between w and e, with every character in its place as the counters wrap     *)
(* around; no key changes a line that has been entered.                        *)
EditorAgrees ==
  /\ Dist(r, w) = Len(ready) /\ Dist(w, e) = Len(line)
  /\ \A i \in 1 .. Len(ready) : buf[At(r + i - 1)] = ready[i]
  /\ \A i \in 1 .. Len(line) : buf[At(w + i - 1)] = line[i]

(* A full buffer can be read, so input never comes to a standstill with a      *)
(* reader that waits for a line and a keyboard whose keys are dropped.         *)
FullIsReadable == Dist(r, e) = INPUT_BUF => r # w

(* A reader sleeps only while there is nothing to read: no wakeup is lost,     *)
(* whichever reader took the characters.                                       *)
AsleepMeansEmpty == \A p \in Readers : pc[p] \in {"entering", "asleep"} => r = w
==============================================================================
