--------------------------------- MODULE Grep ---------------------------------
(* grep.c: the regular expression matcher and the loop that cuts what read()   *)
(* returns into lines.  Strings are sequences of characters.                   *)
LOCAL INSTANCE Integers
LOCAL INSTANCE Sequences
LOCAL INSTANCE SequencesExt
LOCAL INSTANCE FiniteSetsExt

CONSTANT BUFSIZE  \* sizeof(buf)

From(s, i) == SubSeq(s, i, Len(s))

MatchesOne(c, text) == text # <<>> /\ c \in {".", text[1]}

RECURSIVE matchhere(_, _), matchstar(_, _, _)

matchhere(re, text) ==
  IF re = <<>> THEN TRUE
  ELSE IF Len(re) > 1 /\ re[2] = "*" THEN matchstar(re[1], From(re, 3), text)
  ELSE IF re = <<"$">> THEN text = <<>>
  ELSE MatchesOne(re[1], text) /\ matchhere(From(re, 2), From(text, 2))

matchplus(c, re, text) ==
  MatchesOne(c, text) /\ (matchhere(re, From(text, 2)) \/ matchstar(c, re, From(text, 2)))

matchstar(c, re, text) ==
  \/ matchhere(re, text)
  \/ MatchesOne(c, text) /\ matchstar(c, re, From(text, 2))

match(re, text) ==
  IF re # <<>> /\ re[1] = "^" THEN matchhere(From(re, 2), text)
  ELSE \E i \in 1..(Len(text) + 1) : matchhere(re, From(text, i))

Newlines(s) == {i \in DOMAIN s : s[i] = "\n"}

(* The complete lines of s, without their newlines. *)
RECURSIVE Lines(_)
Lines(s) ==
  IF Newlines(s) = {} THEN <<>>
  ELSE <<SubSeq(s, 1, Min(Newlines(s)) - 1)>> \o Lines(From(s, Min(Newlines(s)) + 1))

(* What stays in buf for the next read(): a line that has begun, unless it     *)
(* begins the buffer.                                                          *)
KeptNothing(buf) == <<>>

Kept(buf) == IF Newlines(buf) = {} THEN <<>> ELSE From(buf, Max(Newlines(buf)) + 1)

(* What read() may put behind the kept characters: a place in buf is left for  *)
(* the zero that ends the string.                                              *)
RoomToTheEnd(kept) == BUFSIZE - Len(kept)

Room(kept) == BUFSIZE - Len(kept) - 1

(* The parts of the input that are left when read() has returned n characters. *)
Left(parts, n) ==
  IF n < Len(parts[1]) THEN <<From(parts[1], n + 1)>> \o Tail(parts) ELSE Tail(parts)

(* grep() from the point where buf holds the kept characters and the input,    *)
(* which arrives in parts, none of them empty, is still to be read: for each   *)
(* turn of the loop what read() returned, m and the lines written.             *)
RECURSIVE grep(_, _, _)
grep(pattern, kept, parts) ==
  IF parts = <<>> \/ Room(kept) = 0 THEN <<>>
  ELSE LET n == Min({Room(kept), Len(parts[1])})
           buf == kept \o SubSeq(parts[1], 1, n)
       IN <<[got |-> SubSeq(parts[1], 1, n),
             m |-> Len(buf),
             wrote |-> SelectSeq(Lines(buf), LAMBDA line : match(pattern, line))]>>
            \o grep(pattern, Kept(buf), Left(parts, n))

------------------------------------------------------------------------------
(* A regular expression as a sequence of characters, stars and the end. *)
RECURSIVE Items(_)
Items(re) ==
  IF re = <<>> THEN <<>>
  ELSE IF Len(re) > 1 /\ re[2] = "*" THEN <<[kind |-> "star", c |-> re[1]]>> \o Items(From(re, 3))
  ELSE IF re = <<"$">> THEN <<[kind |-> "end", c |-> "$"]>>
  ELSE <<[kind |-> "one", c |-> re[1]]>> \o Items(From(re, 2))

(* text can be cut into pieces, one per item, from its start on. *)
Fits(items, text) ==
  \E cut \in [0..Len(items) -> 0..Len(text)] :
    /\ cut[0] = 0
    /\ \A k \in DOMAIN items :
         LET piece == SubSeq(text, cut[k - 1] + 1, cut[k])
         IN /\ cut[k] >= cut[k - 1]
            /\ \A j \in DOMAIN piece : items[k].c \in {".", piece[j]}
            /\ items[k].kind = "one" => Len(piece) = 1
            /\ items[k].kind = "end" => piece = <<>> /\ cut[k] = Len(text)

(* match() finds a place where the text fits the expression, at the beginning  *)
(* if it starts with ^, exactly if there is one.                               *)
MatchesExpression(re, text) ==
  match(re, text) <=>
    IF re # <<>> /\ re[1] = "^" THEN Fits(Items(From(re, 2)), text)
    ELSE \E i \in 1..(Len(text) + 1) : Fits(Items(re), From(text, i))

(* How much of the input the first k reads returned, and the read that         *)
(* returned its i-th character.                                                *)
ReadBy(turns, k) == Len(FlattenSeq([j \in 1..k |-> turns[j].got]))

ReadOf(turns, i) == Min({k \in 0..Len(turns) : ReadBy(turns, k) >= i})

(* Where grep() takes the line to begin that lies between two newlines of the  *)
(* input: at its beginning if its newline came with the read that returned the *)
(* newline before it, or with the next one; otherwise the reads in between     *)
(* have made it drop all but what the read with its newline brought.           *)
LineBegins(turns, before, newline) ==
  IF ReadOf(turns, newline) <= ReadOf(turns, before) + 1 THEN before + 1
  ELSE ReadBy(turns, ReadOf(turns, newline) - 1) + 1

(* However the input arrives, grep() reads all of it, the zero it writes after *)
(* each read stays within buf, and it writes the lines that match.  A read     *)
(* that brings no newline drops all there is of a line so far (grep.c:29): the *)
(* line is then the rest that LineBegins() says, and otherwise it is whole.    *)
GrepsLines(pattern, parts) ==
  LET text == FlattenSeq(parts)
      ends == <<0>> \o SetToSortSeq(Newlines(text), <)
  IN \A turns \in {grep(pattern, <<>>, parts)} :
       /\ FlattenSeq([k \in DOMAIN turns |-> turns[k].got]) = text
       /\ \A k \in DOMAIN turns : turns[k].m < BUFSIZE
       /\ FlattenSeq([k \in DOMAIN turns |-> turns[k].wrote]) =
            SelectSeq([l \in 1..(Len(ends) - 1) |->
                         SubSeq(text, LineBegins(turns, ends[l], ends[l + 1]), ends[l + 1] - 1)],
                      LAMBDA line : match(pattern, line))
==============================================================================
