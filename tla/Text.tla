--------------------------------- MODULE Text ---------------------------------
(* Output: printint() and cprintf() of console.c, printint() and printf() of   *)
(* printf.c, which programs use, and the screen of cgaputc() in console.c.     *)
(* A digit is written as its value, which leaves out that one printint() has   *)
(* small hexadecimal digits and the other capitals.                            *)
LOCAL INSTANCE Integers
LOCAL INSTANCE Sequences
LOCAL INSTANCE SequencesExt

CONSTANTS
  Bits,       \* the width of an int, 32
  COLS, ROWS  \* 80 and 25

Unsigned(xx) == xx % 2^Bits

(* The digits that the do-while loop leaves in buf, the last one first. *)
RECURSIVE Digits(_, _)
Digits(x, base) ==
  <<x % base>> \o (IF x \div base = 0 THEN <<>> ELSE Digits(x \div base, base))

printintUnsigned(xx, base, sign) ==
  (IF sign /\ xx < 0 THEN <<"-">> ELSE <<>>) \o Reverse(Digits(Unsigned(xx), base))

(* console.c *)
printint(xx, base, sign) ==
  LET neg == sign /\ xx < 0
  IN (IF neg THEN <<"-">> ELSE <<>>)
     \o Reverse(Digits(Unsigned(IF neg THEN -xx ELSE xx), base))

(* One turn of cprintf's loop at fmt[i], with the output so far. *)
RECURSIVE Format(_, _, _, _)
Format(fmt, i, args, out) ==
  IF i > Len(fmt) THEN out
  ELSE IF fmt[i] # "%" THEN Format(fmt, i + 1, args, Append(out, fmt[i]))
  ELSE IF i = Len(fmt) THEN out
  ELSE CASE fmt[i + 1] = "d" -> Format(fmt, i + 2, Tail(args), out \o printint(Head(args), 10, TRUE))
         [] fmt[i + 1] \in {"x", "p"} ->
              Format(fmt, i + 2, Tail(args), out \o printint(Head(args), 16, FALSE))
         [] fmt[i + 1] = "s" -> Format(fmt, i + 2, Tail(args), Append(out, <<"string", Head(args)>>))
         [] fmt[i + 1] = "%" -> Format(fmt, i + 2, args, Append(out, "%"))
         [] OTHER -> Format(fmt, i + 2, args, out \o <<"%", fmt[i + 1]>>)

cprintf(fmt, args) == Format(fmt, 1, args, <<>>)

user_printintUnsigned(xx, base, sgn) == Reverse(Digits(Unsigned(xx), base))

(* printf.c *)
user_printint(xx, base, sgn) ==
  IF sgn /\ xx < 0 THEN <<"-">> \o Reverse(Digits(Unsigned(-xx), base))
  ELSE Reverse(Digits(Unsigned(xx), base))

(* printf() goes from character to character with state = 0 or '%'. *)
user_printf(fmt, args) ==
  LET Put(st, c) ==
        CASE ~st.percent /\ c = "%" -> [st EXCEPT !.percent = TRUE]
          [] ~st.percent /\ c # "%" -> [st EXCEPT !.out = Append(@, c)]
          [] st.percent /\ c = "d" ->
               [percent |-> FALSE, args |-> Tail(st.args),
                out |-> st.out \o user_printint(Head(st.args), 10, TRUE)]
          [] st.percent /\ c \in {"x", "p"} ->
               [percent |-> FALSE, args |-> Tail(st.args),
                out |-> st.out \o user_printint(Head(st.args), 16, FALSE)]
          [] st.percent /\ c = "s" ->
               [percent |-> FALSE, args |-> Tail(st.args),
                out |-> Append(st.out, <<"string", Head(st.args)>>)]
          [] st.percent /\ c = "c" ->
               [percent |-> FALSE, args |-> Tail(st.args),
                out |-> Append(st.out, <<"char", Head(st.args)>>)]
          [] st.percent /\ c = "%" -> [st EXCEPT !.percent = FALSE, !.out = Append(@, "%")]
          [] OTHER -> [st EXCEPT !.percent = FALSE, !.out = @ \o <<"%", c>>]
  IN FoldLeft(Put, [percent |-> FALSE, args |-> args, out |-> <<>>], fmt).out

------------------------------------------------------------------------------
(* The screen: [crt, pos] *)

Blank == " "
BACKSPACE == "BACKSPACE"
Cells == 0 .. ROWS * COLS

NewScreen == [crt |-> [i \in Cells |-> Blank], pos |-> 0]

(* Put a character, go to the next row, or go back. *)
Moved(scr, c) ==
  CASE c = "\n" -> [scr EXCEPT !.pos = @ + (COLS - (@ % COLS))]
    [] c = BACKSPACE -> [scr EXCEPT !.pos = IF @ > 0 THEN @ - 1 ELSE @]
    [] OTHER -> [crt |-> [scr.crt EXCEPT ![scr.pos] = c], pos |-> scr.pos + 1]

ScrollKeepsLastRow(scr) ==
  IF scr.pos \div COLS < ROWS - 1 THEN scr
  ELSE [crt |-> [i \in Cells |-> IF i < (ROWS - 2) * COLS THEN scr.crt[i + COLS] ELSE scr.crt[i]],
        pos |-> scr.pos - COLS]

(* memmove() of the rows but the first, memset() from the new position on. *)
Scroll(scr) ==
  IF scr.pos \div COLS < ROWS - 1 THEN scr
  ELSE LET pos == scr.pos - COLS
       IN [crt |-> [i \in Cells |-> CASE i >= pos /\ i < (ROWS - 1) * COLS -> Blank
                                      [] i < (ROWS - 2) * COLS /\ i < pos -> scr.crt[i + COLS]
                                      [] OTHER -> scr.crt[i]],
           pos |-> pos]

cgaputc(scr, c) ==
  LET next == Scroll(Moved(scr, c)) IN [next EXCEPT !.crt[next.pos] = Blank]

------------------------------------------------------------------------------
Value(digits, base) == FoldLeft(LAMBDA v, d : v * base + d, 0, digits)

(* printint() writes a numeral of the number, the smallest int included, which *)
(* has no negative: -xx is taken to uint.                                      *)
NumeralsRight(xx) ==
  LET d == printint(xx, 10, TRUE)
      x == printint(xx, 16, FALSE)
  IN /\ IF xx < 0 THEN d[1] = "-" /\ Value(Tail(d), 10) = -xx ELSE Value(d, 10) = xx
     /\ Value(x, 16) = xx % 2^Bits

Conversions(fmt) == {i \in 1 .. Len(fmt) - 1 : fmt[i] = "%" /\ fmt[i + 1] = "c"}

(* The kernel's cprintf() and the programs' printf() understand a format the   *)
(* same way, with its lone % at the end and its unknown letters, unless it has *)
(* a %c, for which cprintf() takes no argument.                                *)
FormatsAgree(fmt, args) ==
  Conversions(fmt) = {} => cprintf(fmt, args) = user_printf(fmt, args)

(* A tape without end, the place on it and the row that the screen starts at.  *)
Tape(text) ==
  LET Put(t, c) ==
        LET pos == CASE c = "\n" -> t.pos + (COLS - (t.pos % COLS))
                     [] c = BACKSPACE -> IF t.pos > t.top * COLS THEN t.pos - 1 ELSE t.pos
                     [] OTHER -> t.pos + 1
        IN [pos |-> pos,
            top |-> IF pos \div COLS - t.top >= ROWS - 1 THEN t.top + 1 ELSE t.top,
            cells |-> [i \in 1 .. pos |-> IF i = pos /\ c \notin {"\n", BACKSPACE} THEN c
                                         ELSE IF i <= Len(t.cells) THEN t.cells[i] ELSE Blank]]
  IN FoldLeft(Put, [pos |-> 0, top |-> 0, cells |-> <<>>], text)

(* The screen is the tape's last rows: what was written is where it belongs,   *)
(* what was erased is gone, and a row that scrolls in is blank.                *)
ScreenRight(text) ==
  LET scr == FoldLeft(cgaputc, NewScreen, text)
      tape == Tape(text)
  IN /\ scr.pos = tape.pos - tape.top * COLS
     /\ \A i \in 0 .. (ROWS - 1) * COLS - 1 :
          scr.crt[i] = IF i < scr.pos THEN tape.cells[tape.top * COLS + i + 1] ELSE Blank
==============================================================================
