-------------------------------- MODULE Shell --------------------------------
(* sh.c: the tokens and the parser of a command line, the terminators that     *)
(* nulterminate() writes into it, and the descriptors with which runcmd() runs *)
(* each command.  A line is a sequence of characters, a pointer into it an     *)
(* index, a parsing function returns [cmd, s], with s = Panicked when it ends  *)
(* in panic().                                                                 *)
LOCAL INSTANCE Integers
LOCAL INSTANCE Sequences
LOCAL INSTANCE SequencesExt
LOCAL INSTANCE FiniteSetsExt

CONSTANTS MAXARGS, NOFILE

(* \v as well, which no character of a line here stands for. *)
whitespace == {" ", "\t", "\r", "\n"}
symbols == {"<", "|", ">", "&", ";", "(", ")"}
NUL == ""
Panicked == 0

At(line, s) == IF s <= Len(line) THEN line[s] ELSE NUL

(* The first position from s on whose character is not in S. *)
Skip(line, s, S) == Min({i \in s .. Len(line) + 1 : At(line, i) \notin S})

WordEnd(line, s) ==
  Min({i \in s .. Len(line) + 1 : At(line, i) \in whitespace \cup symbols \cup {NUL}})

TokenAt(line, q) ==
  LET c == At(line, q)
      double == c = ">" /\ At(line, q + 1) = ">"
      tok == IF double THEN "+" ELSE IF c \in symbols \cup {NUL} THEN c ELSE "a"
      eq == CASE c = NUL -> q
              [] double -> q + 2
              [] c \in symbols /\ ~double -> q + 1
              [] OTHER -> WordEnd(line, q)
  IN [tok |-> tok, q |-> q, eq |-> eq, s |-> Skip(line, eq, whitespace)]

gettoken(line, s) == TokenAt(line, Skip(line, s, whitespace))

peek(line, s, toks) == At(line, Skip(line, s, whitespace)) \in toks

(* The constructors; a word or a file name is <<q, eq>>. *)
execcmd(argv) == [type |-> "EXEC", argv |-> argv]
redircmd(cmd, file, fd) == [type |-> "REDIR", cmd |-> cmd, file |-> file, fd |-> fd]
pipecmd(left, right) == [type |-> "PIPE", left |-> left, right |-> right]
listcmd(left, right) == [type |-> "LIST", left |-> left, right |-> right]
backcmd(cmd) == [type |-> "BACK", cmd |-> cmd]

Parsed(cmd, s) == [cmd |-> cmd, s |-> s]
Panic == Parsed(<<>>, Panicked)

(* >> opens the file in the mode of > *)
FdOf(tok) == IF tok = "<" THEN 0 ELSE 1

(* parseredirs() goes on from r = [cmd, s], where cmd is the list of the        *)
(* redirections to put around the command.                                     *)
AddRedir(r, op, file) ==
  IF file.tok # "a" THEN Panic
  ELSE Parsed(Append(r.cmd, [file |-> <<file.q, file.eq>>, fd |-> FdOf(op.tok)]), file.s)

RECURSIVE parseredirs(_, _)
parseredirs(line, r) ==
  IF r.s = Panicked \/ ~peek(line, r.s, {"<", ">"}) THEN r
  ELSE parseredirs(line, AddRedir(r, gettoken(line, r.s), gettoken(line, gettoken(line, r.s).s)))

Redirected(cmd, redirs) == FoldLeft(LAMBDA c, r : redircmd(c, r.file, r.fd), cmd, redirs)

RECURSIVE Arguments(_, _, _)
RECURSIVE parseline(_, _), parsepipe(_, _), Backs(_, _)

(* A turn of parseexec()'s loop, with the words and the redirections so far. *)
Argument(line, r, argv, tok) ==
  IF peek(line, r.s, {"|", ")", "&", ";"}) \/ tok.tok = NUL
  THEN Parsed(Redirected(execcmd(argv), r.cmd), tok.q)
  ELSE IF tok.tok # "a" \/ Len(argv) + 1 >= MAXARGS THEN Panic
  ELSE Arguments(line, parseredirs(line, Parsed(r.cmd, tok.s)), Append(argv, <<tok.q, tok.eq>>))

Arguments(line, r, argv) ==
  IF r.s = Panicked THEN Panic ELSE Argument(line, r, argv, gettoken(line, r.s))

Enclosed(body, redirs) ==
  IF redirs.s = Panicked THEN Panic ELSE Parsed(Redirected(body.cmd, redirs.cmd), redirs.s)

(* parseblock(), behind the body of the block *)
BlockEnd(line, body) ==
  IF body.s = Panicked \/ ~peek(line, body.s, {")"}) THEN Panic
  ELSE Enclosed(body, parseredirs(line, Parsed(<<>>, gettoken(line, body.s).s)))

parseblock(line, s) == BlockEnd(line, parseline(line, gettoken(line, s).s))

parseexec(line, s) ==
  IF peek(line, s, {"("}) THEN parseblock(line, s)
  ELSE Arguments(line, parseredirs(line, Parsed(<<>>, s)), <<>>)

(* A pipe or a list, once its right side is parsed. *)
Joined(node, right) ==
  IF right.s = Panicked THEN Panic ELSE Parsed([node EXCEPT !.right = right.cmd], right.s)

PipeFrom(line, left) ==
  IF left.s = Panicked \/ ~peek(line, left.s, {"|"}) THEN left
  ELSE Joined(pipecmd(left.cmd, <<>>), parsepipe(line, gettoken(line, left.s).s))

parsepipe(line, s) == PipeFrom(line, parseexec(line, s))

Backs(line, r) ==
  IF r.s = Panicked \/ ~peek(line, r.s, {"&"}) THEN r
  ELSE Backs(line, Parsed(backcmd(r.cmd), gettoken(line, r.s).s))

ListFromOnce(line, left) ==
  IF left.s = Panicked \/ ~peek(line, left.s, {";"}) THEN left
  ELSE Joined(listcmd(left.cmd, <<>>), parsepipe(line, gettoken(line, left.s).s))

ListFrom(line, left) ==
  IF left.s = Panicked \/ ~peek(line, left.s, {";"}) THEN left
  ELSE Joined(listcmd(left.cmd, <<>>), parseline(line, gettoken(line, left.s).s))

parseline(line, s) == ListFrom(line, Backs(line, parsepipe(line, s)))

(* The ends of the words of a command, where nulterminate() stores NUL. *)
RECURSIVE nulterminate(_)
nulterminateNoFiles(cmd) ==
  CASE cmd.type = "EXEC" -> {cmd.argv[i][2] : i \in DOMAIN cmd.argv}
    [] cmd.type \in {"REDIR", "BACK"} -> nulterminate(cmd.cmd)
    [] cmd.type \in {"PIPE", "LIST"} -> nulterminate(cmd.left) \cup nulterminate(cmd.right)

nulterminate(cmd) ==
  CASE cmd.type = "EXEC" -> {cmd.argv[i][2] : i \in DOMAIN cmd.argv}
    [] cmd.type = "REDIR" -> nulterminate(cmd.cmd) \cup {cmd.file[2]}
    [] cmd.type \in {"PIPE", "LIST"} -> nulterminate(cmd.left) \cup nulterminate(cmd.right)
    [] cmd.type = "BACK" -> nulterminate(cmd.cmd)

Whole(line, all) ==
  IF all.s # Panicked /\ Skip(line, all.s, whitespace) # Len(line) + 1 THEN Panic ELSE all

parsecmd(line) == Whole(line, parseline(line, 1))

------------------------------------------------------------------------------
(* runcmd().  A process is its descriptors; open(), dup() and pipe() take the  *)
(* lowest free ones.                                                           *)

Fds == 0 .. NOFILE - 1
Closed == <<>>

Lowest(fds) == Min({fd \in Fds : fds[fd] = Closed})
Close(fds, fd) == [fds EXCEPT ![fd] = Closed]
OpenAs(fds, what) == [fds EXCEPT ![Lowest(fds)] = what]

(* A child of a pipe command: close(end); dup(p[end]); close(p[0]); close(p[1]) *)
PipeChildKeepsWriteEnd(fds, p, end) ==
  Close(OpenAs(Close(fds, end), fds[p[end]]), p[0])

PipeChild(fds, p, end) ==
  Close(Close(OpenAs(Close(fds, end), fds[p[end]]), p[0]), p[1])

(* The commands that run, each with its place in the tree and its descriptors, *)
(* and the processes that wait for others ("wait" for the words).              *)
RECURSIVE runcmd(_, _, _)
runcmd(cmd, fds, at) ==
  CASE cmd.type = "EXEC" ->
         IF cmd.argv = <<>> THEN {} ELSE {[at |-> at, argv |-> cmd.argv, fds |-> fds]}
    [] cmd.type = "REDIR" ->
         runcmd(cmd.cmd, OpenAs(Close(fds, cmd.fd), <<"file", cmd.file>>), at)
    [] cmd.type = "LIST" ->
         runcmd(cmd.left, fds, Append(at, 0)) \cup runcmd(cmd.right, fds, Append(at, 1))
         \cup {[at |-> at, argv |-> <<>>, fds |-> fds]}
    [] cmd.type = "PIPE" ->
         LET p == [i \in {0, 1} |-> IF i = 0 THEN Lowest(fds) ELSE Lowest(OpenAs(fds, <<at>>))]
             both == [fds EXCEPT ![p[0]] = <<"read", at>>, ![p[1]] = <<"write", at>>]
         IN runcmd(cmd.left, PipeChild(both, p, 1), Append(at, 0))
            \cup runcmd(cmd.right, PipeChild(both, p, 0), Append(at, 1))
            \cup {[at |-> at, argv |-> <<>>, fds |-> Close(Close(both, p[0]), p[1])]}
    [] cmd.type = "BACK" -> runcmd(cmd.cmd, fds, Append(at, 0))

(* The shell's own descriptors: main() has opened three. *)
Console == <<"console">>
ShellFds == [fd \in Fds |-> IF fd < 3 THEN Console ELSE Closed]

------------------------------------------------------------------------------
(* The grammar, over the tokens of the line:                                   *)
(*   line = pipe {"&"} [";" line]     pipe = exec ["|" pipe]                   *)
(*   exec = {redir | word} | "(" line ")" {redir}                              *)
(* as the set of the trees that a sequence of tokens can have.                 *)

RECURSIVE Tokens(_, _)
Tokens(line, s) ==
  LET t == gettoken(line, s) IN IF t.tok = NUL THEN <<>> ELSE <<t>> \o Tokens(line, t.s)

Is(t, toks) == t.tok \in toks

IsRedir(t) == Is(t, {"<", ">", "+"})

(* ts as words and redirections: the tokens behind a < or > are its file. *)
FileAt(ts, i) == i > 1 /\ IsRedir(ts[i - 1])

WellFormed(ts) ==
  /\ \A i \in DOMAIN ts : Is(ts[i], {"a"}) \/ IsRedir(ts[i])
  /\ \A i \in DOMAIN ts : IsRedir(ts[i]) => i < Len(ts) /\ Is(ts[i + 1], {"a"})

Pick(ts, S) == LET order == SetToSortSeq(S, LAMBDA i, j : i < j)
               IN [k \in DOMAIN order |-> <<ts[order[k]].q, ts[order[k]].eq>>]

WordsOf(ts) == Pick(ts, {i \in DOMAIN ts : Is(ts[i], {"a"}) /\ ~FileAt(ts, i)})

Redirs(ts) ==
  LET at == SetToSortSeq({i \in DOMAIN ts : IsRedir(ts[i])}, LAMBDA i, j : i < j)
  IN [k \in DOMAIN at |-> [file |-> <<ts[at[k] + 1].q, ts[at[k] + 1].eq>>,
                           fd |-> IF ts[at[k]].tok = "<" THEN 0 ELSE 1]]

First(ts, n) == SubSeq(ts, 1, n)
Rest(ts, n) == SubSeq(ts, n + 1, Len(ts))

RECURSIVE Lines(_), Pipes(_), Backgrounds(_)

Execs(ts) ==
  {Redirected(execcmd(WordsOf(ts)), Redirs(ts)) :
     x \in {y \in {1} : WellFormed(ts) /\ Len(WordsOf(ts)) < MAXARGS}}
  \cup UNION {{Redirected(cmd, Redirs(Rest(ts, n))) : cmd \in Lines(SubSeq(ts, 2, n - 1))} :
     n \in {k \in 2 .. Len(ts) : /\ Is(ts[1], {"("}) /\ Is(ts[k], {")"})
                                 /\ WellFormed(Rest(ts, k)) /\ WordsOf(Rest(ts, k)) = <<>>}}

Pipes(ts) ==
  Execs(ts) \cup UNION {{pipecmd(l, r) : l \in Execs(First(ts, n - 1)), r \in Pipes(Rest(ts, n))} :
                         n \in {k \in DOMAIN ts : Is(ts[k], {"|"})}}

Backgrounds(ts) ==
  Pipes(ts) \cup (IF ts # <<>> /\ Is(ts[Len(ts)], {"&"})
                  THEN {backcmd(c) : c \in Backgrounds(First(ts, Len(ts) - 1))} ELSE {})

Lines(ts) ==
  Backgrounds(ts)
  \cup UNION {{listcmd(l, r) : l \in Backgrounds(First(ts, n - 1)), r \in Lines(Rest(ts, n))} :
              n \in {k \in DOMAIN ts : Is(ts[k], {";"})}}

(* The recursive-descent parser accepts the lines of the grammar, each with    *)
(* its one tree, and panics on the others.                                     *)
ParsesShellGrammar(line, all) ==
  Lines(Tokens(line, 1)) = IF all.s = Panicked THEN {} ELSE {all.cmd}

RECURSIVE Strings(_)
Strings(cmd) ==
  CASE cmd.type = "EXEC" -> ToSet(cmd.argv)
    [] cmd.type = "REDIR" -> Strings(cmd.cmd) \cup {cmd.file}
    [] cmd.type \in {"PIPE", "LIST"} -> Strings(cmd.left) \cup Strings(cmd.right)
    [] cmd.type = "BACK" -> Strings(cmd.cmd)

(* After nulterminate() every word and file name is, as a C string in the      *)
(* line, what stood there as a token: no terminator falls into another word.   *)
WordsTerminated(line, all) ==
  all.s # Panicked =>
    \A word \in Strings(all.cmd) :
      Min({i \in word[1] .. Len(line) + 1 : i \in nulterminate(all.cmd) \cup {Len(line) + 1}})
        = word[2]

(* What a tree means: its commands with their input and output.  Of several    *)
(* redirections of one descriptor the first in the line counts.                *)
RECURSIVE Meaning(_, _, _, _)
Meaning(cmd, in, out, at) ==
  CASE cmd.type = "EXEC" -> IF cmd.argv = <<>> THEN {} ELSE {<<at, cmd.argv, in, out>>}
    [] cmd.type = "REDIR" ->
         IF cmd.fd = 0 THEN Meaning(cmd.cmd, <<"file", cmd.file>>, out, at)
         ELSE Meaning(cmd.cmd, in, <<"file", cmd.file>>, at)
    [] cmd.type = "LIST" ->
         Meaning(cmd.left, in, out, Append(at, 0)) \cup Meaning(cmd.right, in, out, Append(at, 1))
    [] cmd.type = "PIPE" -> Meaning(cmd.left, in, <<"write", at>>, Append(at, 0))
                            \cup Meaning(cmd.right, <<"read", at>>, out, Append(at, 1))
    [] cmd.type = "BACK" -> Meaning(cmd.cmd, in, out, Append(at, 0))

(* runcmd() runs every command with the input and the output of its tree, and  *)
(* no process, those that wait included, has a further descriptor: so a pipe's *)
(* reader sees the end of its input once the writers are gone.                 *)
RunsAsMeant(all) ==
  all.s # Panicked =>
    \A procs \in {runcmd(all.cmd, ShellFds, <<>>)} :
       /\ {<<p.at, p.argv, p.fds[0], p.fds[1]>> : p \in {x \in procs : x.argv # <<>>}}
            = Meaning(all.cmd, Console, Console, <<>>)
       /\ \A p \in procs : p.fds[2] = Console /\ \A fd \in Fds : fd > 2 => p.fds[fd] = Closed
==============================================================================
