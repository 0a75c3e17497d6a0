----------------------------- MODULE MCAlgorithms -----------------------------
(* The pure algorithms for TLC: every input up to a bound is a state.  And the *)
(* machines that compute on memory and blocks, each with the variables of its  *)
(* own, of which one runs in a behaviour.                                      *)
EXTENDS Compiler, Grep

CONSTANTS
  Characters, MaxCharacters,  \* inputs of the lexer
  Words, MaxWords,            \* inputs of the parser: any words, ...
  Operands, MaxOperands,      \* ... and expressions of a statement
  Patterns, MaxPattern,       \* regular expressions, ...
  MaxText,                    \* ... and the texts each is tried on
  MaxReads,                   \* inputs of grep(), with | between two reads
  MaxLine,                    \* command lines of the shell
  MaxFormat, MaxScreen,       \* formats of printf(), and texts on the screen
  MaxMemory                   \* memory, paths and names

CONSTANTS
  MAXARGS, NOFILE,            \* of Shell
  Bits, COLS, ROWS,           \* of Text
  DIRSIZ, AddrBits,           \* of Strings
  BSIZE, BPB, NDIRECT, FSSIZE, NINODES, IPB, LOGSIZE, MAXOPBLOCKS,
  Procs, TwoFiles, inodeOf, Contents, Data, MaxCalls,              \* of FileData
  HeaderBytes, MinCore, Bottom, Top, Sizes, MaxBlocks,        \* of Heap
  Initproc, NFRAMES, PGSIZE, NPTENTRIES, NUSER, NKERNEL, DEVSPACE, Limit,
  MAXARG, Binaries, Args, Brks, Values, MaxVmCalls,          \* of Vm
  NoFile, NFILE, NOPEN, SomeIps, SomePipes                   \* of FileTable

ProgramWords == {<<"v", "a", "r">>, <<"x">>, <<"=">>, <<";">>, <<"9">>, <<"+">>, <<"(">>}

ExpressionWords == {<<"1", "3">>, <<"+">>, <<"*">>, <<"(">>, <<")">>}

(* Two files behind the root, after one that mkfs has filled. *)
SomeInodes == [f |-> 2, h |-> 3]
ImageContents == {<<<<9>>, <<>>, <<>>>>}
WrittenData == {<<5>>, <<6, 7, 8, 9>>}

(* A program that fits, one that leaves the pages for a fork(), and one whose  *)
(* second segment is not aligned.  Arguments that fit the stack, that reach    *)
(* the guard page, and that take the stack pointer below 0.                    *)
Segment(vaddr, memsz, filesz, value) ==
  [vaddr |-> vaddr, memsz |-> memsz, filesz |-> filesz, value |-> value]
SomePrograms ==
  {<<Segment(0, 7, 5, 1), Segment(12, 3, 2, 2)>>, <<Segment(0, 5, 5, 1)>>,
   <<Segment(0, 6, 6, 1), Segment(13, 2, 2, 2)>>}
SomeArgs == {<<1>>, <<8>>, <<40>>}
SomeBrks == {-6, -1, 7}

VARIABLES
  task, input,
  disk, off, call, calls, content,
  heap, owned,
  free, data, kstack, pgdir, sz, image, doomed, vmcalls,
  ref, type, iref, ends, ofile, state, todo

fileVars == <<disk, off, call, calls, content>>
heapVars == <<heap, owned>>
vmVars == <<free, data, kstack, pgdir, sz, image, doomed, vmcalls>>
tableVars == <<ref, type, iref, ends, ofile, state, todo>>

Sh == INSTANCE Shell
Tx == INSTANCE Text
St == INSTANCE Strings
D == INSTANCE FileData WITH Files <- TwoFiles, ip <- inodeOf
H == INSTANCE Heap WITH Start <- Bottom, Limit <- Top
V == INSTANCE Vm WITH MaxCalls <- MaxVmCalls, calls <- vmcalls
F == INSTANCE FileTable WITH None <- NoFile, NOFILE <- NOPEN, Inodes <- SomeIps, Pipes <- SomePipes

ASSUME VmConstants == V!VmAssumption

Bound == [characters |-> MaxCharacters, words |-> MaxWords, expression |-> MaxOperands,
          pattern |-> MaxPattern, reads |-> MaxReads, line |-> MaxLine,
          format |-> MaxFormat, screen |-> MaxScreen, memory |-> MaxMemory]

Alphabet == [characters |-> Characters, words |-> Words, expression |-> Operands,
             pattern |-> Patterns, reads |-> {"a", "b", "\n", "|"},
             line |-> {"a", " ", "<", ">", "|", "&", ";", "(", ")"},
             format |-> {"%", "d", "x", "s", "c", "z"},
             screen |-> {"x", "y", "\n", Tx!BACKSPACE},
             memory |-> {"a", "b", "/"}]

Init ==
  /\ task \in DOMAIN Bound \cup {"files", "heap", "vm", "table"}
  /\ input = <<>>
  /\ D!Init /\ H!Init /\ V!Init /\ F!Init

Next ==
  /\ UNCHANGED task
  /\ \/ /\ task \in DOMAIN Bound /\ Len(input) < Bound[task]
        /\ \E c \in Alphabet[task] : input' = Append(input, c)
        /\ UNCHANGED <<fileVars, heapVars, vmVars, tableVars>>
     \/ task = "files" /\ D!Next /\ UNCHANGED <<input, heapVars, vmVars, tableVars>>
     \/ task = "heap" /\ H!Next /\ UNCHANGED <<input, fileVars, vmVars, tableVars>>
     \/ task = "vm" /\ V!Next /\ UNCHANGED <<input, fileVars, heapVars, tableVars>>
     \/ task = "table" /\ F!Next /\ UNCHANGED <<input, fileVars, heapVars, vmVars>>

Spec == Init /\ [][Next]_<<task, input, fileVars, heapVars, vmVars, tableVars>>

Var == <<"v", "a", "r">>

(* An expression is put into a statement after another one. *)
Program ==
  IF task = "expression"
  THEN <<Var, <<"x">>, <<"=">>, <<"1">>, <<";">>, Var, <<"y">>, <<"=">>>> \o input \o <<<<";">>>>
  ELSE input

(* Lexer.next is a longest-match lexer, and the Pratt parser builds the trees   *)
(* of the grammar.                                                             *)
SyntaxRight ==
  /\ task = "characters" => LongestMatch(input)
  /\ task \in {"words", "expression"} => ParsesGrammar(Program)

(* The emitted code computes every sum whose right operands are numbers; a sum *)
(* in parentheses on the right overwrites x1, where asm_add() keeps the left   *)
(* operand, and the property says nothing of it.                               *)
CodeAddsUp == task \in {"words", "expression"} => AddsUp(Program)

(* The parts in which the input arrives; an empty one would end it. *)
Reads ==
  SelectSeq(FoldLeft(LAMBDA parts, c : IF c = "|" THEN Append(parts, <<>>)
                                       ELSE Append(Front(parts), Append(Last(parts), c)),
                     <<<<>>>>, input),
            LAMBDA part : part # <<>>)

(* grep's matcher agrees with the meaning of ^ . * $.  However read() cuts the *)
(* input, grep() takes all of it, stays within its buffer and writes the lines *)
(* that match.  A read without a newline drops what there is of a line so far; *)
(* what grep() then tries and writes is the rest, and otherwise the line.      *)
GrepRight ==
  /\ task = "pattern" =>
       \A text \in SeqOf({"a", "b", "$"}, MaxText) : MatchesExpression(input, text)
  /\ task = "reads" => GrepsLines(<<"^", "a">>, Reads)

(* The shell's parser accepts the lines of its grammar, each with its tree;    *)
(* nulterminate() ends every word and cuts none; runcmd() gives every command  *)
(* its input and output, and no process a descriptor more.                     *)
ShellRight ==
  task = "line" =>
    \A all \in {Sh!parsecmd(input)} :
      /\ Sh!ParsesShellGrammar(input, all)
      /\ Sh!WordsTerminated(input, all)
      /\ Sh!RunsAsMeant(all)

Ints == -(2^(Bits - 1)) .. 2^(Bits - 1) - 1

(* printint() writes a numeral of every int, cprintf() and printf() agree, the *)
(* screen shows the last rows of what cgaputc() put on it; memmove() copies as *)
(* if at once, skipelem() takes a path apart at its slashes, a name is found   *)
(* by its first DIRSIZ characters; fetchint() and argptr() pass exactly what   *)
(* lies below the process's size.                                              *)
LibraryRight ==
  /\ task = "format" =>
       /\ input = <<>> => \A xx \in Ints : Tx!NumeralsRight(xx)
       /\ Tx!FormatsAgree(input, <<-(2^(Bits - 1)), 17, 5>>)
  /\ task = "screen" => Tx!ScreenRight(input)
  /\ task = "memory" =>
       /\ St!MovesAtOnce(input) /\ St!MovesDown(input) /\ St!PathsSplit(input)
       /\ \A t \in SeqOf({"a", "b"}, DIRSIZ + 2) :
            St!NamesFound(SelectSeq(input, LAMBDA c : c # "/"), t)
       /\ input = <<>> => St!AddressesTested

(* A file reads back what was written to it; the bitmap marks what the inodes  *)
(* list, each block in one place; readi() never allocates; bmap()'s addresses  *)
(* are saved by iupdate(); a turn of filewrite() stays within its reservation. *)
FilesRight ==
  task = "files" =>
    D!ReadsBack /\ D!BlocksOwned /\ D!NoHoles /\ D!AddressesSaved /\ D!WithinReservation

(* f->ref counts the descriptors, but for what the pending steps will do, and  *)
(* inodes and ends of pipes are given back once, on every way out of a call.   *)
FilesCounted == F!RefsCounted /\ F!ObjectsCounted

(* Blocks of malloc() and free blocks do not overlap, the list is sorted, and  *)
(* free() has joined what is adjacent.                                         *)
HeapRight == task = "heap" => H!BlocksApart /\ H!Coalesced

(* Every page is free or in one place of one process, whatever runs out, and   *)
(* fork(), exec() and sbrk() leave a process the memory it should have.        *)
MemoryRight == task = "vm" => V!FramesOwned /\ V!ImageAgrees
===============================================================================
