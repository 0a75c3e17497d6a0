------------------------------- MODULE Compiler -------------------------------
(* The compiler of chapter-08: Lexer.next over a sequence of characters, the   *)
(* Pratt parser over the tokens it delivers, and the ARM64 instructions that   *)
(* assembler() emits, with what they compute in x0 and x1.                     *)
EXTENDS Integers, Sequences, FiniteSets, SequencesExt

CONSTANTS
  Alphabetic,  \* letters
  Word         \* range of a register (2^64)

------------------------------------------------------------------------------
(* Lexer *)

Digits == <<"0", "1", "2", "3", "4", "5", "6", "7", "8", "9">>

Numeric == ToSet(Digits)

NonZero == Numeric \ {"0"}

IdentStart == Alphabetic \cup {"_"}

IdentPart == IdentStart \cup Numeric

Punctuation == {"{", "}", "(", ")", "[", "]", ",", ";", ":"}

Arithmetic == {"+", "-", "*", "/"}

(* What may follow the first character of a two-character operator. *)
Second == [c \in {"=", "<", ">", "!"} |->
             CASE c = "=" -> {"="}
               [] c = "<" -> {"=", "<"}
               [] c = ">" -> {"=", ">"}
               [] c = "!" -> {"="}]

(* No token starts with a zero: it falls to the else branch of next().         *)
Starts == IdentStart \cup NonZero \cup Punctuation \cup Arithmetic \cup DOMAIN Second

TokenType(c) ==
  CASE c \in IdentStart -> "Identifier"
    [] c \in NonZero -> "Number"
    [] c \in Punctuation -> c
    [] OTHER -> "Operator"

(* Index of the first character at or after k that is not in the class. *)
RunEnd(s, k, class) ==
  CHOOSE e \in k..(Len(s) + 1) :
    (\A j \in k..(e - 1) : s[j] \in class) /\ (e <= Len(s) => s[e] \notin class)

TokenEndShort(s, k) ==
  CASE s[k] \in IdentStart -> RunEnd(s, k, IdentStart)
    [] s[k] \in NonZero -> RunEnd(s, k, NonZero)
    [] OTHER -> k + 1

TokenEnd(s, k) ==
  CASE s[k] \in IdentStart -> RunEnd(s, k, IdentPart)
    [] s[k] \in NonZero -> RunEnd(s, k, Numeric)
    [] s[k] \in DOMAIN Second ->
         IF k < Len(s) /\ s[k + 1] \in Second[s[k]] THEN k + 2 ELSE k + 1
    [] OTHER -> k + 1

(* Lexer.next called until it fails. *)
RECURSIVE Tokens(_, _)
Tokens(s, index) ==
  IF index > Len(s) THEN <<>>
  ELSE IF s[index] \notin Starts THEN Tokens(s, index + 1)
  ELSE <<[type |-> TokenType(s[index]), start |-> index,
          text |-> SubSeq(s, index, TokenEnd(s, index) - 1)]>>
       \o Tokens(s, TokenEnd(s, index))

------------------------------------------------------------------------------
(* Parser.  A result is the node and the index of the next token, or an error. *)

InvalidToken == [ok |-> FALSE, error |-> "InvalidToken"]

MissingToken == [ok |-> FALSE, error |-> "MissingToken"]

Parsed(node, i) == [ok |-> TRUE, node |-> node, i |-> i]

getPrecedence(token) ==
  CASE token.type = "Operator" /\ token.text[1] \in {"+", "-"} -> 1
    [] token.type = "Operator" /\ token.text[1] \in {"*", "/"} -> 2
    [] OTHER -> 0

(* expect_token_type() after a node has been parsed. *)
Expect(t, r, type) ==
  IF ~r.ok THEN r
  ELSE IF r.i > Len(t) THEN MissingToken
  ELSE IF t[r.i].type # type THEN InvalidToken
  ELSE Parsed(r.node, r.i + 1)

parse_primary_expression(t, i) ==
  Parsed([kind |-> t[i].type, text |-> t[i].text], i + 1)

RECURSIVE parse_expression(_, _, _), parse_prefix(_, _), parse_infixes(_, _, _)

parse_expression(t, i, precedence) ==
  parse_infixes(t, parse_prefix(t, i), precedence)

parse_prefix(t, i) ==
  IF i > Len(t) THEN MissingToken
  ELSE IF t[i].type \in {"Number", "Identifier"} THEN parse_primary_expression(t, i)
  ELSE IF t[i].type = "(" THEN Expect(t, parse_expression(t, i + 1, 0), ")")
  ELSE InvalidToken

(* The while loop of parse_expression with parse_infix as its body. *)
InfixRightAssociative(t, r, precedence) ==
  IF ~r.ok \/ r.i > Len(t) THEN r
  ELSE IF precedence >= getPrecedence(t[r.i]) THEN r
  ELSE LET right == parse_expression(t, r.i + 1, getPrecedence(t[r.i]) - 1)
       IN IF ~right.ok THEN right
          ELSE parse_infixes(t, Parsed([kind |-> "BinaryOperator", op |-> t[r.i].text,
                                        left |-> r.node, right |-> right.node], right.i),
                             precedence)

parse_infixes(t, r, precedence) ==
  IF ~r.ok \/ r.i > Len(t) THEN r
  ELSE IF precedence >= getPrecedence(t[r.i]) THEN r
  ELSE LET right == parse_expression(t, r.i + 1, getPrecedence(t[r.i]))
       IN IF ~right.ok THEN right
          ELSE parse_infixes(t, Parsed([kind |-> "BinaryOperator", op |-> t[r.i].text,
                                        left |-> r.node, right |-> right.node], right.i),
                             precedence)

(* parse_statement: var, an identifier, =, an expression and a semicolon. *)
parse_statement(t, i) ==
  IF t[i].type # "Identifier" \/ t[i].text # <<"v", "a", "r">> THEN InvalidToken
  ELSE IF i + 1 > Len(t) THEN MissingToken
  ELSE IF t[i + 1].type # "Identifier" THEN InvalidToken
  ELSE IF i + 2 > Len(t) THEN MissingToken
  ELSE IF t[i + 2].text # <<"=">> THEN InvalidToken
  ELSE LET value == Expect(t, parse_expression(t, i + 3, 0), ";")
       IN IF ~value.ok THEN value
          ELSE Parsed([kind |-> "Var", identifier |-> t[i + 1].text, value |-> value.node], value.i)

(* parse_body from token i on, after the statements in nodes. *)
RECURSIVE parse_body(_, _, _)
parse_body(t, i, nodes) ==
  IF i > Len(t) THEN Parsed(nodes, i)
  ELSE LET r == parse_statement(t, i)
       IN IF ~r.ok THEN r ELSE parse_body(t, r.i, Append(nodes, r.node))

parse(s) == parse_body(Tokens(s, 1), 1, <<>>)

------------------------------------------------------------------------------
(* assembler() *)

Value(text) ==
  FoldLeft(LAMBDA n, c : 10 * n + (CHOOSE d \in 0..9 : Digits[d + 1] = c), 0, text)

asm_number(node) == <<[op |-> "mov", imm |-> Value(node.text)]>>

(* A node without a case emits nothing if it is an operator, and is            *)
(* unreachable code, left out here, if it is an identifier.                    *)
RECURSIVE asm_expression(_)
asm_add_one_register(node) ==
  asm_expression(node.left) \o asm_expression(node.right) \o <<[op |-> "add"]>>

asm_add(node) ==
  asm_expression(node.left) \o <<[op |-> "copy"]>>
    \o asm_expression(node.right) \o <<[op |-> "add"]>>

asm_expression(node) ==
  CASE node.kind = "Number" -> asm_number(node)
    [] node.kind = "BinaryOperator" /\ node.op = <<"+">> -> asm_add(node)
    [] node.kind = "BinaryOperator" /\ node.op # <<"+">> -> <<>>

(* mov x0, #n; mov x1, x0; add x0, x0, x1. *)
Execute(regs, instruction) ==
  CASE instruction.op = "mov" -> [regs EXCEPT !.x0 = instruction.imm]
    [] instruction.op = "copy" -> [regs EXCEPT !.x1 = regs.x0]
    [] instruction.op = "add" -> [regs EXCEPT !.x0 = (regs.x0 + regs.x1) % Word]

(* x0 when main returns. *)
Result(nodes, regs) ==
  FoldLeft(Execute, regs, FoldLeft(LAMBDA code, n : code \o asm_expression(n.value), <<>>, nodes)).x0
------------------------------------------------------------------------------
(* What a token is. *)
IsToken(w) ==
  \/ w[1] \in IdentStart /\ ToSet(w) \subseteq IdentPart
  \/ w[1] \in NonZero /\ ToSet(w) \subseteq Numeric
  \/ Len(w) = 1 /\ w[1] \in Punctuation \cup Arithmetic \cup {"=", "<", ">", "!"}
  \/ w \in {<<"=", "=">>, <<"<", "=">>, <<"<", "<">>, <<">", "=">>, <<">", ">">>, <<"!", "=">>}

Spaced(words) == FoldLeft(LAMBDA s, w : s \o w \o <<" ">>, <<>>, words)

Texts(tokens) == [i \in DOMAIN tokens |-> tokens[i].text]

(* Lexer.next returns the longest token at the first place where one can       *)
(* start, skips nothing else, and white space between tokens does not matter.  *)
LongestMatch(s) ==
  LET T == Tokens(s, 1)
      Span(i) == T[i].start..(T[i].start + Len(T[i].text) - 1)
  IN /\ \A i \in DOMAIN T :
          /\ IsToken(T[i].text)
          /\ \A e \in (T[i].start + Len(T[i].text))..Len(s) : ~IsToken(SubSeq(s, T[i].start, e))
     /\ \A i, j \in DOMAIN T : i # j => Span(i) \cap Span(j) = {}
     /\ \A k \in DOMAIN s : (\A i \in DOMAIN T : k \notin Span(i)) => s[k] \notin Starts
     /\ Texts(Tokens(Spaced(Texts(T)), 1)) = Texts(T)

(* The language as a grammar: the trees of a sequence of words. *)
RECURSIVE Sums(_), Products(_)
Split(w, ops, Left(_), Right(_)) ==
  UNION {{[kind |-> "BinaryOperator", op |-> w[k], left |-> l, right |-> r] :
            l \in Left(SubSeq(w, 1, k - 1)), r \in Right(SubSeq(w, k + 1, Len(w)))} :
         k \in {k \in DOMAIN w : w[k][1] \in ops}}

Atoms(w) ==
  IF Len(w) = 1 /\ w[1][1] \in NonZero THEN {[kind |-> "Number", text |-> w[1]]}
  ELSE IF Len(w) = 1 /\ w[1][1] \in IdentStart THEN {[kind |-> "Identifier", text |-> w[1]]}
  ELSE IF Len(w) > 2 /\ w[1] = <<"(">> /\ Last(w) = <<")">> THEN Sums(SubSeq(w, 2, Len(w) - 1))
  ELSE {}

Products(w) == Atoms(w) \cup Split(w, {"*", "/"}, Products, Atoms)

Sums(w) == Products(w) \cup Split(w, {"+", "-"}, Sums, Products)

RECURSIVE Programs(_)
Programs(w) ==
  IF w = <<>> THEN {<<>>}
  ELSE IF Len(w) < 5 \/ w[1] # <<"v", "a", "r">> \/ w[2][1] \notin IdentStart \/ w[3] # <<"=">> THEN {}
  ELSE UNION {{<<[kind |-> "Var", identifier |-> w[2], value |-> e]>> \o rest :
                 e \in Sums(SubSeq(w, 4, k - 1)), rest \in Programs(SubSeq(w, k + 1, Len(w)))} :
              k \in {k \in 5..Len(w) : w[k] = <<";">>}}

(* parse() accepts the programs of the grammar and returns the one tree each   *)
(* of them has: products bind tighter than sums and both group to the left.    *)
ParsesGrammar(words) ==
  LET r == parse(Spaced(words))
  IN Programs(words) = IF r.ok THEN {r.node} ELSE {}

RECURSIVE SumOf(_)
SumOf(node) ==
  IF node.kind = "Number" THEN Value(node.text) ELSE SumOf(node.left) + SumOf(node.right)

(* Every right operand is a number. *)
RECURSIVE LeftDeep(_)
LeftDeep(node) ==
  \/ node.kind = "Number"
  \/ node.kind = "BinaryOperator" /\ node.op = <<"+">> /\ node.right.kind = "Number"
     /\ LeftDeep(node.left)

(* The code of a program of sums whose right operands are numbers leaves the   *)
(* value of its last expression in x0, whatever was in the registers.  Of a    *)
(* sum on the right, which overwrites the left operand in x1, nothing is said. *)
AddsUp(words) ==
  LET r == parse(Spaced(words))
  IN r.ok /\ r.node # <<>> /\ (\A i \in DOMAIN r.node : LeftDeep(r.node[i].value)) =>
       \A x0, x1 \in {0, Word - 1} :
         Result(r.node, [x0 |-> x0, x1 |-> x1]) = SumOf(Last(r.node).value) % Word
==============================================================================
