----------------------------- MODULE FrontEnd_proofs -----------------------------
(****************************************************************************)
(* The parser comes back from every token sequence that a lexer can hand    *)
(* it, inside the sequence and past the token it started at; and the types  *)
(* of the front end, for every text.                                        *)
(****************************************************************************)
EXTENDS FrontEnd, Lexer_proofs

(* Positions in the tokens. *)

\* What the parser relies on: the last token is ENDOFFILE.
Terminated == Len(tokens) \in Nat /\ Len(tokens) >= 1 /\ tokens[Len(tokens)].type = "ENDOFFILE"

\* r is the result of a parse function that starts at p: it stays in the tokens,
\* throws at p or behind it, and leaves a position from least on.
Reads(r, p, least) ==
  /\ r.thrown \in BOOLEAN
  /\ r.pos \in 1 .. Len(tokens)
  /\ p <= r.pos
  /\ ~r.thrown => least <= r.pos

\* A token that check() finds is not the last one.
LEMMA CheckFacts ==
  ASSUME Terminated, NEW p \in 1 .. Len(tokens), NEW types, Check(p, types)
  PROVE  p + 1 \in 1 .. Len(tokens)
BY DEF Terminated, Check, AtEnd

\* expect() reads one token or throws at it.
LEMMA ExpectReads ==
  ASSUME Terminated, NEW p \in 1 .. Len(tokens), NEW type
  PROVE  Reads(Expect(p, type), p, p + 1)
BY CheckFacts DEF Terminated, Expect, Reads, Parsed, Thrown

\* skip_newlines() goes forward and stops at ENDOFFILE.
LEMMA SkipNewlinesFacts ==
  ASSUME Terminated, NEW p \in 1 .. Len(tokens)
  PROVE  SkipNewlines(p) \in p .. Len(tokens)
<1> DEFINE S == {q \in p .. Len(tokens) : ~Check(q, {"NEWLINE"})}
<1>1. Len(tokens) \in S /\ S \subseteq Nat
  BY DEF Terminated, Check, AtEnd
<1>2. Min(S) \in S
  <2> HIDE DEF S
  <2> QED
    BY <1>1, LeastElement
<1> QED
  BY <1>2 DEF SkipNewlines

--------------------------------------------------------------------------------
(* Expressions. *)

\* Lists of statements and of branches may be empty.
Least(f, p) == IF f \in {"statements", "branches"} THEN p ELSE p + 1

\* Calls from p on return what a parse function does.
ReturnFrom(calls, p) ==
  \A f \in Functions : \A q \in p .. Len(tokens) : Reads(calls[f][q], q, Least(f, q))

\* Such calls return from every later position on.
LEMMA ReturnLater ==
  ASSUME NEW calls, NEW p \in Nat, NEW q \in Nat, p <= q, Terminated, ReturnFrom(calls, p)
  PROVE  ReturnFrom(calls, q)
BY DEF ReturnFrom, Terminated

\* The names of the parse functions.
LEMMA FunctionNames ==
  /\ DOMAIN Infix = {"arguments", "or", "and", "not", "comparison", "addition",
                     "multiplication", "unary"}
  /\ \A f \in DOMAIN Infix : f \in Functions /\ f \notin {"statements", "branches"}
  /\ {"statements", "branches"} \subseteq Functions
BY SMT DEF Functions, Infix

\* What such calls return for expressions.
LEMMA ReturnedAt ==
  ASSUME NEW calls, NEW p \in Nat, NEW q \in p .. Len(tokens), ReturnFrom(calls, p)
  PROVE  /\ \A f \in DOMAIN Infix : Reads(calls[f][q], q, q + 1)
         /\ Reads(calls["statements"][q], q, q) /\ Reads(calls["branches"][q], q, q)
BY FunctionNames DEF ReturnFrom, Least

\* A set of one result has that result.
LEMMA OnlyElement == \A x : (CHOOSE r \in {x} : TRUE) = x
OBVIOUS

\* What follows r if it did not throw, as Then has it.
After(r, s) == IF r.thrown THEN r ELSE s

\* Reading on from where a result ends.
LEMMA AfterReads ==
  ASSUME NEW r, NEW s, NEW p \in Int, NEW q \in Int, p <= q, NEW least, NEW some,
         Reads(r, q, some), ~r.thrown => Reads(s, p, least)
  PROVE  Reads(After(r, s), p, least)
<1>1. CASE r.thrown
  <2>1. After(r, s) = r
    BY <1>1 DEF After
  <2>2. Reads(r, p, least)
    BY <1>1 DEF Reads
  <2> QED
    BY <2>1, <2>2
<1>2. CASE ~r.thrown
  BY <1>2 DEF After
<1> QED
  BY <1>1, <1>2

\* A tree that has been read.
LEMMA ParsedReads ==
  ASSUME NEW x \in 1 .. Len(tokens), NEW t, NEW p, NEW least, p <= x, least <= x
  PROVE  Reads(Parsed(x, t), p, least)
BY DEF Reads, Parsed

\* What reads from a later position reads from an earlier one.
LEMMA LaterReads ==
  ASSUME NEW r, NEW p \in Int, NEW q \in Int, NEW least \in Int, NEW more \in Int,
         p <= q, least <= more, Len(tokens) \in Nat, Reads(r, q, more)
  PROVE  Reads(r, p, least)
BY DEF Reads

\* What a result says of its position.
LEMMA ResultPosition ==
  ASSUME NEW r, NEW p \in Int, NEW least \in Int, Len(tokens) \in Nat, Reads(r, p, least)
  PROVE  r.pos \in Int /\ r.pos \in 1 .. Len(tokens) /\ p <= r.pos /\ (~r.thrown => least <= r.pos)
BY DEF Reads

\* Making a tree of what was read.
LEMMA TreeReads ==
  ASSUME NEW r, NEW t, NEW p \in Int, NEW q \in Int, NEW least \in Int, NEW more \in Int,
         p <= q, least <= more, Len(tokens) \in Nat, Reads(r, q, more)
  PROVE  Reads(After(r, Parsed(r.pos, t)), p, least)
<1>1. ~r.thrown => Reads(Parsed(r.pos, t), p, least)
  BY ResultPosition, ParsedReads
<1> QED
  BY <1>1, AfterReads

\* Making a tree of a chain moves nothing.
LEMMA JoinedReads ==
  ASSUME NEW r, NEW p \in Int, NEW least, Reads(r, p, least)
  PROVE  Reads(Joined(r), p, least)
<1>1. Joined(r) = After(r, Parsed(r.pos, LeftToRight(r.tree)))
  BY OnlyElement DEF Joined, Then, After
<1>2. ~r.thrown => Reads(Parsed(r.pos, LeftToRight(r.tree)), p, least)
  BY ParsedReads DEF Reads
<1> QED
  BY <1>1, <1>2, AfterReads

\* parse_expression.
LEMMA ExpressionReads ==
  ASSUME NEW calls, NEW p \in Nat, NEW q \in p .. Len(tokens), ReturnFrom(calls, p)
  PROVE  Reads(ParseExpression(calls, q), q, q + 1)
BY ReturnedAt, FunctionNames, JoinedReads DEF ParseExpression

\* parse_primary.
LEMMA PrimaryReads ==
  ASSUME Terminated, NEW calls, NEW p \in 1 .. Len(tokens), ReturnFrom(calls, p + 1)
  PROVE  Reads(ParsePrimary(calls, p), p, p + 1)
<1> DEFINE e == ParseExpression(calls, p + 1)
           r == Expect(e.pos, "RPAREN")
           literals == {"INTEGER", "FLOAT", "STRING", "TRUE", "FALSE", "NONE"}
           names    == {"IDENTIFIER", "RANGE", "PRINT"}
<1>0. Len(tokens) \in Nat
  BY DEF Terminated
<1>1. CASE Check(p, literals)
  <2>1. ParsePrimary(calls, p) = Parsed(p + 1, Literal(LiteralAt(p)))
    BY <1>1 DEF ParsePrimary, Check
  <2> QED
    BY <1>0, <1>1, <2>1, CheckFacts, ParsedReads
<1>2. CASE Check(p, names)
  <2>1. ParsePrimary(calls, p) = Parsed(p + 1, Identifier(tokens[p].value))
    BY <1>2 DEF ParsePrimary, Check
  <2> QED
    BY <1>0, <1>2, <2>1, CheckFacts, ParsedReads
<1>3. CASE Check(p, {"LPAREN"})
  <2>1. p + 1 \in p + 1 .. Len(tokens)
    BY <1>0, <1>3, CheckFacts
  <2>2. Reads(e, p + 1, p + 2)
    BY <2>1, ExpressionReads
  <2>3. Reads(r, e.pos, e.pos + 1)
    BY <2>2, ExpectReads DEF Reads
  <2>4. ~Check(p, literals) /\ ~Check(p, names)
    BY <1>3 DEF Check
  <2>5. ParsePrimary(calls, p) = After(e, After(r, Parsed(r.pos, e.tree)))
    BY <1>3, <2>4, OnlyElement DEF ParsePrimary, Then, After
  <2> HIDE DEF e, r
  <2>6. /\ e.pos \in Int /\ e.pos + 1 \in Int /\ p \in Int /\ p + 1 \in Int
        /\ p <= e.pos /\ p + 1 <= e.pos + 1
    BY <1>0, <2>2, ResultPosition
  <2>7. Reads(After(r, Parsed(r.pos, e.tree)), p, p + 1)
    BY <1>0, <2>3, <2>6, TreeReads
  <2> QED
    BY <1>0, <2>2, <2>5, <2>7, AfterReads
<1>4. CASE ~Check(p, literals) /\ ~Check(p, names) /\ ~Check(p, {"LPAREN"})
  <2>1. ParsePrimary(calls, p) = Thrown(p)
    BY <1>4 DEF ParsePrimary
  <2> QED
    BY <2>1 DEF Reads, Thrown
<1> QED
  BY <1>1, <1>2, <1>3, <1>4

\* The list behind a parenthesis.
LEMMA ArgumentsReads ==
  ASSUME Terminated, NEW calls, NEW p \in Nat, NEW q \in p .. Len(tokens), q >= 1,
         ReturnFrom(calls, p)
  PROVE  Reads(ParseArguments(calls, q), q, q + 1)
<1> DEFINE c == calls["arguments"][q]
           r == Expect(c.pos, "RPAREN")
<1>0. Len(tokens) \in Nat
  BY DEF Terminated
<1>1. CASE Check(q, {"RPAREN"})
  <2>1. ParseArguments(calls, q) = Parsed(q + 1, <<>>)
    BY <1>1 DEF ParseArguments
  <2> QED
    BY <1>0, <1>1, <2>1, CheckFacts, ParsedReads
<1>2. CASE ~Check(q, {"RPAREN"})
  <2>1. Reads(c, q, q + 1)
    BY ReturnedAt, FunctionNames
  <2>2. Reads(r, c.pos, c.pos + 1)
    BY <2>1, ExpectReads DEF Reads
  <2>3. ParseArguments(calls, q) = After(c, After(r, Parsed(r.pos, Arguments(c.tree))))
    BY <1>2, OnlyElement DEF ParseArguments, Then, After
  <2> HIDE DEF c, r
  <2>4. /\ q \in Int /\ c.pos \in Int /\ c.pos + 1 \in Int /\ q + 1 \in Int
        /\ q <= c.pos /\ q + 1 <= c.pos + 1
    BY <1>0, <2>1, ResultPosition
  <2>5. Reads(After(r, Parsed(r.pos, Arguments(c.tree))), q, q + 1)
    BY <1>0, <2>2, <2>4, TreeReads
  <2> QED
    BY <1>0, <2>1, <2>3, <2>5, AfterReads
<1> QED
  BY <1>1, <1>2

\* parse_call.
LEMMA CallReads ==
  ASSUME Terminated, NEW calls, NEW p \in 1 .. Len(tokens), ReturnFrom(calls, p + 1)
  PROVE  Reads(ParseCall(calls, p), p, p + 1)
<1> DEFINE e == ParsePrimary(calls, p)
           a == ParseArguments(calls, e.pos + 1)
           isCall == e.tree.node = "Identifier" /\ Check(e.pos, {"LPAREN"})
           call == After(a, Parsed(a.pos, CallExpr(e.tree.name, a.tree)))
<1>0. Len(tokens) \in Nat
  BY DEF Terminated
<1>1. Reads(e, p, p + 1)
  BY PrimaryReads
<1>2. ParseCall(calls, p) = After(e, IF isCall THEN call ELSE e)
  BY OnlyElement DEF ParseCall, Then, After
<1> HIDE DEF e
<1>3. CASE isCall
  <2>1. e.pos + 1 \in p + 1 .. Len(tokens) /\ e.pos + 1 >= 1 /\ p + 1 \in Nat
    BY <1>0, <1>1, <1>3, CheckFacts DEF Reads
  <2> DEFINE q == e.pos + 1
  <2>2. Reads(ParseArguments(calls, q), q, q + 1)
    <3> HIDE DEF q
    <3> QED
      BY <2>1, ArgumentsReads DEF q
  <2> HIDE DEF a
  <2>3. Reads(a, q, q + 1)
    BY <2>2 DEF a
  <2>4. Reads(call, p, p + 1)
    <3> DEFINE t == CallExpr(e.tree.name, a.tree)
    <3> HIDE DEF q, t
    <3>1. p \in Int /\ q \in Int /\ q + 1 \in Int /\ p + 1 \in Int /\ p <= q /\ p + 1 <= q + 1
      BY <1>0, <2>1 DEF q
    <3>2. Reads(After(a, Parsed(a.pos, t)), p, p + 1)
      BY <1>0, <2>3, <3>1, TreeReads
    <3> QED
      BY <3>2 DEF t
  <2> QED
    BY <1>0, <1>1, <1>2, <1>3, <2>4, AfterReads
<1> HIDE DEF a, isCall
<1>4. CASE ~isCall
  BY <1>0, <1>1, <1>2, <1>4, AfterReads
<1> QED
  BY <1>3, <1>4

\* The levels of precedence: a first operand at the level or further down.
LEMMA LevelReads ==
  ASSUME Terminated, NEW calls, NEW level \in DOMAIN Infix, NEW p \in 1 .. Len(tokens),
         ReturnFrom(calls, p + 1),
         level # "unary" => Reads(calls[Operands[level]][p], p, p + 1)
  PROVE  Reads(ParseLevel(calls, level, p), p, p + 1)
<1> DEFINE o == Joined(calls[level][p + 1])
           e == ParseOperand(calls, level, p)
           rest == calls[level][e.pos + 1]
           long == After(rest, Parsed(rest.pos, <<e.tree, tokens[e.pos].type>> \o rest.tree))
           short == Parsed(e.pos, <<e.tree>>)
<1>0. Len(tokens) \in Nat /\ p + 1 \in Nat
  BY DEF Terminated
<1>1. CASE Check(p, Prefix(level))
  <2>1. p + 1 \in p + 1 .. Len(tokens)
    BY <1>0, <1>1, CheckFacts
  <2>2. Reads(o, p + 1, p + 1 + 1)
    BY <1>0, <2>1, ReturnedAt, JoinedReads
  <2> DEFINE t == <<UnaryExpr(OperatorName[tokens[p].type], o.tree)>>
  <2>3. ParseLevel(calls, level, p) = After(o, Parsed(o.pos, t))
    BY <1>1, OnlyElement DEF ParseLevel, Then, After
  <2> HIDE DEF o, t
  <2>4. ~o.thrown => Reads(Parsed(o.pos, t), p, p + 1)
    BY <1>0, <2>2, ParsedReads DEF Reads
  <2> QED
    BY <1>0, <2>2, <2>3, <2>4, AfterReads
<1>2. CASE ~Check(p, Prefix(level))
  <2>1. Reads(e, p, p + 1)
    BY CallReads, JoinedReads DEF ParseOperand
  <2>2. ParseLevel(calls, level, p) = After(e, IF Check(e.pos, Infix[level]) THEN long ELSE short)
    BY <1>2, OnlyElement DEF ParseLevel, Then, After
  <2> HIDE DEF e
  <2>3. ~e.thrown => Reads(short, p, p + 1)
    BY <1>0, <2>1, ParsedReads DEF Reads
  <2>4. CASE Check(e.pos, Infix[level])
    <3> DEFINE q == e.pos + 1
    <3>1. q \in p + 1 .. Len(tokens)
      BY <1>0, <2>1, <2>4, CheckFacts DEF Reads
    <3>2. Reads(calls[level][q], q, q + 1)
      <4> HIDE DEF q
      <4> QED
        BY <1>0, <3>1, ReturnedAt
    <3> HIDE DEF rest
    <3>3. Reads(rest, q, q + 1)
      BY <3>2 DEF rest
    <3>4. Reads(long, p, p + 1)
      <4> DEFINE t == <<e.tree, tokens[e.pos].type>> \o rest.tree
      <4> HIDE DEF q, t
      <4>2. p \in Int /\ q \in Int /\ q + 1 \in Int /\ p + 1 \in Int /\ p <= q /\ p + 1 <= q + 1
        BY <1>0, <3>1
      <4>1. Reads(After(rest, Parsed(rest.pos, t)), p, p + 1)
        BY <1>0, <3>3, <4>2, TreeReads
      <4> QED
        BY <4>1 DEF t
    <3> QED
      BY <1>0, <2>1, <2>2, <2>4, <3>4, AfterReads
  <2> HIDE DEF long, short
  <2>5. CASE ~Check(e.pos, Infix[level])
    BY <1>0, <2>1, <2>2, <2>3, <2>5, AfterReads
  <2> QED
    BY <2>4, <2>5
<1> QED
  BY <1>1, <1>2

--------------------------------------------------------------------------------
(* Statements. *)

\* r ends, or throws, at a position from p on.
EndsFrom(r, p) == r.thrown \in BOOLEAN /\ r.pos \in p .. Len(tokens)

\* Of a chain of results each one counts.
LEMMA ChainEnds ==
  ASSUME NEW p, NEW r, EndsFrom(r, p)
  PROVE  /\ r.pos \in p .. Len(tokens)
         /\ \A t : EndsFrom(Parsed(r.pos, t), p)
         /\ \A s : EndsFrom(s, p) => EndsFrom(After(r, s), p)
<1>1. r.pos \in p .. Len(tokens)
  BY DEF EndsFrom
<1>2. \A t : EndsFrom(Parsed(r.pos, t), p)
  BY DEF EndsFrom, Parsed
<1>3. ASSUME NEW s, EndsFrom(s, p) PROVE EndsFrom(After(r, s), p)
  BY <1>3, Zenon DEF After
<1> QED
  BY <1>1, <1>2, <1>3

\* Tokens, expressions, lists, line ends and calls from a later position on.
LEMMA PiecesEnd ==
  ASSUME Terminated, NEW calls, NEW p \in Nat, p >= 1, ReturnFrom(calls, p)
  PROVE  \A q \in p .. Len(tokens) :
           /\ \A type : EndsFrom(Expect(q, type), p)
           /\ EndsFrom(ParseExpression(calls, q), p)
           /\ EndsFrom(ParseArguments(calls, q), p)
           /\ SkipNewlines(q) \in p .. Len(tokens)
           /\ EndsFrom(calls["statements"][q], p)
           /\ EndsFrom(calls["branches"][q], p)
<1>1. \A r : \A q \in p .. Len(tokens) : Reads(r, q, q) \/ Reads(r, q, q + 1) => EndsFrom(r, p)
  BY DEF Reads, EndsFrom, Terminated
<1> TAKE q \in p .. Len(tokens)
<1>2. q \in 1 .. Len(tokens)
  BY DEF Terminated
<1>3. \A type : EndsFrom(Expect(q, type), p)
  BY <1>1, <1>2, ExpectReads
<1>4. EndsFrom(ParseExpression(calls, q), p)
  BY <1>1, ExpressionReads
<1>5. EndsFrom(ParseArguments(calls, q), p)
  <2>1. Reads(ParseArguments(calls, q), q, q + 1)
    BY <1>2, ArgumentsReads
  <2> QED
    BY <1>1, <2>1
<1>6. SkipNewlines(q) \in p .. Len(tokens)
  BY <1>2, SkipNewlinesFacts DEF Terminated
<1>7. EndsFrom(calls["statements"][q], p) /\ EndsFrom(calls["branches"][q], p)
  BY <1>1, ReturnedAt
<1> QED
  BY <1>3, <1>4, <1>5, <1>6, <1>7

\* parse_block.
LEMMA BlockEnds ==
  ASSUME Terminated, NEW calls, NEW p \in Nat, p >= 1, ReturnFrom(calls, p),
         NEW q \in p .. Len(tokens)
  PROVE  EndsFrom(ParseBlock(calls, q), p)
<1> DEFINE i == Expect(SkipNewlines(q), "INDENT")
           s == calls["statements"][SkipNewlines(i.pos)]
<1>1. EndsFrom(i, p)
  BY PiecesEnd
<1>2. EndsFrom(s, p)
  BY <1>1, PiecesEnd, ChainEnds
<1>3. ParseBlock(calls, q) = After(i, s)
  BY OnlyElement DEF ParseBlock, Then, After
<1> QED
  BY <1>1, <1>2, <1>3, ChainEnds

\* A colon and a block.
LEMMA BodyEnds ==
  ASSUME Terminated, NEW calls, NEW p \in Nat, p >= 1, ReturnFrom(calls, p),
         NEW q \in p .. Len(tokens)
  PROVE  EndsFrom(ParseBody(calls, q), p)
<1> DEFINE c == Expect(q, "COLON")
           b == ParseBlock(calls, c.pos)
<1>1. EndsFrom(c, p)
  BY PiecesEnd
<1>2. EndsFrom(b, p)
  BY <1>1, BlockEnds, ChainEnds
<1>3. ParseBody(calls, q) = After(c, b)
  BY OnlyElement DEF ParseBody, Then, After
<1> QED
  BY <1>1, <1>2, <1>3, ChainEnds

\* Condition, colon and block.
LEMMA SuiteEnds ==
  ASSUME Terminated, NEW calls, NEW p \in Nat, p >= 1, ReturnFrom(calls, p),
         NEW q \in p .. Len(tokens)
  PROVE  EndsFrom(ParseSuite(calls, q), p)
<1> DEFINE e == ParseExpression(calls, q)
           b == ParseBody(calls, e.pos)
<1>1. EndsFrom(e, p)
  BY PiecesEnd
<1>2. EndsFrom(b, p)
  BY <1>1, BodyEnds, ChainEnds
<1>3. ParseSuite(calls, q) = After(e, After(b, Parsed(b.pos, Branch(e.tree, b.tree))))
  BY OnlyElement DEF ParseSuite, Then, After
<1> HIDE DEF e, b
<1> QED
  BY <1>1, <1>2, <1>3, ChainEnds

\* An if or elif, and what follows it.
LEMMA BranchEnds ==
  ASSUME Terminated, NEW calls, NEW p \in Nat, p >= 1, ReturnFrom(calls, p),
         NEW q \in p .. Len(tokens)
  PROVE  EndsFrom(ParseBranch(calls, q), p)
<1> DEFINE b == ParseSuite(calls, q)
           rest == calls["branches"][SkipNewlines(b.pos)]
<1>1. EndsFrom(b, p)
  BY SuiteEnds
<1>2. EndsFrom(rest, p)
  BY <1>1, PiecesEnd, ChainEnds
<1>3. ParseBranch(calls, q) = After(b, After(rest, Parsed(rest.pos, <<b.tree>> \o rest.tree)))
  BY OnlyElement DEF ParseBranch, Then, After
<1> HIDE DEF b, rest
<1> QED
  BY <1>1, <1>2, <1>3, ChainEnds

\* What comes after the first branch of an if.
LEMMA BranchesEnd ==
  ASSUME Terminated, NEW calls, NEW p \in 1 .. Len(tokens), ReturnFrom(calls, p + 1)
  PROVE  EndsFrom(ParseBranches(calls, p), p)
<1> DEFINE b == ParseBody(calls, p + 1)
<1>0. p \in Nat /\ p + 1 \in Nat /\ p + 1 >= 1 /\ Len(tokens) \in Nat
  BY DEF Terminated
<1>1. \A r : EndsFrom(r, p + 1) => EndsFrom(r, p)
  BY <1>0 DEF EndsFrom
<1>2. CASE Check(p, {"ELIF"})
  <2>1. p + 1 \in p + 1 .. Len(tokens)
    BY <1>0, <1>2, CheckFacts
  <2>2. ParseBranches(calls, p) = ParseBranch(calls, p + 1)
    BY <1>2 DEF ParseBranches, Check
  <2> QED
    BY <1>0, <1>1, <2>1, <2>2, BranchEnds
<1>3. CASE Check(p, {"ELSE"})
  <2>1. p + 1 \in p + 1 .. Len(tokens)
    BY <1>0, <1>3, CheckFacts
  <2>2. EndsFrom(b, p + 1)
    BY <1>0, <2>1, BodyEnds
  <2>3. ~Check(p, {"ELIF"})
    BY <1>3 DEF Check
  <2>4. ParseBranches(calls, p) = After(b, Parsed(b.pos, <<Else(b.tree)>>))
    BY <1>3, <2>3, OnlyElement DEF ParseBranches, Then, After
  <2> HIDE DEF b
  <2> QED
    BY <1>1, <2>2, <2>4, ChainEnds
<1>4. CASE ~Check(p, {"ELIF"}) /\ ~Check(p, {"ELSE"})
  <2>1. ParseBranches(calls, p) = Parsed(p, <<>>)
    BY <1>4 DEF ParseBranches
  <2> QED
    BY <1>0, <2>1 DEF EndsFrom, Parsed
<1> QED
  BY <1>2, <1>3, <1>4

\* parse_if, its keyword at p.
LEMMA IfEnds ==
  ASSUME Terminated, NEW calls, NEW p \in Nat, p + 1 \in 1 .. Len(tokens), ReturnFrom(calls, p + 1)
  PROVE  EndsFrom(ParseIf(calls, p), p + 1)
<1> DEFINE b == ParseBranch(calls, p + 1)
<1>1. p + 1 \in p + 1 .. Len(tokens) /\ p + 1 \in Nat /\ p + 1 >= 1
  OBVIOUS
<1>2. EndsFrom(b, p + 1)
  BY <1>1, BranchEnds
<1>3. ParseIf(calls, p) = After(b, Parsed(b.pos, IfStmt(b.tree)))
  BY OnlyElement DEF ParseIf, Then, After
<1> HIDE DEF b
<1> QED
  BY <1>2, <1>3, ChainEnds

\* parse_while.
LEMMA WhileEnds ==
  ASSUME Terminated, NEW calls, NEW p \in Nat, p + 1 \in 1 .. Len(tokens), ReturnFrom(calls, p + 1)
  PROVE  EndsFrom(ParseWhile(calls, p), p + 1)
<1> DEFINE s == ParseSuite(calls, p + 1)
<1>1. p + 1 \in p + 1 .. Len(tokens) /\ p + 1 \in Nat /\ p + 1 >= 1
  OBVIOUS
<1>2. EndsFrom(s, p + 1)
  BY <1>1, SuiteEnds
<1>3. ParseWhile(calls, p) =
        After(s, Parsed(s.pos, WhileStmt(s.tree.cond[1], s.tree.body)))
  BY OnlyElement DEF ParseWhile, Then, After
<1> HIDE DEF s
<1> QED
  BY <1>2, <1>3, ChainEnds

\* parse_for.
LEMMA ForEnds ==
  ASSUME Terminated, NEW calls, NEW p \in Nat, p + 1 \in 1 .. Len(tokens), ReturnFrom(calls, p + 1)
  PROVE  EndsFrom(ParseFor(calls, p), p + 1)
<1> DEFINE v == Expect(p + 1, "IDENTIFIER")
           i == Expect(v.pos, "IN")
           s == ParseSuite(calls, i.pos)
<1>1. p + 1 \in p + 1 .. Len(tokens) /\ p + 1 \in Nat /\ p + 1 >= 1
  OBVIOUS
<1>2. EndsFrom(v, p + 1)
  BY <1>1, PiecesEnd
<1>3. EndsFrom(i, p + 1)
  BY <1>1, <1>2, PiecesEnd, ChainEnds
<1>4. EndsFrom(s, p + 1)
  BY <1>1, <1>3, SuiteEnds, ChainEnds
<1>5. ParseFor(calls, p) =
        After(v, After(i, After(s,
          Parsed(s.pos, ForStmt(v.tree, s.tree.cond[1], s.tree.body)))))
  BY OnlyElement DEF ParseFor, Then, After
<1> HIDE DEF v, i, s
<1> QED
  BY <1>2, <1>3, <1>4, <1>5, ChainEnds

\* The parameters of a function.
LEMMA ParametersEnd ==
  ASSUME Terminated, NEW p \in Nat, p >= 1, NEW q \in p .. Len(tokens)
  PROVE  EndsFrom(ParseParameters(q), p)
<1> DEFINE awaited(x) == IF (x - q) % 2 = 0 THEN "IDENTIFIER" ELSE "COMMA"
           S == {x \in q .. Len(tokens) : ~Check(x, {awaited(x)})}
           stop == Min(S)
           full == Check(stop, {"RPAREN"}) /\ (stop - q) % 2 = 1
           names == [i \in 1 .. (stop - q) \div 2 + 1 |-> tokens[q + 2 * (i - 1)].value]
<1>0. Len(tokens) \in Nat /\ q \in 1 .. Len(tokens)
  BY DEF Terminated
<1>1. stop \in q .. Len(tokens)
  <2>1. Len(tokens) \in S /\ S \subseteq Nat
    BY <1>0 DEF Terminated, Check, AtEnd
  <2>2. S \subseteq q .. Len(tokens)
    OBVIOUS
  <2> HIDE DEF S
  <2> QED
    BY <2>1, <2>2, LeastElement
<1>2. ParseParameters(q) =
        CASE Check(q, {"RPAREN"}) -> Parsed(q + 1, <<>>)
          [] full -> Parsed(stop + 1, names)
          [] OTHER -> Thrown(stop)
  BY DEF ParseParameters
<1> HIDE DEF stop, full, names
<1>3. CASE Check(q, {"RPAREN"})
  <2>1. q \in S /\ S \subseteq Nat
    BY <1>0, <1>3 DEF Check
  <2>2. stop <= q
    <3> HIDE DEF S
    <3> QED
      BY <2>1, LeastElement DEF stop
  <2>3. ~full
    BY <1>0, <1>1, <2>2 DEF full
  <2>4. ParseParameters(q) = Parsed(q + 1, <<>>)
    BY <1>2, <1>3, <2>3
  <2> QED
    BY <1>0, <1>3, <2>4, CheckFacts DEF EndsFrom, Parsed
<1>4. CASE ~Check(q, {"RPAREN"}) /\ full
  <2>1. ParseParameters(q) = Parsed(stop + 1, names)
    BY <1>2, <1>4
  <2>2. stop + 1 \in p .. Len(tokens)
    BY <1>0, <1>1, <1>4, CheckFacts DEF full
  <2> QED
    BY <2>1, <2>2 DEF EndsFrom, Parsed
<1>5. CASE ~Check(q, {"RPAREN"}) /\ ~full
  <2>1. ParseParameters(q) = Thrown(stop)
    BY <1>2, <1>5
  <2> QED
    BY <1>0, <1>1, <2>1 DEF EndsFrom, Thrown
<1> QED
  BY <1>3, <1>4, <1>5

\* The calls of parse_def, one after the other.
LEMMA DefChain ==
  ASSUME NEW calls, NEW p
  PROVE  LET n  == Expect(p + 1, "IDENTIFIER")
             l  == Expect(n.pos, "LPAREN")
             ps == ParseParameters(l.pos)
             b  == ParseBody(calls, ps.pos)
         IN  ParseDef(calls, p) =
               After(n, After(l, After(ps, After(b,
                 Parsed(b.pos, FuncDef(n.tree, ps.tree, b.tree))))))
<1> DEFINE Whole(n, ps, b) == Parsed(b.pos, FuncDef(n.tree, ps.tree, b.tree))
           Body(n, ps) == Then(ParseBody(calls, ps.pos), LAMBDA b : Whole(n, ps, b))
           Params(n, l) == Then(ParseParameters(l.pos), LAMBDA ps : Body(n, ps))
           Paren(n) == Then(Expect(n.pos, "LPAREN"), LAMBDA l : Params(n, l))
<1>1. ParseDef(calls, p) = Then(Expect(p + 1, "IDENTIFIER"), LAMBDA n : Paren(n))
  BY DEF ParseDef
<1> HIDE DEF Whole
<1>2. \A n, ps : LET b == ParseBody(calls, ps.pos) IN Body(n, ps) = After(b, Whole(n, ps, b))
  BY OnlyElement DEF Then, After
<1> HIDE DEF Body
<1>3. \A n, l : LET ps == ParseParameters(l.pos) IN Params(n, l) = After(ps, Body(n, ps))
  BY OnlyElement DEF Then, After
<1> HIDE DEF Params
<1>4. \A n : LET l == Expect(n.pos, "LPAREN") IN Paren(n) = After(l, Params(n, l))
  BY OnlyElement DEF Then, After
<1> HIDE DEF Paren
<1>5. LET n == Expect(p + 1, "IDENTIFIER") IN ParseDef(calls, p) = After(n, Paren(n))
  BY <1>1, OnlyElement DEF Then, After
<1> QED
  BY <1>2, <1>3, <1>4, <1>5 DEF Whole

\* parse_def.
LEMMA DefEnds ==
  ASSUME Terminated, NEW calls, NEW p \in Nat, p + 1 \in 1 .. Len(tokens), ReturnFrom(calls, p + 1)
  PROVE  EndsFrom(ParseDef(calls, p), p + 1)
<1> DEFINE n  == Expect(p + 1, "IDENTIFIER")
           l  == Expect(n.pos, "LPAREN")
           ps == ParseParameters(l.pos)
           b  == ParseBody(calls, ps.pos)
<1>1. p + 1 \in p + 1 .. Len(tokens) /\ p + 1 \in Nat /\ p + 1 >= 1
  OBVIOUS
<1>2. EndsFrom(n, p + 1)
  BY <1>1, PiecesEnd
<1>3. EndsFrom(l, p + 1)
  BY <1>1, <1>2, PiecesEnd, ChainEnds
<1>4. EndsFrom(ps, p + 1)
  BY <1>1, <1>3, ParametersEnd, ChainEnds
<1>5. EndsFrom(b, p + 1)
  BY <1>1, <1>4, BodyEnds, ChainEnds
<1>6. ParseDef(calls, p) =
        After(n, After(l, After(ps, After(b,
          Parsed(b.pos, FuncDef(n.tree, ps.tree, b.tree))))))
  BY DefChain
<1> HIDE DEF n, l, ps, b
<1> QED
  BY <1>2, <1>3, <1>4, <1>5, <1>6, ChainEnds

\* parse_return.
LEMMA ReturnEnds ==
  ASSUME Terminated, NEW calls, NEW p \in Nat, p + 1 \in 1 .. Len(tokens), ReturnFrom(calls, p + 1)
  PROVE  EndsFrom(ParseReturn(calls, p), p + 1)
<1> DEFINE e == ParseExpression(calls, p + 1)
<1>1. p + 1 \in p + 1 .. Len(tokens) /\ p + 1 \in Nat /\ p + 1 >= 1
  OBVIOUS
<1>2. CASE Check(p + 1, {"NEWLINE", "DEDENT"})
  <2>1. ParseReturn(calls, p) = Parsed(p + 1, ReturnStmt(Literal(PyNone)))
    BY <1>2 DEF ParseReturn
  <2> QED
    BY <1>1, <2>1 DEF EndsFrom, Parsed
<1>3. CASE ~Check(p + 1, {"NEWLINE", "DEDENT"})
  <2>1. EndsFrom(e, p + 1)
    BY <1>1, PiecesEnd
  <2>2. ParseReturn(calls, p) = After(e, Parsed(e.pos, ReturnStmt(e.tree)))
    BY <1>3, OnlyElement DEF ParseReturn, Then, After
  <2> HIDE DEF e
  <2> QED
    BY <2>1, <2>2, ChainEnds
<1> QED
  BY <1>2, <1>3

\* parse_print.
LEMMA PrintEnds ==
  ASSUME Terminated, NEW calls, NEW p \in Nat, p + 1 \in 1 .. Len(tokens), ReturnFrom(calls, p + 1)
  PROVE  EndsFrom(ParsePrint(calls, p), p + 1)
<1> DEFINE l == Expect(p + 1, "LPAREN")
           a == ParseArguments(calls, l.pos)
<1>1. p + 1 \in p + 1 .. Len(tokens) /\ p + 1 \in Nat /\ p + 1 >= 1
  OBVIOUS
<1>2. EndsFrom(l, p + 1)
  BY <1>1, PiecesEnd
<1>3. EndsFrom(a, p + 1)
  BY <1>1, <1>2, PiecesEnd, ChainEnds
<1>4. ParsePrint(calls, p) = After(l, After(a, Parsed(a.pos, PrintStmt(a.tree))))
  BY OnlyElement DEF ParsePrint, Then, After
<1> HIDE DEF l, a
<1> QED
  BY <1>2, <1>3, <1>4, ChainEnds

\* parse_import.
LEMMA ImportEnds ==
  ASSUME Terminated, NEW p \in Nat, p + 1 \in 1 .. Len(tokens)
  PROVE  EndsFrom(ParseImport(p), p + 1)
<1> DEFINE m == Expect(p + 1, "IDENTIFIER")
           a == Expect(m.pos + 1, "IDENTIFIER")
           named == After(a, Parsed(a.pos, ImportAs(m.tree, a.tree)))
<1>0. Len(tokens) \in Nat /\ p + 1 \in p + 1 .. Len(tokens)
  BY DEF Terminated
<1>1. \A q \in p + 1 .. Len(tokens) : EndsFrom(Expect(q, "IDENTIFIER"), p + 1)
  BY <1>0, ExpectReads DEF Reads, EndsFrom
<1>2. EndsFrom(m, p + 1)
  BY <1>0, <1>1
<1>3. ParseImport(p) =
        After(m, IF Check(m.pos, {"AS"}) THEN named ELSE Parsed(m.pos, ImportStmt(m.tree)))
  BY OnlyElement DEF ParseImport, Then, After
<1> HIDE DEF m
<1>4. CASE Check(m.pos, {"AS"})
  <2>1. m.pos + 1 \in p + 1 .. Len(tokens)
    BY <1>0, <1>2, <1>4, CheckFacts DEF EndsFrom
  <2>2. EndsFrom(a, p + 1)
    BY <1>1, <2>1
  <2> HIDE DEF a
  <2> QED
    BY <1>2, <1>3, <1>4, <2>2, ChainEnds
<1> HIDE DEF a
<1>5. CASE ~Check(m.pos, {"AS"})
  BY <1>2, <1>3, <1>5, ChainEnds
<1> QED
  BY <1>4, <1>5

\* parse_from_import.
LEMMA FromImportEnds ==
  ASSUME Terminated, NEW p \in Nat, p + 1 \in 1 .. Len(tokens)
  PROVE  EndsFrom(ParseFromImport(p), p + 1)
<1> DEFINE m == Expect(p + 1, "IDENTIFIER")
           i == Expect(m.pos, "IMPORT")
           n == Expect(i.pos, "IDENTIFIER")
<1>0. Len(tokens) \in Nat /\ p + 1 \in p + 1 .. Len(tokens)
  BY DEF Terminated
<1>1. \A type : \A q \in p + 1 .. Len(tokens) : EndsFrom(Expect(q, type), p + 1)
  BY <1>0, ExpectReads DEF Reads, EndsFrom
<1>2. EndsFrom(m, p + 1)
  BY <1>0, <1>1
<1>3. EndsFrom(i, p + 1)
  BY <1>1, <1>2, ChainEnds
<1>4. EndsFrom(n, p + 1)
  BY <1>1, <1>3, ChainEnds
<1>5. ParseFromImport(p) =
        After(m, After(i, After(n, Parsed(n.pos, FromImportStmt(m.tree, n.tree)))))
  BY OnlyElement DEF ParseFromImport, Then, After
<1> HIDE DEF m, i, n
<1> QED
  BY <1>2, <1>3, <1>4, <1>5, ChainEnds

\* An expression reads a token, and so does what starts with one.
LEMMA AssignmentReads ==
  ASSUME Terminated, NEW calls, NEW p \in 1 .. Len(tokens), ReturnFrom(calls, p + 1),
         Reads(calls["or"][p], p, p + 1)
  PROVE  Reads(ParseAssignmentOrExpr(calls, p), p, p + 1)
<1> DEFINE e == ParseExpression(calls, p)
           v == ParseExpression(calls, e.pos + 1)
           t == AssignStmt(e.tree.name, v.tree)
<1>0. Len(tokens) \in Nat /\ p \in Int /\ p + 1 \in Int /\ p + 1 \in Nat
  BY DEF Terminated
<1>1. Reads(e, p, p + 1)
  BY <1>0, JoinedReads DEF ParseExpression
<1>2. CASE ~Check(e.pos, {"ASSIGN"})
  <2>1. ParseAssignmentOrExpr(calls, p) = After(e, Parsed(e.pos, ExprStmt(e.tree)))
    BY <1>2, OnlyElement DEF ParseAssignmentOrExpr, Then, After
  <2> HIDE DEF e
  <2>2. Reads(After(e, Parsed(e.pos, ExprStmt(e.tree))), p, p + 1)
    <3> DEFINE s == ExprStmt(e.tree)
    <3> HIDE DEF s
    <3>1. p <= p /\ p + 1 <= p + 1
      BY <1>0
    <3>2. Reads(After(e, Parsed(e.pos, s)), p, p + 1)
      BY <1>0, <1>1, <3>1, TreeReads
    <3> QED
      BY <3>2 DEF s
  <2> QED
    BY <2>1, <2>2
<1>3. CASE Check(e.pos, {"ASSIGN"}) /\ e.tree.node # "Identifier"
  <2>1. ParseAssignmentOrExpr(calls, p) = After(e, Thrown(e.pos + 1))
    BY <1>3, OnlyElement DEF ParseAssignmentOrExpr, Then, After
  <2> HIDE DEF e
  <2>2. Reads(Thrown(e.pos + 1), p, p + 1)
    BY <1>0, <1>1, <1>3, CheckFacts DEF Reads, Thrown
  <2> QED
    BY <1>0, <1>1, <2>1, <2>2, AfterReads
<1>4. CASE Check(e.pos, {"ASSIGN"}) /\ e.tree.node = "Identifier"
  <2>1. ParseAssignmentOrExpr(calls, p) = After(e, After(v, Parsed(v.pos, t)))
    BY <1>4, OnlyElement DEF ParseAssignmentOrExpr, Then, After
  <2> HIDE DEF e
  <2> DEFINE q == e.pos + 1
  <2>2. q \in p + 1 .. Len(tokens) /\ q \in Int /\ q + 1 \in Int /\ p <= q /\ p + 1 <= q + 1
    BY <1>0, <1>1, <1>4, CheckFacts DEF Reads
  <2>3. Reads(v, q, q + 1)
    <3> HIDE DEF q
    <3> QED
      BY <1>0, <2>2, ExpressionReads DEF q
  <2> HIDE DEF q, v, t
  <2>4. Reads(After(v, Parsed(v.pos, t)), p, p + 1)
    BY <1>0, <2>2, <2>3, TreeReads
  <2>5. Reads(After(e, After(v, Parsed(v.pos, t))), p, p + 1)
    BY <1>0, <1>1, <2>4, AfterReads
  <2> QED
    BY <2>1, <2>5
<1> QED
  BY <1>2, <1>3, <1>4

\* The keywords that start a statement.
Starting == {"IF", "WHILE", "FOR", "DEF", "RETURN", "PRINT", "BREAK", "CONTINUE", "PASS",
             "IMPORT", "FROM"}

\* A statement with a keyword reads it, whether it throws or not.
LEMMA KeywordEnds ==
  ASSUME Terminated, NEW calls, NEW p \in 1 .. Len(tokens), ReturnFrom(calls, p + 1),
         Check(p, Starting)
  PROVE  EndsFrom(ParseStatement(calls, p), p + 1)
<1>0. p \in Nat /\ p + 1 \in 1 .. Len(tokens) /\ p + 1 \in p + 1 .. Len(tokens)
  BY CheckFacts DEF Terminated
<1>1. \A t : EndsFrom(Parsed(p + 1, t), p + 1)
  BY <1>0 DEF EndsFrom, Parsed
<1>2. CASE Check(p, {"IF"})
  <2>1. ParseStatement(calls, p) = ParseIf(calls, p)
    BY <1>2 DEF ParseStatement, Check
  <2> QED
    BY <1>0, <2>1, IfEnds
<1>3. CASE Check(p, {"WHILE"})
  <2>1. ParseStatement(calls, p) = ParseWhile(calls, p)
    BY <1>3 DEF ParseStatement, Check
  <2> QED
    BY <1>0, <2>1, WhileEnds
<1>4. CASE Check(p, {"FOR"})
  <2>1. ParseStatement(calls, p) = ParseFor(calls, p)
    BY <1>4 DEF ParseStatement, Check
  <2> QED
    BY <1>0, <2>1, ForEnds
<1>5. CASE Check(p, {"DEF"})
  <2>1. ParseStatement(calls, p) = ParseDef(calls, p)
    BY <1>5 DEF ParseStatement, Check
  <2> QED
    BY <1>0, <2>1, DefEnds
<1>6. CASE Check(p, {"RETURN"})
  <2>1. ParseStatement(calls, p) = ParseReturn(calls, p)
    BY <1>6 DEF ParseStatement, Check
  <2> QED
    BY <1>0, <2>1, ReturnEnds
<1>7. CASE Check(p, {"PRINT"})
  <2>1. ParseStatement(calls, p) = ParsePrint(calls, p)
    BY <1>7 DEF ParseStatement, Check
  <2> QED
    BY <1>0, <2>1, PrintEnds
<1>8. CASE Check(p, {"IMPORT"})
  <2>1. ParseStatement(calls, p) = ParseImport(p)
    BY <1>8 DEF ParseStatement, Check
  <2> QED
    BY <1>0, <2>1, ImportEnds
<1>9. CASE Check(p, {"FROM"})
  <2>1. ParseStatement(calls, p) = ParseFromImport(p)
    BY <1>9 DEF ParseStatement, Check
  <2> QED
    BY <1>0, <2>1, FromImportEnds
<1>10. CASE Check(p, {"BREAK"})
  <2>1. ParseStatement(calls, p) = Parsed(p + 1, BreakStmt)
    BY <1>10 DEF ParseStatement, Check
  <2> QED
    BY <1>1, <2>1
<1>11. CASE Check(p, {"CONTINUE"})
  <2>1. ParseStatement(calls, p) = Parsed(p + 1, ContinueStmt)
    BY <1>11 DEF ParseStatement, Check
  <2> QED
    BY <1>1, <2>1
<1>12. CASE Check(p, {"PASS"})
  <2>1. ParseStatement(calls, p) = Parsed(p + 1, PassStmt)
    BY <1>12 DEF ParseStatement, Check
  <2> QED
    BY <1>1, <2>1
<1> QED
  BY <1>2, <1>3, <1>4, <1>5, <1>6, <1>7, <1>8, <1>9, <1>10, <1>11, <1>12 DEF Check, Starting

\* parse_statement reads a token if it does not throw, and the keyword it starts
\* with even then.
LEMMA StatementReads ==
  ASSUME Terminated, NEW calls, NEW p \in 1 .. Len(tokens), ReturnFrom(calls, p + 1),
         Reads(calls["or"][p], p, p + 1)
  PROVE  /\ Reads(ParseStatement(calls, p), p, p + 1)
         /\ Check(p, Resuming) => EndsFrom(ParseStatement(calls, p), p + 1)
<1>0. Len(tokens) \in Nat
  BY DEF Terminated
<1>1. CASE Check(p, Starting)
  <2>1. EndsFrom(ParseStatement(calls, p), p + 1)
    BY <1>1, KeywordEnds
  <2> QED
    BY <1>0, <2>1 DEF EndsFrom, Reads
<1>2. CASE ~Check(p, Starting)
  <2>1. ParseStatement(calls, p) = ParseAssignmentOrExpr(calls, p)
    BY <1>2 DEF ParseStatement, Starting, Check
  <2>2. ~Check(p, Resuming)
    BY <1>2 DEF Check, Starting, Resuming
  <2> QED
    BY <2>1, <2>2, AssignmentReads
<1> QED
  BY <1>1, <1>2

\* The statements of a block.
LEMMA StatementsEnd ==
  ASSUME Terminated, NEW calls, NEW p \in 1 .. Len(tokens), ReturnFrom(calls, p + 1),
         Reads(calls["or"][p], p, p + 1)
  PROVE  EndsFrom(ParseStatements(calls, p), p)
<1> DEFINE s == ParseStatement(calls, p)
           rest == calls["statements"][SkipNewlines(s.pos)]
<1>0. Len(tokens) \in Nat /\ p + 1 \in Nat /\ p + 1 >= 1
  BY DEF Terminated
<1>1. CASE AtEnd(p)
  <2>1. ParseStatements(calls, p) = Parsed(p, <<>>)
    BY <1>1 DEF ParseStatements, Check
  <2> QED
    BY <1>0, <2>1 DEF EndsFrom, Parsed
<1>2. CASE Check(p, {"DEDENT"})
  <2>1. ParseStatements(calls, p) = Parsed(p + 1, <<>>)
    BY <1>2 DEF ParseStatements, Check
  <2> QED
    BY <1>0, <1>2, <2>1, CheckFacts DEF EndsFrom, Parsed
<1>3. CASE ~AtEnd(p) /\ ~Check(p, {"DEDENT"})
  <2>1. Reads(s, p, p + 1)
    BY StatementReads
  <2>2. EndsFrom(s, p)
    BY <1>0, <2>1 DEF Reads, EndsFrom
  <2>3. ~s.thrown => EndsFrom(rest, p)
    <3>1. SUFFICES ASSUME ~s.thrown PROVE EndsFrom(rest, p)
      OBVIOUS
    <3>2. s.pos \in p + 1 .. Len(tokens)
      BY <1>0, <2>1, <3>1 DEF Reads
    <3>3. EndsFrom(rest, p + 1)
      BY <1>0, <3>2, PiecesEnd
    <3> QED
      BY <1>0, <3>3 DEF EndsFrom
  <2>4. ParseStatements(calls, p) = After(s, After(rest, Parsed(rest.pos, <<s.tree>> \o rest.tree)))
    BY <1>3, OnlyElement DEF ParseStatements, Then, After
  <2> HIDE DEF s, rest
  <2>5. CASE s.thrown
    <3>1. ParseStatements(calls, p) = s
      BY <2>4, <2>5 DEF After
    <3> QED
      BY <2>2, <3>1
  <2>6. CASE ~s.thrown
    BY <2>2, <2>3, <2>4, <2>6, ChainEnds
  <2> QED
    BY <2>5, <2>6
<1> QED
  BY <1>1, <1>2, <1>3

--------------------------------------------------------------------------------
(* Calls of calls. *)

\* From call to call either the position grows or, at the same one, this rank
\* falls: the recursion of the parser in numbers.
Rank ==
  [arguments |-> 8, or |-> 7, and |-> 6, not |-> 5, comparison |-> 4, addition |-> 3,
   multiplication |-> 2, unary |-> 1, statements |-> 8, branches |-> 1]
Measure(f, p) == 8 * (Len(tokens) - p) + Rank[f]

\* The calls with a measure of at most m return.
ReturnTo(calls, m) ==
  \A f \in Functions : \A p \in 1 .. Len(tokens) :
    Measure(f, p) <= m => Reads(calls[f][p], p, Least(f, p))

\* The ranks of the levels, and of what their operands are.
LEMMA RankFacts ==
  /\ \A f \in Functions : Rank[f] \in 1 .. 8
  /\ \A f \in DOMAIN Infix \ {"unary"} :
       Operands[f] \in DOMAIN Infix /\ Rank[Operands[f]] = Rank[f] - 1
  /\ Rank["or"] = 7 /\ Rank["statements"] = 8
<1>1. \A f \in Functions : Rank[f] \in 1 .. 8
  BY SMT DEF Functions, Infix, Rank
<1>2. \A f \in DOMAIN Infix \ {"unary"} :
        Operands[f] \in DOMAIN Infix /\ Rank[Operands[f]] = Rank[f] - 1
  BY SMT DEF Infix, Rank, Operands
<1> QED
  BY <1>1, <1>2, SMT DEF Rank

\* A later position outweighs every rank.
LEMMA MeasureFalls ==
  ASSUME NEW here \in Int, NEW there \in Int, NEW high \in 1 .. 8, NEW low \in 1 .. 8,
         NEW m \in Int, there <= here - 8, here + low <= m + 1
  PROVE  there + high <= m
OBVIOUS

\* What a function of measure m + 1 calls has a measure of at most m.
LEMMA OneCall ==
  ASSUME Terminated, NEW calls, NEW m \in Int, ReturnTo(calls, m),
         NEW f \in Functions, NEW p \in 1 .. Len(tokens), Measure(f, p) <= m + 1
  PROVE  Reads(ParseFunction(calls, f, p), p, Least(f, p))
<1>0. Len(tokens) \in Nat
  BY DEF Terminated
<1>1. ReturnFrom(calls, p + 1)
  <2> SUFFICES ASSUME NEW g \in Functions, NEW q \in p + 1 .. Len(tokens)
               PROVE  Reads(calls[g][q], q, Least(g, q))
    BY DEF ReturnFrom
  <2>1. Rank[f] \in 1 .. 8 /\ Rank[g] \in 1 .. 8
    BY RankFacts
  <2>2. q \in 1 .. Len(tokens) /\ 8 * (Len(tokens) - q) <= 8 * (Len(tokens) - p) - 8
    BY <1>0
  <2>3. Measure(g, q) <= m
    <3> DEFINE here  == 8 * (Len(tokens) - p)
               there == 8 * (Len(tokens) - q)
    <3>1. here \in Int /\ there \in Int /\ there <= here - 8 /\ here + Rank[f] <= m + 1
      BY <1>0, <2>2 DEF Measure
    <3> HIDE DEF here, there
    <3>2. there + Rank[g] <= m
      BY <2>1, <3>1, MeasureFalls
    <3> QED
      BY <3>2 DEF Measure, there
  <2> QED
    BY <2>2, <2>3 DEF ReturnTo
<1>2. CASE f \in DOMAIN Infix
  <2>1. f \notin {"statements", "branches"}
    BY <1>2, FunctionNames
  <2>2. ASSUME f # "unary" PROVE Reads(calls[Operands[f]][p], p, p + 1)
    <3>1. Operands[f] \in DOMAIN Infix /\ Rank[Operands[f]] = Rank[f] - 1 /\ Rank[f] \in Int
      BY <1>2, <2>2, RankFacts
    <3>2. Measure(Operands[f], p) <= m
      BY <1>0, <3>1 DEF Measure
    <3>3. Operands[f] \in Functions /\ Operands[f] \notin {"statements", "branches"}
      BY <3>1, FunctionNames
    <3> QED
      BY <3>2, <3>3 DEF ReturnTo, Least
  <2>3. ParseFunction(calls, f, p) = ParseLevel(calls, f, p)
    BY <2>1 DEF ParseFunction
  <2> QED
    BY <1>1, <1>2, <2>1, <2>2, <2>3, LevelReads DEF Least
<1>3. CASE f = "statements"
  <2>1. Measure("or", p) <= m
    BY <1>0, <1>3, RankFacts DEF Measure
  <2>2. Reads(calls["or"][p], p, p + 1)
    BY <2>1, FunctionNames DEF ReturnTo, Least
  <2>3. ParseFunction(calls, f, p) = ParseStatements(calls, p)
    BY <1>3 DEF ParseFunction
  <2>4. EndsFrom(ParseStatements(calls, p), p)
    BY <1>1, <2>2, StatementsEnd
  <2> QED
    BY <1>0, <1>3, <2>3, <2>4 DEF Least, EndsFrom, Reads
<1>4. CASE f = "branches"
  <2>1. ParseFunction(calls, f, p) = ParseBranches(calls, p)
    BY <1>4 DEF ParseFunction
  <2>2. EndsFrom(ParseBranches(calls, p), p)
    BY <1>1, BranchesEnd
  <2> QED
    BY <1>0, <1>4, <2>1, <2>2 DEF Least, EndsFrom, Reads
<1> QED
  BY <1>2, <1>3, <1>4 DEF Functions

\* A set of numbers that holds 0 and with each number the next one holds all.
LEMMA Induction ==
  ASSUME NEW S \in SUBSET Nat, 0 \in S, \A n \in S : n + 1 \in S
  PROVE  S = Nat
<1> DEFINE less == {ss \in Nat \X Nat : ss[1] < ss[2]}
           T    == Nat \ S
<1>1. IsWellFoundedOn(less, Nat)
  BY NatLessThanWellFounded DEF OpToRel
<1>2. ASSUME T # {} PROVE FALSE
  <2>1. PICK x \in T : \A y \in T : ~ (<<y, x>> \in less)
    <3> HIDE DEF less
    <3> QED
      BY <1>1, <1>2, WFMin
  <2>2. x \in Nat /\ x # 0 /\ x - 1 \in Nat
    OBVIOUS
  <2>3. x - 1 \in T
    <3>1. CASE x - 1 \in S
      <4>1. (x - 1) + 1 \in S
        BY <3>1
      <4> QED
        BY <2>2, <4>1
    <3> QED
      BY <2>2, <3>1
  <2>4. <<x - 1, x>> \in less
    BY <2>2
  <2> QED
    BY <2>1, <2>3, <2>4
<1> QED
  BY <1>2

\* The calls at the depth cut, and a level above other calls.
NoCalls == [f \in Functions |-> [p \in 1 .. Len(tokens) |-> TooDeep]]
Above(calls) == [f \in Functions |-> [p \in 1 .. Len(tokens) |-> ParseFunction(calls, f, p)]]

\* g is Calls up to a depth of m.
Follows(g, m) ==
  \A n \in 0 .. m : g[n] = IF n = 0 THEN NoCalls ELSE Above(g[n - 1])

\* There is one for every depth.
LEMMA FollowingExists == \A m \in Nat : \E g : Follows(g, m)
<1> DEFINE S == {m \in Nat : \E g : Follows(g, m)}
<1>1. 0 \in S
  <2> DEFINE g == [n \in Nat |-> NoCalls]
  <2>1. Follows(g, 0)
    BY DEF Follows
  <2> QED
    BY <2>1
<1>2. ASSUME NEW m \in S PROVE m + 1 \in S
  <2>1. PICK g : Follows(g, m)
    OBVIOUS
  <2> DEFINE h == [n \in Nat |-> IF n = m + 1 THEN Above(g[m]) ELSE g[n]]
  <2>2. m \in Nat /\ m + 1 \in Nat
    OBVIOUS
  <2>3. h[m + 1] = Above(h[m]) /\ m + 1 # 0
    BY <2>2
  <2>4. ASSUME NEW n \in 0 .. m PROVE h[n] = IF n = 0 THEN NoCalls ELSE Above(h[n - 1])
    <3>1. h[n] = g[n] /\ (n # 0 => h[n - 1] = g[n - 1])
      BY <2>2
    <3>2. g[n] = IF n = 0 THEN NoCalls ELSE Above(g[n - 1])
      BY <2>1 DEF Follows
    <3> QED
      BY <3>1, <3>2
  <2> HIDE DEF h
  <2>5. ASSUME NEW n \in 0 .. m + 1 PROVE h[n] = IF n = 0 THEN NoCalls ELSE Above(h[n - 1])
    <3>1. CASE n = m + 1
      <4>1. n - 1 = m
        BY <2>2, <3>1
      <4> QED
        BY <2>3, <3>1, <4>1
    <3>2. CASE n # m + 1
      <4>1. n \in 0 .. m
        BY <2>2, <3>2
      <4> QED
        BY <2>4, <4>1
    <3> QED
      BY <3>1, <3>2
  <2>6. Follows(h, m + 1)
    BY <2>5 DEF Follows
  <2> QED
    BY <2>2, <2>6
<1> HIDE DEF S
<1>3. S \in SUBSET Nat
  BY DEF S
<1>4. S = Nat
  BY <1>1, <1>2, <1>3, Induction
<1> QED
  BY <1>4 DEF S

\* Two of them are the same as far as they are.
LEMMA FollowingAgrees ==
  ASSUME NEW m \in Nat, NEW g, NEW h, Follows(g, m), Follows(h, m)
  PROVE  g[m] = h[m]
<1> DEFINE S == {n \in Nat : n <= m => g[n] = h[n]}
<1>1. 0 \in S
  BY DEF Follows
<1>2. ASSUME NEW n \in S PROVE n + 1 \in S
  <2> SUFFICES ASSUME n + 1 <= m PROVE g[n + 1] = h[n + 1]
    OBVIOUS
  <2>1. n + 1 \in 0 .. m /\ n + 1 # 0 /\ (n + 1) - 1 = n /\ n <= m
    OBVIOUS
  <2>2. g[n] = h[n]
    BY <2>1
  <2>3. g[n + 1] = Above(g[n]) /\ h[n + 1] = Above(h[n])
    BY <2>1 DEF Follows
  <2> QED
    BY <2>2, <2>3
<1> HIDE DEF S
<1>3. S \in SUBSET Nat
  BY DEF S
<1>4. S = Nat
  BY <1>1, <1>2, <1>3, Induction
<1> QED
  BY <1>4 DEF S

\* Calls is what its definition says.
LEMMA CallsAreFollowed ==
  /\ Calls[0] = NoCalls
  /\ \A n \in Nat : Calls[n + 1] = Above(Calls[n])
<1> DEFINE P(m) == CHOOSE g : Follows(g, m)
           G == [n \in Nat |-> P(n)[n]]
           F(g) == [n \in Nat |-> IF n = 0 THEN NoCalls ELSE Above(g[n - 1])]
<1>1. \A m \in Nat : Follows(P(m), m)
  BY FollowingExists
<1> HIDE DEF P
<1>2. ASSUME NEW n \in Nat PROVE G[n] = F(G)[n]
  <2>1. P(n)[n] = IF n = 0 THEN NoCalls ELSE Above(P(n)[n - 1])
    BY <1>1 DEF Follows
  <2>2. CASE n = 0
    BY <2>1, <2>2
  <2>3. CASE n # 0
    <3>1. n - 1 \in Nat
      BY <2>3
    <3>2. Follows(P(n), n - 1)
      BY <1>1, <3>1 DEF Follows
    <3>3. P(n)[n - 1] = P(n - 1)[n - 1]
      BY <1>1, <3>1, <3>2, FollowingAgrees
    <3> QED
      BY <2>1, <2>3, <3>1, <3>3
  <2> QED
    BY <2>2, <2>3
<1>3. G = F(G)
  BY <1>2
<1> DEFINE E(g) == [n \in Nat |-> [f \in Functions |-> [p \in 1 .. Len(tokens) |->
                     IF n = 0 THEN TooDeep ELSE ParseFunction(g[n - 1], f, p)]]]
<1>4. \A g : E(g) = F(g)
  <2> TAKE g
  <2>1. ASSUME NEW n \in Nat PROVE E(g)[n] = F(g)[n]
    <3>1. CASE n = 0
      BY <3>1 DEF NoCalls
    <3>2. CASE n # 0
      BY <3>2 DEF Above
    <3> QED
      BY <3>1, <3>2
  <2> QED
    BY <2>1
<1>5. Calls = CHOOSE g : g = E(g)
  BY DEF Calls
<1> HIDE DEF E, F, G
<1>6. Calls = F(Calls)
  BY <1>3, <1>4, <1>5
<1>7. Calls[0] = NoCalls
  BY <1>6 DEF F
<1>8. ASSUME NEW n \in Nat PROVE Calls[n + 1] = Above(Calls[n])
  <2>1. n + 1 \in Nat /\ n + 1 # 0 /\ (n + 1) - 1 = n
    OBVIOUS
  <2>2. F(Calls)[n + 1] = Above(Calls[(n + 1) - 1])
    BY <2>1 DEF F
  <2> QED
    BY <1>6, <2>1, <2>2
<1> QED
  BY <1>7, <1>8

\* The recursion of the parser ends, whatever the tokens: the calls with a
\* measure of at most n come back from a depth of n.  (What is cut at depth 0
\* has no position, and no function returns that.)
LEMMA CallsReturn ==
  ASSUME Terminated
  PROVE  \A n \in Nat : ReturnTo(Calls[n], n)
<1> DEFINE S == {n \in Nat : ReturnTo(Calls[n], n)}
<1>0. Len(tokens) \in Nat
  BY DEF Terminated
<1>1. 0 \in S
  <2>1. \A f \in Functions : \A p \in 1 .. Len(tokens) : ~ (Measure(f, p) <= 0)
    BY <1>0, RankFacts DEF Measure
  <2> QED
    BY <2>1 DEF ReturnTo
<1>2. ASSUME NEW n \in S PROVE n + 1 \in S
  <2> SUFFICES ASSUME NEW f \in Functions, NEW p \in 1 .. Len(tokens), Measure(f, p) <= n + 1
               PROVE  Reads(Calls[n + 1][f][p], p, Least(f, p))
    BY DEF ReturnTo
  <2>1. Calls[n + 1][f][p] = ParseFunction(Calls[n], f, p)
    <3>1. Calls[n + 1] = Above(Calls[n])
      BY CallsAreFollowed
    <3>2. \A calls : Above(calls)[f][p] = ParseFunction(calls, f, p)
      BY DEF Above
    <3> QED
      BY <3>1, <3>2
  <2>2. Reads(ParseFunction(Calls[n], f, p), p, Least(f, p))
    BY OneCall
  <2> QED
    BY <2>1, <2>2
<1> HIDE DEF S
<1>3. S \in SUBSET Nat
  BY DEF S
<1>4. S = Nat
  BY <1>1, <1>2, <1>3, Induction
<1> QED
  BY <1>4 DEF S

--------------------------------------------------------------------------------
(* The turns of parse(). *)

\* The next statement reads a token, and the keyword it starts with in any case.
LEMMA NextStatementReads ==
  ASSUME Terminated, Start \in 1 .. Len(tokens)
  PROVE  /\ Reads(NextStatement, Start, Start + 1)
         /\ Check(Start, Resuming) => EndsFrom(NextStatement, Start + 1)
<1> DEFINE calls == Calls[MaxDepth]
<1>0. Len(tokens) \in Nat /\ MaxDepth \in Nat /\ MaxDepth = 8 * Len(tokens)
  BY DEF Terminated, MaxDepth
<1>1. ReturnTo(calls, MaxDepth)
  BY <1>0, CallsReturn
<1>2. ASSUME NEW f \in Functions, NEW p \in 1 .. Len(tokens) PROVE Measure(f, p) <= MaxDepth
  <2>1. Rank[f] \in 1 .. 8
    BY RankFacts
  <2>2. 8 * (Len(tokens) - p) <= MaxDepth - 8
    BY <1>0
  <2> QED
    BY <1>0, <2>1, <2>2 DEF Measure
<1> HIDE DEF calls
<1>3. ReturnFrom(calls, Start + 1)
  BY <1>0, <1>1, <1>2 DEF ReturnTo, ReturnFrom
<1>4. Reads(calls["or"][Start], Start, Start + 1)
  BY <1>1, <1>2, FunctionNames DEF ReturnTo, Least
<1> QED
  BY <1>3, <1>4, StatementReads DEF NextStatement, calls

\* The recovery goes on; it stays where it is at a keyword that starts a statement.
LEMMA SynchronizeFacts ==
  ASSUME Terminated, NEW p \in 1 .. Len(tokens)
  PROVE  /\ Synchronize(p) \in p .. Len(tokens)
         /\ Synchronize(p) = p => AtEnd(p) \/ Check(p, Resuming)
<1> DEFINE S == {q \in p .. Len(tokens) : AtEnd(q) \/ Check(q, {"NEWLINE"} \cup Resuming)}
           stop == Min(S)
<1>0. Len(tokens) \in Nat
  BY DEF Terminated
<1>1. stop \in S
  <2>1. Len(tokens) \in S /\ S \subseteq Nat
    BY <1>0 DEF Terminated, AtEnd
  <2> HIDE DEF S
  <2> QED
    BY <2>1, LeastElement
<1>2. Synchronize(p) = IF Check(stop, {"NEWLINE"}) THEN stop + 1 ELSE stop
  BY DEF Synchronize
<1> HIDE DEF stop
<1>3. stop \in p .. Len(tokens) /\ (AtEnd(stop) \/ Check(stop, {"NEWLINE"} \cup Resuming))
  BY <1>1
<1>4. CASE Check(stop, {"NEWLINE"})
  <2>1. stop + 1 \in p + 1 .. Len(tokens)
    BY <1>0, <1>3, <1>4, CheckFacts
  <2> QED
    BY <1>0, <1>2, <1>4, <2>1
<1>5. CASE ~Check(stop, {"NEWLINE"})
  <2>1. AtEnd(stop) \/ Check(stop, Resuming)
    BY <1>3, <1>5 DEF Check
  <2> QED
    BY <1>0, <1>2, <1>3, <1>5, <2>1
<1> QED
  BY <1>4, <1>5

\* A turn of parse() that is not the last one reads on, and stays in the tokens.
LEMMA ParserTurn ==
  ASSUME Terminated, cursor \in 1 .. Len(tokens), parseErrors \subseteq 1 .. Len(tokens),
         ParserStep
  PROVE  /\ tokens' = tokens
         /\ cursor' \in 1 .. Len(tokens) /\ parseErrors' \subseteq 1 .. Len(tokens)
         /\ ~parsed' => cursor' > cursor
<1>0. Len(tokens) \in Nat
  BY DEF Terminated
<1>1. Start \in cursor .. Len(tokens) /\ Start \in 1 .. Len(tokens)
  BY <1>0, SkipNewlinesFacts DEF Start
<1>2. /\ Reads(NextStatement, Start, Start + 1)
      /\ Check(Start, Resuming) => EndsFrom(NextStatement, Start + 1)
  BY <1>1, NextStatementReads
<1> DEFINE s == NextStatement
<1>3. CASE ParseNext
  <2>1. ~s.thrown /\ cursor' = s.pos /\ tokens' = tokens /\ parseErrors' = parseErrors
    BY <1>3 DEF ParseNext
  <2> HIDE DEF s
  <2>2. s.pos \in Start + 1 .. Len(tokens)
    BY <1>0, <1>1, <1>2, <2>1 DEF Reads, s
  <2> QED
    BY <1>0, <1>1, <2>1, <2>2
<1>4. CASE Recover
  <2>1. /\ ~AtEnd(Start) /\ cursor' = Synchronize(s.pos) /\ tokens' = tokens
        /\ parseErrors' = parseErrors \cup {s.pos}
    BY <1>4 DEF Recover
  <2>2. s.pos \in Start .. Len(tokens)
    BY <1>0, <1>1, <1>2 DEF Reads
  <2>3. Check(Start, Resuming) => s.pos # Start
    BY <1>0, <1>1, <1>2 DEF EndsFrom
  <2> HIDE DEF s
  <2>4. s.pos \in 1 .. Len(tokens)
    BY <1>0, <1>1, <2>2
  <2>5. /\ Synchronize(s.pos) \in s.pos .. Len(tokens)
        /\ Synchronize(s.pos) = s.pos => AtEnd(s.pos) \/ Check(s.pos, Resuming)
    BY <2>4, SynchronizeFacts
  <2>6. Synchronize(s.pos) > Start
    <3>1. CASE s.pos = Start
      BY <1>0, <1>1, <2>1, <2>3, <2>5, <3>1
    <3>2. CASE s.pos # Start
      BY <1>0, <1>1, <2>2, <2>5, <3>2
    <3> QED
      BY <3>1, <3>2
  <2>7. cursor' \in 1 .. Len(tokens) /\ cursor' > cursor
    BY <1>0, <1>1, <2>1, <2>4, <2>5, <2>6
  <2>8. parseErrors' \subseteq 1 .. Len(tokens)
    BY <2>1, <2>4
  <2> QED
    BY <2>1, <2>7, <2>8
<1>5. CASE ReturnProgram
  BY <1>5 DEF ReturnProgram
<1> QED
  BY <1>3, <1>4, <1>5 DEF ParserStep

--------------------------------------------------------------------------------
(* The tokens the lexer hands over. *)

\* The types of all tokens but the last.
Inner == TokenType \ {"ENDOFFILE"}
WellTyped(s) == \A k \in DOMAIN s : s[k].type \in Inner
Ended(s) == \E t : IsSeq(t) /\ WellTyped(t) /\ s = Append(t, Mark("ENDOFFILE"))

\* The type of a word, a number or a string.
LEMMA LexemeInner == \A w : TokenOf(w).type \in Inner
<1>1. DOMAIN Keywords = {"def", "return", "if", "elif", "else", "while", "for", "in", "and",
        "or", "not", "print", "range", "True", "False", "None", "break", "continue", "pass",
        "import", "from", "as"}
  BY SMT DEF Keywords
<1>2. /\ Keywords["def"] = "DEF" /\ Keywords["return"] = "RETURN"
      /\ Keywords["if"] = "IF" /\ Keywords["elif"] = "ELIF" /\ Keywords["else"] = "ELSE"
      /\ Keywords["while"] = "WHILE" /\ Keywords["for"] = "FOR" /\ Keywords["in"] = "IN"
      /\ Keywords["and"] = "AND" /\ Keywords["or"] = "OR" /\ Keywords["not"] = "NOT"
  BY Zenon DEF Keywords
<1>3. /\ Keywords["print"] = "PRINT" /\ Keywords["range"] = "RANGE" /\ Keywords["True"] = "TRUE"
      /\ Keywords["False"] = "FALSE" /\ Keywords["None"] = "NONE"
      /\ Keywords["break"] = "BREAK" /\ Keywords["continue"] = "CONTINUE"
      /\ Keywords["pass"] = "PASS" /\ Keywords["import"] = "IMPORT"
      /\ Keywords["from"] = "FROM" /\ Keywords["as"] = "AS"
  BY Zenon DEF Keywords
<1>4. \A w \in DOMAIN Keywords : Keywords[w] \in Inner
  BY <1>1, <1>2, <1>3, SMT DEF Inner, TokenType
<1> QED
  BY <1>4, SMT DEF TokenOf, Tok, Inner, TokenType

\* The type of an operator.
LEMMA OperatorInner ==
  /\ \A c \in DOMAIN Single : Single[c] \in Inner
  /\ \A c \in DOMAIN Double : Double[c] \in Inner
<1>1. \A c \in DOMAIN Single : Single[c] \in Inner
  <2> SUFFICES ASSUME NEW c \in DOMAIN Single PROVE Single[c] \in Inner
    OBVIOUS
  <2>1. c \in {"+", "-", "*", "%", ",", ":", "/", "=", "<", ">"}
    BY Zenon DEF Single
  <2>2. /\ Single["+"] = "PLUS" /\ Single["-"] = "MINUS" /\ Single["*"] = "STAR"
        /\ Single["%"] = "PERCENT" /\ Single[","] = "COMMA" /\ Single[":"] = "COLON"
        /\ Single["/"] = "SLASH" /\ Single["="] = "ASSIGN" /\ Single["<"] = "LT"
        /\ Single[">"] = "GT"
    BY ZenonT(30) DEF Single
  <2>3. \A type \in {"PLUS", "MINUS", "STAR", "PERCENT", "COMMA", "COLON", "SLASH", "ASSIGN",
                     "LT", "GT"} : type \in Inner
    BY DEF Inner, TokenType
  <2> QED
    BY <2>1, <2>2, <2>3
<1>2. \A c \in DOMAIN Double : Double[c] \in Inner
  BY SMT DEF Double, Inner, TokenType
<1> QED
  BY <1>1, <1>2

\* One more token keeps the types.
LEMMA AppendTyped ==
  ASSUME NEW s, IsSeq(s), WellTyped(s), NEW tok, tok.type \in Inner
  PROVE  WellTyped(Append(s, tok))
<1>1. /\ DOMAIN Append(s, tok) = 1 .. Len(s) + 1 /\ Len(s) \in Nat /\ DOMAIN s = 1 .. Len(s)
      /\ \A k \in 1 .. Len(s) : Append(s, tok)[k] = s[k]
      /\ Append(s, tok)[Len(s) + 1] = tok
  BY AppendIsSeq
<1> SUFFICES ASSUME NEW k \in 1 .. Len(s) + 1 PROVE Append(s, tok)[k].type \in Inner
  BY <1>1 DEF WellTyped
<1>2. CASE k = Len(s) + 1
  BY <1>1, <1>2
<1>3. CASE k # Len(s) + 1
  <2>1. k \in 1 .. Len(s)
    BY <1>1, <1>3
  <2>2. Append(s, tok)[k] = s[k] /\ s[k].type \in Inner
    BY <1>1, <2>1 DEF WellTyped
  <2> QED
    BY <2>2
<1> QED
  BY <1>2, <1>3

\* DEDENTs keep them as well.
LEMMA DedentsTyped ==
  ASSUME NEW s, IsSeq(s), WellTyped(s), NEW n \in Nat
  PROVE  /\ IsSeq(s \o [k \in 1 .. n |-> Mark("DEDENT")])
         /\ WellTyped(s \o [k \in 1 .. n |-> Mark("DEDENT")])
<1> DEFINE t == s \o [k \in 1 .. n |-> Mark("DEDENT")]
<1>1. /\ IsSeq(t)
      /\ Len(s) \in Nat /\ DOMAIN s = 1 .. Len(s)
      /\ DOMAIN t = 1 .. Len(s) + n
      /\ \A k \in 1 .. Len(s) : t[k] = s[k]
      /\ \A k \in Len(s) + 1 .. Len(s) + n : t[k] = Mark("DEDENT")
  BY DedentsBehind
<1>2. Mark("DEDENT").type \in Inner
  BY DEF Mark, Tok, Inner, TokenType
<1> HIDE DEF t
<1>3. ASSUME NEW k \in 1 .. Len(s) + n PROVE t[k].type \in Inner
  <2>1. CASE k \in 1 .. Len(s)
    <3>1. t[k] = s[k] /\ s[k].type \in Inner
      BY <1>1, <2>1 DEF WellTyped
    <3> QED
      BY <3>1
  <2>2. CASE k \in Len(s) + 1 .. Len(s) + n
    <3>1. t[k] = Mark("DEDENT")
      BY <1>1, <2>2
    <3> QED
      BY <1>2, <3>1
  <2> QED
    BY <1>1, <2>1, <2>2
<1>4. WellTyped(t)
  BY <1>1, <1>3 DEF WellTyped
<1> QED
  BY <1>1, <1>4 DEF t

\* What a turn of the lexer leaves: tokens of the types of token.h, and ENDOFFILE
\* behind them when it is the last turn.
LEMMA EmittedTurn ==
  ASSUME LexerInv, WellTyped(emitted), LexerStep
  PROVE  ~lexed /\ IF lexed' THEN Ended(emitted') ELSE WellTyped(emitted')
<1>1. IsSeq(emitted)
  BY DEF LexerInv
<1>2. \A type \in Inner : \A v : Tok(type, v).type \in Inner /\ Mark(type).type \in Inner
  BY DEF Tok, Mark
<1>3. \A type \in {"NEWLINE", "INDENT", "ERROR", "LPAREN", "RPAREN"} : type \in Inner
  BY DEF Inner, TokenType
<1>4. ASSUME NEW tok, tok.type \in Inner, emitted' = Append(emitted, tok)
      PROVE  WellTyped(emitted')
  BY <1>1, <1>4, AppendTyped
<1>5. CASE SkipBlankLine \/ SkipCommentLine \/ SkipLastSpaces \/ SkipTrailingSpaces \/ SkipComment
  BY <1>5 DEF SkipBlankLine, SkipCommentLine, SkipLastSpaces, SkipTrailingSpaces, SkipComment,
              AtLineStart, InLine
<1>6. CASE NewLine
  <2>1. /\ ~lexed /\ lexed' = lexed
        /\ emitted' = Append(emitted, Mark("NEWLINE")) \/ emitted' = emitted
    BY <1>6 DEF NewLine, InLine
  <2> QED
    BY <1>2, <1>3, <1>4, <2>1
<1>7. CASE Lexeme
  <2>1. ~lexed /\ lexed' = lexed /\ emitted' = Append(emitted, TokenOf(source[Here]))
    BY <1>7, Zenon DEF Lexeme, Emit
  <2> QED
    BY <1>4, <2>1, LexemeInner
<1>8. CASE ReadOpenString \/ UnexpectedCharacter
  <2>1. ~lexed /\ lexed' = lexed /\ emitted' = Append(emitted, Mark("ERROR"))
    BY <1>8, Zenon DEF ReadOpenString, UnexpectedCharacter, InLine, EmitError, Emit
  <2> QED
    BY <1>2, <1>3, <1>4, <2>1
<1>9. CASE OpenParen \/ CloseParen
  <2>1. /\ ~lexed /\ lexed' = lexed
        /\ \/ emitted' = Append(emitted, Tok("LPAREN", "("))
           \/ emitted' = Append(emitted, Tok("RPAREN", ")"))
    BY <1>9, Zenon DEF OpenParen, CloseParen, InLine, Emit
  <2> QED
    BY <1>2, <1>3, <1>4, <2>1
<1>10. CASE Operator
  <2>1. ~lexed /\ lexed' = lexed
    BY <1>10, Zenon DEF Operator, InLine, Emit
  <2>2. CASE Pairs
    <3> DEFINE op == source[Here] \o source[Here + 1]
    <3>1. op \in DOMAIN Double /\ emitted' = Append(emitted, Tok(Double[op], op))
      BY <1>10, <2>2, Zenon DEF Operator, Pairs, Emit
    <3> HIDE DEF op
    <3> QED
      BY <1>2, <1>4, <2>1, <3>1, OperatorInner
  <2>3. CASE ~Pairs
    <3>1. /\ source[Here] \in DOMAIN Single
          /\ emitted' = Append(emitted, Tok(Single[source[Here]], source[Here]))
      BY <1>10, <2>3, Zenon DEF Operator, InLine, Emit
    <3> QED
      BY <1>2, <1>4, <2>1, <3>1, OperatorInner
  <2> QED
    BY <2>2, <2>3
<1>11. CASE IndentLine
  <2> DEFINE k == Max({j \in DOMAIN indents : indents[j] <= IndentWidth})
             kept == SubSeq(indents, 1, k)
  <2>1. k \in 1 .. Len(indents) /\ Len(indents) \in Nat /\ Len(kept) = k
    BY KeptLevels
  <2> HIDE DEF k
  <2>2. /\ ~lexed /\ lexed' = lexed
        /\ \/ emitted' = Append(emitted, Mark("INDENT"))
           \/ emitted' = emitted \o [j \in 1 .. Len(indents) - Len(kept) |-> Mark("DEDENT")]
    BY <1>11, Zenon DEF IndentLine, EnterLine, AtLineStart, k
  <2> HIDE DEF kept
  <2>3. Len(indents) - Len(kept) \in Nat
    BY <2>1
  <2> QED
    BY <1>1, <1>2, <1>3, <1>4, <2>2, <2>3, DedentsTyped
<1>12. CASE EndOfFile
  <2> DEFINE closed == emitted \o [j \in 1 .. Len(indents) - 1 |-> Mark("DEDENT")]
  <2>1. Len(indents) - 1 \in Nat
    BY LenProperties, EmptySeq DEF LexerInv, LexerTypeOK
  <2>2. IsSeq(closed) /\ WellTyped(closed)
    BY <1>1, <2>1, DedentsTyped
  <2>3. ~lexed /\ lexed' /\ emitted' = closed \o <<Mark("ENDOFFILE")>>
    BY <1>12 DEF EndOfFile
  <2> HIDE DEF closed
  <2>4. emitted' = Append(closed, Mark("ENDOFFILE"))
    <3>1. PICK S : closed \in Seq(S)
      BY <2>2 DEF IsSeq
    <3>2. closed \in Seq(S \cup {Mark("ENDOFFILE")})
      BY <3>1, SeqMonotonic
    <3> QED
      BY <2>3, <3>2, AppendIsConcat
  <2> QED
    BY <2>2, <2>3, <2>4 DEF Ended
<1> QED
  BY <1>5, <1>6, <1>7, <1>8, <1>9, <1>10, <1>11, <1>12 DEF LexerStep

\* Such tokens end with their one ENDOFFILE.
LEMMA EndedFacts ==
  ASSUME NEW s, Ended(s)
  PROVE  /\ Len(s) \in Nat /\ Len(s) >= 1 /\ DOMAIN s = 1 .. Len(s)
         /\ \A k \in DOMAIN s : s[k].type \in TokenType
         /\ {k \in DOMAIN s : s[k].type = "ENDOFFILE"} = {Len(s)}
<1>1. PICK t : IsSeq(t) /\ WellTyped(t) /\ s = Append(t, Mark("ENDOFFILE"))
  BY DEF Ended
<1>2. /\ Len(t) \in Nat /\ DOMAIN t = 1 .. Len(t) /\ IsSeq(s)
      /\ DOMAIN s = 1 .. Len(t) + 1
      /\ \A k \in 1 .. Len(t) : s[k] = t[k]
      /\ s[Len(t) + 1] = Mark("ENDOFFILE")
  BY <1>1, AppendIsSeq
<1>3. Len(s) = Len(t) + 1
  <2>1. Len(s) \in Nat /\ DOMAIN s = 1 .. Len(s)
    BY <1>2, AppendIsSeq
  <2> QED
    BY <1>2, <2>1
<1>4. \A k \in 1 .. Len(t) : s[k].type \in Inner
  BY <1>1, <1>2 DEF WellTyped
<1>5. s[Len(s)].type = "ENDOFFILE" /\ "ENDOFFILE" \notin Inner
  <2>1. Mark("ENDOFFILE").type = "ENDOFFILE"
    BY DEF Mark, Tok
  <2> QED
    BY <1>2, <1>3, <2>1 DEF Inner
<1>6. \A k \in DOMAIN s : k = Len(s) \/ k \in 1 .. Len(t)
  BY <1>2, <1>3
<1>7. \A type \in Inner : type \in TokenType
  BY DEF Inner
<1>8. "ENDOFFILE" \in TokenType
  BY DEF TokenType
<1> QED
  BY <1>2, <1>3, <1>4, <1>5, <1>6, <1>7, <1>8

--------------------------------------------------------------------------------
(* Lexer and parser together. *)

\* The inductive invariant: the lexer's; what it has emitted is well typed, and
\* ended when it is done; the parser's variables start when it has tokens.
FrontInv ==
  /\ LexerInv
  /\ IF lexed THEN Ended(emitted) ELSE WellTyped(emitted)
  /\ tokens = <<>> => cursor = 1 /\ parseErrors = {}
  /\ tokens # <<>> => lexed /\ tokens = emitted /\ cursor \in 1 .. Len(tokens)
  /\ parseErrors \subseteq DOMAIN tokens
  /\ verdict \in {"reading", "accepted", "rejected"}

\* The type invariant is part of it.
LEMMA FrontInvTypes == FrontInv => TypeOK
<1> SUFFICES ASSUME FrontInv PROVE TypeOK
  OBVIOUS
<1>1. LexerTypeOK
  BY DEF FrontInv, LexerInv
<1>2. CASE lexed
  <2>1. Ended(emitted)
    BY <1>2 DEF FrontInv
  <2>2. /\ \A k \in DOMAIN emitted : emitted[k].type \in TokenType
        /\ {k \in DOMAIN emitted : emitted[k].type = "ENDOFFILE"} = {Len(emitted)}
    BY <2>1, EndedFacts
  <2> QED
    BY <1>1, <1>2, <2>2 DEF FrontInv, TypeOK
<1>3. CASE ~lexed
  <2>1. \A k \in DOMAIN emitted : emitted[k].type \in Inner
    BY <1>3 DEF FrontInv, WellTyped
  <2>2. \A type \in Inner : type \in TokenType /\ type # "ENDOFFILE"
    BY DEF Inner
  <2>3. {k \in DOMAIN emitted : emitted[k].type = "ENDOFFILE"} = {}
    BY <2>1, <2>2
  <2> QED
    BY <1>1, <1>3, <2>1, <2>2, <2>3 DEF FrontInv, TypeOK
<1> QED
  BY <1>2, <1>3

\* The tokens of a parser are ended.
LEMMA TokensEnd ==
  ASSUME FrontInv, tokens # <<>>
  PROVE  Terminated /\ DOMAIN tokens = 1 .. Len(tokens) /\ cursor \in 1 .. Len(tokens)
<1>1. Ended(tokens) /\ cursor \in 1 .. Len(tokens)
  BY DEF FrontInv
<1>2. /\ Len(tokens) \in Nat /\ Len(tokens) >= 1 /\ DOMAIN tokens = 1 .. Len(tokens)
      /\ {k \in DOMAIN tokens : tokens[k].type = "ENDOFFILE"} = {Len(tokens)}
  BY <1>1, EndedFacts
<1>3. tokens[Len(tokens)].type = "ENDOFFILE"
  BY <1>2
<1> QED
  BY <1>1, <1>2, <1>3 DEF Terminated

\* Initially nothing has been read.
LEMMA FrontStart == Init => FrontInv
<1> SUFFICES ASSUME Init PROVE FrontInv
  OBVIOUS
<1>1. FileText(text.lines) \in Seq(STRING)
  BY TextsAssumption DEF Init
<1>2. LexerInit(FileText(text.lines)) /\ ParserInit(<<>>) /\ verdict = "reading"
  BY DEF Init
<1>3. LexerInv
  BY <1>1, <1>2, LexerStart
<1>4. ~lexed /\ emitted = <<>>
  BY <1>2 DEF LexerInit
<1>5. WellTyped(emitted)
  BY <1>4 DEF WellTyped
<1>6. tokens = <<>> /\ cursor = 1 /\ parseErrors = {}
  BY <1>2 DEF ParserInit
<1> QED
  BY <1>2, <1>3, <1>4, <1>5, <1>6 DEF FrontInv

\* The invariant is inductive, and each turn of parse() but the last consumes a
\* token.
LEMMA FrontStep ==
  ASSUME FrontInv, Next
  PROVE  FrontInv' /\ (Parse /\ ~parsed' => cursor' > cursor)
<1>1. CASE Tokenize
  <2>1. LexerStep /\ UNCHANGED <<parseVars, frontVars>>
    BY <1>1 DEF Tokenize
  <2>2. ~lexed
    BY <2>1, Zenon DEF LexerStep, SkipBlankLine, SkipCommentLine, SkipLastSpaces, IndentLine,
      EnterLine, AtLineStart, SkipTrailingSpaces, NewLine, SkipComment, Lexeme, ReadOpenString,
      OpenParen, CloseParen, Operator, UnexpectedCharacter, InLine, EndOfFile
  <2>3. WellTyped(emitted) /\ LexerInv /\ tokens = <<>>
    BY <2>2 DEF FrontInv
  <2>4. LexerInv' /\ IF lexed' THEN Ended(emitted') ELSE WellTyped(emitted')
    BY <2>1, <2>3, EveryTurn, EmittedTurn
  <2>5. /\ tokens' = tokens /\ cursor' = cursor /\ parseErrors' = parseErrors
        /\ parsed' = parsed /\ verdict' = verdict
    BY <2>1 DEF parseVars, frontVars
  <2>6. FrontInv'
    BY <2>3, <2>4, <2>5 DEF FrontInv, WellTyped, Ended
  <2>7. ~Parse
    BY <2>3 DEF Parse
  <2> QED
    BY <2>6, <2>7
<1>2. ASSUME UNCHANGED lexVars
      PROVE  LexerInv' /\ emitted' = emitted /\ lexed' = lexed
             /\ IF lexed' THEN Ended(emitted)' ELSE WellTyped(emitted)'
  <2>1. LexerInv'
    BY <1>2 DEF FrontInv, LexerInv, LexerTypeOK, BlocksBalance, Count, IsSeq, lexVars
  <2>2. emitted' = emitted /\ lexed' = lexed
    BY <1>2 DEF lexVars
  <2> QED
    BY <2>1, <2>2 DEF FrontInv, WellTyped, Ended
<1>3. CASE StartParser
  <2>1. /\ lexed /\ tokens = <<>> /\ verdict = "reading" /\ UNCHANGED lexVars
        /\ cursor' = cursor /\ parseErrors' = parseErrors
        /\ \/ verdict' = "rejected" /\ tokens' = tokens
           \/ verdict' = verdict /\ tokens' = emitted
    BY <1>3 DEF StartParser
  <2>2. cursor = 1 /\ parseErrors = {} /\ Ended(emitted)
    BY <2>1 DEF FrontInv
  <2>3. 1 \in 1 .. Len(emitted)
    BY <2>2, EndedFacts
  <2>4. tokens' = <<>> => cursor' = 1 /\ parseErrors' = {}
    BY <2>1, <2>2
  <2>5. tokens' # <<>> => lexed' /\ tokens' = emitted' /\ cursor' \in 1 .. Len(tokens')
    BY <1>2, <2>1, <2>2, <2>3
  <2>6. parseErrors' \subseteq DOMAIN tokens' /\ verdict' \in {"reading", "accepted", "rejected"}
    BY <2>1, <2>2
  <2>7. ~Parse
    BY <2>1 DEF Parse
  <2> QED
    BY <1>2, <2>1, <2>4, <2>5, <2>6, <2>7 DEF FrontInv
<1>4. CASE Parse
  <2>1. tokens # <<>> /\ ParserStep /\ UNCHANGED lexVars /\ verdict' = verdict
    BY <1>4 DEF Parse, frontVars
  <2>2. Terminated /\ DOMAIN tokens = 1 .. Len(tokens) /\ cursor \in 1 .. Len(tokens)
    BY <2>1, TokensEnd
  <2>3. parseErrors \subseteq 1 .. Len(tokens) /\ lexed /\ tokens = emitted
    BY <2>1, <2>2 DEF FrontInv
  <2>4. /\ tokens' = tokens /\ cursor' \in 1 .. Len(tokens)
        /\ parseErrors' \subseteq 1 .. Len(tokens)
        /\ ~parsed' => cursor' > cursor
    BY <2>1, <2>2, <2>3, ParserTurn
  <2>5. verdict' \in {"reading", "accepted", "rejected"}
    BY <2>1 DEF FrontInv
  <2> QED
    BY <1>2, <2>1, <2>2, <2>3, <2>4, <2>5 DEF FrontInv
<1>5. CASE HandOver
  <2>1. /\ UNCHANGED lexVars /\ UNCHANGED parseVars /\ verdict = "reading"
        /\ verdict' \in {"rejected", "accepted"}
    BY <1>5 DEF HandOver
  <2>2. tokens' = tokens /\ cursor' = cursor /\ parseErrors' = parseErrors
    BY <2>1 DEF parseVars
  <2>3. ASSUME Parse, ~parsed' PROVE cursor' > cursor
    <3>1. tokens # <<>> /\ ParserStep
      BY <2>3 DEF Parse
    <3>2. Terminated /\ cursor \in 1 .. Len(tokens) /\ parseErrors \subseteq 1 .. Len(tokens)
      BY <3>1, TokensEnd DEF FrontInv
    <3> QED
      BY <2>3, <3>1, <3>2, ParserTurn
  <2> QED
    BY <1>2, <2>1, <2>2, <2>3 DEF FrontInv
<1>6. CASE Done
  <2>1. UNCHANGED lexVars /\ UNCHANGED parseVars /\ verdict' = verdict
    BY <1>6 DEF Done, vars, frontVars
  <2>2. tokens' = tokens /\ cursor' = cursor /\ parseErrors' = parseErrors
    BY <2>1 DEF parseVars
  <2>3. ASSUME Parse, ~parsed' PROVE cursor' > cursor
    <3>1. tokens # <<>> /\ ParserStep
      BY <2>3 DEF Parse
    <3>2. Terminated /\ cursor \in 1 .. Len(tokens) /\ parseErrors \subseteq 1 .. Len(tokens)
      BY <3>1, TokensEnd DEF FrontInv
    <3> QED
      BY <2>3, <3>1, <3>2, ParserTurn
  <2> QED
    BY <1>2, <2>1, <2>2, <2>3 DEF FrontInv
<1> QED
  BY <1>1, <1>3, <1>4, <1>5, <1>6 DEF Next

\* The invariant holds at every moment.
LEMMA FrontInductive == Spec => []FrontInv
<1>1. FrontInv /\ UNCHANGED vars => FrontInv'
  <2> SUFFICES ASSUME FrontInv, UNCHANGED vars PROVE FrontInv'
    OBVIOUS
  <2>1. UNCHANGED lexVars /\ UNCHANGED parseVars /\ verdict' = verdict
    BY DEF vars, frontVars
  <2>2. LexerInv'
    BY <2>1 DEF FrontInv, LexerInv, LexerTypeOK, BlocksBalance, Count, IsSeq, lexVars
  <2>3. emitted' = emitted /\ lexed' = lexed
    BY <2>1 DEF lexVars
  <2>4. tokens' = tokens /\ cursor' = cursor /\ parseErrors' = parseErrors
    BY <2>1 DEF parseVars
  <2> QED
    BY <2>1, <2>2, <2>3, <2>4 DEF FrontInv, WellTyped, Ended
<1>2. FrontInv /\ [Next]_vars => FrontInv'
  BY <1>1, FrontStep
<1> QED
  BY <1>2, FrontStart, PTL DEF Spec

\* For every text and either caller: the types of lexer and parser.  Their tokens
\* end with the one ENDOFFILE that at_end() looks for, and the parser's position
\* and the positions of its errors lie in them.
THEOREM FrontEndTypes == Spec => []TypeOK
BY FrontInductive, FrontInvTypes, PTL

\* For every text: parse_statement comes back, inside the tokens and behind the
\* first of them or with an error.  Its calls are followed to a depth of 8 for
\* each token, and what is cut there has no position: the recursion of the parser
\* ends before, on every text.
THEOREM ParserReturns ==
  Spec => [](tokens # <<>> /\ ~AtEnd(Start) => Reads(NextStatement, Start, Start + 1))
<1>1. FrontInv => (tokens # <<>> /\ ~AtEnd(Start) => Reads(NextStatement, Start, Start + 1))
  <2> SUFFICES ASSUME FrontInv, tokens # <<>> PROVE Reads(NextStatement, Start, Start + 1)
    OBVIOUS
  <2>1. Terminated /\ cursor \in 1 .. Len(tokens)
    BY TokensEnd
  <2>2. Start \in 1 .. Len(tokens)
    BY <2>1, SkipNewlinesFacts DEF Start, Terminated
  <2> QED
    BY <2>1, <2>2, NextStatementReads
<1> QED
  BY <1>1, FrontInductive, PTL

\* For every text: each turn of parse() but the one that ends it consumes a token,
\* also when the statement is an error, at a keyword or at the last token; so a
\* text of n tokens takes at most n turns.
THEOREM EveryTurnConsumes == Spec => Progress
<1>1. FrontInv /\ [Next]_vars => [Parse /\ ~parsed' => cursor' > cursor]_vars
  BY FrontStep
<1> QED
  BY <1>1, FrontInductive, PTL DEF Spec, Progress
==================================================================================
