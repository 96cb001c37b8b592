-------------------------------- MODULE Parser --------------------------------
(****************************************************************************)
(* The recursive-descent parser (parser.cpp): tokens to a syntax tree.  A   *)
(* parse function maps the position it starts at to a result: the position  *)
(* it leaves and the tree, or the position at which it threw a ParseError.  *)
(* One action is one turn of the loop of parse(): a statement, or an error  *)
(* and the recovery from it.                                                *)
(****************************************************************************)
EXTENDS Token, Ast, SequencesExt, FiniteSetsExt

VARIABLES
  tokens,       \* tokens_, the last one ENDOFFILE
  cursor,       \* pos_, from 1
  program,      \* the statements of the ProgramNode
  parseErrors,  \* errors_: the token positions at which a ParseError was thrown
  parsed        \* parse() has returned

parseVars == <<tokens, cursor, program, parseErrors, parsed>>

Parsed(p, tree) == [pos |-> p, thrown |-> FALSE, tree |-> tree]
Thrown(p)       == [pos |-> p, thrown |-> TRUE, tree |-> <<>>]
\* The result where the depth to which calls are followed ends.
TooDeep == Thrown(0)

\* What follows a parse function that did not throw: Continue, of its result.
\* (A result that is an element of a set is computed only once.)
Then(result, Continue(_)) ==
  CHOOSE r \in {IF s.thrown THEN s ELSE Continue(s) : s \in {result}} : TRUE

AtEnd(p) == p > Len(tokens) \/ tokens[p].type = "ENDOFFILE"
\* check(), of several types at once; it is false at the end.
Check(p, types) == ~AtEnd(p) /\ tokens[p].type \in types
Expect(p, type) == IF Check(p, {type}) THEN Parsed(p + 1, tokens[p].value) ELSE Thrown(p)
\* Mutant of SkipNewlines: the ends of blocks are skipped as well.
SkipLineEnds(p) == Min({q \in p .. Len(tokens) : ~Check(q, {"NEWLINE", "DEDENT"})})
SkipNewlines(p) == Min({q \in p .. Len(tokens) : ~Check(q, {"NEWLINE"})})

--------------------------------------------------------------------------------
(* Expressions.  calls is what the parse functions called from here return, *)
(* by their names without parse_ and the position they start at.  A level   *)
(* of precedence returns a chain: operands with the operators between them. *)

Infix ==
  [arguments |-> {"COMMA"}, or |-> {"OR"}, and |-> {"AND"}, not |-> {},
   comparison |-> {"EQ", "NEQ", "LT", "GT", "LTE", "GTE"}, addition |-> {"PLUS", "MINUS"},
   multiplication |-> {"STAR", "SLASH", "SLASHSLASH", "PERCENT"}, unary |-> {}]
Prefix(level) == CASE level = "not" -> {"NOT"} [] level = "unary" -> {"MINUS"} [] OTHER -> {}
\* What the operands of a level are.
Operands ==
  [arguments |-> "or", or |-> "and", and |-> "not", not |-> "comparison",
   comparison |-> "addition", addition |-> "multiplication", multiplication |-> "unary"]

\* TokenType as the operator of a node.
OperatorName ==
  [OR |-> "or", AND |-> "and", NOT |-> "not", EQ |-> "eq", NEQ |-> "neq", LT |-> "lt",
   GT |-> "gt", LTE |-> "lte", GTE |-> "gte", PLUS |-> "plus", MINUS |-> "minus",
   STAR |-> "star", SLASH |-> "slash", SLASHSLASH |-> "slashslash", PERCENT |-> "percent"]

LiteralAt(p) ==
  LET text == tokens[p].value
  IN  CASE tokens[p].type = "INTEGER" -> PyInt(Stoll(text))
        [] tokens[p].type = "FLOAT"   -> PyFloat(Stod(text))
        [] tokens[p].type = "STRING"  -> PyStr(Codes[text])
        [] tokens[p].type = "NONE"    -> PyNone
        [] OTHER                      -> PyBool(tokens[p].type = "TRUE")

\* The places of the operators in a chain.
Infixes(chain) == [i \in 1 .. Len(chain) \div 2 |-> 2 * i]
Arguments(chain) == [i \in 1 .. Len(chain) \div 2 + 1 |-> chain[2 * i - 1]]

\* Mutant of LeftToRight: the right operand takes operators of its own level.
RightToLeft(chain) ==
  FoldRight(LAMBDA i, right : BinaryExpr(OperatorName[chain[i]], chain[i - 1], right),
            Infixes(chain), Last(chain))
\* The tree of a chain: while (check(...)) left = BinaryExpr(op, left, right).
LeftToRight(chain) ==
  FoldLeft(LAMBDA left, i : BinaryExpr(OperatorName[chain[i]], left, chain[i + 1]),
           chain[1], Infixes(chain))
Joined(result) == Then(result, LAMBDA c : Parsed(c.pos, LeftToRight(c.tree)))

ParseExpression(calls, p) == Joined(calls["or"][p])

ParsePrimary(calls, p) ==
  CASE Check(p, {"INTEGER", "FLOAT", "STRING", "TRUE", "FALSE", "NONE"}) ->
         Parsed(p + 1, Literal(LiteralAt(p)))
    [] Check(p, {"IDENTIFIER", "RANGE", "PRINT"}) ->
         Parsed(p + 1, Identifier(tokens[p].value))
    [] Check(p, {"LPAREN"}) ->
         Then(ParseExpression(calls, p + 1), LAMBDA e :
           Then(Expect(e.pos, "RPAREN"), LAMBDA r : Parsed(r.pos, e.tree)))
    [] OTHER -> Thrown(p)

\* Up to the parenthesis that closes the list.
ParseArguments(calls, p) ==
  IF Check(p, {"RPAREN"}) THEN Parsed(p + 1, <<>>)
  ELSE Then(calls["arguments"][p], LAMBDA c :
         Then(Expect(c.pos, "RPAREN"), LAMBDA r : Parsed(r.pos, Arguments(c.tree))))

\* Only a name can be called, in parentheses or not, and only once.
ParseCall(calls, p) ==
  Then(ParsePrimary(calls, p), LAMBDA e :
    IF e.tree.node = "Identifier" /\ Check(e.pos, {"LPAREN"})
    THEN Then(ParseArguments(calls, e.pos + 1),
              LAMBDA args : Parsed(args.pos, CallExpr(e.tree.name, args.tree)))
    ELSE e)

\* parse_or to parse_unary.  A prefix operator applies to an expression of its
\* own level, an infix one to expressions of the next.
ParseOperand(calls, level, p) ==
  IF level = "unary" THEN ParseCall(calls, p) ELSE Joined(calls[Operands[level]][p])
ParseLevel(calls, level, p) ==
  IF Check(p, Prefix(level))
  THEN Then(Joined(calls[level][p + 1]), LAMBDA e :
         Parsed(e.pos, <<UnaryExpr(OperatorName[tokens[p].type], e.tree)>>))
  ELSE Then(ParseOperand(calls, level, p), LAMBDA e :
         IF Check(e.pos, Infix[level])
         THEN Then(calls[level][e.pos + 1], LAMBDA rest :
                Parsed(rest.pos, <<e.tree, tokens[e.pos].type>> \o rest.tree))
         ELSE Parsed(e.pos, <<e.tree>>))

--------------------------------------------------------------------------------
(* Statements. *)

ParseBlock(calls, p) ==
  Then(Expect(SkipNewlines(p), "INDENT"), LAMBDA i : calls["statements"][SkipNewlines(i.pos)])
ParseBody(calls, p) == Then(Expect(p, "COLON"), LAMBDA c : ParseBlock(calls, c.pos))

\* What an if, an elif and a while have in common: condition, colon, block.
ParseSuite(calls, p) ==
  Then(ParseExpression(calls, p), LAMBDA e :
    Then(ParseBody(calls, e.pos), LAMBDA b : Parsed(b.pos, Branch(e.tree, b.tree))))

\* An if or elif that has been read, and what follows it.
ParseBranch(calls, p) ==
  Then(ParseSuite(calls, p), LAMBDA b :
    Then(calls["branches"][SkipNewlines(b.pos)], LAMBDA rest :
      Parsed(rest.pos, <<b.tree>> \o rest.tree)))

\* parse_if after its first branch.
ParseBranches(calls, p) ==
  CASE Check(p, {"ELIF"}) -> ParseBranch(calls, p + 1)
    [] Check(p, {"ELSE"}) ->
         Then(ParseBody(calls, p + 1), LAMBDA b : Parsed(b.pos, <<Else(b.tree)>>))
    [] OTHER -> Parsed(p, <<>>)

ParseIf(calls, p) ==
  Then(ParseBranch(calls, p + 1), LAMBDA b : Parsed(b.pos, IfStmt(b.tree)))

ParseWhile(calls, p) ==
  Then(ParseSuite(calls, p + 1), LAMBDA s : Parsed(s.pos, WhileStmt(s.tree.cond[1], s.tree.body)))

ParseFor(calls, p) ==
  Then(Expect(p + 1, "IDENTIFIER"), LAMBDA v :
    Then(Expect(v.pos, "IN"), LAMBDA i :
      Then(ParseSuite(calls, i.pos), LAMBDA s :
        Parsed(s.pos, ForStmt(v.tree, s.tree.cond[1], s.tree.body)))))

\* Names with commas between them, up to the parenthesis that closes the list.
ParseParameters(p) ==
  LET awaited(q) == IF (q - p) % 2 = 0 THEN "IDENTIFIER" ELSE "COMMA"
      stop == Min({q \in p .. Len(tokens) : ~Check(q, {awaited(q)})})
  IN  CASE Check(p, {"RPAREN"}) -> Parsed(p + 1, <<>>)
        [] Check(stop, {"RPAREN"}) /\ (stop - p) % 2 = 1 ->
             Parsed(stop + 1, [i \in 1 .. (stop - p) \div 2 + 1 |-> tokens[p + 2 * (i - 1)].value])
        [] OTHER -> Thrown(stop)

ParseDef(calls, p) ==
  Then(Expect(p + 1, "IDENTIFIER"), LAMBDA n :
    Then(Expect(n.pos, "LPAREN"), LAMBDA l :
      Then(ParseParameters(l.pos), LAMBDA ps :
        Then(ParseBody(calls, ps.pos), LAMBDA b :
          Parsed(b.pos, FuncDef(n.tree, ps.tree, b.tree))))))

\* The code also asks for ENDOFFILE here, where check() is never true: return
\* as the last token of a text is an error.
ParseReturn(calls, p) ==
  IF Check(p + 1, {"NEWLINE", "DEDENT"}) THEN Parsed(p + 1, ReturnStmt(Literal(PyNone)))
  ELSE Then(ParseExpression(calls, p + 1), LAMBDA e : Parsed(e.pos, ReturnStmt(e.tree)))

ParsePrint(calls, p) ==
  Then(Expect(p + 1, "LPAREN"), LAMBDA l :
    Then(ParseArguments(calls, l.pos), LAMBDA args : Parsed(args.pos, PrintStmt(args.tree))))

ParseImport(p) ==
  Then(Expect(p + 1, "IDENTIFIER"), LAMBDA m :
    IF Check(m.pos, {"AS"})
    THEN Then(Expect(m.pos + 1, "IDENTIFIER"), LAMBDA a : Parsed(a.pos, ImportAs(m.tree, a.tree)))
    ELSE Parsed(m.pos, ImportStmt(m.tree)))

ParseFromImport(p) ==
  Then(Expect(p + 1, "IDENTIFIER"), LAMBDA m :
    Then(Expect(m.pos, "IMPORT"), LAMBDA i :
      Then(Expect(i.pos, "IDENTIFIER"), LAMBDA n : Parsed(n.pos, FromImportStmt(m.tree, n.tree)))))

\* An expression followed by = must be a name, in parentheses or not.
ParseAssignmentOrExpr(calls, p) ==
  Then(ParseExpression(calls, p), LAMBDA e :
    CASE ~Check(e.pos, {"ASSIGN"})    -> Parsed(e.pos, ExprStmt(e.tree))
      [] Check(e.pos, {"ASSIGN"}) /\ e.tree.node # "Identifier" -> Thrown(e.pos + 1)
      [] OTHER -> Then(ParseExpression(calls, e.pos + 1), LAMBDA v :
                    Parsed(v.pos, AssignStmt(e.tree.name, v.tree))))

\* A statement ends where its last token does: nothing asks for a NEWLINE
\* between two of them.
ParseStatement(calls, p) ==
  CASE Check(p, {"IF"})       -> ParseIf(calls, p)
    [] Check(p, {"WHILE"})    -> ParseWhile(calls, p)
    [] Check(p, {"FOR"})      -> ParseFor(calls, p)
    [] Check(p, {"DEF"})      -> ParseDef(calls, p)
    [] Check(p, {"RETURN"})   -> ParseReturn(calls, p)
    [] Check(p, {"PRINT"})    -> ParsePrint(calls, p)
    [] Check(p, {"BREAK"})    -> Parsed(p + 1, BreakStmt)
    [] Check(p, {"CONTINUE"}) -> Parsed(p + 1, ContinueStmt)
    [] Check(p, {"PASS"})     -> Parsed(p + 1, PassStmt)
    [] Check(p, {"IMPORT"})   -> ParseImport(p)
    [] Check(p, {"FROM"})     -> ParseFromImport(p)
    [] OTHER                  -> ParseAssignmentOrExpr(calls, p)

\* The statements of a block, up to the DEDENT behind them.
ParseStatements(calls, p) ==
  CASE AtEnd(p)             -> Parsed(p, <<>>)
    [] Check(p, {"DEDENT"}) -> Parsed(p + 1, <<>>)
    [] OTHER -> Then(ParseStatement(calls, p), LAMBDA s :
                  Then(calls["statements"][SkipNewlines(s.pos)], LAMBDA rest :
                    Parsed(rest.pos, <<s.tree>> \o rest.tree)))

--------------------------------------------------------------------------------
(* The parse functions call each other, to a depth that the tokens bound. *)

ParseFunction(calls, f, p) ==
  CASE f = "statements" -> ParseStatements(calls, p)
    [] f = "branches"   -> ParseBranches(calls, p)
    [] OTHER            -> ParseLevel(calls, f, p)

Functions == DOMAIN Infix \cup {"statements", "branches"}
\* What they return when calls are followed to a depth of n.
Calls[n \in Nat] ==
  [f \in Functions |-> [p \in 1 .. Len(tokens) |->
     IF n = 0 THEN TooDeep ELSE ParseFunction(Calls[n - 1], f, p)]]

\* No text calls for a greater depth: see CallsReturn.
MaxDepth == 8 * Len(tokens)

--------------------------------------------------------------------------------
(* parse() and its recovery. *)

\* Mutant of Resuming: every keyword in front of a block.
ResumingAtBranches ==
  {"DEF", "IF", "ELIF", "ELSE", "WHILE", "FOR", "RETURN", "PRINT", "BREAK", "CONTINUE",
   "IMPORT", "FROM"}
\* Keywords at which the recovery stops: all that start a statement but pass.
Resuming == {"DEF", "IF", "WHILE", "FOR", "RETURN", "PRINT", "BREAK", "CONTINUE", "IMPORT", "FROM"}

\* Mutant of Synchronize: the token with the error is always skipped.
SynchronizeFromNext(p) ==
  LET stop == Min({q \in p + 1 .. Len(tokens) : AtEnd(q) \/ Check(q, {"NEWLINE"} \cup Resuming)}
                    \cup {Len(tokens)})
  IN  IF Check(stop, {"NEWLINE"}) THEN stop + 1 ELSE stop
\* Behind the next NEWLINE or in front of the next such keyword.
Synchronize(p) ==
  LET stop == Min({q \in p .. Len(tokens) : AtEnd(q) \/ Check(q, {"NEWLINE"} \cup Resuming)})
  IN  IF Check(stop, {"NEWLINE"}) THEN stop + 1 ELSE stop

\* Where the next statement starts, and the statement.
Start == SkipNewlines(cursor)
NextStatement == ParseStatement(Calls[MaxDepth], Start)

\* A parser for the tokens ts.
ParserInit(ts) ==
  /\ tokens = ts
  /\ cursor = 1
  /\ program = <<>>
  /\ parseErrors = {}
  /\ parsed = FALSE

ParseNext ==
  /\ ~parsed /\ ~AtEnd(Start)
  /\ LET s == NextStatement
     IN  /\ ~s.thrown
         /\ program' = Append(program, s.tree)
         /\ cursor' = s.pos
  /\ UNCHANGED <<tokens, parseErrors, parsed>>

Recover ==
  /\ ~parsed /\ ~AtEnd(Start)
  /\ LET s == NextStatement
     IN  /\ s.thrown
         /\ parseErrors' = parseErrors \cup {s.pos}
         /\ cursor' = Synchronize(s.pos)
  /\ UNCHANGED <<tokens, program, parsed>>

ReturnProgram ==
  /\ ~parsed /\ AtEnd(Start)
  /\ parsed' = TRUE
  /\ UNCHANGED <<tokens, cursor, program, parseErrors>>

ParserStep == ParseNext \/ Recover \/ ReturnProgram
===============================================================================
