-------------------------------- MODULE Unparser --------------------------------
(****************************************************************************)
(* How a syntax tree is written, with no regard to how it is read: its      *)
(* words, with the fewest parentheses, and lines of words in a style.  The  *)
(* front end is checked to find the tree in them again.                     *)
(****************************************************************************)
EXTENDS FrontEnd

--------------------------------------------------------------------------------
(* Trees to words. *)

Symbol == [or |-> "or", and |-> "and", eq |-> "==", neq |-> "!=", lt |-> "<", gt |-> ">",
           lte |-> "<=", gte |-> ">=", plus |-> "+", minus |-> "-", star |-> "*",
           slash |-> "/", slashslash |-> "//", percent |-> "%"]
Precedence(e) ==
  CASE e.node = "BinaryExpr" ->
         (CASE e.op = "or"  -> 1
            [] e.op = "and" -> 2
            [] e.op \in {"eq", "neq", "lt", "gt", "lte", "gte"} -> 4
            [] e.op \in {"plus", "minus"} -> 5
            [] OTHER -> 6)
    [] e.node = "UnaryExpr" -> IF e.op = "not" THEN 3 ELSE 7
    [] OTHER -> 8

LiteralWord(v) ==
  CASE v.t = "INT"    -> ToString(v.i)
    [] v.t = "FLOAT"  -> ToString(v.f) \o ".0"
    [] v.t = "STRING" -> IF v.s = Codes.a THEN "'a'" ELSE "'b'"
    [] v.t = "BOOL"   -> IF v.b THEN "True" ELSE "False"
    [] OTHER          -> "None"

\* The sequences, with a comma between two of them.
Commas(seqs) ==
  FoldLeft(LAMBDA words, s : IF words = <<>> THEN s ELSE words \o <<",">> \o s, <<>>, seqs)

RECURSIVE Words(_), WordsAbove(_, _)
\* A comparison is put in parentheses inside a comparison: there is no chain.
Words(e) ==
  CASE e.node = "Literal"    -> <<LiteralWord(e.value)>>
    [] e.node = "Identifier" -> <<e.name>>
    [] e.node = "UnaryExpr"  ->
         <<IF e.op = "not" THEN "not" ELSE "-">> \o WordsAbove(e.operand, Precedence(e))
    [] e.node = "BinaryExpr" ->
         WordsAbove(e.left, IF Precedence(e) = 4 THEN 5 ELSE Precedence(e))
           \o <<Symbol[e.op]>> \o WordsAbove(e.right, Precedence(e) + 1)
    [] e.node = "CallExpr"   ->
         <<e.callee, "(">> \o Commas([i \in DOMAIN e.args |-> Words(e.args[i])]) \o <<")">>
WordsAbove(e, precedence) ==
  IF Precedence(e) < precedence THEN <<"(">> \o Words(e) \o <<")">> ELSE Words(e)

RECURSIVE Written(_), WrittenStmt(_)
\* Statements as words, with NEWLINE, INDENT and DEDENT between them.
Written(statements) ==
  FoldLeft(LAMBDA words, s : words \o WrittenStmt(s), <<>>, statements)
Simple(words) == words \o <<"NEWLINE">>
Suite(words, body) == words \o <<":", "NEWLINE", "INDENT">> \o Written(body) \o <<"DEDENT">>
WrittenStmt(s) ==
  CASE s.node = "ExprStmt"       -> Simple(Words(s.expr))
    [] s.node = "AssignStmt"     -> Simple(<<s.name, "=">> \o Words(s.value))
    [] s.node = "PrintStmt"      ->
         Simple(<<"print", "(">> \o Commas([i \in DOMAIN s.args |-> Words(s.args[i])]) \o <<")">>)
    [] s.node = "ReturnStmt"     ->
         Simple(<<"return">> \o IF s.value = Literal(PyNone) THEN <<>> ELSE Words(s.value))
    [] s.node = "IfStmt"         ->
         FlattenSeq([i \in DOMAIN s.branches |->
           Suite(IF s.branches[i].cond = <<>> THEN <<"else">>
                 ELSE <<IF i = 1 THEN "if" ELSE "elif">> \o Words(s.branches[i].cond[1]),
                 s.branches[i].body)])
    [] s.node = "WhileStmt"      -> Suite(<<"while">> \o Words(s.cond), s.body)
    [] s.node = "ForStmt"        -> Suite(<<"for", s.var, "in">> \o Words(s.iterable), s.body)
    [] s.node = "FuncDef"        ->
         Suite(<<"def", s.name, "(">> \o Commas([i \in DOMAIN s.params |-> <<s.params[i]>>]) \o <<")">>,
               s.body)
    [] s.node = "BreakStmt"      -> Simple(<<"break">>)
    [] s.node = "ContinueStmt"   -> Simple(<<"continue">>)
    [] s.node = "PassStmt"       -> Simple(<<"pass">>)
    [] s.node = "ImportStmt"     ->
         Simple(<<"import", s.module>> \o IF s.alias = "" THEN <<>> ELSE <<"as", s.alias>>)
    [] s.node = "FromImportStmt" -> Simple(<<"from", s.module, "import", s.name>>)

--------------------------------------------------------------------------------
(* Words to lines. *)

\* A style: the indentation of each level, the lines put after every line of
\* code, whether lines are broken behind parentheses, and the end of a line.
LinesOf(written, style) ==
  FoldLeft(
    LAMBDA s, w :
      CASE w = "INDENT"  -> [s EXCEPT !.depth = @ + 1]
        [] w = "DEDENT"  -> [s EXCEPT !.depth = @ - 1]
        [] w = "NEWLINE" -> [s EXCEPT !.lines = @ \o <<Line(style.indent[s.depth], s.words, style.tail)>>
                                                   \o style.between,
                                      !.words = <<>>]
        [] w = "(" /\ style.broken -> [s EXCEPT !.words = @ \o <<w, "\n">>]
        [] OTHER         -> [s EXCEPT !.words = Append(@, w)],
    [lines |-> <<>>, words |-> <<>>, depth |-> 1], written).lines

--------------------------------------------------------------------------------
(* Properties. *)

\* A text that main() accepts is in the tree word for word: no token has been
\* skipped, though nothing but the recovery looks at where statements end.
Spoken(words) == SelectSeq(words, LAMBDA w : w \notin {"(", ")", "NEWLINE", "ENDOFFILE"})
NothingLost ==
  verdict = "accepted" /\ lexErrors = <<>> /\ parseErrors = {} =>
    Spoken([k \in DOMAIN tokens |-> MarkOf(tokens[k])]) =
      LET words == Written(program) IN Spoken([k \in DOMAIN words |-> WordMark(words[k])])
=================================================================================
