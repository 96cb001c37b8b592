--------------------------------- MODULE MCTexts ---------------------------------
(****************************************************************************)
(* Texts written from syntax trees: every operator inside every other on    *)
(* either side, every statement with blocks in blocks, in several layouts;  *)
(* and statements around a line or a block with an error in it.             *)
(****************************************************************************)
EXTENDS Unparser, Syntax

\* An operator of every precedence, and two that share one.
Operators == <<"or", "and", "lte", "plus", "minus", "star", "slashslash">>
AllOperators == Operators \o <<"eq", "neq", "lt", "gt", "gte", "slash", "percent">>
Leaves == <<I(1), F(2), B(TRUE), B(FALSE), N, SA, V("range"), Call("f", <<>>),
            Call("range", <<V("y"), Neg(SB)>>), Call("print", <<Call("f", <<I(1), V("y"), N>>)>>)>>

BinaryIn(o, i) ==
  << Op(Op(V("x"), o, V("y")), i, V("z")), Op(V("x"), o, Op(V("y"), i, V("z"))) >>
UnaryIn(o) ==
  << Op(Neg(V("x")), o, Not(V("y"))), Neg(Op(V("x"), o, V("y"))), Not(Op(V("x"), o, V("y"))),
     Call("f", <<Op(V("x"), o, V("y")), Neg(Neg(V("x")))>>) >>

Expressions ==
  Leaves \o [k \in DOMAIN AllOperators |-> Op(V("x"), AllOperators[k], I(2))] \o
  FlattenSeq([k \in 1 .. 49 |-> BinaryIn(Operators[((k - 1) \div 7) + 1], Operators[((k - 1) % 7) + 1])]) \o
  FlattenSeq([k \in DOMAIN AllOperators |-> UnaryIn(AllOperators[k])]) \o
  << Not(Not(V("x"))), Not(Neg(V("x"))), Neg(Not(V("x"))) >>

Set1 == Let("x", I(1))
Statements == <<
  Set1, Show(V("x")), PrintStmt(<<>>), PrintStmt(<<I(1), Not(V("x"))>>), ExprStmt(Call("f", <<>>)),
  Let("range", I(2)), ImportStmt("m"), ImportAs("m", "n"), FromImportStmt("m", "x"),
  If(V("x"), <<Set1>>),
  IfElse(V("x"), <<Set1, Show(V("x"))>>, <<PassStmt>>),
  IfStmt(<<Branch(V("x"), <<If(V("y"), <<Set1>>)>>), Branch(V("y"), <<PassStmt>>), Else(<<Set1>>)>>),
  While(Lt(V("x"), I(2)), <<If(V("x"), <<BreakStmt>>), IfElse(V("y"), <<ContinueStmt>>, <<Set1>>)>>),
  For("k", I(3), <<For2("j", I(1), V("k"), <<PassStmt>>), Set1>>),
  Def("f", <<>>, <<Ret(N)>>),
  Def("f", <<"a">>, <<If(V("a"), <<Ret(N)>>), Ret(V("a"))>>),
  Def("f", <<"a", "b">>, <<While(V("a"), <<Def("g", <<>>, <<Ret(V("b"))>>)>>)>>) >>

Nothing == <<>>
Spaces(n) == [k \in 1 .. n |-> " "]
Comment == <<"#", "(", "x">>
Plain  == [indent |-> <<Nothing, Spaces(2), Spaces(4), Spaces(6)>>, tail |-> Nothing,
           between |-> <<>>, broken |-> FALSE]
\* Tabs; blank lines and comments at widths of their own.
Gaps   == [indent |-> <<Nothing, <<"\t">>, <<"\t", "\t">>, <<"\t", "\t", "\t">> >>,
           tail |-> <<" ">> \o Comment, between |-> <<Line(Spaces(1), <<>>, <<"\r">>),
             Line(Spaces(5), <<>>, Comment), Line(Nothing, <<>>, Nothing)>>, broken |-> FALSE]
\* Uneven widths, spaces and tabs mixed, lines broken behind parentheses.
Uneven == [indent |-> <<Nothing, Spaces(1), Spaces(3) \o <<"\t">>, <<"\t", "\t">> >>,
           tail |-> <<"\r">>, between |-> <<>>, broken |-> TRUE]
Styles == <<Plain, Gaps, Uneven>>

Whole(trees, style) ==
  [lines |-> LinesOf(Written(trees), style), pieces |-> [k \in DOMAIN trees |-> Statement(trees[k])]]

\* Lines that are no statement, at the outer level.
Broken == << <<"x", "=", ")">>, <<"x", "=">>, <<"1", "=", "x">>, <<"def", "f", ":">>, <<"in">>,
             <<"f", "(", ")", "(", ")", ",">>, <<"import">>, <<"from", "m">>, <<"print", "x">>,
             <<"'", "x">>, <<"$">>, <<"!", "x">>, <<"for", "x", "=">>, <<"return", "+">> >>
Block(head, body) == <<Line(Nothing, head, Nothing)>> \o [k \in DOMAIN body |-> Line(Spaces(2), body[k], Nothing)]
BrokenBlocks == <<
  Block(<<"if", "x">>, << <<"y", "=", "1">> >>),
  Block(<<"if", "x", ":">>, << <<"y", "=", ")">>, <<"y", "=", "1">> >>),
  Block(<<"while", "x", ":">>, << <<"y", "=", "1">>, <<"if">>, <<"y", "=", "2">> >>),
  Block(<<"else", ":">>, << <<"y", "=", "1">> >>) >>

Around(lines, kind, before, after) ==
  [lines |-> LinesOf(Written(<<before>>), Plain) \o lines
               \o LinesOf(Written(<<after, Show(V("z"))>>), Plain),
   pieces |-> <<Statement(before), kind, Statement(after), Statement(Show(V("z")))>>]

Cases ==
  [k \in DOMAIN Expressions |-> Whole(<<Let("x", Expressions[k]), Show(Expressions[k])>>, Plain)] \o
  FlattenSeq([k \in DOMAIN Statements |->
    [j \in 1 .. 3 |-> Whole(<<Statements[k], Set1>>, Styles[j])]]) \o
  FlattenSeq([k \in DOMAIN Statements |->
    [j \in DOMAIN Broken |->
      Around(<<Line(Nothing, Broken[j], Nothing)>>, BrokenLine, Statements[k], Let("w", I(5)))]]) \o
  FlattenSeq([k \in DOMAIN Statements |->
    [j \in DOMAIN BrokenBlocks |->
      Around(BrokenBlocks[j], BrokenBlock, Let("w", I(5)), Statements[k])]])

MCTexts == Range(Cases)
MCCallers == {"main", "import"}
=================================================================================
