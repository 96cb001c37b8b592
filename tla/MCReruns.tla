-------------------------------- MODULE MCReruns --------------------------------
(****************************************************************************)
(* One Vm that executes a program after another, of every ordered pair: the *)
(* first may end in an error, at top level or deep in calls and loops, with *)
(* operands and frames left behind.  No program has a function the JIT      *)
(* would compile: its table outlives the code it was made from.             *)
(****************************************************************************)
EXTENDS Interpreter, Syntax

Dec(n, k) == Minus(V(n), I(k))

MCSources == <<
  <<Let("x", I(1)), Show(Plus(V("x"), I(1)))>>,
  <<Show(SA), Show(Plus(I(1), Minus(I(2), SA)))>>,
  <<Let("x", N), Let("y", V("x")), Show(V("y")), Show(Call("x", <<>>))>>,
  <<Def("down", <<"n">>, <<If(Op(V("n"), "eq", I(0)), <<Ret(Minus(SA, I(1)))>>),
                           Ret(Plus(V("n"), Call("down", <<Dec("n", 1)>>)))>>),
    Show(I(7)), Show(Times(I(2), Call("down", <<I(2)>>)))>>,
  <<For("i", I(3), <<Show(V("i")), If(Op(V("i"), "eq", I(1)), <<Show(Neg(SA))>>)>>)>>,
  <<Def("sum", <<"n">>, <<If(Lt(V("n"), I(1)), <<Ret(I(0))>>),
                          Ret(Plus(V("n"), Call("sum", <<Dec("n", 1)>>)))>>),
    Let("z", Call("sum", <<I(2)>>)), PrintStmt(<<V("z"), Call("sum", <<V("z")>>)>>)>>,
  <<ImportStmt("lib"), Show(Call("inc", <<V("base")>>))>>,
  <<Show(I(0)), ImportStmt("broken"), Show(I(1))>>,
  <<Let("k", I(2)), While(V("k"), <<Let("k", Minus(V("k"), I(1))), Show(V("k"))>>)>>,
  <<ImportStmt("undef")>>
>>
MCModuleSources ==
  [lib    |-> <<Let("base", I(4)), Def("inc", <<"a">>, <<Let("b", Plus(I(1), V("a"))), Ret(V("b"))>>)>>,
   undef  |-> <<Show(V("w"))>>,
   broken |-> <<Show(I(5)), Show(Plus(I(1), Op(I(1), "percent", I(0))))>>]
================================================================================
