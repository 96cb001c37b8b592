--------------------------------- MODULE MCCalls ---------------------------------
(****************************************************************************)
(* Functions: arguments, locals, recursion, and functions the JIT compiles. *)
(* Each program defines all functions of a group and evaluates one of the   *)
(* group's calls twice, so that the second may run native code.             *)
(****************************************************************************)
EXTENDS Interpreter, Syntax

ReturnIf(c, e) == If(c, <<Ret(e)>>)
Dec(n, k) == Minus(V(n), I(k))

\* One function per shape: no locals, up to four, more than four; locals that
\* shadow globals; returns out of loops; a function passed by a global name.
Ordinary == <<
  Let("x", I(10)), Let("y", I(20)),
  Def("nothing", <<>>, <<PassStmt>>),
  Def("show", <<>>, <<Show(V("x"))>>),
  Def("add", <<"a", "b">>, <<Ret(Plus(V("a"), V("b")))>>),
  Def("shadow", <<"x">>, <<Let("y", Plus(V("x"), I(1))), Show(V("y")), Ret(Times(V("y"), V("x")))>>),
  Def("late", <<"a">>, <<Let("z", V("y")), Let("y", V("a")), Ret(Plus(V("z"), V("y")))>>),
  Def("five", <<"a", "b", "c">>,
      <<Let("d", Minus(V("a"), V("c"))), Let("e", Times(V("d"), V("b"))),
        Ret(Plus(V("e"), V("a")))>>),
  Def("search", <<"n">>,
      <<Let("k", I(0)),
        While(B(TRUE), <<If(Op(Times(V("k"), V("k")), "gte", V("n")), <<Ret(V("k"))>>),
                         Let("k", Plus(V("k"), I(1)))>>)>>),
  Def("total", <<"n">>,
      <<Let("s", I(0)), For("i", V("n"), <<Let("s", Plus(V("s"), V("i")))>>), Ret(V("s"))>>),
  Def("first", <<"n">>, <<For("q", V("n"), <<ReturnIf(V("q"), V("q"))>>)>>),
  Let("alias", V("add"))
>>

PlainCalls == <<
  Call("nothing", <<>>), Call("show", <<>>), Call("add", <<I(3), I(4)>>),
  Call("add", <<SA, Call("add", <<I(1), SB>>)>>), Call("shadow", <<I(2)>>), Call("late", <<I(3)>>),
  Plus(I(1), Call("five", <<I(5), I(2), I(1)>>)),
  Call("add", <<Call("search", <<I(5)>>), Call("five", <<I(1), I(2), I(3)>>)>>),
  Plus(Call("total", <<I(3)>>), Call("first", <<I(3)>>)), Call("alias", <<I(1), I(2)>>),
  Call("add", <<I(1)>>), Call("x", <<I(1)>>), Call("add", <<Call("nothing", <<>>), I(1)>>),
  And(Call("search", <<I(2)>>), Call("add", <<Neg(I(1)), I(1)>>)),
  Plus(I(1), Call("add", <<I(3), I(4), I(5)>>))
>>

\* Recursion.  fib and fact have the shapes the JIT looks for; sum, both and
\* even recur too, in other shapes.
Recursive == <<
  Def("fib", <<"n">>, <<ReturnIf(Lte(V("n"), I(1)), V("n")),
                        Ret(Plus(Call("fib", <<Dec("n", 1)>>), Call("fib", <<Dec("n", 2)>>)))>>),
  Def("sum", <<"n">>, <<ReturnIf(Lt(V("n"), I(1)), I(0)),
                        Ret(Plus(V("n"), Call("sum", <<Dec("n", 1)>>)))>>),
  Def("even", <<"n">>, <<ReturnIf(Op(V("n"), "eq", I(0)), B(TRUE)), Ret(Call("odd", <<Dec("n", 1)>>))>>),
  Def("odd", <<"n">>, <<ReturnIf(Op(V("n"), "eq", I(0)), B(FALSE)), Ret(Call("even", <<Dec("n", 1)>>))>>),
  Def("both", <<"n", "m">>, <<ReturnIf(Lte(V("n"), I(0)), V("m")),
                              Ret(Call("both", <<Dec("n", 1), Plus(V("m"), V("n"))>>))>>)
>>

\* The factorial of the tests, alone in front of its program: the constant it
\* returns is then the second one of the pool.
Factorial == <<Def("fact", <<"n">>, <<ReturnIf(Lte(V("n"), I(1)), I(1)),
                                      Ret(Times(V("n"), Call("fact", <<Dec("n", 1)>>)))>>)>>

RecursiveCalls ==
  [i \in 1 .. 6 |-> Call("fib", <<I(i - 1)>>)] \o
  <<Call("fib", <<F(3)>>), Call("fib", <<B(TRUE)>>), Call("fib", <<SA>>),
    Call("sum", <<I(3)>>), Call("even", <<I(3)>>), Call("both", <<I(2), I(0)>>),
    Plus(Call("fib", <<I(3)>>), Call("fib", <<Call("fib", <<I(4)>>)>>))>>
FactorialCalls == [i \in 1 .. 5 |-> Call("fact", <<I(i - 1)>>)] \o <<Call("fact", <<F(3)>>)>>

Twice(definitions, call) == definitions \o <<Show(call), PrintStmt(<<I(0), call>>)>>

Calls ==
  [i \in 1 .. Len(PlainCalls) |-> Twice(Ordinary, PlainCalls[i])] \o
  [i \in 1 .. Len(RecursiveCalls) |-> Twice(Recursive, RecursiveCalls[i])] \o
  [i \in 1 .. Len(FactorialCalls) |-> Twice(Factorial, FactorialCalls[i])]
================================================================================
