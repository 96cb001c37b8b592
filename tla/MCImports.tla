-------------------------------- MODULE MCImports --------------------------------
(****************************************************************************)
(* Imports: every ordered pair of two modules, imported at the top of a     *)
(* program or inside a function of it, each used after its import.  The     *)
(* modules import nothing themselves and contain no update the peephole     *)
(* would turn into an INPLACE opcode: those operands are not relocated.     *)
(****************************************************************************)
EXTENDS Interpreter, Syntax

Dec(k) == Minus(V("n"), I(k))

MCModuleSources ==
  [square |-> <<Let("k", I(3)), Def("square", <<"n">>, <<Ret(Times(V("n"), V("n")))>>),
                Show(Call("square", <<V("k")>>))>>,
   fib    |-> <<Def("fib", <<"n">>, <<If(Lte(V("n"), I(1)), <<Ret(V("n"))>>),
                  Ret(Plus(Call("fib", <<Dec(1)>>), Call("fib", <<Dec(2)>>)))>>)>>,
   reads  |-> <<Def("reads", <<>>, <<Ret(V("x"))>>), Let("x", Plus(I(1), V("x")))>>,
   flow   |-> <<Let("k", I(0)),
                While(Lt(V("k"), I(2)), <<Let("k", Plus(I(1), V("k"))),
                  IfElse(Op(V("k"), "eq", V("x")), <<Show(SA)>>, <<Show(V("k"))>>)>>)>>,
   empty  |-> <<>>,
   ranges |-> <<Let("r", V("range")), Show(V("r"))>>,
   undef  |-> <<Show(I(1)), Show(V("undefined"))>>,
   \* What is left of a module with an error in the header of its while.
   stray  |-> <<Let("x", I(5)), BreakStmt>>,
   raises |-> <<Let("w", Plus(SA, SB)), Show(Plus(V("w"), Minus(V("w"), I(1))))>>]

Names == <<"square", "fib", "reads", "flow", "empty", "ranges", "undef", "raises", "stray", "missing">>

Use(m) == CASE m = "square" -> Show(Call("square", <<Plus(V("k"), V("x"))>>))
            [] m = "fib"    -> PrintStmt(<<Call("fib", <<I(2)>>), Call("fib", <<I(4)>>)>>)
            [] m = "reads"  -> Show(Plus(Call("reads", <<>>), V("x")))
            [] m = "ranges" -> Show(Not(V("r")))
            [] OTHER        -> Show(V("x"))

AtTop(a, b) == <<Let("x", I(2)), ImportStmt(a), Use(a), ImportStmt(b), Use(b), Show(V("x"))>>
InFunction(a, b) ==
  <<Let("k", SB), Let("x", I(2)),
    Def("load", <<"n">>, <<ImportStmt(a), Use(a), Ret(Plus(V("n"), V("x")))>>),
    Show(Plus(I(1), Call("load", <<I(1)>>))), ImportStmt(b), Use(b)>>

Pairs == Len(Names) * Len(Names)
First(n)  == Names[((n \div Len(Names)) % Len(Names)) + 1]
Second(n) == Names[(n % Len(Names)) + 1]

\* A module is imported once: a second import runs it again.
MCSources == [n \in 0 .. 2 * Pairs - 1 |->
  IF First(n) = Second(n) THEN <<Let("x", I(2)), FromImportStmt(First(n), "x"), Use(First(n))>>
  ELSE IF n < Pairs THEN AtTop(First(n), Second(n)) ELSE InFunction(First(n), Second(n))]
================================================================================
