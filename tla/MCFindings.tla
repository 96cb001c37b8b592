------------------------------- MODULE MCFindings -------------------------------
(****************************************************************************)
(* Where the code disagrees with what its documents and comments say: one   *)
(* small program per disagreement, each in a configuration of its own with  *)
(* the one property it breaks.                                              *)
(****************************************************************************)
EXTENDS Interpreter, Syntax

Dec(n, k) == Minus(V(n), I(k))
NoModules == [m \in {} |-> <<>>]

\* def f(n): return n or 1      f(0)
ReturnedOr ==
  << <<Def("f", <<"n">>, <<Ret(Or(V("n"), I(1)))>>), ExprStmt(Call("f", <<I(0)>>))>> >>

\* A module that imports a module.
NestedImport == << <<PrintStmt(<<I(1), I(2), I(3)>>), ImportStmt("outer"), Show(V("x"))>> >>
SomeModules ==
  [greets |-> <<Show(SA)>>,
   outer  |-> <<ImportStmt("greets"), Let("x", I(1))>>]

\* x = 1   y = 5   x = y + -x: the window LOAD_NAME x; UNARY_NEG; BINARY_ADD;
\* STORE_NAME x loads x in the middle of an expression.
NegatedOperand ==
  << <<Let("x", I(1)), Let("y", I(5)), Let("x", Plus(V("y"), Neg(V("x")))), Show(V("x"))>> >>

\* The factorial whose 1 is not the constant with index 1.
ShiftedFactorial ==
  << <<Let("x", I(7)), Let("y", I(9)),
       Def("fact", <<"n">>, <<If(Lte(V("n"), I(1)), <<Ret(I(1))>>),
                              Ret(Times(V("n"), Call("fact", <<Dec("n", 1)>>)))>>),
       Show(Call("fact", <<I(3)>>))>> >>
================================================================================
