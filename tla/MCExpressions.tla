----------------------------- MODULE MCExpressions -----------------------------
(****************************************************************************)
(* Every expression with one operator over a set of leaves, every one with  *)
(* two over a smaller set, and every update  x = x op leaf , as a program   *)
(* of its own.  A program is numbered by the digits of its choices.         *)
(****************************************************************************)
EXTENDS Interpreter, Syntax

Arithmetic == <<"plus", "minus", "star", "slashslash", "percent",
                "eq", "neq", "lt", "gt", "lte", "gte">>
Operators  == Arithmetic \o <<"and", "or">>
Leaf       == <<I(0), I(2), I(-3), F(2), B(TRUE), SA, SB, N, V("x")>>
Few        == <<I(0), I(-3), B(TRUE), SA>>
\* Pairs of operators; or is only the outer one.
Pairs      == <<<<"plus", "minus">>, <<"star", "plus">>, <<"minus", "slashslash">>,
                <<"and", "lt">>, <<"lt", "and">>, <<"percent", "or">>, <<"and", "or">>>>

\* The digit of n with weight w, as an index of seq.
Pick(seq, n, w) == seq[((n \div w) % Len(seq)) + 1]

OneOperator(n) ==
  <<Let("x", I(7)), Show(Op(Pick(Leaf, n, 9), Pick(Operators, n, 81), Pick(Leaf, n, 1)))>>
TwoOperators(n) ==
  LET ops == Pick(Pairs, n, 64)
  IN  <<Show(Op(Op(Pick(Few, n, 16), ops[1], Pick(Few, n, 4)), ops[2], Pick(Few, n, 1)))>>
\* x starts as a number: INPLACE_MUL_NAME is known not to repeat strings.
Update(n) ==
  <<Let("x", Pick(SubSeq(Leaf, 2, 5), n, 9)),
    Let("x", Op(V("x"), Pick(Arithmetic, n, 36), Pick(Leaf, n, 1))), Show(V("x"))>>
OneUnary(n) == <<Let("x", I(7)), Show(UnaryExpr(Pick(<<"minus", "not">>, n, 9), Pick(Leaf, n, 1)))>>

ExpressionCount == 81 * 13 + 64 * 7 + 36 * 11 + 18
Expressions == [n \in 0 .. ExpressionCount - 1 |->
  CASE n < 1053                -> OneOperator(n)
    [] n >= 1053 /\ n < 1501   -> TwoOperators(n - 1053)
    [] n >= 1501 /\ n < 1897   -> Update(n - 1501)
    [] OTHER                   -> OneUnary(n - 1897)]
================================================================================
