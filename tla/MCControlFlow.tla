----------------------------- MODULE MCControlFlow -----------------------------
(****************************************************************************)
(* Module-level control flow: every combination of two statements out of a  *)
(* catalogue of ifs, loops, breaks and continues, around a variable that    *)
(* starts at each of a few values.  None of them uses or, which leaves a    *)
(* value on the stack.                                                      *)
(****************************************************************************)
EXTENDS Interpreter, Syntax

Decrement(n) == Let(n, Minus(V(n), I(1)))
Increment(n) == Let(n, Plus(V(n), I(1)))

\* Statements that read and write x and may be run one after the other.
Catalogue == <<
  \* if without and with else, elif chains, an if in an if
  If(Lt(V("x"), I(2)), <<Show(SA)>>),
  IfStmt(<<Branch(Lt(V("x"), I(1)), <<Show(I(1)), Let("x", I(3))>>),
           Branch(Lt(V("x"), I(2)), <<Show(I(2))>>), Else(<<Increment("x")>>)>>),
  IfElse(And(V("x"), Lt(V("x"), I(2))),
         <<IfElse(Not(V("x")), <<PassStmt>>, <<Show(V("x"))>>)>>, <<Show(SB)>>),
  \* while: counting down, leaving by break, skipping by continue
  While(Lt(I(0), V("x")), <<Show(V("x")), Decrement("x")>>),
  While(B(TRUE), <<If(Lte(V("x"), I(0)), <<BreakStmt>>), Decrement("x"), Show(V("x"))>>),
  While(Lt(V("x"), I(3)), <<Increment("x"), If(Op(V("x"), "eq", I(2)), <<ContinueStmt>>),
                            Show(V("x"))>>),
  \* for: one and two bounds, empty, break and continue, nested, with an if
  For("i", V("x"), <<Show(V("i"))>>),
  For2("i", I(1), Plus(V("x"), I(1)),
       <<IfElse(Op(V("i"), "eq", I(2)), <<BreakStmt>>, <<Show(V("i"))>>)>>),
  For("i", I(3), <<If(Op(V("i"), "eq", V("x")), <<ContinueStmt>>), Show(V("i"))>>),
  For("i", V("x"), <<For("j", V("i"), <<If(V("j"), <<BreakStmt>>), Let("x", Plus(V("x"), V("j"))),
                                        PrintStmt(<<V("i"), V("j")>>)>>)>>),
  \* a loop in a loop, broken from the outer body
  While(Lt(V("x"), I(2)), <<For("i", I(2), <<ContinueStmt>>), Increment("x"), BreakStmt>>),
  \* errors, which end the program where they stand
  Show(Op(I(6), "slashslash", V("x"))),
  Let("x", Plus(V("x"), N)),
  \* an expression statement, and a condition that is left of an and
  ExprStmt(And(V("x"), Op(I(1), "percent", V("x"))))
>>

Starts == <<0, 1, 2, 3>>

ProgramCount == Len(Starts) * Len(Catalogue) * Len(Catalogue)
ControlFlow == [k \in 1 .. ProgramCount |->
  LET n == k - 1 IN
  <<Let("x", I(Starts[(n % Len(Starts)) + 1])),
    Catalogue[((n \div Len(Starts)) % Len(Catalogue)) + 1],
    Catalogue[(n \div (Len(Starts) * Len(Catalogue))) + 1],
    Show(V("x"))>>]
================================================================================
