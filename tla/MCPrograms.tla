-------------------------------- MODULE MCPrograms --------------------------------
(****************************************************************************)
(* Programs of one file: expressions, control flow at module level, and     *)
(* functions.                                                               *)
(****************************************************************************)
EXTENDS MCExpressions, MCControlFlow, MCCalls

MCSources == [k \in 1 .. ExpressionCount + ProgramCount + Len(Calls) |->
  CASE k <= ExpressionCount                -> Expressions[k - 1]
    [] k - ExpressionCount \in 1 .. ProgramCount -> ControlFlow[k - ExpressionCount]
    [] OTHER                               -> Calls[k - ExpressionCount - ProgramCount]]
MCModuleSources == [m \in {} |-> <<>>]
=================================================================================
