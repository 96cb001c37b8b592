--------------------------------- MODULE Syntax ---------------------------------
(****************************************************************************)
(* Short forms for writing the programs of the model-checking modules.      *)
(****************************************************************************)
EXTENDS Ast

I(n) == Literal(PyInt(n))
F(n) == Literal(PyFloat(n))
B(b) == Literal(PyBool(b))
N    == Literal(PyNone)
S(c) == Literal(PyStr(<<c>>))      \* a one-letter string
SA   == S(97)
SB   == S(98)
V(n) == Identifier(n)

Op(l, op, r)    == BinaryExpr(op, l, r)
Plus(l, r)      == Op(l, "plus", r)
Minus(l, r)     == Op(l, "minus", r)
Times(l, r)     == Op(l, "star", r)
Lt(l, r)        == Op(l, "lt", r)
Lte(l, r)       == Op(l, "lte", r)
And(l, r)       == Op(l, "and", r)
Or(l, r)        == Op(l, "or", r)
Neg(e)          == UnaryExpr("minus", e)
Not(e)          == UnaryExpr("not", e)
Call(f, args)   == CallExpr(f, args)

Let(n, e)       == AssignStmt(n, e)
Show(e)         == PrintStmt(<<e>>)
If(c, body)     == IfStmt(<<Branch(c, body)>>)
IfElse(c, a, b) == IfStmt(<<Branch(c, a), Else(b)>>)
While(c, body)  == WhileStmt(c, body)
For(v, e, body) == ForStmt(v, Call("range", <<e>>), body)
For2(v, a, b, body) == ForStmt(v, Call("range", <<a, b>>), body)
Def(n, ps, body) == FuncDef(n, ps, body)
Ret(e)          == ReturnStmt(e)
================================================================================
