---------------------------------- MODULE Ast ----------------------------------
(****************************************************************************)
(* The syntax tree the parser hands to the compiler (ast.h).  Line numbers  *)
(* are left out; the five literal classes are one node carrying a value.    *)
(****************************************************************************)
EXTENDS PyValue

Literal(v)             == [node |-> "Literal", value |-> v]
Identifier(n)          == [node |-> "Identifier", name |-> n]
BinaryExpr(op, l, r)   == [node |-> "BinaryExpr", op |-> op, left |-> l, right |-> r]
UnaryExpr(op, e)       == [node |-> "UnaryExpr", op |-> op, operand |-> e]
CallExpr(f, args)      == [node |-> "CallExpr", callee |-> f, args |-> args]

ExprStmt(e)            == [node |-> "ExprStmt", expr |-> e]
AssignStmt(n, e)       == [node |-> "AssignStmt", name |-> n, value |-> e]
PrintStmt(args)        == [node |-> "PrintStmt", args |-> args]
\* A return without a value returns the None literal.
ReturnStmt(e)          == [node |-> "ReturnStmt", value |-> e]
\* A branch of an if has a sequence of at most one condition: none for else.
Branch(cond, body)     == [cond |-> <<cond>>, body |-> body]
Else(body)             == [cond |-> <<>>, body |-> body]
IfStmt(branches)       == [node |-> "IfStmt", branches |-> branches]
WhileStmt(cond, body)  == [node |-> "WhileStmt", cond |-> cond, body |-> body]
ForStmt(v, iter, body) == [node |-> "ForStmt", var |-> v, iterable |-> iter, body |-> body]
FuncDef(n, ps, body)   == [node |-> "FuncDef", name |-> n, params |-> ps, body |-> body]
BreakStmt              == [node |-> "BreakStmt"]
ContinueStmt           == [node |-> "ContinueStmt"]
PassStmt               == [node |-> "PassStmt"]
\* import m as a, import m: no alias.  The compiler uses the module name only.
ImportAs(m, a)         == [node |-> "ImportStmt", module |-> m, alias |-> a]
ImportStmt(m)          == ImportAs(m, "")
FromImportStmt(m, n)   == [node |-> "FromImportStmt", module |-> m, name |-> n]
================================================================================
