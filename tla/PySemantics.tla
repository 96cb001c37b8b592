------------------------------ MODULE PySemantics ------------------------------
(****************************************************************************)
(* The reference for whole programs: what a syntax tree means, by direct    *)
(* evaluation of the tree, without bytecode, stack, slots, jumps, native    *)
(* code or linking.  The operations on values are those of PyValue; names,  *)
(* control flow and calls follow Python: a name is local to the function    *)
(* that assigned it, range() is evaluated once, a module is run on its      *)
(* first import.  It models no code: properties compare the VM with it.     *)
(*                                                                          *)
(* An evaluation state s: globals and locals (functions from the names      *)
(* bound), whether a function is running, the output, how the last          *)
(* statement ended ("next", "break", "continue", "return" or an error) and  *)
(* the value of the last expression or return.                              *)
(****************************************************************************)
EXTENDS Ast

\* The module whose file does not compile: none of its statements runs.
Uncompiled == <<[node |-> "Uncompiled"]>>

NoNames == [n \in {} |-> PyNone]

StartState(modules) ==
  [globals |-> NoNames, locals |-> NoNames, inFunction |-> FALSE, out |-> <<>>,
   ctl |-> "next", val |-> PyNone, modules |-> modules, imported |-> {}]

Bind(env, n, v) == [m \in DOMAIN env \cup {n} |-> IF m = n THEN v ELSE env[m]]

Set(s, n, v) == IF s.inFunction THEN [s EXCEPT !.locals = Bind(@, n, v)]
                ELSE [s EXCEPT !.globals = Bind(@, n, v)]

Value(s, v) == IF IsError(v) THEN [s EXCEPT !.ctl = v.e] ELSE [s EXCEPT !.val = v]
Fail(s, error) == [s EXCEPT !.ctl = error]
Going(s) == s.ctl = "next"

\* Current frame, then global, then the one builtin that is no statement.
Lookup(s, n) == IF n \in DOMAIN s.locals THEN Value(s, s.locals[n])
                ELSE IF n \in DOMAIN s.globals THEN Value(s, s.globals[n])
                ELSE IF n = "range" THEN Value(s, [t |-> "FUNCTION", def |-> "range"])
                ELSE Fail(s, "NameError")

Operate(op, l, r) ==
  CASE op = "plus" -> BinaryAdd(l, r)            [] op = "minus" -> BinarySub(l, r)
    [] op = "star" -> BinaryMul(l, r)            [] op = "slashslash" -> BinaryFloorDiv(l, r)
    [] op = "percent" -> BinaryMod(l, r)         [] op = "eq" -> CompareEq(l, r)
    [] op = "neq" -> CompareNeq(l, r)            [] op = "lt" -> CompareLt(l, r)
    [] op = "gt" -> CompareGt(l, r)              [] op = "lte" -> CompareLte(l, r)
    [] op = "gte" -> CompareGte(l, r)

\* What follows a value: the state s has the value, or the error, of an
\* expression; e is the call or statement that expression belongs to.
Negated(s, e)   == IF Going(s) THEN Value(s, IF e.op = "minus" THEN UnaryNeg(s.val)
                                             ELSE UnaryNot(s.val)) ELSE s
Operated(s, e, left) == IF Going(s) THEN Value(s, Operate(e.op, left, s.val)) ELSE s
Assigned(s, e)  == IF Going(s) THEN Set(s, e.name, s.val) ELSE s
Returned(s)     == IF Going(s) THEN [s EXCEPT !.ctl = "return"] ELSE s
Printed(s)      == IF Going(s)
                   THEN [s EXCEPT !.out = Append(@, [i \in DOMAIN s.val |-> Text(s.val[i])])]
                   ELSE s

\* The caller's state once the body of the function it called has ended as s.
BackFrom(s, caller) ==
  LET back == [s EXCEPT !.locals = caller.locals, !.inFunction = caller.inFunction]
  IN  CASE s.ctl = "return" -> [back EXCEPT !.ctl = "next"]
        [] s.ctl = "next"   -> [back EXCEPT !.val = PyNone]
        [] OTHER            -> back

\* The parameters bound to the arguments in order; a missing one is None.
Parameters(def, vals) ==
  [p \in {def.params[i] : i \in DOMAIN def.params} |->
     LET i == CHOOSE j \in DOMAIN def.params : def.params[j] = p
     IN  IF i <= Len(vals) THEN vals[i] ELSE PyNone]

\* How a loop goes on after its body ended as s: leave it, or the next turn.
Leaves(s) == s.ctl \notin {"next", "continue"}
Left(s)   == IF s.ctl = "break" THEN [s EXCEPT !.ctl = "next"] ELSE s
Again(s)  == [s EXCEPT !.ctl = "next"]

RECURSIVE Eval(_, _), Right(_, _), EvalEach(_, _, _), Invoke(_, _, _), Exec(_, _),
          ExecAll(_, _), ExecBranches(_, _), TakeBranch(_, _), Loop(_, _), Turn(_, _),
          Iterate(_, _, _, _), Iterations(_, _)

Eval(s, e) ==
  CASE e.node = "Literal"    -> Value(s, e.value)
    [] e.node = "Identifier" -> Lookup(s, e.name)
    [] e.node = "UnaryExpr"  -> Negated(Eval(s, e.operand), e)
    [] e.node = "BinaryExpr" -> Right(Eval(s, e.left), e)
    [] e.node = "CallExpr"   ->
         LET f == Lookup(s, e.callee)
         IN  IF Going(f) THEN Invoke(EvalEach(f, e.args, <<>>), f.val, s) ELSE f

\* The right operand and the operator, the left operand being s.val.
Right(s, e) ==
  IF \/ ~Going(s)
     \/ e.op = "and" /\ ~Truthy(s.val)
     \/ e.op = "or" /\ Truthy(s.val)
  THEN s
  ELSE IF e.op \in {"and", "or"} THEN Eval(s, e.right)
  ELSE Operated(Eval(s, e.right), e, s.val)

\* The values of es from left to right, the first ones being vals already.
EvalEach(s, es, vals) ==
  IF ~Going(s) THEN s
  ELSE IF es = <<>> THEN [s EXCEPT !.val = vals]
  ELSE LET a == Eval(s, Head(es)) IN EvalEach(a, Tail(es), Append(vals, a.val))

\* The call of f with the arguments s.val.
Invoke(s, f, caller) ==
  IF ~Going(s) THEN s
  ELSE IF f.t # "FUNCTION" THEN Fail(s, "TypeError")
  ELSE BackFrom(ExecAll([s EXCEPT !.locals = Parameters(f.def, s.val), !.inFunction = TRUE],
                        f.def.body), caller)

ExecAll(s, stmts) ==
  IF stmts = <<>> \/ ~Going(s) THEN s ELSE ExecAll(Exec(s, Head(stmts)), Tail(stmts))

ExecBranches(s, branches) ==
  IF branches = <<>> THEN s
  ELSE IF Head(branches).cond = <<>> THEN ExecAll(s, Head(branches).body)
  ELSE TakeBranch(Eval(s, Head(branches).cond[1]), branches)

\* The condition of the first branch has the value s.val.
TakeBranch(s, branches) ==
  IF ~Going(s) THEN s
  ELSE IF Truthy(s.val) THEN ExecAll(s, Head(branches).body)
  ELSE ExecBranches(s, Tail(branches))

\* The while loop w: the condition has the value s.val; its body ended as s.
Loop(s, w) == IF ~Going(s) \/ ~Truthy(s.val) THEN s ELSE Turn(ExecAll(s, w.body), w)
Turn(s, w) == IF Leaves(s) THEN Left(s) ELSE Loop(Eval(Again(s), w.cond), w)

\* The for loop f whose last turn ended as s, from i on.
Iterate(s, f, i, end) ==
  IF Leaves(s) THEN Left(s)
  ELSE IF i >= end THEN Again(s)
  ELSE Iterate(ExecAll(Set(Again(s), f.var, PyInt(i)), f.body), f, i + 1, end)

\* The for loop f, the arguments of its range being s.val.
Iterations(s, f) ==
  IF ~Going(s) THEN s
  ELSE Iterate(s, f, IF Len(s.val) = 1 THEN 0 ELSE s.val[1].i, s.val[Len(s.val)].i)

Exec(s, st) ==
  CASE st.node = "ExprStmt"     -> Eval(s, st.expr)
    [] st.node = "AssignStmt"   -> Assigned(Eval(s, st.value), st)
    [] st.node = "ReturnStmt"   -> Returned(Eval(s, st.value))
    [] st.node = "PrintStmt"    -> Printed(EvalEach(s, st.args, <<>>))
    [] st.node = "IfStmt"       -> ExecBranches(s, st.branches)
    [] st.node = "WhileStmt"    -> Turn(s, st)
    [] st.node = "ForStmt"      -> Iterations(EvalEach(s, st.iterable.args, <<>>), st)
    [] st.node = "FuncDef"      -> Set(s, st.name, [t |-> "FUNCTION", def |-> st])
    [] st.node = "BreakStmt"    -> [s EXCEPT !.ctl = "break"]
    [] st.node = "ContinueStmt" -> [s EXCEPT !.ctl = "continue"]
    [] st.node = "PassStmt"     -> s
    [] st.node \in {"ImportStmt", "FromImportStmt"} ->
         IF st.module \in s.imported THEN s
         ELSE IF st.module \notin DOMAIN s.modules THEN Fail(s, "ModuleNotFoundError")
         ELSE IF s.modules[st.module] = Uncompiled THEN Fail(s, "CompileError")
         ELSE LET m == ExecAll([s EXCEPT !.locals = NoNames, !.inFunction = FALSE,
                                         !.imported = @ \cup {st.module}],
                               s.modules[st.module])
              IN  [m EXCEPT !.locals = s.locals, !.inFunction = s.inFunction]

\* The output of a program, and how it ends: "halted" or the error it raises.
Meaning(statements, modules) ==
  LET end == ExecAll(StartState(modules), statements)
  IN  [out |-> end.out, end |-> IF end.ctl = "next" THEN "halted" ELSE end.ctl]
================================================================================
