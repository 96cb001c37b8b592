-------------------------------- MODULE Compiler --------------------------------
(****************************************************************************)
(* The compiler (compiler.cpp): a walk over the syntax tree that emits      *)
(* bytecode, back-patches jumps and allocates local slots.  The operators   *)
(* take the compiler's state and return it after the visit.                 *)
(****************************************************************************)
EXTENDS Ast, Peephole, FiniteSets

\* The members of Compiler, and whether it has thrown.
NewCompiler ==
  [instrs |-> <<>>, consts |-> <<>>, names |-> <<>>,  \* code_
   inFunction |-> FALSE, slots |-> <<>>,              \* in_function_, local_slots_
   loops |-> <<>>,                                    \* loop_stack_, innermost last
   thrown |-> FALSE]

Address(c) == Len(c.instrs)
Emit(c, ins) == [c EXCEPT !.instrs = Append(@, ins)]
EmitOp(c, op) == Emit(c, Plain(op))
\* A jump whose operand is patched later.
EmitJump(c, op) == Emit(c, Instr(op, 0))
EmitConst(c, v) ==
  Emit([c EXCEPT !.consts = Append(@, v)], Instr("LOAD_CONST", Len(c.consts)))
EmitName(c, op, n) ==
  LET names == WithName(c.names, n)
  IN  Emit([c EXCEPT !.names = names], Instr(op, NameIndex(names, n)))

Patch(c, addresses, target) ==
  [c EXCEPT !.instrs = [a \in DOMAIN c.instrs |->
     IF a - 1 \in addresses THEN [c.instrs[a] EXCEPT !.arg = target] ELSE c.instrs[a]]]

Reject(c) == [c EXCEPT !.thrown = TRUE]

OpenLoop(c) == [c EXCEPT !.loops = Append(@, [breaks |-> {}, continues |-> {}])]

\* Mutants of CloseLoop: breaks go elsewhere.
CloseLoopAt(c, breakTarget, continueTarget) ==
  LET loop == c.loops[Len(c.loops)]
      patched == Patch(Patch(c, loop.breaks, breakTarget), loop.continues, continueTarget)
  IN  [patched EXCEPT !.loops = SubSeq(@, 1, Len(@) - 1)]
BreaksBeforeEnd(c, continueTarget) == CloseLoopAt(c, Address(c) - 1, continueTarget)
BreaksToContinue(c, continueTarget) == CloseLoopAt(c, continueTarget, continueTarget)

\* Leaving a loop: breaks go to the current address.
CloseLoop(c, continueTarget) ==
  LET loop == c.loops[Len(c.loops)]
      patched == Patch(Patch(c, loop.breaks, Address(c)), loop.continues, continueTarget)
  IN  [patched EXCEPT !.loops = SubSeq(@, 1, Len(@) - 1)]

\* A jump out of or around the innermost loop: breaks or continues.
LoopJump(c, kind) ==
  IF c.loops = <<>> THEN Reject(c)
  ELSE [EmitJump(c, "JUMP_ABSOLUTE") EXCEPT !.loops[Len(c.loops)][kind] = @ \cup {Address(c)}]

HasSlot(c, n) == \E i \in 1 .. Len(c.slots) : c.slots[i] = n
RECURSIVE WithSlots(_, _)
WithSlots(slots, params) ==
  IF params = <<>> THEN slots ELSE WithSlots(WithName(slots, Head(params)), Tail(params))

OpcodeOf == [plus |-> "BINARY_ADD", minus |-> "BINARY_SUB", star |-> "BINARY_MUL",
             slashslash |-> "BINARY_FLOOR_DIV", percent |-> "BINARY_MOD",
             eq |-> "COMPARE_EQ", neq |-> "COMPARE_NEQ", lt |-> "COMPARE_LT",
             gt |-> "COMPARE_GT", lte |-> "COMPARE_LTE", gte |-> "COMPARE_GTE"]

--------------------------------------------------------------------------------
(* Expressions. *)

RECURSIVE VisitExpr(_, _), VisitExprs(_, _)

VisitExprs(c, es) == IF c.thrown \/ es = <<>> THEN c
                     ELSE VisitExprs(VisitExpr(c, Head(es)), Tail(es))

\* A name is local from the first assignment the compiler has met on.
VisitIdentifier(c, n) ==
  IF c.inFunction /\ HasSlot(c, n)
  THEN Emit(c, Instr("LOAD_FAST", NameIndex(c.slots, n)))
  ELSE EmitName(c, "LOAD_NAME", n)

\* left; jump over the right operand, with left still on the stack, or pop it.
ShortCircuit(left, jumpOp, right) ==
  LET jump == EmitJump(left, jumpOp)
      end  == VisitExpr(EmitOp(jump, "POP_TOP"), right)
  IN  Patch(end, {Address(left)}, Address(end))

\* Mutant of VisitAnd: the wrong sense of the jump.
VisitAndInverted(c, e) == ShortCircuit(VisitExpr(c, e.left), "JUMP_IF_TRUE", e.right)

VisitAnd(c, e) == ShortCircuit(VisitExpr(c, e.left), "JUMP_IF_FALSE", e.right)
\* or duplicates its left operand first; and does not.
VisitOr(c, e) == ShortCircuit(EmitOp(VisitExpr(c, e.left), "DUP_TOP"), "JUMP_IF_TRUE", e.right)

\* An operator without an opcode, / alone, is an error.
EmitBinary(c, op) == IF op \in DOMAIN OpcodeOf THEN EmitOp(c, OpcodeOf[op]) ELSE Reject(c)

VisitBinary(c, e) ==
  CASE e.op = "and" -> VisitAnd(c, e)
    [] e.op = "or"  -> VisitOr(c, e)
    [] OTHER        -> EmitBinary(VisitExpr(VisitExpr(c, e.left), e.right), e.op)

VisitUnary(c, e) ==
  EmitOp(VisitExpr(c, e.operand), IF e.op = "minus" THEN "UNARY_NEG" ELSE "UNARY_NOT")

\* The callee is always looked up by global name.
VisitCall(c, e) ==
  Emit(EmitName(VisitExprs(c, e.args), "LOAD_NAME", e.callee),
       Instr("CALL_FUNCTION", Len(e.args)))

VisitExpr(c, e) ==
  CASE e.node = "Literal"    -> EmitConst(c, e.value)
    [] e.node = "Identifier" -> VisitIdentifier(c, e.name)
    [] e.node = "BinaryExpr" -> VisitBinary(c, e)
    [] e.node = "UnaryExpr"  -> VisitUnary(c, e)
    [] e.node = "CallExpr"   -> VisitCall(c, e)

--------------------------------------------------------------------------------
(* Statements. *)

RECURSIVE VisitStmt(_, _), VisitStmts(_, _), VisitBranches(_, _, _)

\* An exception leaves the statements after it unvisited.
VisitStmts(c, ss) == IF c.thrown \/ ss = <<>> THEN c
                     ELSE VisitStmts(VisitStmt(c, Head(ss)), Tail(ss))

VisitAssign(c, s) ==
  LET value == VisitExpr(c, s.value)
      slots == WithName(value.slots, s.name)
  IN  IF c.inFunction
      THEN Emit([value EXCEPT !.slots = slots], Instr("STORE_FAST", NameIndex(slots, s.name)))
      ELSE EmitName(value, "STORE_NAME", s.name)

\* The branches of an if; ends are the jumps to the end of it met so far.
VisitBranches(c, branches, ends) ==
  IF branches = <<>> THEN Patch(c, ends, Address(c))
  ELSE LET b == Head(branches)
       IN  IF b.cond = <<>> THEN VisitBranches(VisitStmts(c, b.body), Tail(branches), ends)
           ELSE LET cond == VisitExpr(c, b.cond[1])
                    then == EmitOp(EmitJump(cond, "JUMP_IF_FALSE"), "POP_TOP")
                    body == VisitStmts(then, b.body)
                    exit == EmitJump(body, "JUMP_ABSOLUTE")
                    next == EmitOp(Patch(exit, {Address(cond)}, Address(exit)), "POP_TOP")
                IN  VisitBranches(next, Tail(branches), ends \cup {Address(body)})

\* Back to start, then where the condition jumps to (its jump is at exitJump).
LoopEnd(c, start, exitJump) ==
  LET jump == Emit(c, Instr("JUMP_ABSOLUTE", start))
  IN  EmitOp(Patch(jump, {exitJump}, Address(jump)), "POP_TOP")

VisitWhile(c, s) ==
  LET cond == VisitExpr(OpenLoop(c), s.cond)
      body == VisitStmts(EmitOp(EmitJump(cond, "JUMP_IF_FALSE"), "POP_TOP"), s.body)
  IN  CloseLoop(LoopEnd(body, Address(c), Address(cond)), Address(c))

\* The loop variable and the end of the range are globals, whatever the scope.
RangeEnd(v) == "__range_end_" \o v

\* range(end) evaluates end before it sets the variable to 0; range(start, end)
\* sets the variable to start before it evaluates end.
ForHeader(c, v, args) ==
  IF Len(args) = 1
  THEN EmitName(EmitConst(EmitName(VisitExpr(c, args[1]), "STORE_NAME", RangeEnd(v)),
                          PyInt(0)), "STORE_NAME", v)
  ELSE EmitName(VisitExpr(EmitName(VisitExpr(c, args[1]), "STORE_NAME", v), args[2]),
                "STORE_NAME", RangeEnd(v))

ForIncrement(c, v) ==
  EmitName(EmitOp(EmitConst(EmitName(c, "LOAD_NAME", v), PyInt(1)), "BINARY_ADD"),
           "STORE_NAME", v)

VisitFor(c, s) ==
  IF \/ s.iterable.node # "CallExpr"
     \/ s.iterable.callee # "range"
     \/ Len(s.iterable.args) \notin {1, 2}
  THEN Reject(c)
  ELSE LET header == ForHeader(c, s.var, s.iterable.args)
           test   == EmitOp(EmitName(EmitName(header, "LOAD_NAME", s.var),
                                     "LOAD_NAME", RangeEnd(s.var)), "COMPARE_LT")
           open   == OpenLoop(EmitOp(EmitJump(test, "JUMP_IF_FALSE"), "POP_TOP"))
           body   == VisitStmts(open, s.body)
           incr   == ForIncrement(body, s.var)
       IN  CloseLoop(LoopEnd(incr, Address(header), Address(test)), Address(body))

\* The body is compiled in place, behind a jump over it; loop_stack_ is not
\* saved, so a break in the body still finds the loops around the definition.
VisitFuncDef(c, s) ==
  LET inside == [EmitJump(c, "JUMP_ABSOLUTE")
                   EXCEPT !.inFunction = TRUE, !.slots = WithSlots(<<>>, s.params)]
      body   == EmitOp(EmitConst(VisitStmts(inside, s.body), PyNone), "RETURN_VALUE")
      after  == [Patch(body, {Address(c)}, Address(body))
                   EXCEPT !.inFunction = c.inFunction, !.slots = c.slots]
  IN  EmitName(EmitConst(after, PyFunction(Address(inside), Len(body.slots))),
               "STORE_NAME", s.name)

VisitStmt(c, s) ==
  CASE s.node = "ExprStmt"     -> EmitOp(VisitExpr(c, s.expr), "POP_TOP")
    [] s.node = "AssignStmt"   -> VisitAssign(c, s)
    [] s.node = "PrintStmt"    -> Emit(VisitExprs(c, s.args), Instr("PRINT", Len(s.args)))
    [] s.node = "ReturnStmt"   -> EmitOp(VisitExpr(c, s.value), "RETURN_VALUE")
    [] s.node = "IfStmt"       -> VisitBranches(c, s.branches, {})
    [] s.node = "WhileStmt"    -> VisitWhile(c, s)
    [] s.node = "ForStmt"      -> VisitFor(c, s)
    [] s.node = "FuncDef"      -> VisitFuncDef(c, s)
    [] s.node = "BreakStmt"    -> LoopJump(c, "breaks")
    [] s.node = "ContinueStmt" -> LoopJump(c, "continues")
    [] s.node = "PassStmt"     -> c
    \* Either import brings in every name of the module.
    [] s.node \in {"ImportStmt", "FromImportStmt"} -> EmitName(c, "IMPORT_NAME", s.module)

--------------------------------------------------------------------------------

\* Whether compile() returns a code object, and the one it returns.
Compiles(statements) == ~VisitStmts(NewCompiler, statements).thrown

CodeOf(c) ==
  [instructions |-> PeepholeOptimize(c.instrs), constants |-> c.consts, names |-> c.names]

Compile(statements) == CodeOf(EmitOp(VisitStmts(NewCompiler, statements), "HALT"))
================================================================================
