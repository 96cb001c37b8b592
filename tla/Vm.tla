---------------------------------- MODULE Vm ----------------------------------
(****************************************************************************)
(* The virtual machine (vm.h, vm.cpp): one operand stack shared by all call *)
(* frames, global variables indexed by the names pool, functions compiled   *)
(* to native code on their first call, and modules linked into the running  *)
(* code by IMPORT_NAME.  Each action is the handler of a group of opcodes.  *)
(*                                                                          *)
(* A handler that would read outside the stack, a pool or the locals is     *)
(* undefined behaviour in C++.  The actions do not model its outcome: they  *)
(* are not enabled there, and FrameSafe and OperandsSafe say that no        *)
(* reachable state gets there.                                              *)
(****************************************************************************)
EXTENDS Jit, Linker

CONSTANTS
  Programs,   \* program name -> its CompiledCode
  Modules,    \* module name -> the CompiledCode of its file
  MaxRuns     \* bound: how often execute() is called on this Vm

VARIABLES
  prog,       \* the program passed to execute()
  code,       \* code_: grows when a module is linked in
  globals,    \* globals_
  frames,     \* frames_, the current one last
  stack,      \* stack_, its top last
  pc,         \* pc_: here the address of the instruction about to run
  output,     \* output_
  native,     \* native_func of each function object called so far, by entry point
  compiled,   \* JitCompiler::compiled_funcs_, by entry point
  status,     \* "running", "halted", or the error execute() threw
  runs,       \* calls of execute() so far
  printed     \* history: the lines of output at the start of this execute()

loaded == <<prog, runs, printed>>
jit    == <<native, compiled>>
vars   == <<prog, code, globals, frames, stack, pc, output, native, compiled, status, runs,
            printed>>

INLINE_SLOTS == 4
Errors == {"TypeError", "ZeroDivisionError", "NameError", "ModuleNotFoundError", "CompileError"}

\* What stands in Modules for a file that the compiler rejects.
NotCompiled == [instructions |-> <<>>, constants |-> <<>>, names |-> <<>>]

------------------------------------------------------------------------------
(* State functions. *)

Here     == InstrAt(code, pc)
Frame    == frames[Len(frames)]
Peek(n)  == stack[Len(stack) + 1 - n]             \* the n-th value from the top
Drop(n)  == SubSeq(stack, 1, Len(stack) - n)      \* the stack without its n top values

\* A new frame.  bottom is no field of the code: it records the height of the
\* stack under the frame, for the properties.
NewFrame(ret, locals, bottom) == [ret |-> ret, locals |-> locals, bottom |-> bottom]

\* Mutant of LocalCount: a function that needs more slots gets no more.
InlineSlotsOnly(slots) == INLINE_SLOTS

\* The inline slots, or as many as the function needs when it needs more.
LocalCount(slots) == IF slots <= INLINE_SLOTS THEN INLINE_SLOTS ELSE slots

\* Mutant of ArgumentLocals: the inline slots only.
InlineArguments(f, args) ==
  [i \in 1 .. INLINE_SLOTS |-> IF i <= Len(args) /\ i <= f.slots THEN args[i] ELSE PyNone]

\* The locals of a call: its first arguments, then None.
ArgumentLocals(f, args) ==
  [i \in 1 .. LocalCount(f.slots) |->
     IF i <= Len(args) /\ i <= f.slots THEN args[i] ELSE PyNone]

MainFrame == NewFrame(0, [i \in 1 .. INLINE_SLOTS |-> PyNone], 0)

\* globals_ after globals_[idx] = v, which extends it when needed.
StoreGlobal(idx, v) ==
  [i \in 1 .. (IF idx < Len(globals) THEN Len(globals) ELSE idx + 1) |->
     IF i = idx + 1 THEN v ELSE IF i <= Len(globals) THEN globals[i] ELSE PyNone]

\* The result of a binary instruction, from its two handlers' worth of cases.
BinaryResult(op, l, r) ==
  CASE op = "BINARY_ADD"       -> BinaryAdd(l, r)
    [] op = "BINARY_SUB"       -> BinarySub(l, r)
    [] op = "BINARY_MUL"       -> BinaryMul(l, r)
    [] op = "BINARY_FLOOR_DIV" -> BinaryFloorDiv(l, r)
    [] op = "BINARY_MOD"       -> BinaryMod(l, r)
    [] op = "COMPARE_EQ"       -> CompareEq(l, r)
    [] op = "COMPARE_NEQ"      -> CompareNeq(l, r)
    [] op = "COMPARE_LT"       -> CompareLt(l, r)
    [] op = "COMPARE_GT"       -> CompareGt(l, r)
    [] op = "COMPARE_LTE"      -> CompareLte(l, r)
    [] op = "COMPARE_GTE"      -> CompareGte(l, r)

\* INPLACE_MUL_NAME has no string case.
InplaceResult(op, l, r) ==
  CASE op = "INPLACE_ADD_NAME" -> BinaryAdd(l, r)
    [] op = "INPLACE_SUB_NAME" -> BinarySub(l, r)
    [] op = "INPLACE_MUL_NAME" -> Product(l, r)
    [] op = "INPLACE_MOD_NAME" -> BinaryMod(l, r)

UnaryResult(op, v) == IF op = "UNARY_NEG" THEN UnaryNeg(v) ELSE UnaryNot(v)

------------------------------------------------------------------------------
(* The common shape of a handler. *)

\* The instruction at pc has one of these opcodes and finds its operands.
Fetch(ops) ==
  /\ status = "running"
  /\ pc \in Addresses(code)
  /\ Here.op \in ops
  /\ Len(stack) >= Needs(Here)

\* Execution is abandoned: execute() throws.  What is left on the stack and in
\* the frames is never looked at again, since execute() starts by clearing it.
Throw(error) ==
  /\ status' = error
  /\ UNCHANGED <<loaded, code, globals, frames, stack, pc, output, jit>>

\* A handler that only works on the stack and goes on with the next instruction.
Compute(newStack) ==
  /\ stack' = newStack
  /\ pc' = pc + 1
  /\ UNCHANGED <<loaded, code, globals, frames, output, jit, status>>

------------------------------------------------------------------------------
(* Loads, stores and stack manipulation. *)

LoadConst ==
  /\ Fetch({"LOAD_CONST"})
  /\ Here.arg < Len(code.constants)
  /\ Compute(Append(stack, code.constants[Here.arg + 1]))

LoadName ==
  /\ Fetch({"LOAD_NAME"})
  /\ Here.arg < Len(globals)
  /\ Compute(Append(stack, globals[Here.arg + 1]))

\* A name past the end of globals_ is range, or it is undefined.  The function
\* object made for range has the default entry point 0 and no slots.
LoadUnboundName ==
  /\ Fetch({"LOAD_NAME"})
  /\ Here.arg >= Len(globals)
  /\ Here.arg < Len(code.names)
  /\ IF code.names[Here.arg + 1] = "range"
     THEN Compute(Append(stack, PyFunction(0, 0)))
     ELSE Throw("NameError")

StoreName ==
  /\ Fetch({"STORE_NAME"})
  /\ globals' = StoreGlobal(Here.arg, Peek(1))
  /\ stack' = Drop(1)
  /\ pc' = pc + 1
  /\ UNCHANGED <<loaded, code, frames, output, jit, status>>

LoadFast ==
  /\ Fetch({"LOAD_FAST"})
  /\ Here.arg < Len(Frame.locals)
  /\ Compute(Append(stack, Frame.locals[Here.arg + 1]))

StoreFast ==
  /\ Fetch({"STORE_FAST"})
  /\ Here.arg < Len(Frame.locals)
  /\ frames' = [frames EXCEPT ![Len(frames)].locals[Here.arg + 1] = Peek(1)]
  /\ stack' = Drop(1)
  /\ pc' = pc + 1
  /\ UNCHANGED <<loaded, code, globals, output, jit, status>>

PopTop == Fetch({"POP_TOP"}) /\ Compute(Drop(1))

DupTop == Fetch({"DUP_TOP"}) /\ Compute(Append(stack, Peek(1)))

------------------------------------------------------------------------------
(* Operators. *)

\* Mutant of BinaryOp: an operator's error is not thrown.
BinaryOpUnchecked ==
  Fetch(Binary) /\ Compute(Append(Drop(2), BinaryResult(Here.op, Peek(2), Peek(1))))

BinaryOp ==
  /\ Fetch(Binary)
  /\ LET result == BinaryResult(Here.op, Peek(2), Peek(1))
     IN  IF IsError(result) THEN Throw(result.e) ELSE Compute(Append(Drop(2), result))

UnaryOp ==
  /\ Fetch(Unary)
  /\ LET result == UnaryResult(Here.op, Peek(1))
     IN  IF IsError(result) THEN Throw(result.e) ELSE Compute(Append(Drop(1), result))

\* globals_[operand] op= the top of the stack, in one step.
InplaceOp ==
  /\ Fetch(InplaceName)
  /\ Here.arg < Len(globals)
  /\ LET result == InplaceResult(Here.op, globals[Here.arg + 1], Peek(1))
     IN  IF IsError(result) THEN Throw(result.e)
         ELSE /\ globals' = [globals EXCEPT ![Here.arg + 1] = result]
              /\ stack' = Drop(1)
              /\ pc' = pc + 1
              /\ UNCHANGED <<loaded, code, frames, output, jit, status>>

------------------------------------------------------------------------------
(* Control flow.  The conditional jumps leave the condition on the stack. *)

\* Mutant of ConditionalJump: the condition is popped.
PoppingJump ==
  /\ Fetch(CondJump)
  /\ pc' = IF Truthy(Peek(1)) = (Here.op = "JUMP_IF_TRUE") THEN Here.arg ELSE pc + 1
  /\ stack' = Drop(1)
  /\ UNCHANGED <<loaded, code, globals, frames, output, jit, status>>

ConditionalJump ==
  /\ Fetch(CondJump)
  /\ pc' = IF Truthy(Peek(1)) = (Here.op = "JUMP_IF_TRUE") THEN Here.arg ELSE pc + 1
  /\ UNCHANGED <<loaded, code, globals, frames, stack, output, jit, status>>

JumpAbsolute ==
  /\ Fetch({"JUMP_ABSOLUTE"})
  /\ pc' = Here.arg
  /\ UNCHANGED <<loaded, code, globals, frames, stack, output, jit, status>>

NoOperation == Fetch({"NOP"} \cup Reserved) /\ Compute(stack)

Halt ==
  /\ Fetch({"HALT"})
  /\ status' = "halted"
  /\ UNCHANGED <<loaded, code, globals, frames, stack, pc, output, jit>>

------------------------------------------------------------------------------
(* Calls.  The callee is on top of its arguments. *)

HasNative(f) == f.entry \in DOMAIN native /\ native[f.entry] # NotNative

\* The native function takes one int and replaces the whole call.
TakesNative(f) == HasNative(f) /\ Here.arg = 1 /\ Peek(2).t = "INT"

CallUncallable ==
  /\ Fetch({"CALL_FUNCTION"})
  /\ Peek(1).t # "FUNCTION"
  /\ Throw("TypeError")

CallNative ==
  /\ Fetch({"CALL_FUNCTION"})
  /\ Peek(1).t = "FUNCTION"
  /\ TakesNative(Peek(1))
  /\ Compute(Append(Drop(2), PyInt(NativeCall(native[Peek(1).entry], Peek(2).i))))

\* Mutant of JitLookup: the table is looked up without its key.
LookupAnyEntry(f) ==
  IF compiled # <<>> THEN compiled[CHOOSE e \in DOMAIN compiled : TRUE]
  ELSE JitCompile(code.instructions, f.entry)

\* The first call of a function object asks the JIT for native code, which
\* later calls may use; the JIT remembers its answer by entry point.
JitLookup(f) ==
  IF f.entry \in DOMAIN compiled THEN compiled[f.entry]
  ELSE JitCompile(code.instructions, f.entry)

\* fn with fn[x] = v added, unless x is in its domain already.
Remember(fn, x, v) == [y \in DOMAIN fn \cup {x} |-> IF y \in DOMAIN fn THEN fn[y] ELSE v]

CallJit(f) ==
  IF f.entry \in DOMAIN native THEN UNCHANGED jit
  ELSE /\ native' = Remember(native, f.entry, JitLookup(f))
       /\ compiled' = Remember(compiled, f.entry, JitLookup(f))

\* Mutant of CallInterpreted: only the callee leaves the stack, whatever its slots.
CallKeepingArguments ==
  /\ Fetch({"CALL_FUNCTION"})
  /\ Peek(1).t = "FUNCTION"
  /\ ~TakesNative(Peek(1))
  /\ CallJit(Peek(1))
  /\ LET f    == Peek(1)
         args == [i \in 1 .. Here.arg |-> Peek(2 + Here.arg - i)]
     IN  /\ stack' = Drop(1)
         /\ frames' = Append(frames, NewFrame(pc + 1, ArgumentLocals(f, args), Len(Drop(1))))
         /\ pc' = f.entry
  /\ UNCHANGED <<loaded, code, globals, output, status>>

\* Mutant of CallInterpreted: as many arguments leave the stack as there are slots.
CallKeepingSurplus ==
  /\ Fetch({"CALL_FUNCTION"})
  /\ Peek(1).t = "FUNCTION"
  /\ ~TakesNative(Peek(1))
  /\ CallJit(Peek(1))
  /\ LET f    == Peek(1)
         args == [i \in 1 .. Here.arg |-> Peek(2 + Here.arg - i)]
         rest == Drop(1 + IF f.slots < Here.arg THEN f.slots ELSE Here.arg)
     IN  /\ stack' = rest
         /\ frames' = Append(frames, NewFrame(pc + 1, ArgumentLocals(f, args), Len(rest)))
         /\ pc' = f.entry
  /\ UNCHANGED <<loaded, code, globals, output, status>>

\* The arguments leave the stack only if the function has local slots.
CallInterpreted ==
  /\ Fetch({"CALL_FUNCTION"})
  /\ Peek(1).t = "FUNCTION"
  /\ ~TakesNative(Peek(1))
  /\ CallJit(Peek(1))
  /\ LET f    == Peek(1)
         args == [i \in 1 .. Here.arg |-> Peek(2 + Here.arg - i)]
         rest == Drop(IF f.slots > 0 THEN 1 + Here.arg ELSE 1)
     IN  /\ stack' = rest
         /\ frames' = Append(frames, NewFrame(pc + 1, ArgumentLocals(f, args), Len(rest)))
         /\ pc' = f.entry
  /\ UNCHANGED <<loaded, code, globals, output, status>>

\* Mutant of ReturnValue: it goes on after itself, not after the call.
ReturnFallingThrough ==
  /\ Fetch({"RETURN_VALUE"})
  /\ frames' = IF Len(frames) > 1 THEN SubSeq(frames, 1, Len(frames) - 1) ELSE frames
  /\ pc' = pc + 1
  /\ UNCHANGED <<loaded, code, globals, stack, output, jit, status>>

\* The result stays where it is, on top of whatever the function left; in
\* module-level code there is no frame to leave and execution goes on.
ReturnValue ==
  /\ Fetch({"RETURN_VALUE"})
  /\ IF Len(frames) > 1
     THEN /\ frames' = SubSeq(frames, 1, Len(frames) - 1)
          /\ pc' = Frame.ret
     ELSE /\ pc' = pc + 1
          /\ UNCHANGED frames
  /\ UNCHANGED <<loaded, code, globals, stack, output, jit, status>>

\* Mutant of PrintLine: one value more is popped.
PrintPoppingOneMore ==
  /\ Fetch({"PRINT"})
  /\ output' = Append(output, [i \in 1 .. Here.arg |-> Text(Peek(1 + Here.arg - i))])
  /\ stack' = Drop(IF Len(stack) > Here.arg THEN Here.arg + 1 ELSE Here.arg)
  /\ pc' = pc + 1
  /\ UNCHANGED <<loaded, code, globals, frames, jit, status>>

\* One line of output: the texts of the arguments (the spaces are left out).
PrintLine ==
  /\ Fetch({"PRINT"})
  /\ output' = Append(output, [i \in 1 .. Here.arg |-> Text(Peek(1 + Here.arg - i))])
  /\ stack' = Drop(Here.arg)
  /\ pc' = pc + 1
  /\ UNCHANGED <<loaded, code, globals, frames, jit, status>>

------------------------------------------------------------------------------
(* Imports and execute(). *)

\* imported_modules_ is looked up but never filled: every import takes the
\* path that compiles and links the file.  A CompileError leaves execute().
ImportName ==
  /\ Fetch({"IMPORT_NAME"})
  /\ Here.arg < Len(code.names)
  /\ LET name == code.names[Here.arg + 1]
     IN  IF name \notin DOMAIN Modules THEN Throw("ModuleNotFoundError")
         ELSE IF Modules[name] = NotCompiled THEN Throw("CompileError")
         ELSE /\ code' = Link(code, Modules[name], pc + 1)
              /\ pc' = Len(code.instructions)
              /\ UNCHANGED <<loaded, globals, frames, stack, output, jit, status>>

\* Mutants of Execute: the globals, the frames, or the stack are not cleared.
ExecuteKeeping(p, keptGlobals, keptFrames, keptStack) ==
  /\ runs' = runs + 1
  /\ prog' = p
  /\ code' = Programs[p]
  /\ globals' = keptGlobals
  /\ frames' = keptFrames
  /\ stack' = keptStack
  /\ pc' = 0
  /\ status' = "running"
  /\ native' = <<>>
  /\ printed' = Len(output)
  /\ UNCHANGED <<output, compiled>>

NoGlobals(p) == [i \in 1 .. Len(Programs[p].names) |-> PyNone]
ExecuteKeepingFrames(p)  == ExecuteKeeping(p, NoGlobals(p), frames, <<>>)
ExecuteKeepingGlobals(p) == ExecuteKeeping(p, globals, <<MainFrame>>, <<>>)
ExecuteKeepingStack(p)   == ExecuteKeeping(p, NoGlobals(p), <<MainFrame>>, stack)

\* What execute(code) leaves before its first instruction.  Function objects
\* are new with the code; output_ and the JIT's table stay.
Execute(p) ==
  /\ runs' = runs + 1
  /\ prog' = p
  /\ code' = Programs[p]
  /\ globals' = [i \in 1 .. Len(Programs[p].names) |-> PyNone]
  /\ frames' = <<MainFrame>>
  /\ stack' = <<>>
  /\ pc' = 0
  /\ status' = "running"
  /\ native' = <<>>
  /\ printed' = Len(output)
  /\ UNCHANGED <<output, compiled>>

\* No call of execute() is left to make.
Finished == status # "running" /\ runs = MaxRuns /\ UNCHANGED vars

------------------------------------------------------------------------------

Init ==
  /\ prog \in DOMAIN Programs
  /\ code = Programs[prog]
  /\ globals = [i \in 1 .. Len(Programs[prog].names) |-> PyNone]
  /\ frames = <<MainFrame>>
  /\ stack = <<>>
  /\ pc = 0
  /\ output = <<>>
  /\ native = <<>>
  /\ compiled = <<>>
  /\ status = "running"
  /\ runs = 1
  /\ printed = 0

Step ==
  \/ LoadConst \/ LoadName \/ LoadUnboundName \/ StoreName \/ LoadFast \/ StoreFast
  \/ PopTop \/ DupTop
  \/ BinaryOp \/ UnaryOp \/ InplaceOp
  \/ ConditionalJump \/ JumpAbsolute \/ NoOperation \/ Halt
  \/ CallUncallable \/ CallNative \/ CallInterpreted \/ ReturnValue
  \/ PrintLine \/ ImportName

ExecuteAgain ==
  /\ status # "running"
  /\ runs < MaxRuns
  /\ \E p \in DOMAIN Programs : Execute(p)

Next == Step \/ ExecuteAgain \/ Finished

\* run() is a loop that only leaves through Halt or a throw.
Spec == Init /\ [][Next]_vars /\ WF_vars(Step)

------------------------------------------------------------------------------
(* Properties of every execution. *)

\* Every variable has its type: the pools and the stacks hold tagged values, a
\* frame has a return address, locals and a height, native code one of the two
\* patterns the JIT emits.
TypeOK ==
  /\ IsCompiledCode(code)
  /\ \A i \in 1 .. Len(globals) : globals[i].t \in Tags
  /\ Len(frames) > 0
  /\ \A k \in 1 .. Len(frames) :
       /\ frames[k].ret \in Nat /\ frames[k].bottom \in Nat
       /\ Len(frames[k].locals) \in Nat \ {0}
       /\ \A i \in 1 .. Len(frames[k].locals) : frames[k].locals[i].t \in Tags
  /\ \A i \in 1 .. Len(stack) : stack[i].t \in Tags
  /\ pc \in Nat
  /\ status \in {"running", "halted"} \cup Errors
  /\ runs \in 1 .. MaxRuns
  /\ printed \in 0 .. Len(output)
  /\ DOMAIN native \subseteq DOMAIN compiled

\* No instruction reads or pops a value that does not belong to its own call
\* frame: below it are the operands of the callers (stack_.back() on an empty
\* stack is undefined, and the frames share one stack).
FrameSafe ==
  status = "running" =>
    /\ pc \in Addresses(code)
    /\ Len(stack) >= Frame.bottom + Needs(Here)

\* Every operand is in range when its instruction runs: constants, names, the
\* globals an INPLACE opcode updates without a check, and the slots of the
\* CURRENT frame, which has as many as the called function asked for.
OperandsSafe ==
  status = "running" =>
    /\ Here.op = "LOAD_CONST" => Here.arg < Len(code.constants)
    /\ Here.op \in UsesName => Here.arg < Len(code.names)
    /\ Here.op \in InplaceName => Here.arg < Len(globals)
    /\ Here.op \in UsesLocal => Here.arg < Len(Frame.locals)

\* While a frame is current, no step changes the part of the stack below it:
\* what a caller has pushed survives the call, interpreted or native.
CallersUntouched ==
  [][runs' = runs =>
       /\ Len(stack') >= Frame.bottom
       /\ SubSeq(stack', 1, Frame.bottom) = SubSeq(stack, 1, Frame.bottom)]_vars

\* A return leaves exactly the result where the call's operands were.
ReturnRestores ==
  [][Len(frames') < Len(frames) /\ runs' = runs =>
       /\ Len(stack') = Frame.bottom + 1
       /\ pc' = Frame.ret]_vars

\* A program that halts has popped everything it pushed and left every call,
\* unless its code has a DUP_TOP: the copy or makes is never popped.
HaltsClean ==
  status = "halted" =>
    /\ Len(frames) = 1
    /\ (\A a \in DOMAIN code.instructions : code.instructions[a].op # "DUP_TOP") => stack = <<>>

IsPrefixOf(s, u) == Len(s) <= Len(u) /\ SubSeq(u, 1, Len(s)) = s

\* The native code remembered for an entry point is what the JIT would make of
\* the code that is loaded now.
JitCacheCurrent ==
  \A e \in DOMAIN compiled : compiled[e] = JitCompile(code.instructions, e)

\* No function is compiled with the base value 0: compile() would take the load
\* of that 0 for a recursive call and patch the address of the code into it.
PatchSafe == \A e \in DOMAIN compiled : compiled[e] # NotNative => compiled[e].base # 0

\* Every function object lies between the jump that skips its body and the end
\* that jump names, which a RETURN_VALUE precedes: what the JIT's search for
\* the end of a function relies on, also after linking.
FunctionsDelimited ==
  \A i \in 1 .. Len(code.constants) :
    code.constants[i].t = "FUNCTION" => Delimited(code.instructions, code.constants[i].entry)

\* The last execute() comes to an end.
Terminates == <>[](status # "running")
==============================================================================
