----------------------------- MODULE VmTypes_proofs ------------------------------
(****************************************************************************)
(* Proofs about VmTypes: TInv is an inductive invariant of the machine for  *)
(* every set of well-formed programs and modules.  Each lemma on an action  *)
(* also says how the action moves, which is what VmSafety and VmBalance     *)
(* argue about.                                                             *)
(****************************************************************************)
EXTENDS VmTypes, VmLemmas

(* Values. *)

\* The result of an operator that is no error may go on the stack.
LEMMA PlainIsValue ==
  ASSUME NEW v, Plainly(v), ~IsError(v)
  PROVE  IsValue(code, v)
BY DEF Plainly, IsError, IsValue, Tags

\* None and a number are values.
LEMMA NoneIsValue == IsValue(code, PyNone) /\ \A n : IsValue(code, PyInt(n))
BY DEF IsValue, PyNone, PyInt, Tags

\* Pushing a value gives values, one more.
LEMMA AppendIsValues ==
  ASSUME NEW s, Values(code, s), NEW v, IsValue(code, v)
  PROVE  Values(code, Append(s, v)) /\ Len(Append(s, v)) = Len(s) + 1
<1>1. /\ IsSeq(Append(s, v)) /\ Len(Append(s, v)) = Len(s) + 1 /\ Len(s) \in Nat
      /\ Append(s, v)[Len(s) + 1] = v
      /\ \A i \in 1 .. Len(s) : Append(s, v)[i] = s[i]
  BY AppendIsSeq DEF Values, IsSeq
<1>2. \A i \in 1 .. Len(s) + 1 : i \in 1 .. Len(s) \/ i = Len(s) + 1
  BY <1>1
<1> QED
  BY <1>1, <1>2 DEF Values

\* Replacing one of the values by a value.
LEMMA ReplacedIsValues ==
  ASSUME NEW s, Values(code, s), NEW n \in 1 .. Len(s), NEW v, IsValue(code, v)
  PROVE  Values(code, [s EXCEPT ![n] = v]) /\ Len([s EXCEPT ![n] = v]) = Len(s)
<1> DEFINE u == [s EXCEPT ![n] = v]
<1>1. IsSeq(s) /\ Len(s) \in Nat /\ \A i \in 1 .. Len(s) : IsValue(code, s[i])
  BY DEF Values, IsSeq
<1>2. /\ u = [i \in 1 .. Len(s) |-> u[i]]
      /\ \A i \in 1 .. Len(s) : u[i] = IF i = n THEN v ELSE s[i]
  BY <1>1 DEF IsSeq
<1> HIDE DEF u
<1>3. IsSeq(u) /\ Len(u) = Len(s)
  BY <1>1, <1>2, SeqFromFunction
<1> QED
  BY <1>1, <1>2, <1>3 DEF Values, u

\* The parts of TInv that say what the values and the frames are.
LEMMA TypesOfParts ==
  ASSUME TInv
  PROVE  /\ Values(code, stack) /\ IsSeq(stack) /\ Len(stack) \in Nat
         /\ Values(code, globals) /\ IsSeq(globals) /\ Len(globals) \in Nat
         /\ IsSeq(frames) /\ Len(frames) \in Nat \ {0} /\ Len(frames) \in 1 .. Len(frames)
         /\ Values(code, Frame.locals) /\ Len(Frame.locals) \in Nat \ {0}
         /\ Frame = NewFrame(Frame.ret, Frame.locals, Frame.bottom)
         /\ Frame.ret \in Nat /\ Frame.bottom \in Nat
         /\ IsSeq(output) /\ Len(output) \in Nat
         /\ IsCompiledCode(code) /\ Len(code.constants) \in Nat /\ Len(code.names) \in Nat
<1>1. /\ Values(code, stack) /\ IsSeq(stack) /\ Len(stack) \in Nat
      /\ Values(code, globals) /\ IsSeq(globals) /\ Len(globals) \in Nat
  BY DEF TInv, Values, IsSeq
<1>2. IsSeq(frames) /\ Len(frames) \in Nat \ {0} /\ Len(frames) \in 1 .. Len(frames)
  BY DEF TInv, FramesInv, IsSeq
<1>3. /\ Frame = NewFrame(Frame.ret, Frame.locals, Frame.bottom)
      /\ Frame.ret \in Nat /\ Frame.bottom \in Nat
      /\ Values(code, Frame.locals) /\ Len(Frame.locals) > 0
  BY <1>2 DEF TInv, FramesInv, Frame
<1>4. Len(Frame.locals) \in Nat \ {0}
  BY <1>3 DEF Values, IsSeq
<1>5. IsSeq(output) /\ Len(output) \in Nat
  BY DEF TInv, MachineInv, IsSeq
<1>6. IsCompiledCode(code) /\ Len(code.constants) \in Nat /\ Len(code.names) \in Nat
  BY DEF TInv, IsLinked, IsCompiledCode, IsSeq
<1> QED
  BY <1>1, <1>2, <1>3, <1>4, <1>5, <1>6

\* An instruction needs and gives a natural number of values.
LEMMA StackEffectIsNat ==
  ASSUME NEW ins \in Instruction
  PROVE  Needs(ins) \in Nat /\ Gives(ins) \in Nat
BY DEF Instruction, Needs, Gives

\* The instruction at an address of the code.
LEMMA InstrOfCode ==
  ASSUME TInv, NEW a \in Addresses(code)
  PROVE  /\ a \in Nat /\ InstrAt(code, a) \in Instruction
         /\ InstrAt(code, a).op \in OpCode /\ InstrAt(code, a).arg \in Nat
         /\ Needs(InstrAt(code, a)) \in Nat /\ Gives(InstrAt(code, a)) \in Nat
<1>1. code.instructions \in Seq(Instruction)
  BY DEF TInv, IsLinked, IsCompiledCode
<1>2. Len(code.instructions) \in Nat
  BY <1>1
<1>3. a \in Nat /\ a + 1 \in 1 .. Len(code.instructions)
  BY <1>2 DEF Addresses
<1>4. InstrAt(code, a) \in Instruction
  BY <1>1, <1>3, ElementOfSeq DEF InstrAt
<1>5. InstrAt(code, a).op \in OpCode /\ InstrAt(code, a).arg \in Nat
  BY <1>4 DEF Instruction
<1> QED
  BY <1>3, <1>4, <1>5, StackEffectIsNat

\* An instruction that is fetched: its operand and its operands.
LEMMA Fetched ==
  ASSUME TInv, NEW ops, Fetch(ops)
  PROVE  /\ status = "running" /\ Here.op \in ops /\ Here.op \in OpCode
         /\ Here.arg \in Nat /\ pc \in Nat
         /\ Needs(Here) \in Nat /\ Gives(Here) \in Nat
         /\ Len(stack) \in Nat /\ Len(stack) >= Needs(Here)
         /\ \A n \in 1 .. Needs(Here) : IsValue(code, Peek(n))
         /\ \A n \in 0 .. Needs(Here) : /\ Values(code, Drop(n)) /\ Len(Drop(n)) = Len(stack) - n
                                        /\ \A i \in 1 .. Len(stack) - n : Drop(n)[i] = stack[i]
<1>1. status = "running" /\ Here.op \in ops /\ pc \in Addresses(code) /\ Len(stack) >= Needs(Here)
  BY DEF Fetch
<1>2. /\ Here.op \in OpCode /\ Here.arg \in Nat /\ pc \in Nat
      /\ Needs(Here) \in Nat /\ Gives(Here) \in Nat
  BY <1>1, InstrOfCode DEF Here
<1>3. Values(code, stack) /\ IsSeq(stack) /\ Len(stack) \in Nat
  BY TypesOfParts
<1>4. ASSUME NEW n \in 1 .. Needs(Here) PROVE IsValue(code, Peek(n))
  <2>1. Len(stack) + 1 - n \in 1 .. Len(stack)
    BY <1>1, <1>2, <1>3
  <2> QED
    BY <1>3, <2>1 DEF Values, Peek
<1>5. ASSUME NEW n \in 0 .. Needs(Here)
      PROVE  /\ Values(code, Drop(n)) /\ Len(Drop(n)) = Len(stack) - n
             /\ \A i \in 1 .. Len(stack) - n : Drop(n)[i] = stack[i]
  <2>1. Len(stack) - n \in 0 .. Len(stack)
    BY <1>1, <1>2, <1>3
  <2>2. /\ IsSeq(Drop(n)) /\ Len(Drop(n)) = Len(stack) - n
        /\ \A i \in 1 .. Len(stack) - n : Drop(n)[i] = stack[i]
    BY <1>3, <2>1, PrefixIsSeq DEF Drop
  <2> QED
    BY <1>3, <2>1, <2>2 DEF Values
<1> QED
  BY <1>1, <1>2, <1>3, <1>4, <1>5
----------------------------------------------------------------------------------
(* How a step moves. *)

\* No call begins or ends: the callers' frames stay, and of the current one at
\* most the contents of the locals change.
SameCallers ==
  /\ Len(frames') = Len(frames)
  /\ \A k \in 1 .. Len(frames) - 1 : frames'[k] = frames[k]
  /\ Frame'.ret = Frame.ret /\ Frame'.bottom = Frame.bottom
  /\ Len(Frame'.locals) = Len(Frame.locals)

\* What the stack has under the operands of the instruction stays.
KeepsBelow ==
  /\ Len(stack) >= Needs(Here)
  /\ \A i \in 1 .. Len(stack) - Needs(Here) : stack'[i] = stack[i]

\* The step goes on in the current frame, with the stack effect of its instruction.
Moves ==
  /\ SameCallers /\ KeepsBelow
  /\ UNCHANGED <<loaded, code, status>>
  /\ pc' \in Successors(Here, pc, Len(frames) > 1)
  /\ Len(stack') + Needs(Here) = Len(stack) + Gives(Here)

\* The step is the last: HALT, or an error.
Stops ==
  /\ UNCHANGED <<loaded, code, frames, stack, pc>>
  /\ status' \in Errors \/ (status' = "halted" /\ Here.op = "HALT")

\* Untouched frames are the same callers.
LEMMA UnchangedFrames ==
  ASSUME TInv, UNCHANGED <<frames, code>>
  PROVE  SameCallers /\ FramesInv'
BY DEF SameCallers, Frame, TInv, FramesInv, NewFrame

\* Control goes on at an address.
LEMMA SuccessorsAreAddresses ==
  ASSUME NEW ops, TInv, Fetch(ops), NEW b, NEW a \in Successors(Here, pc, b)
  PROVE  a \in Nat
<1>1. Here.arg \in Nat /\ pc \in Nat
  BY Fetched
<1>2. a = pc + 1 \/ a = Here.arg
  BY DEF Successors
<1> QED
  BY <1>1, <1>2

\* The variables that most actions leave alone.
LEMMA MachineKept ==
  ASSUME TInv, UNCHANGED <<loaded, code, jit>>, Len(globals') \in Nat, Len(globals') >= Len(globals)
  PROVE  /\ NamesInv' /\ IsLinked(code)' /\ TableInv'
         /\ runs' \in 1 .. MaxRuns
<1>1. UNCHANGED <<prog, runs, printed, native, compiled>> /\ code' = code
  BY DEF loaded, jit
<1>2. NamesInv'
  <2>1. Len(globals) \in Nat
    BY TypesOfParts
  <2> QED
    BY <1>1, <2>1 DEF TInv, NamesInv, NamesCovered
<1>3. IsLinked(code)'
  BY <1>1 DEF TInv
<1>4. TableInv'
  BY <1>1 DEF TInv, TableInv, PatchSafe
<1> QED
  BY <1>1, <1>2, <1>3, <1>4 DEF TInv, MachineInv

\* The common part of the actions that go on in the current frame.
LEMMA MoveStep ==
  ASSUME TInv, NEW ops, Fetch(ops), UNCHANGED <<loaded, code, jit, status>>,
         SameCallers, FramesInv',
         Values(code, stack'), Values(code, globals'), Len(globals') >= Len(globals),
         IsSeq(output'), Len(output') >= Len(output),
         pc' \in Successors(Here, pc, Len(frames) > 1),
         Len(stack') + Needs(Here) = Len(stack) + Gives(Here), KeepsBelow
  PROVE  TInv' /\ Moves
<1>1. Values(code, stack)' /\ Values(code, globals)'
  OBVIOUS
<1>2. Len(globals') \in Nat
  BY DEF Values, IsSeq
<1>3. NamesInv' /\ IsLinked(code)' /\ TableInv' /\ runs' \in 1 .. MaxRuns
  BY <1>2, MachineKept
<1>4. pc' \in Nat
  BY SuccessorsAreAddresses
<1>5. MachineInv'
  <2>1. Len(output) \in Nat /\ Len(output') \in Nat /\ printed' \in 0 .. Len(output')
    BY DEF TInv, MachineInv, IsSeq, loaded
  <2> QED
    BY <1>3, <1>4, <2>1 DEF TInv, MachineInv
<1> QED
  BY <1>1, <1>3, <1>5 DEF TInv, Moves

\* Compute, when it replaces n of the operands by at most two values.
LEMMA ComputeStep ==
  ASSUME TInv, NEW ops, Fetch(ops), NEW newStack, Compute(newStack), Values(code, newStack),
         Len(newStack) + Needs(Here) = Len(stack) + Gives(Here),
         \A i \in 1 .. Len(stack) - Needs(Here) : newStack[i] = stack[i],
         pc + 1 \in Successors(Here, pc, Len(frames) > 1)
  PROVE  TInv' /\ Moves
<1>1. /\ UNCHANGED <<loaded, code, globals, frames, output, jit, status>>
      /\ stack' = newStack /\ pc' = pc + 1
  BY DEF Compute
<1>2. SameCallers /\ FramesInv'
  BY <1>1, UnchangedFrames
<1>3. Values(code, globals) /\ Len(globals) \in Nat /\ IsSeq(output) /\ Len(output) \in Nat
  BY TypesOfParts
<1>4. Values(code, globals') /\ Len(globals') >= Len(globals)
  BY <1>1, <1>3
<1>5. IsSeq(output') /\ Len(output') >= Len(output)
  BY <1>1, <1>3
<1>6. KeepsBelow
  BY <1>1, Fetched DEF KeepsBelow
<1> QED
  BY <1>1, <1>2, <1>4, <1>5, <1>6, MoveStep

\* A step that halts the machine or throws.
LEMMA StopStep ==
  ASSUME TInv, status' \in Errors \/ (status' = "halted" /\ Here.op = "HALT"),
         UNCHANGED <<loaded, code, globals, frames, stack, pc, output, jit>>
  PROVE  TInv' /\ Stops
<1>1. Values(code, stack)' /\ Values(code, globals)' /\ FramesInv'
  BY UnchangedFrames DEF TInv
<1>2. Len(globals') \in Nat /\ Len(globals') >= Len(globals)
  BY TypesOfParts
<1>3. NamesInv' /\ IsLinked(code)' /\ TableInv' /\ runs' \in 1 .. MaxRuns
  BY <1>2, MachineKept
<1>4. MachineInv'
  BY <1>3 DEF TInv, MachineInv, loaded
<1> QED
  BY <1>1, <1>3, <1>4 DEF TInv, Stops

\* An error is thrown.
LEMMA ThrowStep ==
  ASSUME TInv, NEW e \in Errors, Throw(e)
  PROVE  TInv' /\ Stops
BY StopStep DEF Throw

\* A load: one value is pushed and control falls through.
LEMMA PushStep ==
  ASSUME TInv, NEW ops, Fetch(ops), Here.op \in {"LOAD_CONST", "LOAD_NAME", "LOAD_FAST"},
         NEW v, IsValue(code, v), Compute(Append(stack, v))
  PROVE  TInv' /\ Moves
<1>1. Needs(Here) = 0 /\ Gives(Here) = 1 /\ pc + 1 \in Successors(Here, pc, Len(frames) > 1)
  BY DEF Needs, Gives, Successors, Binary, BinaryArith, Comparison, Unary, CondJump, InplaceName
<1>2. Values(code, stack) /\ Len(stack) \in Nat /\ IsSeq(stack)
  BY TypesOfParts
<1> DEFINE u == Append(stack, v)
<1>3. Values(code, u) /\ Len(u) = Len(stack) + 1
  BY <1>2, AppendIsValues
<1>4. \A i \in 1 .. Len(stack) : u[i] = stack[i]
  BY <1>2, AppendIsSeq
<1> HIDE DEF u
<1>5. Len(u) + Needs(Here) = Len(stack) + Gives(Here)
  BY <1>1, <1>2, <1>3
<1>6. \A i \in 1 .. Len(stack) - Needs(Here) : u[i] = stack[i]
  BY <1>1, <1>2, <1>4
<1>7. Compute(u)
  BY DEF u
<1> QED
  BY <1>1, <1>3, <1>5, <1>6, <1>7, ComputeStep

\* The n operands an instruction needs are replaced by one value.
LEMMA ReplaceStep ==
  ASSUME TInv, NEW ops, Fetch(ops), NEW n \in Nat, Needs(Here) = n, Gives(Here) = 1,
         NEW v, IsValue(code, v), Compute(Append(Drop(n), v)),
         pc + 1 \in Successors(Here, pc, Len(frames) > 1)
  PROVE  TInv' /\ Moves
<1>1. /\ Values(code, Drop(n)) /\ Len(Drop(n)) = Len(stack) - n
      /\ \A i \in 1 .. Len(stack) - n : Drop(n)[i] = stack[i]
      /\ Len(stack) \in Nat /\ Len(stack) >= n
  BY Fetched
<1> DEFINE d == Drop(n)
           u == Append(d, v)
<1>2. IsSeq(d) /\ Values(code, d)
  BY <1>1 DEF Values
<1>3. Len(d) = Len(stack) - n /\ \A i \in 1 .. Len(stack) - n : d[i] = stack[i]
  BY <1>1
<1> HIDE DEF d
<1>4. Values(code, u) /\ Len(u) = Len(d) + 1 /\ \A i \in 1 .. Len(d) : u[i] = d[i]
  BY <1>2, AppendIsValues, AppendIsSeq
<1> HIDE DEF u
<1>5. Len(u) + Needs(Here) = Len(stack) + Gives(Here)
  BY <1>1, <1>3, <1>4
<1>6. \A i \in 1 .. Len(stack) - Needs(Here) : u[i] = stack[i]
  BY <1>3, <1>4
<1>7. Compute(u)
  BY DEF u, d
<1> QED
  BY <1>4, <1>5, <1>6, <1>7, ComputeStep

----------------------------------------------------------------------------------
(* TInv is preserved: one lemma per action. *)

\* LOAD_CONST pushes a member of the constant pool.
LEMMA LoadConstStep ==
  ASSUME TInv, LoadConst
  PROVE  TInv' /\ Moves
<1> DEFINE v == code.constants[Here.arg + 1]
<1>1. /\ Fetch({"LOAD_CONST"}) /\ Here.arg < Len(code.constants)
      /\ Compute(Append(stack, v))
  BY DEF LoadConst
<1>2. IsValue(code, v)
  <2>1. Here.arg + 1 \in 1 .. Len(code.constants)
    <3>1. Here.arg \in Nat
      BY <1>1, Fetched
    <3>2. Len(code.constants) \in Nat
      BY TypesOfParts
    <3> QED
      BY <1>1, <3>1, <3>2
  <2> QED
    BY <2>1, TypesOfParts DEF IsCompiledCode, IsValue
<1> HIDE DEF v
<1>3. Here.op = "LOAD_CONST"
  BY <1>1, Fetched
<1> QED
  BY <1>1, <1>2, <1>3, PushStep

\* LOAD_NAME pushes a global.
LEMMA LoadNameStep ==
  ASSUME TInv, LoadName
  PROVE  TInv' /\ Moves
<1> DEFINE v == globals[Here.arg + 1]
<1>1. /\ Fetch({"LOAD_NAME"}) /\ Here.arg < Len(globals)
      /\ Compute(Append(stack, v))
  BY DEF LoadName
<1>2. IsValue(code, v)
  <2>1. Here.arg + 1 \in 1 .. Len(globals)
    <3>1. Here.arg \in Nat
      BY <1>1, Fetched
    <3>2. Len(globals) \in Nat
      BY TypesOfParts
    <3> QED
      BY <1>1, <3>1, <3>2
  <2> QED
    BY <2>1, TypesOfParts DEF Values
<1> HIDE DEF v
<1>3. Here.op = "LOAD_NAME"
  BY <1>1, Fetched
<1> QED
  BY <1>1, <1>2, <1>3, PushStep

\* A name past the globals is a module's: range, if a module reads it.
LEMMA LoadUnboundNameStep ==
  ASSUME TInv, LoadUnboundName
  PROVE  /\ TInv' /\ (Moves \/ Stops)
         /\ RangeRead \/ Stops
<1>1. /\ Fetch({"LOAD_NAME"}) /\ Here.arg >= Len(globals) /\ Here.arg < Len(code.names)
      /\ IF code.names[Here.arg + 1] = "range"
         THEN Compute(Append(stack, PyFunction(0, 0)))
         ELSE Throw("NameError")
  BY DEF LoadUnboundName
<1>2. CASE code.names[Here.arg + 1] = "range"
  <2>1. Here.arg + 1 \in 1 .. Len(code.names) /\ Here.arg + 1 > Len(Programs[prog].names)
    <3>1. Here.arg \in Nat /\ Len(globals) \in Nat /\ Len(code.names) \in Nat
      BY <1>1, Fetched, TypesOfParts
    <3>2. Len(Programs[prog].names) \in 0 .. Len(globals)
      BY DEF TInv, NamesInv, NamesCovered
    <3> QED
      BY <1>1, <3>1, <3>2
  <2>2. RangeRead
    BY <1>2, <2>1 DEF TInv, NamesInv, NamesCovered, RangeRead
  <2>3. IsValue(code, PyFunction(0, 0))
    BY <2>2 DEF IsValue, PyFunction, Tags
  <2>4. Here.op = "LOAD_NAME"
    BY <1>1, Fetched
  <2> DEFINE v == PyFunction(0, 0)
  <2>5. IsValue(code, v) /\ Compute(Append(stack, v))
    BY <1>1, <1>2, <2>3
  <2> HIDE DEF v
  <2>6. TInv' /\ Moves
    BY <1>1, <2>4, <2>5, PushStep
  <2> QED
    BY <2>2, <2>6
<1>3. CASE code.names[Here.arg + 1] # "range"
  BY <1>1, <1>3, ThrowStep DEF Errors
<1> QED
  BY <1>2, <1>3

\* LOAD_FAST pushes a local of the current frame.
LEMMA LoadFastStep ==
  ASSUME TInv, LoadFast
  PROVE  TInv' /\ Moves
<1> DEFINE v == Frame.locals[Here.arg + 1]
<1>1. /\ Fetch({"LOAD_FAST"}) /\ Here.arg < Len(Frame.locals)
      /\ Compute(Append(stack, v))
  BY DEF LoadFast
<1>2. IsValue(code, v)
  <2>1. Here.arg + 1 \in 1 .. Len(Frame.locals)
    <3>1. Here.arg \in Nat
      BY <1>1, Fetched
    <3>2. Len(Frame.locals) \in Nat
      BY TypesOfParts
    <3> QED
      BY <1>1, <3>1, <3>2
  <2> QED
    BY <2>1, TypesOfParts DEF Values
<1> HIDE DEF v
<1>3. Here.op = "LOAD_FAST"
  BY <1>1, Fetched
<1> QED
  BY <1>1, <1>2, <1>3, PushStep

\* An instruction that pops one value and falls through.
LEMMA PoppedOne ==
  ASSUME TInv, NEW ops, Fetch(ops), Here.op \in {"STORE_NAME", "STORE_FAST", "POP_TOP"} \cup InplaceName,
         stack' = Drop(1), pc' = pc + 1
  PROVE  /\ Needs(Here) = 1 /\ Gives(Here) = 0 /\ pc' \in Successors(Here, pc, Len(frames) > 1)
         /\ IsValue(code, Peek(1)) /\ Values(code, stack')
         /\ Len(stack') + Needs(Here) = Len(stack) + Gives(Here) /\ KeepsBelow
<1>1. Needs(Here) = 1 /\ Gives(Here) = 0 /\ pc' \in Successors(Here, pc, Len(frames) > 1)
  BY DEF Needs, Gives, Successors, Binary, BinaryArith, Comparison, Unary, CondJump, InplaceName
<1>2. /\ Len(stack) \in Nat /\ Len(stack) >= 1 /\ IsValue(code, Peek(1))
      /\ Values(code, Drop(1)) /\ Len(Drop(1)) = Len(stack) - 1
      /\ \A i \in 1 .. Len(stack) - 1 : Drop(1)[i] = stack[i]
  BY <1>1, Fetched
<1>3. Values(code, stack') /\ Len(stack') = Len(stack) - 1
      /\ \A i \in 1 .. Len(stack) - 1 : stack'[i] = stack[i]
  BY <1>2
<1>4. Len(stack') + Needs(Here) = Len(stack) + Gives(Here)
  BY <1>1, <1>2, <1>3
<1>5. KeepsBelow
  BY <1>1, <1>2, <1>3 DEF KeepsBelow
<1> QED
  BY <1>1, <1>2, <1>3, <1>4, <1>5

\* STORE_NAME moves the top of the stack into the globals, which may grow.
LEMMA StoreNameStep ==
  ASSUME TInv, StoreName
  PROVE  TInv' /\ Moves
<1>1. /\ Fetch({"STORE_NAME"})
      /\ globals' = StoreGlobal(Here.arg, Peek(1)) /\ stack' = Drop(1) /\ pc' = pc + 1
      /\ UNCHANGED <<loaded, code, frames, output, jit, status>>
  BY DEF StoreName
<1>2. Here.op = "STORE_NAME" /\ Here.arg \in Nat
  BY <1>1, Fetched
<1>3. /\ pc' \in Successors(Here, pc, Len(frames) > 1) /\ IsValue(code, Peek(1))
      /\ Values(code, stack') /\ Len(stack') + Needs(Here) = Len(stack) + Gives(Here) /\ KeepsBelow
  BY <1>1, <1>2, PoppedOne
<1>4. Values(code, globals') /\ Len(globals') >= Len(globals)
  <2> DEFINE n == IF Here.arg < Len(globals) THEN Len(globals) ELSE Here.arg + 1
             w == Peek(1)
  <2>1. Len(globals) \in Nat /\ \A i \in 1 .. Len(globals) : IsValue(code, globals[i])
    BY TypesOfParts DEF Values
  <2>2. n \in Nat /\ n >= Len(globals)
    BY <1>2, <2>1
  <2>3. globals' = [i \in 1 .. n |-> IF i = Here.arg + 1 THEN w
                                     ELSE IF i <= Len(globals) THEN globals[i] ELSE PyNone]
    BY <1>1 DEF StoreGlobal
  <2> HIDE DEF n, w
  <2>4. globals' = [i \in 1 .. n |-> globals'[i]]
    BY <2>3
  <2>5. ASSUME NEW i \in 1 .. n PROVE IsValue(code, globals'[i])
    <3>1. globals'[i] = w \/ globals'[i] = PyNone \/ (i <= Len(globals) /\ globals'[i] = globals[i])
      BY <2>3
    <3>2. IsValue(code, w) /\ IsValue(code, PyNone)
      BY <1>3, NoneIsValue DEF w
    <3>3. i <= Len(globals) => i \in 1 .. Len(globals)
      BY <2>1, <2>2
    <3> QED
      BY <2>1, <3>1, <3>2, <3>3
  <2>6. IsSeq(globals') /\ Len(globals') = n
    BY <2>2, <2>4, SeqFromFunction
  <2> QED
    BY <2>2, <2>5, <2>6 DEF Values
<1>5. SameCallers /\ FramesInv'
  BY <1>1, UnchangedFrames
<1>6. IsSeq(output') /\ Len(output') >= Len(output)
  BY <1>1, TypesOfParts
<1> QED
  BY <1>1, <1>3, <1>4, <1>5, <1>6, MoveStep

\* STORE_FAST moves the top of the stack into the current frame, whose
\* other fields, and the other frames, stay as they are.
LEMMA StoreFastStep ==
  ASSUME TInv, StoreFast
  PROVE  TInv' /\ Moves
<1> DEFINE n == Len(frames)
           locals == [Frame.locals EXCEPT ![Here.arg + 1] = Peek(1)]
           f == NewFrame(Frame.ret, locals, Frame.bottom)
<1>1. /\ Fetch({"STORE_FAST"}) /\ Here.arg < Len(Frame.locals)
      /\ frames' = [frames EXCEPT ![Len(frames)].locals[Here.arg + 1] = Peek(1)]
      /\ stack' = Drop(1) /\ pc' = pc + 1
      /\ UNCHANGED <<loaded, code, globals, output, jit, status>>
  BY DEF StoreFast
<1>2. Here.op = "STORE_FAST" /\ Here.arg \in Nat
  BY <1>1, Fetched
<1>3. /\ pc' \in Successors(Here, pc, Len(frames) > 1) /\ IsValue(code, Peek(1))
      /\ Values(code, stack') /\ Len(stack') + Needs(Here) = Len(stack) + Gives(Here) /\ KeepsBelow
  BY <1>1, <1>2, PoppedOne
<1>4. n \in 1 .. Len(frames) /\ IsSeq(frames) /\ n \in Nat \ {0}
  BY TypesOfParts
<1>5. Values(code, locals) /\ Len(locals) = Len(Frame.locals) /\ Len(Frame.locals) \in Nat \ {0}
  <2>1. Values(code, Frame.locals) /\ Len(Frame.locals) \in Nat \ {0}
    BY TypesOfParts
  <2>2. Here.arg + 1 \in 1 .. Len(Frame.locals)
    BY <1>1, <1>2, <2>1
  <2> QED
    BY <1>3, <2>1, <2>2, ReplacedIsValues
<1>6. frames' = [frames EXCEPT ![n] = f]
  <2>1. Frame = NewFrame(Frame.ret, Frame.locals, Frame.bottom)
    BY TypesOfParts
  <2>2. [Frame EXCEPT !.locals[Here.arg + 1] = Peek(1)] = f
    BY <2>1 DEF NewFrame
  <2> QED
    BY <1>1, <2>2 DEF Frame
<1> HIDE DEF locals
<1>7. /\ IsSeq(frames') /\ Len(frames') = n
      /\ \A k \in 1 .. n : frames'[k] = IF k = n THEN f ELSE frames[k]
  <2> HIDE DEF f
  <2>1. /\ frames' = [k \in 1 .. n |-> frames'[k]]
        /\ \A k \in 1 .. n : frames'[k] = IF k = n THEN f ELSE frames[k]
    BY <1>4, <1>6 DEF IsSeq
  <2> QED
    BY <1>4, <2>1, SeqFromFunction
<1>8. f.ret = Frame.ret /\ f.locals = locals /\ f.bottom = Frame.bottom
      /\ f = NewFrame(f.ret, f.locals, f.bottom)
  BY DEF NewFrame
<1> HIDE DEF f
<1>9. frames'[n] = f /\ \A k \in 1 .. n - 1 : frames'[k] = frames[k]
  BY <1>4, <1>7
<1>10. SameCallers
  <2>1. Frame' = f
    BY <1>7, <1>9 DEF Frame
  <2> QED
    BY <1>5, <1>7, <1>8, <1>9, <2>1 DEF SameCallers
<1>11. FramesInv'
  <2>1. ASSUME NEW k \in 1 .. n
        PROVE  /\ frames'[k] = NewFrame(frames'[k].ret, frames'[k].locals, frames'[k].bottom)
               /\ frames'[k].ret \in Nat /\ frames'[k].bottom \in Nat
               /\ Values(code, frames'[k].locals) /\ Len(frames'[k].locals) > 0
    <3>1. CASE k = n
      <4>1. /\ f = NewFrame(f.ret, f.locals, f.bottom) /\ f.ret \in Nat /\ f.bottom \in Nat
            /\ Values(code, f.locals) /\ Len(f.locals) > 0
        BY <1>5, <1>8, TypesOfParts
      <4> QED
        BY <1>9, <3>1, <4>1
    <3>2. CASE k # n
      <4>1. k \in 1 .. Len(frames) /\ frames'[k] = frames[k]
        BY <1>7, <3>2
      <4> QED
        BY <4>1 DEF TInv, FramesInv
    <3> QED
      BY <3>1, <3>2
  <2>2. code' = code
    BY <1>1
  <2> QED
    BY <1>4, <1>7, <2>1, <2>2 DEF FramesInv
<1>12. Values(code, globals') /\ Len(globals') >= Len(globals)
       /\ IsSeq(output') /\ Len(output') >= Len(output)
  BY <1>1, TypesOfParts
<1> QED
  BY <1>1, <1>3, <1>10, <1>11, <1>12, MoveStep

\* POP_TOP.
LEMMA PopTopStep ==
  ASSUME TInv, PopTop
  PROVE  TInv' /\ Moves
<1>1. Fetch({"POP_TOP"}) /\ Compute(Drop(1))
  BY DEF PopTop
<1>2. Here.op = "POP_TOP"
  BY <1>1, Fetched
<1>3. stack' = Drop(1) /\ pc' = pc + 1
      /\ UNCHANGED <<loaded, code, globals, frames, output, jit, status>>
  BY <1>1 DEF Compute
<1>4. /\ pc' \in Successors(Here, pc, Len(frames) > 1) /\ Values(code, stack')
      /\ Len(stack') + Needs(Here) = Len(stack) + Gives(Here) /\ KeepsBelow
  BY <1>1, <1>2, <1>3, PoppedOne
<1>5. SameCallers /\ FramesInv'
  BY <1>3, UnchangedFrames
<1>6. Values(code, globals') /\ Len(globals') >= Len(globals)
      /\ IsSeq(output') /\ Len(output') >= Len(output)
  BY <1>3, TypesOfParts
<1> QED
  BY <1>1, <1>3, <1>4, <1>5, <1>6, MoveStep

\* DUP_TOP.
LEMMA DupTopStep ==
  ASSUME TInv, DupTop
  PROVE  TInv' /\ Moves
<1> DEFINE v == Peek(1)
           u == Append(stack, v)
<1>1. Fetch({"DUP_TOP"}) /\ Compute(u)
  BY DEF DupTop
<1>2. Here.op = "DUP_TOP"
  BY <1>1, Fetched
<1>3. Needs(Here) = 1 /\ Gives(Here) = 2 /\ pc + 1 \in Successors(Here, pc, Len(frames) > 1)
  BY <1>2 DEF Needs, Gives, Successors, Binary, BinaryArith, Comparison, Unary, CondJump, InplaceName
<1>4. IsValue(code, v) /\ Values(code, stack) /\ IsSeq(stack) /\ Len(stack) \in Nat
  BY <1>1, <1>3, Fetched, TypesOfParts
<1> HIDE DEF v
<1>5. Values(code, u) /\ Len(u) = Len(stack) + 1 /\ \A i \in 1 .. Len(stack) : u[i] = stack[i]
  BY <1>4, AppendIsValues, AppendIsSeq
<1> HIDE DEF u
<1>6. Len(u) + Needs(Here) = Len(stack) + Gives(Here)
  BY <1>3, <1>4, <1>5
<1>7. \A i \in 1 .. Len(stack) - Needs(Here) : u[i] = stack[i]
  BY <1>3, <1>4, <1>5
<1> QED
  BY <1>1, <1>3, <1>5, <1>6, <1>7, ComputeStep

\* The binary operators: a result in place of two operands, or an error.
LEMMA BinaryOpStep ==
  ASSUME TInv, BinaryOp
  PROVE  TInv' /\ (Moves \/ Stops)
<1> DEFINE result == BinaryResult(Here.op, Peek(2), Peek(1))
<1>1. Fetch(Binary) /\ Here.op \in Binary
  BY DEF BinaryOp, Fetch
<1>2. Plainly(result)
  BY <1>1, ResultsArePlain
<1>3. IF IsError(result) THEN Throw(result.e) ELSE Compute(Append(Drop(2), result))
  BY DEF BinaryOp
<1> HIDE DEF result
<1>4. CASE IsError(result)
  BY <1>2, <1>3, <1>4, ThrowStep DEF Plainly, IsError
<1>5. CASE ~IsError(result)
  <2>1. IsValue(code, result)
    BY <1>2, <1>5, PlainIsValue
  <2>2. Needs(Here) = 2 /\ Gives(Here) = 1 /\ pc + 1 \in Successors(Here, pc, Len(frames) > 1)
    BY <1>1 DEF Needs, Gives, Successors, Binary, BinaryArith, Comparison, Unary, CondJump, InplaceName
  <2> QED
    BY <1>1, <1>3, <1>5, <2>1, <2>2, ReplaceStep
<1> QED
  BY <1>4, <1>5

\* The unary operators: a result in place of one operand, or an error.
LEMMA UnaryOpStep ==
  ASSUME TInv, UnaryOp
  PROVE  TInv' /\ (Moves \/ Stops)
<1> DEFINE result == UnaryResult(Here.op, Peek(1))
<1>1. Fetch(Unary) /\ Here.op \in Unary
  BY DEF UnaryOp, Fetch
<1>2. Plainly(result)
  BY <1>1, ResultsArePlain
<1>3. IF IsError(result) THEN Throw(result.e) ELSE Compute(Append(Drop(1), result))
  BY DEF UnaryOp
<1> HIDE DEF result
<1>4. CASE IsError(result)
  BY <1>2, <1>3, <1>4, ThrowStep DEF Plainly, IsError
<1>5. CASE ~IsError(result)
  <2>1. IsValue(code, result)
    BY <1>2, <1>5, PlainIsValue
  <2>2. Needs(Here) = 1 /\ Gives(Here) = 1 /\ pc + 1 \in Successors(Here, pc, Len(frames) > 1)
    BY <1>1 DEF Needs, Gives, Successors, Binary, BinaryArith, Comparison, Unary, CondJump, InplaceName
  <2> QED
    BY <1>1, <1>3, <1>5, <2>1, <2>2, ReplaceStep
<1> QED
  BY <1>4, <1>5

\* The fused updates of a global.
LEMMA InplaceOpStep ==
  ASSUME TInv, InplaceOp
  PROVE  TInv' /\ (Moves \/ Stops)
<1> DEFINE result == InplaceResult(Here.op, globals[Here.arg + 1], Peek(1))
<1>1. Fetch(InplaceName) /\ Here.op \in InplaceName /\ Here.arg < Len(globals) /\ Here.arg \in Nat
  BY Fetched DEF InplaceOp, Fetch
<1>2. Plainly(result)
  BY <1>1, ResultsArePlain
<1>3. IF IsError(result) THEN Throw(result.e)
      ELSE /\ globals' = [globals EXCEPT ![Here.arg + 1] = result]
           /\ stack' = Drop(1) /\ pc' = pc + 1
           /\ UNCHANGED <<loaded, code, frames, output, jit, status>>
  BY DEF InplaceOp
<1> HIDE DEF result
<1>4. CASE IsError(result)
  BY <1>2, <1>3, <1>4, ThrowStep DEF Plainly, IsError
<1>5. CASE ~IsError(result)
  <2>1. /\ globals' = [globals EXCEPT ![Here.arg + 1] = result]
        /\ stack' = Drop(1) /\ pc' = pc + 1
        /\ UNCHANGED <<loaded, code, frames, output, jit, status>>
    BY <1>3, <1>5
  <2>2. IsValue(code, result)
    BY <1>2, <1>5, PlainIsValue
  <2>3. /\ pc' \in Successors(Here, pc, Len(frames) > 1) /\ Values(code, stack')
        /\ Len(stack') + Needs(Here) = Len(stack) + Gives(Here) /\ KeepsBelow
    BY <1>1, <2>1, PoppedOne
  <2>4. Values(code, globals') /\ Len(globals') >= Len(globals)
    <3>1. Values(code, globals) /\ Len(globals) \in Nat
      BY TypesOfParts
    <3>3. Here.arg + 1 \in 1 .. Len(globals)
      BY <1>1, <3>1
    <3>2. Values(code, [globals EXCEPT ![Here.arg + 1] = result])
          /\ Len([globals EXCEPT ![Here.arg + 1] = result]) = Len(globals)
      BY <2>2, <3>1, <3>3, ReplacedIsValues
    <3> QED
      BY <2>1, <3>1, <3>2
  <2>5. SameCallers /\ FramesInv'
    BY <2>1, UnchangedFrames
  <2>6. IsSeq(output') /\ Len(output') >= Len(output)
    BY <2>1, TypesOfParts
  <2> QED
    BY <1>1, <2>1, <2>3, <2>4, <2>5, <2>6, MoveStep
<1> QED
  BY <1>4, <1>5

\* A step that changes nothing but pc.
LEMMA GoStep ==
  ASSUME TInv, NEW ops, Fetch(ops), Needs(Here) = Gives(Here),
         pc' \in Successors(Here, pc, Len(frames) > 1),
         UNCHANGED <<loaded, code, globals, frames, stack, output, jit, status>>
  PROVE  TInv' /\ Moves
<1>1. SameCallers /\ FramesInv'
  BY UnchangedFrames
<1>2. Values(code, stack') /\ Values(code, globals') /\ Len(globals') >= Len(globals)
      /\ IsSeq(output') /\ Len(output') >= Len(output)
  BY TypesOfParts
<1>3. Len(stack') + Needs(Here) = Len(stack) + Gives(Here)
  OBVIOUS
<1>4. KeepsBelow
  BY Fetched DEF KeepsBelow
<1> QED
  BY <1>1, <1>2, <1>3, <1>4, MoveStep

\* The jumps and no-operations leave the stack as it is.
LEMMA JumpStep ==
  ASSUME TInv, ConditionalJump \/ JumpAbsolute \/ NoOperation
  PROVE  TInv' /\ Moves
<1>1. PICK ops : Fetch(ops) /\ ops \in {CondJump, {"JUMP_ABSOLUTE"}, {"NOP"} \cup Reserved}
  BY DEF ConditionalJump, JumpAbsolute, NoOperation
<1>2. UNCHANGED <<loaded, code, globals, frames, stack, output, jit, status>>
  BY DEF ConditionalJump, JumpAbsolute, NoOperation, Compute
<1>3. Here.op \in Jump \cup {"NOP"} \cup Reserved
  BY <1>1, Fetched DEF Jump
<1>4. Needs(Here) = Gives(Here)
  BY <1>3 DEF Needs, Gives, Binary, BinaryArith, Comparison, Unary, CondJump, InplaceName, Jump, Reserved
<1>5. pc' \in Successors(Here, pc, Len(frames) > 1)
  BY DEF ConditionalJump, JumpAbsolute, NoOperation, Compute, Fetch, Successors, CondJump, Reserved
<1> QED
  BY <1>1, <1>2, <1>4, <1>5, GoStep

\* HALT.
LEMMA HaltStep ==
  ASSUME TInv, Halt
  PROVE  TInv' /\ Stops
<1>1. status' = "halted" /\ Here.op = "HALT"
      /\ UNCHANGED <<loaded, code, globals, frames, stack, pc, output, jit>>
  BY DEF Halt, Fetch
<1> QED
  BY <1>1, StopStep

\* Calling what is no function throws.
LEMMA CallUncallableStep ==
  ASSUME TInv, CallUncallable
  PROVE  TInv' /\ Stops
BY ThrowStep DEF CallUncallable, Errors

\* A native call: an int in place of callee and argument.
LEMMA CallNativeStep ==
  ASSUME TInv, CallNative
  PROVE  TInv' /\ Moves
<1> DEFINE v == PyInt(NativeCall(native[Peek(1).entry], Peek(2).i))
<1>1. /\ Fetch({"CALL_FUNCTION"}) /\ Here.op = "CALL_FUNCTION" /\ Here.arg = 1
      /\ Compute(Append(Drop(2), v))
  BY DEF CallNative, Fetch, TakesNative
<1>2. IsValue(code, v)
  BY NoneIsValue
<1> HIDE DEF v
<1>3. Needs(Here) = 2 /\ Gives(Here) = 1 /\ pc + 1 \in Successors(Here, pc, Len(frames) > 1)
  BY <1>1 DEF Needs, Gives, Successors, Binary, BinaryArith, Comparison, Unary, CondJump, InplaceName
<1> QED
  BY <1>1, <1>2, <1>3, ReplaceStep

\* PRINT pops its arguments and adds a line of output.
LEMMA PrintLineStep ==
  ASSUME TInv, PrintLine
  PROVE  TInv' /\ Moves
<1> DEFINE line == [i \in 1 .. Here.arg |-> Text(Peek(1 + Here.arg - i))]
<1>1. /\ Fetch({"PRINT"}) /\ Here.op = "PRINT"
      /\ output' = Append(output, line)
      /\ stack' = Drop(Here.arg) /\ pc' = pc + 1
      /\ UNCHANGED <<loaded, code, globals, frames, jit, status>>
  BY DEF PrintLine, Fetch
<1> HIDE DEF line
<1>2. Needs(Here) = Here.arg /\ Gives(Here) = 0 /\ pc' \in Successors(Here, pc, Len(frames) > 1)
  BY <1>1 DEF Needs, Gives, Successors, Binary, BinaryArith, Comparison, Unary, CondJump, InplaceName
<1>3. /\ Here.arg \in Nat /\ Len(stack) \in Nat /\ Len(stack) >= Here.arg
      /\ Values(code, Drop(Here.arg)) /\ Len(Drop(Here.arg)) = Len(stack) - Here.arg
      /\ \A i \in 1 .. Len(stack) - Here.arg : Drop(Here.arg)[i] = stack[i]
  <2>1. Here.arg \in Nat /\ Len(stack) \in Nat /\ Len(stack) >= Needs(Here)
    BY <1>1, Fetched
  <2>2. Here.arg \in 0 .. Needs(Here)
    BY <1>2, <2>1
  <2> QED
    BY <1>1, <1>2, <2>1, <2>2, Fetched
<1>4. Values(code, stack') /\ Len(stack') = Len(stack) - Here.arg
      /\ \A i \in 1 .. Len(stack) - Here.arg : stack'[i] = stack[i]
  BY <1>1, <1>3
<1>5. Len(stack') + Needs(Here) = Len(stack) + Gives(Here) /\ KeepsBelow
  <2>1. Len(stack') + Needs(Here) = Len(stack) + Gives(Here)
    BY <1>2, <1>3, <1>4
  <2>2. KeepsBelow
    BY <1>2, <1>3, <1>4 DEF KeepsBelow
  <2> QED
    BY <2>1, <2>2
<1>6. SameCallers /\ FramesInv'
  BY <1>1, UnchangedFrames
<1>7. Values(code, globals') /\ Len(globals') >= Len(globals)
  BY <1>1, TypesOfParts
<1>8. IsSeq(output') /\ Len(output') >= Len(output)
  <2>1. IsSeq(output) /\ Len(output) \in Nat
    BY TypesOfParts
  <2> QED
    BY <1>1, <2>1, AppendIsSeq
<1> QED
  BY <1>1, <1>2, <1>4, <1>5, <1>6, <1>7, <1>8, MoveStep

----------------------------------------------------------------------------------
(* Calls and returns. *)

\* A function object: one of the code, or range.
LEMMA FunctionFacts ==
  ASSUME TInv, NEW f, IsValue(code, f), f.t = "FUNCTION"
  PROVE  /\ f.slots \in Nat /\ f.entry \in Nat
         /\ \/ f.entry = 0 /\ RangeRead
            \/ /\ Delimited(code.instructions, f.entry) /\ NonzeroBase(code.instructions, f.entry)
               /\ \E i \in 1 .. Len(code.constants) : f = code.constants[i]
<1>1. CASE RangeRead /\ f = PyFunction(0, 0)
  BY <1>1 DEF PyFunction
<1>2. CASE \E i \in 1 .. Len(code.constants) : f = code.constants[i]
  <2>1. f.slots \in Nat /\ Delimited(code.instructions, f.entry) /\ NonzeroBase(code.instructions, f.entry)
    BY <1>2 DEF TInv, IsLinked
  <2>2. f.entry \in Nat
    <3>1. f.entry \in 1 .. Len(code.instructions)
      BY <2>1 DEF Delimited
    <3> QED
      BY <3>1
  <2> QED
    BY <1>2, <2>1, <2>2
<1> QED
  BY <1>1, <1>2 DEF IsValue

\* There is a HALT, so the JIT makes nothing of entry point 0.
LEMMA RangeIsNotNative ==
  ASSUME NEW c, IsLinked(c)
  PROVE  JitCompile(c.instructions, 0) = NotNative
<1>1. Len(c.instructions) \in Nat /\ \E a \in 1 .. Len(c.instructions) : c.instructions[a].op = "HALT"
  BY DEF IsLinked, IsCompiledCode
<1> QED
  BY <1>1, HaltIsNotNative

\* The table after the first call of a function object.
LEMMA CallJitStep ==
  ASSUME TInv, NEW f, IsValue(code, f), f.t = "FUNCTION", CallJit(f), UNCHANGED <<code, runs>>
  PROVE  TableInv'
<1> DEFINE e    == f.entry
           made == JitCompile(code.instructions, e)
<1>1. e = 0 \/ (Delimited(code.instructions, e) /\ NonzeroBase(code.instructions, e))
  BY FunctionFacts
<1>2. made # NotNative => made.base # 0
  <2>1. CASE e = 0
    BY <2>1, RangeIsNotNative DEF TInv
  <2>2. CASE NonzeroBase(code.instructions, e)
    BY <2>2, NativeHasBase DEF NonzeroBase
  <2> QED
    BY <1>1, <2>1, <2>2
<1>3. CASE e \in DOMAIN native
  <2>1. UNCHANGED <<native, compiled>>
    BY <1>3 DEF CallJit, jit
  <2> QED
    BY <2>1 DEF TInv, TableInv, PatchSafe
<1>4. CASE e \notin DOMAIN native
  <2>1. /\ native' = Remember(native, e, JitLookup(f)) /\ compiled' = Remember(compiled, e, JitLookup(f))
    BY <1>4 DEF CallJit
  <2>2. /\ DOMAIN native' = DOMAIN native \cup {e}
        /\ DOMAIN compiled' = DOMAIN compiled \cup {e}
        /\ \A x \in DOMAIN compiled : compiled'[x] = compiled[x]
        /\ e \notin DOMAIN compiled => compiled'[e] = made
    BY <2>1 DEF Remember, JitLookup
  <2> HIDE DEF made, e
  <2>3. \A x \in DOMAIN compiled' : x \in DOMAIN compiled \/ (x = e /\ e \notin DOMAIN compiled)
    BY <2>2
  <2>4. DOMAIN native' \subseteq DOMAIN compiled'
    BY <2>2 DEF TInv, TableInv
  <2>5. PatchSafe'
    <3>1. \A x \in DOMAIN compiled : compiled[x] # NotNative => compiled[x].base # 0
      BY DEF TInv, TableInv, PatchSafe
    <3>2. ASSUME NEW x \in DOMAIN compiled', compiled'[x] # NotNative PROVE compiled'[x].base # 0
      <4>1. CASE x \in DOMAIN compiled
        BY <2>2, <3>1, <3>2, <4>1
      <4>2. CASE x = e /\ e \notin DOMAIN compiled
        BY <1>2, <2>2, <3>2, <4>2
      <4> QED
        BY <2>3, <4>1, <4>2
    <3> QED
      BY <3>2 DEF PatchSafe
  <2>6. ASSUME runs' = 1, NEW x \in DOMAIN compiled'
        PROVE  /\ x = 0 \/ Delimited(code'.instructions, x)
               /\ compiled'[x] = JitCompile(code'.instructions, x)
    <3>1. CASE x \in DOMAIN compiled
      <4>1. /\ x = 0 \/ Delimited(code.instructions, x)
            /\ compiled[x] = JitCompile(code.instructions, x)
        BY <2>6, <3>1 DEF TInv, TableInv
      <4> QED
        BY <2>2, <3>1, <4>1
    <3>2. CASE x = e /\ e \notin DOMAIN compiled
      BY <1>1, <2>2, <3>2 DEF made
    <3> QED
      BY <2>3, <3>1, <3>2
  <2> QED
    BY <2>4, <2>5, <2>6 DEF TableInv
<1> QED
  BY <1>3, <1>4

\* The locals of a call are values, as many as LocalCount says.
LEMMA ArgumentLocalsAreValues ==
  ASSUME NEW f, f.slots \in Nat, NEW args, Values(code, args)
  PROVE  /\ Values(code, ArgumentLocals(f, args)) /\ Len(ArgumentLocals(f, args)) = LocalCount(f.slots)
         /\ LocalCount(f.slots) \in Nat \ {0}
<1> DEFINE n == LocalCount(f.slots)
           locals == ArgumentLocals(f, args)
<1>1. n \in Nat \ {0}
  BY DEF LocalCount, INLINE_SLOTS
<1>2. Len(args) \in Nat /\ \A i \in 1 .. Len(args) : IsValue(code, args[i])
  BY DEF Values, IsSeq
<1>3. IsValue(code, PyNone)
  BY NoneIsValue
<1>4. locals = [i \in 1 .. n |-> IF i <= Len(args) /\ i <= f.slots THEN args[i] ELSE PyNone]
  BY DEF ArgumentLocals
<1> HIDE DEF n, locals
<1>5. locals = [i \in 1 .. n |-> locals[i]] /\ \A i \in 1 .. n : IsValue(code, locals[i])
  BY <1>1, <1>2, <1>3, <1>4
<1>6. IsSeq(locals) /\ Len(locals) = n
  BY <1>1, <1>5, SeqFromFunction
<1> QED
  BY <1>1, <1>5, <1>6 DEF Values, n, locals

\* An interpreted call begins: the new frame starts above what is left of the
\* stack, from which one or all of the operands have gone.
Calls ==
  /\ Here.op = "CALL_FUNCTION" /\ Here.arg \in Nat /\ Needs(Here) = Here.arg + 1 /\ Gives(Here) = 1
  /\ Peek(1).t = "FUNCTION" /\ IsValue(code, Peek(1))
  /\ KeepsBelow
  /\ UNCHANGED <<loaded, code, status>>
  /\ pc' = Peek(1).entry
  /\ Len(frames') = Len(frames) + 1
  /\ \A k \in 1 .. Len(frames) : frames'[k] = frames[k]
  /\ Frame'.ret = pc + 1 /\ Frame'.bottom = Len(stack')
  /\ Len(Frame'.locals) = LocalCount(Peek(1).slots)
  /\ Len(stack') = Len(stack) - (IF Peek(1).slots > 0 THEN 1 + Here.arg ELSE 1)

\* An interpreted call ends.
Returns ==
  /\ Len(frames) > 1 /\ Here.op = "RETURN_VALUE"
  /\ KeepsBelow
  /\ UNCHANGED <<loaded, code, stack, status>>
  /\ pc' = Frame.ret
  /\ Len(frames') = Len(frames) - 1
  /\ \A k \in 1 .. Len(frames) - 1 : frames'[k] = frames[k]

\* A call that is interpreted.
LEMMA CallInterpretedStep ==
  ASSUME TInv, CallInterpreted
  PROVE  TInv' /\ Calls
<1> DEFINE f      == Peek(1)
           n      == IF f.slots > 0 THEN 1 + Here.arg ELSE 1
           args   == [i \in 1 .. Here.arg |-> Peek(2 + Here.arg - i)]
           locals == ArgumentLocals(f, args)
           frame  == NewFrame(pc + 1, locals, Len(Drop(n)))
           top    == Len(frames) + 1
<1>1. /\ Fetch({"CALL_FUNCTION"}) /\ f.t = "FUNCTION" /\ CallJit(f)
      /\ stack' = Drop(n) /\ frames' = Append(frames, frame) /\ pc' = f.entry
      /\ UNCHANGED <<loaded, code, globals, output, status>>
  BY DEF CallInterpreted
<1>2. Here.op = "CALL_FUNCTION" /\ Here.arg \in Nat /\ pc \in Nat
  BY <1>1, Fetched
<1>3. Needs(Here) = Here.arg + 1 /\ Gives(Here) = 1
  BY <1>2 DEF Needs, Gives, Binary, BinaryArith, Comparison, Unary, CondJump, InplaceName
<1>4. /\ Len(stack) \in Nat /\ Len(stack) >= Here.arg + 1
      /\ \A j \in 1 .. Here.arg + 1 : IsValue(code, Peek(j))
  BY <1>1, <1>3, Fetched
<1>5. IsValue(code, f)
  BY <1>2, <1>4
<1>6. f.slots \in Nat /\ f.entry \in Nat
  BY <1>1, <1>5, FunctionFacts
<1>7. Values(code, args)
  <2>1. args = [i \in 1 .. Here.arg |-> args[i]]
    OBVIOUS
  <2>2. \A i \in 1 .. Here.arg : IsValue(code, args[i])
    <3>1. ASSUME NEW i \in 1 .. Here.arg PROVE IsValue(code, Peek(2 + Here.arg - i))
      <4>1. 2 + Here.arg - i \in 1 .. Here.arg + 1
        BY <1>2
      <4> QED
        BY <1>4, <4>1
    <3> QED
      BY <3>1
  <2> HIDE DEF args
  <2> QED
    BY <1>2, <2>1, <2>2, SeqFromFunction DEF Values
<1>8. Values(code, locals) /\ Len(locals) = LocalCount(f.slots) /\ LocalCount(f.slots) \in Nat \ {0}
  BY <1>6, <1>7, ArgumentLocalsAreValues
<1>9. n \in 0 .. Needs(Here) /\ n \in Nat
  BY <1>2, <1>3, <1>6
<1> HIDE DEF f, n, args, locals
<1>10. /\ Values(code, Drop(n)) /\ Len(Drop(n)) = Len(stack) - n
       /\ \A i \in 1 .. Len(stack) - n : Drop(n)[i] = stack[i]
  BY <1>1, <1>9, Fetched
<1>11. frame.ret = pc + 1 /\ frame.locals = locals /\ frame.bottom = Len(Drop(n))
       /\ frame = NewFrame(frame.ret, frame.locals, frame.bottom)
  BY DEF NewFrame
<1>12. Len(Drop(n)) \in Nat
  BY <1>3, <1>4, <1>9, <1>10
<1> HIDE DEF frame
<1>13. /\ IsSeq(frames') /\ Len(frames') = top /\ frames'[top] = frame
       /\ \A k \in 1 .. Len(frames) : frames'[k] = frames[k]
  BY <1>1, AppendIsSeq, TypesOfParts
<1>14. FramesInv'
  <2>1. ASSUME NEW k \in 1 .. Len(frames')
        PROVE  /\ frames'[k] = NewFrame(frames'[k].ret, frames'[k].locals, frames'[k].bottom)
               /\ frames'[k].ret \in Nat /\ frames'[k].bottom \in Nat
               /\ Values(code, frames'[k].locals) /\ Len(frames'[k].locals) > 0
    <3>1. CASE k = top
      <4>1. /\ frame = NewFrame(frame.ret, frame.locals, frame.bottom)
            /\ frame.ret \in Nat /\ frame.bottom \in Nat
            /\ Values(code, frame.locals) /\ Len(frame.locals) > 0
        BY <1>2, <1>8, <1>11, <1>12
      <4> QED
        BY <1>13, <3>1, <4>1
    <3>2. CASE k \in 1 .. Len(frames)
      BY <1>13, <3>2 DEF TInv, FramesInv
    <3> QED
      BY <1>13, <3>1, <3>2, TypesOfParts
  <2>2. code' = code
    BY <1>1
  <2>3. Len(frames') > 0
    BY <1>13, TypesOfParts
  <2> QED
    BY <1>13, <2>1, <2>2, <2>3 DEF FramesInv
<1>15. TableInv'
  BY <1>1, <1>5, CallJitStep DEF loaded
<1>16. MachineInv' /\ NamesInv' /\ IsLinked(code)'
  <2>1. pc' \in Nat /\ UNCHANGED <<prog, runs, printed, code, globals, output, status>>
    BY <1>1, <1>6 DEF loaded
  <2> QED
    BY <2>1 DEF TInv, MachineInv, NamesInv, NamesCovered
<1>17. Values(code, stack)' /\ Values(code, globals)'
  BY <1>1, <1>10 DEF TInv
<1>18. TInv'
  BY <1>14, <1>15, <1>16, <1>17 DEF TInv
<1>19. KeepsBelow
  <2>1. \A i \in 1 .. Len(stack) - Needs(Here) : i \in 1 .. Len(stack) - n
    BY <1>2, <1>3, <1>4, <1>9
  <2> QED
    BY <1>1, <1>3, <1>4, <1>10, <2>1 DEF KeepsBelow
<1>20. Frame' = frame
  BY <1>13 DEF Frame
<1>21. Len(stack') = Len(stack) - n
  BY <1>1, <1>10
<1> QED
  BY <1>1, <1>2, <1>3, <1>5, <1>8, <1>11, <1>13, <1>18, <1>19, <1>20, <1>21 DEF Calls, f, n

\* A return: the callers' frames stay as they are.
LEMMA ReturnValueStep ==
  ASSUME TInv, ReturnValue
  PROVE  TInv' /\ (Moves \/ Returns)
<1>1. /\ Fetch({"RETURN_VALUE"}) /\ Here.op = "RETURN_VALUE"
      /\ UNCHANGED <<loaded, code, globals, stack, output, jit, status>>
  BY DEF ReturnValue, Fetch
<1>2. Needs(Here) = 1 /\ Gives(Here) = 1
  BY <1>1 DEF Needs, Gives, Binary, BinaryArith, Comparison, Unary, CondJump, InplaceName
<1>3. CASE ~(Len(frames) > 1)
  <2>1. pc' = pc + 1 /\ UNCHANGED frames
    BY <1>3 DEF ReturnValue
  <2>2. pc' \in Successors(Here, pc, Len(frames) > 1)
    BY <1>1, <1>3, <2>1 DEF Successors, CondJump
  <2> QED
    BY <1>1, <1>2, <2>1, <2>2, GoStep
<1>4. CASE Len(frames) > 1
  <2> DEFINE caller == Len(frames) - 1
  <2>1. frames' = SubSeq(frames, 1, caller) /\ pc' = Frame.ret
    BY <1>4 DEF ReturnValue
  <2>2. IsSeq(frames) /\ caller \in 0 .. Len(frames) /\ caller > 0 /\ Len(frames) \in Nat
    BY <1>4, TypesOfParts
  <2>3. /\ IsSeq(frames') /\ Len(frames') = caller
        /\ \A k \in 1 .. caller : frames'[k] = frames[k]
    BY <2>1, <2>2, PrefixIsSeq
  <2>4. pc' \in Nat
    BY <2>1, TypesOfParts
  <2>5. FramesInv'
    <3>1. ASSUME NEW k \in 1 .. caller
          PROVE  /\ frames'[k] = NewFrame(frames'[k].ret, frames'[k].locals, frames'[k].bottom)
                 /\ frames'[k].ret \in Nat /\ frames'[k].bottom \in Nat
                 /\ Values(code, frames'[k].locals) /\ Len(frames'[k].locals) > 0
      <4>1. k \in 1 .. Len(frames) /\ frames'[k] = frames[k]
        BY <2>2, <2>3
      <4> QED
        BY <4>1 DEF TInv, FramesInv
    <3>2. code' = code
      BY <1>1
    <3> QED
      BY <2>2, <2>3, <3>1, <3>2 DEF FramesInv
  <2>6. Len(globals') \in Nat /\ Len(globals') >= Len(globals)
    BY <1>1, TypesOfParts
  <2>7. NamesInv' /\ IsLinked(code)' /\ TableInv' /\ runs' \in 1 .. MaxRuns
    BY <1>1, <2>6, MachineKept
  <2>8. MachineInv'
    BY <1>1, <2>4, <2>7 DEF TInv, MachineInv, loaded
  <2>9. TInv'
    BY <1>1, <2>5, <2>7, <2>8 DEF TInv
  <2>10. KeepsBelow
    BY <1>1, Fetched DEF KeepsBelow
  <2> QED
    BY <1>1, <1>4, <2>1, <2>3, <2>9, <2>10 DEF Returns
<1> QED
  BY <1>3, <1>4

----------------------------------------------------------------------------------
(* Imports. *)

\* A sequence with elements in S.
LEMMA SeqInSet ==
  ASSUME NEW s, IsSeq(s), NEW S, \A i \in 1 .. Len(s) : s[i] \in S
  PROVE  s \in Seq(S)
<1>1. Len(s) \in Nat /\ s \in [1 .. Len(s) -> S]
  BY DEF IsSeq
<1> QED
  BY <1>1

\* ins is what was, an instruction of m, becomes when m is linked into c.
MovedInstr(c, m, was, ins) ==
  /\ ins.op = was.op
  /\ was.op \in Jump => ins.arg = was.arg + Len(c.instructions)
  /\ was.op = "LOAD_CONST" => ins.arg = was.arg + Len(c.constants)
  /\ was.op \in Renumbered => /\ was.arg + 1 \in 1 .. Len(m.names)
                              /\ ins.arg = NameMap(c.names, m.names)[was.arg + 1]
  /\ was.op \notin Jump \cup Renumbered \cup {"LOAD_CONST", "IMPORT_NAME"} => ins = was

\* The instructions of a module behind the code, but the last, keep their
\* opcodes and are instructions.
LEMMA RelocatedInPlace ==
  ASSUME NEW c, IsCompiledCode(c), NEW m, WellFormed(m), NEW ret \in Nat,
         NEW a \in 1 .. Len(m.instructions)
  PROVE  LET was == m.instructions[a]
             ins == Link(c, m, ret).instructions[Len(c.instructions) + a]
         IN  /\ ins \in Instruction /\ was \in Instruction
             /\ a = Len(m.instructions) => ins = Instr("JUMP_ABSOLUTE", ret)
             /\ a # Len(m.instructions) => MovedInstr(c, m, was, ins)
<1> DEFINE was == m.instructions[a]
           ins == Link(c, m, ret).instructions[Len(c.instructions) + a]
           map == NameMap(c.names, m.names)
<1>1. IsCompiledCode(m) /\ was \in Instruction
  <2>1. IsCompiledCode(m) /\ m.instructions \in Seq(Instruction)
    BY DEF WellFormed, IsCompiledCode
  <2> QED
    BY <2>1, ElementOfSeq
<1>2. ins = IF a = Len(m.instructions) THEN Instr("JUMP_ABSOLUTE", ret)
            ELSE RelocatedInstr(was, Len(c.instructions), Len(c.constants), map)
  BY <1>1, LinkedSuffix
<1>3. Instr("JUMP_ABSOLUTE", ret) \in Instruction
  BY DEF Instr, Instruction, OpCode, Jump
<1>4. was.op \in Renumbered => was.arg + 1 \in 1 .. Len(m.names) /\ map[was.arg + 1] \in Nat
  <2> SUFFICES ASSUME was.op \in Renumbered
               PROVE  was.arg + 1 \in 1 .. Len(m.names) /\ map[was.arg + 1] \in Nat
    OBVIOUS
  <2>1. was.arg \in Nat /\ was.arg < Len(m.names)
    BY <1>1 DEF WellFormed, Instruction
  <2>2. Len(m.names) \in Nat /\ IsSeq(m.names) /\ IsSeq(c.names)
    BY <1>1, SeqIsSeq DEF IsCompiledCode, IsSeq
  <2>3. was.arg + 1 \in 1 .. Len(m.names)
    BY <2>1, <2>2
  <2> QED
    BY <2>2, <2>3, NameMapInPool
<1>5. Len(c.instructions) \in Nat /\ Len(c.constants) \in Nat
  BY DEF IsCompiledCode, IsSeq
<1> DEFINE moved == RelocatedInstr(was, Len(c.instructions), Len(c.constants), map)
<1> HIDE DEF was, ins, map
<1>6. /\ moved \in Instruction /\ moved.op = was.op
      /\ was.op \in Jump => moved.arg = was.arg + Len(c.instructions)
      /\ was.op = "LOAD_CONST" => moved.arg = was.arg + Len(c.constants)
      /\ was.op \in Renumbered => moved.arg = map[was.arg + 1]
      /\ was.op \notin Jump \cup Renumbered \cup {"LOAD_CONST", "IMPORT_NAME"} => moved = was
  BY <1>1, <1>4, <1>5, RelocatedParts
<1> HIDE DEF moved
<1>7. CASE a = Len(m.instructions)
  BY <1>1, <1>2, <1>3, <1>7 DEF was, ins
<1>8. CASE a # Len(m.instructions)
  <2>1. ins = moved
    BY <1>2, <1>8 DEF moved
  <2> QED
    BY <1>1, <1>4, <1>6, <1>8, <2>1 DEF MovedInstr, was, ins, map
<1> QED
  BY <1>7, <1>8

\* An address of the linked code is one of the old code or of the module.
LEMMA OldOrNew ==
  ASSUME NEW n \in Nat, NEW k \in Nat, NEW a \in 1 .. n + k
  PROVE  a \in 1 .. n \/ \E b \in 1 .. k : a = n + b
<1>1. CASE a <= n
  BY <1>1
<1>2. CASE a > n
  <2>1. a - n \in 1 .. k /\ a = n + (a - n)
    BY <1>2
  <2> QED
    BY <2>1
<1> QED
  BY <1>1, <1>2

\* A function of the module stays delimited behind the code, and its base value
\* is still not 0: its constants come behind those of the code, and there is
\* another one before it.
LEMMA RelocatedFunction ==
  ASSUME NEW c, IsCompiledCode(c), NEW m, WellFormed(m), NEW ret \in Nat,
         NEW e, Delimited(m.instructions, e)
  PROVE  LET instrs == Link(c, m, ret).instructions
         IN  /\ Delimited(instrs, e + Len(c.instructions))
             /\ NonzeroBase(instrs, e + Len(c.instructions))
<1> DEFINE instrs == Link(c, m, ret).instructions
           n      == Len(c.instructions)
           size   == Len(m.instructions)
           was    == m.instructions
           f      == was[e].arg
<1>1. /\ IsCompiledCode(m) /\ n \in Nat /\ size \in Nat /\ Len(c.constants) \in Nat
      /\ was[size].op = "HALT"
  BY DEF WellFormed, IsCompiledCode, IsSeq
<1>2. Len(instrs) = n + size
  BY <1>1, LinkedPrefix
<1>3. /\ e \in Nat /\ e \in 1 .. size /\ f \in Nat /\ f \in e + 2 .. size /\ f \in 1 .. size
      /\ was[e].op = "JUMP_ABSOLUTE" /\ was[f].op = "RETURN_VALUE"
  BY <1>1 DEF Delimited
<1>4. e # size /\ f # size
  BY <1>1, <1>3
<1>5. ASSUME NEW a \in 1 .. size, a # size
      PROVE  /\ instrs[n + a].op = was[a].op
             /\ was[a].op = "JUMP_ABSOLUTE" => instrs[n + a].arg = was[a].arg + n
             /\ was[a].op = "LOAD_CONST" => instrs[n + a].arg = was[a].arg + Len(c.constants)
             /\ was[a].arg \in Nat
  <2>1. was[a] \in Instruction
    BY RelocatedInPlace
  <2> QED
    BY <1>5, <2>1, RelocatedInPlace DEF MovedInstr, Jump, Instruction
<1> HIDE DEF instrs
<1>6. instrs[n + e].op = "JUMP_ABSOLUTE" /\ instrs[n + e].arg = f + n /\ instrs[n + f].op = "RETURN_VALUE"
  BY <1>3, <1>4, <1>5
<1> HIDE DEF f, n, size
<1>7. e + n = n + e /\ f + n = n + f
  BY <1>1, <1>3
<1>8. instrs[e + n].op = "JUMP_ABSOLUTE" /\ instrs[e + n].arg = f + n /\ instrs[f + n].op = "RETURN_VALUE"
  BY <1>6, <1>7, Zenon
<1>9. Delimited(instrs, e + n)
  <2>1. e + n \in 1 .. Len(instrs) /\ f + n \in e + n + 2 .. Len(instrs)
    <3>1. Len(instrs) = n + size
      BY <1>2 DEF n, size
    <3>2. n \in Nat /\ size \in Nat /\ e \in Nat /\ f \in Nat /\ e \in 1 .. size /\ f \in e + 2 .. size
      BY <1>1, <1>3 DEF n, size
    <3> QED
      BY <3>1, <3>2
  <2> QED
    BY <1>8, <2>1 DEF Delimited
<1>10. NonzeroBase(instrs, e + n)
  <2> SUFFICES ASSUME HasBaseCase(instrs, e + n), instrs[e + n + 6].op # "LOAD_FAST"
               PROVE  instrs[e + n + 6].arg # 0
    BY DEF NonzeroBase, BaseValue
  <2>1. FuncEnd(instrs, e + n) = f + n
    <3>1. e + n > 0
      BY <1>1, <1>3
    <3> QED
      BY <1>8, <3>1 DEF FuncEnd
  <2>2. e + n + 6 < f + n /\ instrs[e + n + 2].op = "LOAD_CONST" /\ instrs[e + n + 6].op = "LOAD_CONST"
    BY <2>1 DEF HasBaseCase
  <2>3. e + 2 \in 1 .. size /\ e + 6 \in 1 .. size /\ e + 2 # size /\ e + 6 # size /\ e + 2 < e + 6
    <3>1. n \in Nat /\ size \in Nat /\ e \in Nat /\ f \in Nat /\ e \in 1 .. size /\ f <= size
      BY <1>1, <1>3 DEF n, size
    <3>2. e + n + 6 < f + n
      BY <2>2
    <3> QED
      BY <3>1, <3>2
  <2>4. e + n + 2 = n + (e + 2) /\ e + n + 6 = n + (e + 6)
    <3>1. n \in Nat /\ e \in Nat
      BY <1>1, <1>3 DEF n
    <3> QED
      BY <3>1
  <2>5. instrs[n + (e + 2)].op = "LOAD_CONST" /\ instrs[n + (e + 6)].op = "LOAD_CONST"
    BY <2>2, <2>4, Zenon
  <2>6. was[e + 2].op = "LOAD_CONST" /\ was[e + 6].op = "LOAD_CONST"
        /\ instrs[n + (e + 6)].arg = was[e + 6].arg + Len(c.constants)
        /\ was[e + 2].arg \in Nat /\ was[e + 6].arg \in Nat
    BY <1>5, <2>3, <2>5 DEF n, size
  <2>7. was[e + 2].arg < was[e + 6].arg
    BY <2>3, <2>6 DEF WellFormed, ConstantsRise, size
  <2>8. was[e + 6].arg + Len(c.constants) # 0
    <3>1. \A x, y, z \in Nat : x < y => y + z # 0
      OBVIOUS
    <3> QED
      BY <1>1, <2>6, <2>7, <3>1
  <2> QED
    BY <2>4, <2>6, <2>8, Zenon
<1> QED
  BY <1>9, <1>10 DEF instrs, n

\* A constant of the module: a function object moves, with its slots.
LEMMA RelocatedConstants ==
  ASSUME NEW m, WellFormed(m), NEW n \in Nat, NEW i \in 1 .. Len(m.constants)
  PROVE  LET was == m.constants[i]
         IN  /\ RelocatedConstant(was, n).t = was.t /\ was.t \in Tags
             /\ was.t # "FUNCTION" => RelocatedConstant(was, n) = was
             /\ was.t = "FUNCTION" =>
                  /\ RelocatedConstant(was, n) = PyFunction(was.entry + n, was.slots)
                  /\ was.slots \in Nat /\ Delimited(m.instructions, was.entry)
<1> DEFINE was == m.constants[i]
<1>1. was.t \in Tags
  BY DEF WellFormed, IsCompiledCode
<1>2. CASE was.t = "FUNCTION"
  <2>1. /\ was = PyFunction(was.entry, was.slots)
        /\ was.slots \in Nat /\ Delimited(m.instructions, was.entry)
    BY <1>2 DEF WellFormed
  <2>2. RelocatedConstant(was, n) = [was EXCEPT !.entry = was.entry + n]
    BY <1>2 DEF RelocatedConstant
  <2> HIDE DEF was
  <2>3. [was EXCEPT !.entry = was.entry + n] = PyFunction(was.entry + n, was.slots)
    BY <2>1 DEF PyFunction
  <2>4. PyFunction(was.entry + n, was.slots).t = "FUNCTION"
    BY DEF PyFunction
  <2> QED
    BY <1>1, <1>2, <2>1, <2>2, <2>3, <2>4 DEF was
<1>3. CASE was.t # "FUNCTION"
  BY <1>1, <1>3 DEF RelocatedConstant
<1> QED
  BY <1>2, <1>3

\* Linking a well-formed module keeps the code what the VM and the JIT rely on.
LEMMA LinkedIsLinked ==
  ASSUME NEW c, IsLinked(c), NEW m, WellFormed(m), NEW ret \in Nat
  PROVE  IsLinked(Link(c, m, ret))
<1> DEFINE d == Link(c, m, ret)
           n == Len(c.instructions)
           k == Len(c.constants)
<1>1. IsCompiledCode(c) /\ IsCompiledCode(m)
  BY DEF IsLinked, WellFormed
<1>2. /\ n \in Nat /\ k \in Nat /\ Len(m.instructions) \in Nat /\ Len(m.constants) \in Nat
      /\ IsSeq(c.names) /\ IsSeq(m.names)
  BY <1>1, SeqIsSeq DEF IsCompiledCode, IsSeq
<1>3. /\ DOMAIN d = {"instructions", "constants", "names"}
      /\ IsSeq(d.instructions) /\ Len(d.instructions) = n + Len(m.instructions)
      /\ \A a \in 1 .. n : d.instructions[a] = c.instructions[a]
      /\ IsSeq(d.constants) /\ Len(d.constants) = k + Len(m.constants)
      /\ \A i \in 1 .. k : d.constants[i] = c.constants[i]
      /\ d.names = MergedNames(c.names, m.names)
  <2>1. DOMAIN d = {"instructions", "constants", "names"} /\ d.names = MergedNames(c.names, m.names)
    BY LinkedNames
  <2>2. IsSeq(d.instructions) /\ Len(d.instructions) = n + Len(m.instructions)
    BY <1>1, LinkedPrefix
  <2>3. ASSUME NEW a \in 1 .. n PROVE d.instructions[a] = c.instructions[a]
    BY <1>1, LinkedKeeps
  <2>4. IsSeq(d.constants) /\ Len(d.constants) = k + Len(m.constants)
    BY <1>1, LinkedPrefix
  <2>5. ASSUME NEW i \in 1 .. k PROVE d.constants[i] = c.constants[i]
    BY <1>1, LinkedKeeps
  <2> QED
    BY <2>1, <2>2, <2>3, <2>4, <2>5
<1>4. \A i \in 1 .. Len(m.constants) : d.constants[k + i] = RelocatedConstant(m.constants[i], n)
  BY <1>1, LinkedSuffix
<1>5. ASSUME NEW b \in 1 .. Len(m.instructions) PROVE d.instructions[n + b] \in Instruction
  BY <1>1, RelocatedInPlace
<1> HIDE DEF d
<1>6. d.instructions \in Seq(Instruction)
  <2>1. ASSUME NEW a \in 1 .. Len(d.instructions) PROVE d.instructions[a] \in Instruction
    <3>1. a \in 1 .. n \/ \E b \in 1 .. Len(m.instructions) : a = n + b
      <4>1. a \in 1 .. n + Len(m.instructions)
        BY <1>3
      <4> HIDE DEF n
      <4> QED
        BY <1>2, <4>1, OldOrNew
    <3>2. CASE a \in 1 .. n
      <4>1. c.instructions[a] \in Instruction
        BY <1>1, <3>2, ElementOfSeq DEF IsCompiledCode
      <4> QED
        BY <1>3, <3>2, <4>1
    <3> QED
      BY <1>5, <3>1, <3>2
  <2> QED
    BY <1>3, <2>1, SeqInSet
<1>7. ASSUME NEW i \in 1 .. Len(d.constants)
      PROVE  i \in 1 .. k \/ \E j \in 1 .. Len(m.constants) : i = k + j
  <2>1. i \in 1 .. k + Len(m.constants)
    BY <1>3
  <2> HIDE DEF k
  <2> QED
    BY <1>2, <2>1, OldOrNew
<1>8. \A i \in 1 .. Len(d.constants) : d.constants[i].t \in Tags
  <2>1. ASSUME NEW i \in 1 .. k PROVE d.constants[i].t \in Tags
    BY <1>1, <1>3 DEF IsCompiledCode
  <2>2. ASSUME NEW j \in 1 .. Len(m.constants) PROVE d.constants[k + j].t \in Tags
    <3>1. RelocatedConstant(m.constants[j], n).t = m.constants[j].t /\ m.constants[j].t \in Tags
      BY <1>2, RelocatedConstants
    <3> QED
      BY <1>4, <3>1
  <2> QED
    BY <1>7, <2>1, <2>2
<1>9. d.names \in Seq(STRING)
  <2>1. /\ IsSeq(d.names) /\ Len(d.names) \in Nat
        /\ \A i \in 1 .. Len(c.names) : d.names[i] = c.names[i]
        /\ \A i \in 1 .. Len(d.names) : i > Len(c.names) => \E j \in 1 .. Len(m.names) : d.names[i] = m.names[j]
    <3> DEFINE names == MergedNames(c.names, m.names)
    <3>1. /\ IsSeq(names) /\ \A i \in 1 .. Len(c.names) : names[i] = c.names[i]
          /\ \A i \in 1 .. Len(names) : i > Len(c.names) => \E j \in 1 .. Len(m.names) : names[i] = m.names[j]
      BY <1>2, MergedNamesAreBoth
    <3> HIDE DEF names
    <3>2. d.names = names
      BY <1>3 DEF names
    <3>3. Len(names) \in Nat
      BY <3>1 DEF IsSeq
    <3> QED
      BY <3>1, <3>2, <3>3
  <2>2. Len(c.names) \in Nat /\ (\A i \in 1 .. Len(c.names) : c.names[i] \in STRING)
        /\ \A j \in 1 .. Len(m.names) : m.names[j] \in STRING
    BY <1>1, ElementOfSeq DEF IsCompiledCode
  <2>3. \A i \in 1 .. Len(d.names) : i \in 1 .. Len(c.names) \/ i > Len(c.names)
    BY <2>1, <2>2
  <2>4. \A i \in 1 .. Len(d.names) : d.names[i] \in STRING
    BY <2>1, <2>2, <2>3
  <2> QED
    BY <2>1, <2>4, SeqInSet
<1>10. IsCompiledCode(d)
  BY <1>3, <1>6, <1>8, <1>9 DEF IsCompiledCode
<1>11. ASSUME NEW i \in 1 .. Len(d.constants), d.constants[i].t = "FUNCTION"
       PROVE  /\ d.constants[i].slots \in Nat
              /\ Delimited(d.instructions, d.constants[i].entry)
              /\ NonzeroBase(d.instructions, d.constants[i].entry)
  <2>1. CASE i \in 1 .. k
    <3> DEFINE e == c.constants[i].entry
    <3>1. d.constants[i] = c.constants[i]
      BY <1>3, <2>1
    <3>2. /\ c.constants[i].slots \in Nat /\ Delimited(c.instructions, e)
          /\ NonzeroBase(c.instructions, e)
      BY <1>11, <2>1, <3>1 DEF IsLinked
    <3> DEFINE old == c.instructions
               new == d.instructions
    <3>3. /\ Len(old) \in Nat /\ Len(new) \in Nat /\ Len(new) >= Len(old)
          /\ \A a \in 1 .. Len(old) : new[a] = old[a]
      <4>1. \A a \in 1 .. Len(old) : new[a] = old[a]
        BY <1>3
      <4>2. Len(new) = Len(old) + Len(m.instructions) /\ Len(old) \in Nat /\ Len(m.instructions) \in Nat
        BY <1>2, <1>3
      <4> HIDE DEF old, new
      <4>3. Len(new) \in Nat /\ Len(new) >= Len(old)
        BY <4>2
      <4> QED
        BY <4>1, <4>2, <4>3
    <3> HIDE DEF e, old, new
    <3>4. Delimited(old, e)
      BY <3>2 DEF old
    <3>5. /\ Delimited(new, e) /\ (HasBaseCase(new, e) <=> HasBaseCase(old, e))
          /\ (HasBaseCase(new, e) => BaseValue(new, e) = BaseValue(old, e))
      BY <3>3, <3>4, JitReadsNoFurther
    <3>6. NonzeroBase(old, e)
      BY <3>2 DEF old
    <3>7. NonzeroBase(new, e)
      BY <3>5, <3>6 DEF NonzeroBase
    <3> QED
      BY <3>1, <3>2, <3>5, <3>7 DEF e, new
  <2>2. ASSUME NEW j \in 1 .. Len(m.constants), i = k + j
        PROVE  /\ d.constants[i].slots \in Nat
               /\ Delimited(d.instructions, d.constants[i].entry)
               /\ NonzeroBase(d.instructions, d.constants[i].entry)
    <3> DEFINE was == m.constants[j]
    <3>1. d.constants[i] = RelocatedConstant(was, n)
      BY <1>4, <2>2
    <3>2. was.t = "FUNCTION"
      BY <1>2, <1>11, <3>1, RelocatedConstants
    <3>3. /\ d.constants[i] = PyFunction(was.entry + n, was.slots)
          /\ was.slots \in Nat /\ Delimited(m.instructions, was.entry)
      BY <1>2, <3>1, <3>2, RelocatedConstants
    <3>4. d.constants[i].entry = was.entry + n /\ d.constants[i].slots = was.slots
      BY <3>3 DEF PyFunction
    <3>5. Delimited(d.instructions, was.entry + n) /\ NonzeroBase(d.instructions, was.entry + n)
      BY <1>1, <3>3, RelocatedFunction DEF d
    <3> QED
      BY <3>3, <3>4, <3>5
  <2> QED
    BY <1>7, <2>1, <2>2
<1>12. \E a \in 1 .. Len(d.instructions) : d.instructions[a].op = "HALT"
  <2>1. PICK a \in 1 .. n : c.instructions[a].op = "HALT"
    BY DEF IsLinked
  <2>2. a \in 1 .. Len(d.instructions)
    <3>1. Len(d.instructions) = n + Len(m.instructions) /\ n \in Nat /\ Len(m.instructions) \in Nat
      BY <1>2, <1>3
    <3> HIDE DEF n
    <3> QED
      BY <3>1
  <2> QED
    BY <1>3, <2>1, <2>2
<1> QED
  BY <1>10, <1>11, <1>12 DEF IsLinked, d

\* What was a value of the code is one of the linked code.
LEMMA ValuesOfLinked ==
  ASSUME NEW c, IsCompiledCode(c), NEW m, IsCompiledCode(m), NEW ret, NEW s, Values(c, s)
  PROVE  Values(Link(c, m, ret), s)
<1> DEFINE d == Link(c, m, ret)
<1>1. \A i \in 1 .. Len(c.constants) : i \in 1 .. Len(d.constants) /\ d.constants[i] = c.constants[i]
  <2>1. \A i \in 1 .. Len(c.constants) : d.constants[i] = c.constants[i]
    BY LinkedKeeps
  <2>2. Len(d.constants) = Len(c.constants) + Len(m.constants)
    BY LinkedPrefix
  <2>3. Len(c.constants) \in Nat /\ Len(m.constants) \in Nat
    BY DEF IsCompiledCode, IsSeq
  <2> HIDE DEF d
  <2>4. \A i \in 1 .. Len(c.constants) : i \in 1 .. Len(d.constants)
    <3>1. \A x, y \in Nat : \A i \in 1 .. x : i \in 1 .. x + y
      OBVIOUS
    <3> QED
      BY <2>2, <2>3, <3>1
  <2> QED
    BY <2>1, <2>4
<1> HIDE DEF d
<1>2. ASSUME NEW v, IsValue(c, v) PROVE IsValue(d, v)
  BY <1>1, <1>2 DEF IsValue
<1>3. Values(d, s)
  BY <1>2 DEF Values
<1> QED
  BY <1>3 DEF d

\* A module is linked: control goes on at its first instruction.
Links ==
  /\ Here.op = "IMPORT_NAME" /\ pc \in Addresses(code)
  /\ UNCHANGED <<loaded, globals, frames, stack, status>>
  /\ \E name \in DOMAIN Modules :
       /\ name = code.names[Here.arg + 1] /\ Modules[name] # NotCompiled
       /\ code' = Link(code, Modules[name], pc + 1)
       /\ pc' = Len(code.instructions)

\* The names of the linked code are those of the program, or modules'.
LEMMA NamesStay ==
  ASSUME TInv, NEW name \in DOMAIN Modules, IsCompiledCode(Modules[name]),
         code' = Link(code, Modules[name], pc + 1), UNCHANGED <<prog, globals>>
  PROVE  NamesInv'
<1> DEFINE old   == code.names
           added == Modules[name].names
           names == MergedNames(old, added)
           own   == Len(Programs[prog].names)
<1>1. code'.names = names
  BY LinkedNames
<1>2. IsSeq(old) /\ IsSeq(added)
  BY SeqIsSeq DEF TInv, IsLinked, IsCompiledCode
<1>3. \A k \in 1 .. Len(added) : added[k] \in ModuleNames
  BY ModuleNamesAssumption
<1>4. \A i \in 1 .. Len(old) : i > own => old[i] \in ModuleNames
  BY DEF TInv, NamesInv, NamesCovered
<1> HIDE DEF old, added
<1>5. IsSeq(names)
  BY <1>2, MergedNamesAreBoth
<1>6. ASSUME NEW i \in 1 .. Len(old) PROVE names[i] = old[i]
  BY <1>2, MergedNamesAreBoth
<1>7. ASSUME NEW i \in 1 .. Len(names), i > Len(old) PROVE \E k \in 1 .. Len(added) : names[i] = added[k]
  BY <1>2, <1>7, MergedNamesAreBoth
<1> HIDE DEF names, own
<1>8. ASSUME NEW i \in 1 .. Len(names), i > own PROVE names[i] \in ModuleNames
  <2>1. CASE i > Len(old)
    BY <1>3, <1>7, <2>1
  <2>2. CASE ~(i > Len(old))
    <3>1. i \in 1 .. Len(old)
      BY <1>2, <1>5, <2>2 DEF IsSeq
    <3> QED
      BY <1>4, <1>6, <1>8, <3>1
  <2> QED
    BY <2>1, <2>2
<1> QED
  BY <1>1, <1>8 DEF TInv, NamesInv, NamesCovered, own

\* The JIT would make the same of what it has compiled.
LEMMA TableStays ==
  ASSUME TInv, NEW m, IsCompiledCode(m), NEW ret, code' = Link(code, m, ret),
         IsLinked(code'), UNCHANGED <<runs, native, compiled>>
  PROVE  TableInv'
<1>1. DOMAIN native' \subseteq DOMAIN compiled' /\ PatchSafe'
  BY DEF TInv, TableInv, PatchSafe
<1> SUFFICES ASSUME runs = 1, NEW e \in DOMAIN compiled
             PROVE  /\ e = 0 \/ Delimited(code'.instructions, e)
                    /\ compiled[e] = JitCompile(code'.instructions, e)
  BY <1>1 DEF TableInv
<1>2. /\ e = 0 \/ Delimited(code.instructions, e)
      /\ compiled[e] = JitCompile(code.instructions, e)
  BY DEF TInv, TableInv
<1>3. CASE e = 0
  <2>1. JitCompile(code.instructions, 0) = NotNative
    BY RangeIsNotNative DEF TInv
  <2>2. JitCompile(code'.instructions, 0) = NotNative
    BY RangeIsNotNative
  <2> QED
    BY <1>2, <1>3, <2>1, <2>2
<1>4. CASE Delimited(code.instructions, e)
  <2> DEFINE old == code.instructions
             new == code'.instructions
  <2>1. \A a \in 1 .. Len(old) : new[a] = old[a]
    BY LinkedKeeps DEF TInv, IsLinked
  <2>2. Len(new) = Len(old) + Len(m.instructions)
    BY LinkedPrefix DEF TInv, IsLinked
  <2>3. Len(old) \in Nat /\ Len(m.instructions) \in Nat
    BY DEF TInv, IsLinked, IsCompiledCode
  <2>4. Delimited(old, e)
    BY <1>4
  <2> HIDE DEF old, new
  <2>5. Len(new) \in Nat /\ Len(new) >= Len(old)
    BY <2>2, <2>3
  <2>6. Delimited(new, e) /\ JitCompile(new, e) = JitCompile(old, e)
    BY <2>1, <2>3, <2>4, <2>5, JitReadsNoFurther
  <2> QED
    BY <1>2, <2>6 DEF old, new
<1> QED
  BY <1>2, <1>3, <1>4

\* IMPORT_NAME: there is no such module, it does not compile, or it is linked.
LEMMA ImportNameStep ==
  ASSUME TInv, ImportName
  PROVE  TInv' /\ (Links \/ Stops)
<1> DEFINE name == code.names[Here.arg + 1]
           m    == Modules[name]
<1>1. Fetch({"IMPORT_NAME"})
  BY DEF ImportName
<1>2. status = "running" /\ Here.op = "IMPORT_NAME" /\ pc \in Nat /\ pc \in Addresses(code)
  BY <1>1, Fetched DEF Fetch
<1>3. CASE name \notin DOMAIN Modules
  BY <1>3, ThrowStep DEF ImportName, Errors
<1>4. CASE name \in DOMAIN Modules /\ m = NotCompiled
  BY <1>4, ThrowStep DEF ImportName, Errors
<1>5. CASE name \in DOMAIN Modules /\ m # NotCompiled
  <2>1. /\ code' = Link(code, m, pc + 1)
        /\ pc' = Len(code.instructions)
        /\ UNCHANGED <<loaded, globals, frames, stack, output, jit, status>>
    BY <1>5 DEF ImportName
  <2>2. name \in DOMAIN Modules /\ name = code.names[Here.arg + 1]
    BY <1>5
  <2> HIDE DEF name
  <2>3. WellFormed(m) /\ IsCompiledCode(m)
    BY <1>5, CompilerAssumption DEF WellFormed
  <2>4. UNCHANGED <<prog, globals, runs, printed, native, compiled>>
    BY <2>1 DEF loaded, jit
  <2>5. IsLinked(code) /\ IsCompiledCode(code)
    BY DEF TInv, IsLinked
  <2>6. IsLinked(code')
    BY <1>2, <2>1, <2>3, <2>5, LinkedIsLinked
  <2>7. NamesInv'
    BY <2>1, <2>2, <2>3, <2>4, NamesStay
  <2>8. TableInv'
    BY <2>1, <2>3, <2>4, <2>6, TableStays
  <2>9. ASSUME NEW s, Values(code, s) PROVE Values(code', s)
    BY <2>1, <2>3, <2>5, <2>9, ValuesOfLinked
  <2>10. Values(code', stack') /\ Values(code', globals')
    BY <2>1, <2>9 DEF TInv
  <2>11. FramesInv'
    BY <2>1, <2>9 DEF TInv, FramesInv
  <2>12. MachineInv'
    <3>1. pc' \in Nat
      BY <2>1, <2>5 DEF IsCompiledCode
    <3> QED
      BY <2>1, <2>4, <3>1 DEF TInv, MachineInv
  <2>13. Links
    BY <1>2, <1>5, <2>1, <2>2 DEF Links
  <2> QED
    BY <2>6, <2>7, <2>8, <2>10, <2>11, <2>12, <2>13 DEF TInv
<1> QED
  BY <1>3, <1>4, <1>5

----------------------------------------------------------------------------------
(* The beginning of an execution, and the whole. *)

\* The base value of a function that the compiler has made is not 0: the
\* constant it is compared with was added before it.
LEMMA CompiledBase ==
  ASSUME NEW c, WellFormed(c), NEW e, Delimited(c.instructions, e)
  PROVE  NonzeroBase(c.instructions, e)
<1> DEFINE was  == c.instructions
           f    == was[e].arg
           size == Len(was)
<1>1. size \in Nat /\ \A a \in 1 .. size : was[a].arg \in Nat
  <2>1. was \in Seq(Instruction)
    BY DEF WellFormed, IsCompiledCode
  <2>2. \A a \in 1 .. size : was[a] \in Instruction
    BY <2>1, ElementOfSeq
  <2> QED
    BY <2>1, <2>2 DEF Instruction
<1>2. e \in Nat /\ e > 0 /\ e \in 1 .. size /\ f \in e + 2 .. size /\ f \in Nat /\ f <= size
      /\ was[e].op = "JUMP_ABSOLUTE" /\ was[f].op = "RETURN_VALUE"
  BY <1>1 DEF Delimited
<1>3. ConstantsRise(was)
  BY DEF WellFormed
<1> HIDE DEF was
<1>4. FuncEnd(was, e) = f
  BY <1>2 DEF FuncEnd
<1> SUFFICES ASSUME HasBaseCase(was, e), was[e + 6].op # "LOAD_FAST"
             PROVE  was[e + 6].arg # 0
  BY DEF NonzeroBase, BaseValue, was
<1>5. e + 6 < f /\ was[e + 2].op = "LOAD_CONST" /\ was[e + 6].op = "LOAD_CONST"
  BY <1>4 DEF HasBaseCase
<1> HIDE DEF f, size
<1>6. e + 2 \in 1 .. size /\ e + 6 \in 1 .. size /\ e + 2 < e + 6
  BY <1>1, <1>2, <1>5
<1>7. was[e + 2].arg < was[e + 6].arg /\ was[e + 2].arg \in Nat /\ was[e + 6].arg \in Nat
  BY <1>1, <1>3, <1>5, <1>6 DEF ConstantsRise, size
<1>8. \A x, y \in Nat : x < y => y # 0
  OBVIOUS
<1> QED
  BY <1>7, <1>8

\* Code that the compiler has made is what the VM and the JIT rely on.
LEMMA CompiledIsLinked ==
  ASSUME NEW c, WellFormed(c)
  PROVE  IsLinked(c)
<1>1. Len(c.instructions) \in Nat
  BY DEF WellFormed, IsCompiledCode
<1>2. Len(c.instructions) \in 1 .. Len(c.instructions) /\ c.instructions[Len(c.instructions)].op = "HALT"
  BY <1>1 DEF WellFormed
<1>3. ASSUME NEW i \in 1 .. Len(c.constants), c.constants[i].t = "FUNCTION"
      PROVE  /\ c.constants[i].slots \in Nat
             /\ Delimited(c.instructions, c.constants[i].entry)
             /\ NonzeroBase(c.instructions, c.constants[i].entry)
  BY <1>3, CompiledBase DEF WellFormed
<1> QED
  BY <1>2, <1>3 DEF IsLinked, WellFormed

\* What execute(p) leaves in the variables before the first instruction.
Started(p) ==
  /\ p \in DOMAIN Programs
  /\ prog = p /\ code = Programs[p]
  /\ globals = [i \in 1 .. Len(Programs[p].names) |-> PyNone]
  /\ frames = <<MainFrame>> /\ stack = <<>> /\ pc = 0 /\ status = "running"

\* The machine in that state.
LEMMA StartedTyped ==
  ASSUME NEW p, Started(p), runs \in 1 .. MaxRuns, IsSeq(output), printed \in 0 .. Len(output), TableInv
  PROVE  TInv
<1>1. WellFormed(code) /\ code = Programs[prog]
  BY CompilerAssumption DEF Started
<1>2. Len(code.names) \in Nat
  BY <1>1 DEF WellFormed, IsCompiledCode
<1>3. IsValue(code, PyNone)
  BY NoneIsValue
<1>4. IsLinked(code)
  BY <1>1, CompiledIsLinked
<1>5. Values(code, globals) /\ Len(globals) = Len(code.names)
  <2>1. globals = [i \in 1 .. Len(code.names) |-> PyNone]
    BY <1>1 DEF Started
  <2>2. globals = [i \in 1 .. Len(code.names) |-> globals[i]]
        /\ \A i \in 1 .. Len(code.names) : globals[i] = PyNone
    BY <2>1
  <2>3. IsSeq(globals) /\ Len(globals) = Len(code.names)
    BY <1>2, <2>2, SeqFromFunction
  <2> QED
    BY <1>3, <2>2, <2>3 DEF Values
<1>6. NamesInv
  BY <1>1, <1>2, <1>5 DEF NamesInv, NamesCovered
<1>7. Values(code, stack)
  BY EmptyIsSeq DEF Values, Started
<1>8. MachineInv
  BY DEF MachineInv, Started
<1>9. FramesInv
  <2> DEFINE locals == [i \in 1 .. INLINE_SLOTS |-> PyNone]
  <2>1. IsSeq(locals) /\ Len(locals) = INLINE_SLOTS /\ INLINE_SLOTS > 0
        /\ \A i \in 1 .. INLINE_SLOTS : locals[i] = PyNone
    <3>1. locals = [i \in 1 .. INLINE_SLOTS |-> locals[i]] /\ INLINE_SLOTS \in Nat /\ INLINE_SLOTS > 0
          /\ \A i \in 1 .. INLINE_SLOTS : locals[i] = PyNone
      BY DEF INLINE_SLOTS
    <3> HIDE DEF locals
    <3> QED
      BY <3>1, SeqFromFunction
  <2>2. Values(code, locals) /\ Len(locals) > 0
    BY <1>3, <2>1 DEF Values
  <2> HIDE DEF locals
  <2>3. frames = <<MainFrame>> /\ MainFrame = NewFrame(0, locals, 0)
    BY DEF Started, MainFrame, locals
  <2> DEFINE main == MainFrame
  <2>4. main = NewFrame(main.ret, main.locals, main.bottom) /\ main.ret = 0 /\ main.bottom = 0
        /\ main.locals = locals
    BY <2>3 DEF NewFrame
  <2> HIDE DEF main
  <2>5. frames = <<main>>
    BY <2>3 DEF main
  <2>6. IsSeq(frames) /\ Len(frames) = 1 /\ frames[1] = main
    BY <2>5 DEF IsSeq
  <2> QED
    BY <2>2, <2>4, <2>6 DEF FramesInv
<1> QED
  BY <1>4, <1>5, <1>6, <1>7, <1>8, <1>9 DEF TInv

\* The same of the state after a step.
LEMMA StartedTypedNext ==
  ASSUME NEW p
  PROVE  Started(p)' /\ (runs \in 1 .. MaxRuns)' /\ IsSeq(output)' /\ (printed \in 0 .. Len(output))' /\ TableInv'
           => TInv'
<1>1. Started(p) /\ runs \in 1 .. MaxRuns /\ IsSeq(output) /\ printed \in 0 .. Len(output) /\ TableInv => TInv
  BY StartedTyped
<1> QED
  BY <1>1, PTL

\* The first execution.
LEMMA InitTyped ==
  ASSUME Init
  PROVE  TInv /\ Started(prog)
<1>1. Started(prog)
  BY DEF Init, Started
<1>2. TableInv
  BY DEF Init, TableInv, PatchSafe
<1>3. IsSeq(output) /\ printed \in 0 .. Len(output)
  BY EmptyIsSeq DEF Init
<1>4. runs \in 1 .. MaxRuns
  BY MaxRunsAssumption DEF Init
<1> QED
  BY <1>1, <1>2, <1>3, <1>4, StartedTyped

\* execute() is called again: the JIT's table outlives the code it was made for.
LEMMA ExecuteAgainTyped ==
  ASSUME TInv, ExecuteAgain
  PROVE  TInv' /\ Started(prog)' /\ runs' = runs + 1
<1>1. PICK p \in DOMAIN Programs : Execute(p)
  BY DEF ExecuteAgain
<1>2. Started(p)' /\ prog' = p
  BY <1>1 DEF Execute, Started
<1>3. runs' = runs + 1 /\ runs' \in 1 .. MaxRuns /\ runs' # 1
  <2>1. runs < MaxRuns /\ runs \in 1 .. MaxRuns /\ runs' = runs + 1
    BY <1>1 DEF ExecuteAgain, Execute, TInv, MachineInv
  <2> QED
    BY <2>1, MaxRunsAssumption
<1>4. IsSeq(output') /\ printed' \in 0 .. Len(output')
  <2>1. output' = output /\ printed' = Len(output) /\ IsSeq(output) /\ Len(output) \in Nat
    BY <1>1, TypesOfParts DEF Execute
  <2> QED
    BY <2>1
<1>5. TableInv'
  <2>1. native' = <<>> /\ compiled' = compiled
    BY <1>1 DEF Execute
  <2>2. DOMAIN native' \subseteq DOMAIN compiled'
    BY <2>1
  <2> QED
    BY <1>3, <2>1, <2>2 DEF TInv, TableInv, PatchSafe
<1>6. TInv'
  BY <1>2, <1>3, <1>4, <1>5, StartedTypedNext
<1> QED
  BY <1>2, <1>3, <1>6

\* Every step of run() is of one of five kinds.
LEMMA StepKinds ==
  ASSUME TInv, Step
  PROVE  /\ status = "running"
         /\ TInv' /\ (Moves \/ Stops \/ Calls \/ Returns \/ Links)
<1>1. status = "running"
  BY DEF Step, LoadConst, LoadName, LoadUnboundName, StoreName, LoadFast, StoreFast, PopTop, DupTop,
         BinaryOp, UnaryOp, InplaceOp, ConditionalJump, JumpAbsolute, NoOperation, Halt,
         CallUncallable, CallNative, CallInterpreted, ReturnValue, PrintLine, ImportName, Fetch
<1>2. CASE LoadConst
  BY <1>1, <1>2, LoadConstStep
<1>3. CASE LoadName
  BY <1>1, <1>3, LoadNameStep
<1>4. CASE LoadUnboundName
  BY <1>1, <1>4, LoadUnboundNameStep
<1>5. CASE StoreName
  BY <1>1, <1>5, StoreNameStep
<1>6. CASE LoadFast
  BY <1>1, <1>6, LoadFastStep
<1>7. CASE StoreFast
  BY <1>1, <1>7, StoreFastStep
<1>8. CASE PopTop
  BY <1>1, <1>8, PopTopStep
<1>9. CASE DupTop
  BY <1>1, <1>9, DupTopStep
<1>10. CASE BinaryOp
  BY <1>1, <1>10, BinaryOpStep
<1>11. CASE UnaryOp
  BY <1>1, <1>11, UnaryOpStep
<1>12. CASE InplaceOp
  BY <1>1, <1>12, InplaceOpStep
<1>13. CASE ConditionalJump \/ JumpAbsolute \/ NoOperation
  BY <1>1, <1>13, JumpStep
<1>14. CASE Halt
  BY <1>1, <1>14, HaltStep
<1>15. CASE CallUncallable
  BY <1>1, <1>15, CallUncallableStep
<1>16. CASE CallNative
  BY <1>1, <1>16, CallNativeStep
<1>17. CASE CallInterpreted
  BY <1>1, <1>17, CallInterpretedStep
<1>18. CASE ReturnValue
  BY <1>1, <1>18, ReturnValueStep
<1>19. CASE PrintLine
  BY <1>1, <1>19, PrintLineStep
<1>20. CASE ImportName
  BY <1>1, <1>20, ImportNameStep
<1> QED
  BY <1>1, <1>2, <1>3, <1>4, <1>5, <1>6, <1>7, <1>8, <1>9, <1>10, <1>11, <1>12, <1>13, <1>14,
     <1>15, <1>16, <1>17, <1>18, <1>19, <1>20 DEF Step

\* A step that changes nothing.
LEMMA StutterTyped ==
  ASSUME TInv, UNCHANGED vars
  PROVE  TInv'
BY DEF vars, TInv, MachineInv, NamesInv, NamesCovered, FramesInv, TableInv, PatchSafe

\* Every step of the machine keeps the invariant.
LEMMA NextTyped ==
  ASSUME TInv, [Next]_vars
  PROVE  TInv'
<1>1. CASE Step
  BY <1>1, StepKinds
<1>2. CASE ExecuteAgain
  BY <1>2, ExecuteAgainTyped
<1>3. CASE UNCHANGED vars
  BY <1>3, StutterTyped
<1> QED
  BY <1>1, <1>2, <1>3 DEF Next, Finished

----------------------------------------------------------------------------------
(* The theorems. *)

\* Whatever programs and modules the compiler makes, and however often
\* execute() is called: the values, frames, code and native functions of the
\* VM (vm.cpp) are those TInv describes, also while modules are being linked.
THEOREM Typed == Spec => []TInv
<1>1. Init => TInv
  BY InitTyped
<1>2. TInv /\ [Next]_vars => TInv'
  BY NextTyped
<1> QED
  BY <1>1, <1>2, PTL DEF Spec

\* The type invariant of the VM: every variable of run() has its type.
THEOREM TypesAreCorrect == Spec => []TypeOK
<1>1. TInv => TypeOK
  <2> SUFFICES ASSUME TInv PROVE TypeOK
    OBVIOUS
  <2>1. IsCompiledCode(code) /\ Len(frames) > 0
    BY TypesOfParts DEF TInv, FramesInv
  <2>2. \A s : Values(code, s) => \A i \in 1 .. Len(s) : s[i].t \in Tags
    BY DEF Values, IsValue
  <2>3. ASSUME NEW k \in 1 .. Len(frames)
        PROVE  /\ frames[k].ret \in Nat /\ frames[k].bottom \in Nat
               /\ Len(frames[k].locals) \in Nat \ {0}
               /\ \A i \in 1 .. Len(frames[k].locals) : frames[k].locals[i].t \in Tags
    <3>1. /\ frames[k].ret \in Nat /\ frames[k].bottom \in Nat
          /\ Values(code, frames[k].locals) /\ Len(frames[k].locals) > 0
      BY DEF TInv, FramesInv
    <3>2. Len(frames[k].locals) \in Nat
      BY <3>1 DEF Values, IsSeq
    <3> QED
      BY <2>2, <3>1, <3>2
  <2>4. \A i \in 1 .. Len(globals) : globals[i].t \in Tags
    BY <2>2 DEF TInv
  <2>5. \A i \in 1 .. Len(stack) : stack[i].t \in Tags
    BY <2>2 DEF TInv
  <2> QED
    BY <2>1, <2>3, <2>4, <2>5 DEF TypeOK, TInv, MachineInv, TableInv
<1> QED
  BY <1>1, Typed, PTL

\* Linking (vm.cpp, IMPORT_NAME) moves every function together with the jump
\* in front of it, so the JIT's search for the end of a function stays right.
THEOREM LinkingKeepsFunctions == Spec => []FunctionsDelimited
<1>1. TInv => FunctionsDelimited
  BY DEF TInv, IsLinked, FunctionsDelimited
<1> QED
  BY <1>1, Typed, PTL

\* JitCompiler::compile never patches the address of the code into a base
\* value, in any execution: the compiler gives no base value the index 0, and
\* linking only raises the indices.
THEOREM PatchingIsSafe == Spec => []PatchSafe
<1>1. TInv => PatchSafe
  BY DEF TInv, TableInv
<1> QED
  BY <1>1, Typed, PTL

\* In the first execute() of a VM the native code that is remembered for an
\* entry point is what the JIT would make of the code as it is now, however
\* much has been linked to it since.  (In a later execute() it need not be:
\* the table is not cleared.)
THEOREM FirstRunCacheIsCurrent == Spec => []((runs = 1) => JitCacheCurrent)
<1>1. TInv => ((runs = 1) => JitCacheCurrent)
  BY DEF TInv, TableInv, JitCacheCurrent
<1> QED
  BY <1>1, Typed, PTL

\* In a VM whose execute() is called once, as main.cpp does for a script, the
\* table of the JIT is always current.
THEOREM CacheIsCurrent ==
  ASSUME MaxRuns = 1
  PROVE  Spec => []JitCacheCurrent
<1>1. TInv => JitCacheCurrent
  <2> SUFFICES ASSUME TInv PROVE JitCacheCurrent
    OBVIOUS
  <2>1. runs = 1
    BY DEF TInv, MachineInv
  <2> QED
    BY <2>1 DEF TInv, TableInv, JitCacheCurrent
<1> QED
  BY <1>1, Typed, PTL
===================================================================================
