---------------------------- MODULE VmBalance_proofs ----------------------------
(****************************************************************************)
(* Proofs about VmBalance: in a clean program called as it is defined the   *)
(* height of the operand stack is known at every moment, a return leaves    *)
(* one value where the call's operands were, a halt leaves nothing, and the *)
(* machine implements CallStack, where every call has a stack of its own.   *)
(****************************************************************************)
EXTENDS VmBalance, VmSafety_proofs

---------------------------------------------------------------------------------
(* BInv is preserved: one lemma per kind of step. *)

\* The machine runs code that is exactly certified.
Balanced(depth, room) == TInv /\ IsExact(code, depth, room) /\ Exact(depth, room)

\* What the exact certificate says of the current instruction.
LEMMA ExactInstr ==
  ASSUME NEW depth, NEW room, Balanced(depth, room), status = "running"
  PROVE  /\ \A s \in Successors(Here, pc, room[pc] # 0) :
              depth[s] \in Nat /\ depth[s] + Needs(Here) = depth[pc] + Gives(Here)
         /\ Here.op # "IMPORT_NAME"
         /\ Here.op = "RETURN_VALUE" /\ Len(frames) > 1 => depth[pc] = 1
         /\ Here.op = "HALT" => depth[pc] = 0 /\ Len(frames) = 1
         /\ depth[pc] \in Nat /\ Needs(Here) \in Nat /\ Gives(Here) \in Nat
         /\ Needs(Here) <= depth[pc]
         /\ TInv /\ Len(frames) \in Nat \ {0}
<1>1. TInv /\ IsExact(code, depth, room) /\ Certified(depth, room)
  BY DEF Balanced, Exact
<1>2. /\ pc \in DOMAIN depth /\ depth[pc] \in Nat
      /\ Needs(Here) \in Nat /\ Gives(Here) \in Nat /\ Needs(Here) <= depth[pc]
      /\ \A s \in Successors(Here, pc, room[pc] # 0) : Flows(Here, depth, room, pc, s)
  BY <1>1, CurrentInstr
<1>3. (room[pc] # 0) <=> (Len(frames) > 1)
  BY <1>1, RoomTellsFunctions
<1>4. Len(frames) \in Nat \ {0} /\ (~(Len(frames) > 1) => Len(frames) = 1)
  <2>1. \A n \in Nat \ {0} : ~(n > 1) => n = 1
    OBVIOUS
  <2> QED
    BY <1>1, <2>1, TypesOfParts, Zenon
<1>5. /\ Here.op # "IMPORT_NAME"
      /\ \A s \in Successors(Here, pc, room[pc] # 0) : depth[s] + Needs(Here) = depth[pc] + Gives(Here)
      /\ Here.op = "RETURN_VALUE" /\ room[pc] # 0 => depth[pc] = 1
      /\ Here.op = "HALT" => depth[pc] = 0 /\ room[pc] = 0
  BY <1>1, <1>2, Zenon DEF IsExact, Here
<1>6. ASSUME NEW s \in Successors(Here, pc, room[pc] # 0) PROVE depth[s] \in Nat
  <2>1. s \in DOMAIN depth
    BY <1>2 DEF Flows
  <2> QED
    BY <1>1, <2>1, DepthIsNat DEF Certified
<1> QED
  BY <1>1, <1>2, <1>3, <1>4, <1>5, <1>6

\* The height of the stack, when it is known.
LEMMA ExactHeight ==
  ASSUME NEW depth, NEW room, Balanced(depth, room), status = "running"
  PROVE  /\ Len(stack) = Frame.bottom + depth[pc]
         /\ Len(stack) \in Nat /\ Frame.bottom \in Nat
         /\ frames[1].bottom = 0
<1>1. TInv /\ CurrentExact(depth) /\ CallersExact(depth)
  BY DEF Balanced, Exact
<1>2. Len(stack) \in Nat /\ Frame.bottom \in Nat
  BY <1>1, TypesOfParts
<1> QED
  BY <1>1, <1>2 DEF CurrentExact, CallersExact

\* The callers of a frame that stays are as exact as they were.
LEMMA SameCallersExact ==
  ASSUME NEW depth, TInv, CallersExact(depth), SameCallers
  PROVE  CallersExact(depth)'
<1> DEFINE n == Len(frames)
<1>1. n \in Nat \ {0} /\ Len(frames') = n
  BY TypesOfParts DEF SameCallers
<1>2. ASSUME NEW k \in 1 .. n
      PROVE  frames'[k].ret = frames[k].ret /\ frames'[k].bottom = frames[k].bottom
  <2>1. CASE k = n
    BY <1>1, <2>1 DEF SameCallers, Frame
  <2>2. CASE k \in 1 .. n - 1
    BY <2>2 DEF SameCallers
  <2> QED
    BY <1>1, <2>1, <2>2
<1>3. frames'[1].bottom = 0
  BY <1>1, <1>2 DEF CallersExact
<1>4. ASSUME NEW k \in 2 .. n
      PROVE  frames'[k].bottom + 1 = frames'[k - 1].bottom + depth[frames'[k].ret]
  <2>1. k \in 1 .. n /\ k - 1 \in 1 .. n
    BY <1>1
  <2> QED
    BY <1>2, <2>1 DEF CallersExact
<1>5. \A j, k \in 1 .. n : j <= k => frames'[j].bottom <= frames'[k].bottom
  BY <1>2 DEF CallersExact
<1> QED
  BY <1>1, <1>3, <1>4, <1>5 DEF CallersExact

\* Going on in the current frame.
LEMMA MovesExact ==
  ASSUME NEW depth, NEW room, Balanced(depth, room), TInv', status = "running", Moves
  PROVE  Exact(depth, room)'
<1>1. TInv /\ Certified(depth, room) /\ CallersExact(depth)
  BY DEF Balanced, Exact
<1>2. Certified(depth, room)'
  BY <1>1, MovesCertified
<1>3. CallersExact(depth)'
  BY <1>1, SameCallersExact DEF Moves
<1>4. CurrentExact(depth)'
  <2>1. pc' \in Successors(Here, pc, room[pc] # 0)
    BY <1>1, RoomTellsFunctions DEF Moves
  <2>2. /\ depth[pc'] \in Nat /\ depth[pc'] + Needs(Here) = depth[pc] + Gives(Here)
        /\ depth[pc] \in Nat /\ Needs(Here) \in Nat /\ Gives(Here) \in Nat
    BY <2>1, ExactInstr
  <2>3. Len(stack) = Frame.bottom + depth[pc] /\ Len(stack) \in Nat /\ Frame.bottom \in Nat
    BY ExactHeight
  <2>4. Len(stack') \in Nat /\ Len(stack') + Needs(Here) = Len(stack) + Gives(Here)
    BY NextStack DEF Moves
  <2>5. Len(stack') = Frame.bottom + depth[pc']
    <3> DEFINE before == Len(stack)
               after  == Len(stack')
               needs  == Needs(Here)
               gives  == Gives(Here)
               bottom == Frame.bottom
               d      == depth[pc]
               e      == depth[pc']
    <3>1. /\ before \in Nat /\ after \in Nat /\ needs \in Nat /\ gives \in Nat
          /\ bottom \in Nat /\ d \in Nat /\ e \in Nat
          /\ after + needs = before + gives /\ before = bottom + d /\ e + needs = d + gives
      BY <2>2, <2>3, <2>4
    <3> HIDE DEF before, after, needs, gives, bottom, d, e
    <3>2. after = bottom + e
      BY <3>1
    <3> QED
      BY <3>2, Zenon DEF after, bottom, e
  <2>6. Frame'.bottom = Frame.bottom
    BY DEF Moves, SameCallers
  <2> QED
    BY <2>5, <2>6 DEF CurrentExact
<1>5. HaltedExact'
  BY DEF Moves, HaltedExact
<1> QED
  BY <1>2, <1>3, <1>4, <1>5 DEF Exact

\* A halt finds the stack empty; after an error nothing is asked of it.
LEMMA StopsExact ==
  ASSUME NEW depth, NEW room, Balanced(depth, room), status = "running", Stops
  PROVE  Exact(depth, room)'
<1>1. TInv /\ Certified(depth, room) /\ CallersExact(depth)
  BY DEF Balanced, Exact
<1>2. Certified(depth, room)'
  BY <1>1, StopsCertified
<1>3. CallersExact(depth)'
  BY <1>1, SameCallersExact, UnchangedFrames DEF Stops
<1>4. CurrentExact(depth)'
  BY DEF Stops, Errors, CurrentExact
<1>5. HaltedExact'
  <2> SUFFICES ASSUME status' = "halted" PROVE Len(frames) = 1 /\ stack = <<>>
    BY DEF HaltedExact, Stops
  <2>1. Here.op = "HALT"
    BY DEF Stops, Errors
  <2>2. depth[pc] = 0 /\ Len(frames) = 1
    BY <2>1, ExactInstr
  <2>3. Len(stack) = Frame.bottom + depth[pc] /\ Frame.bottom = 0
    BY <2>2, ExactHeight DEF Frame
  <2>4. Len(stack) = 0
    BY <2>2, <2>3
  <2>5. stack = <<>>
    BY <1>1, <2>4, TypesOfParts, EmptyIsSeq, SeqExtensional
  <2> QED
    BY <2>2, <2>5
<1> QED
  BY <1>2, <1>3, <1>4, <1>5 DEF Exact

\* With arguments that fit, a call takes everything it was made of.
LEMMA CallTakes ==
  ASSUME TInv, TInv', ArgumentsFit, status = "running", Calls
  PROVE  /\ Len(stack') = Len(stack) - (Here.arg + 1) /\ Needs(Here) = Here.arg + 1
         /\ Here.arg \in Nat /\ Len(stack) \in Nat /\ Len(stack') \in Nat
<1>1. Len(stack) \in Nat /\ Len(stack') \in Nat
  BY TypesOfParts, NextStack
<1>2. /\ Here.arg \in Nat /\ Needs(Here) = Here.arg + 1
      /\ Len(stack') = Len(stack) - (IF Peek(1).slots > 0 THEN 1 + Here.arg ELSE 1)
  BY DEF Calls
<1>3. Here.arg = 0 \/ Peek(1).slots > 0
  BY DEF ArgumentsFit, Calls
<1> QED
  BY <1>1, <1>2, <1>3

\* A call: the callee starts with nothing, its caller waits for the result.
LEMMA CallExact ==
  ASSUME NEW depth, NEW room, Balanced(depth, room), TInv', ArgumentsFit, status = "running", Calls
  PROVE  Exact(depth, room)'
<1> DEFINE n   == Len(frames)
           top == Len(frames) + 1
<1>1. TInv /\ Certified(depth, room) /\ CallersExact(depth)
  BY DEF Balanced, Exact
<1>2. Certified(depth, room)'
  BY <1>1, CallsCertified
<1>3. /\ n \in Nat \ {0} /\ n \in 1 .. n /\ 1 \in 1 .. n /\ Len(frames') = top
      /\ \A k \in 1 .. n : frames'[k] = frames[k]
      /\ Frame' = frames'[top] /\ frames'[top].ret = pc + 1 /\ frames'[top].bottom = Len(stack')
  BY <1>1, TypesOfParts DEF Calls, Frame
<1>4. Len(stack') + 1 = Frame.bottom + depth[pc + 1] /\ Frame.bottom <= Len(stack')
  <2>1. /\ Len(stack') = Len(stack) - (Here.arg + 1) /\ Needs(Here) = Here.arg + 1
        /\ Here.arg \in Nat /\ Len(stack) \in Nat /\ Len(stack') \in Nat
    BY <1>1, CallTakes
  <2>2. pc + 1 \in Successors(Here, pc, room[pc] # 0) /\ Gives(Here) = 1
    BY DEF Calls, Successors, CondJump
  <2>3. /\ depth[pc + 1] \in Nat /\ depth[pc + 1] + Needs(Here) = depth[pc] + Gives(Here)
        /\ depth[pc] \in Nat /\ Needs(Here) <= depth[pc]
    BY <2>2, ExactInstr
  <2>4. depth[pc + 1] + (Here.arg + 1) = depth[pc] + 1 /\ Here.arg + 1 <= depth[pc]
    BY <2>1, <2>2, <2>3, Zenon
  <2>5. Len(stack) = Frame.bottom + depth[pc] /\ Frame.bottom \in Nat
    BY ExactHeight
  <2> QED
    <3> DEFINE before == Len(stack)
               after  == Len(stack')
               args   == Here.arg
               bottom == Frame.bottom
               d      == depth[pc]
               e      == depth[pc + 1]
    <3>1. /\ before \in Nat /\ after \in Nat /\ args \in Nat
          /\ bottom \in Nat /\ d \in Nat /\ e \in Nat
          /\ after = before - (args + 1) /\ before = bottom + d
          /\ e + (args + 1) = d + 1 /\ args + 1 <= d
      BY <2>1, <2>3, <2>4, <2>5
    <3> HIDE DEF before, after, args, bottom, d, e
    <3>2. after + 1 = bottom + e /\ bottom <= after
      BY <3>1
    <3> QED
      BY <3>2, Zenon DEF after, bottom, e
<1>5. CallersExact(depth)'
  <2>1. frames'[1].bottom = 0
    BY <1>1, <1>3 DEF CallersExact
  <2>2. ASSUME NEW k \in 2 .. top
        PROVE  frames'[k].bottom + 1 = frames'[k - 1].bottom + depth[frames'[k].ret]
    <3>1. CASE k = top
      <4>1. k - 1 = n /\ frames'[n].bottom = Frame.bottom
        BY <1>3, <3>1 DEF Frame
      <4> QED
        BY <1>3, <1>4, <3>1, <4>1, Zenon
    <3>2. CASE k \in 2 .. n
      <4>1. k \in 1 .. n /\ k - 1 \in 1 .. n
        BY <1>3, <3>2
      <4> QED
        BY <1>1, <1>3, <3>2, <4>1 DEF CallersExact
    <3> QED
      BY <1>3, <3>1, <3>2
  <2>3. ASSUME NEW j \in 1 .. top, NEW k \in 1 .. top, j <= k
        PROVE  frames'[j].bottom <= frames'[k].bottom
    <3>1. Len(stack') \in Nat
      BY NextStack
    <3>2. CASE k \in 1 .. n
      <4>1. j \in 1 .. n
        BY <1>3, <2>3, <3>2
      <4> QED
        BY <1>1, <1>3, <2>3, <3>2, <4>1 DEF CallersExact
    <3>3. CASE k = top /\ j \in 1 .. n
      <4>1. frames[j].bottom <= Frame.bottom
        BY <1>1, <1>3, <3>3 DEF CallersExact, Frame
      <4>2. frames[j].bottom \in Nat /\ Frame.bottom \in Nat
        BY <1>1, <3>3, FramesAreTyped, TypesOfParts
      <4>3. \A x, y, z \in Nat : x <= y /\ y <= z => x <= z
        OBVIOUS
      <4> QED
        BY <1>3, <1>4, <3>1, <3>3, <4>1, <4>2, <4>3, Zenon
    <3>4. CASE k = top /\ j = top
      BY <1>3, <3>1, <3>4
    <3> QED
      BY <1>3, <3>2, <3>3, <3>4
  <2> QED
    BY <1>3, <2>1, <2>2, <2>3 DEF CallersExact
<1>6. CurrentExact(depth)'
  <2>1. depth[pc'] = 0
    BY <1>1, CertifiedFunction DEF Calls
  <2>2. Len(stack') + 0 = Len(stack')
    BY NextStack
  <2> QED
    BY <1>3, <2>1, <2>2 DEF CurrentExact
<1>7. HaltedExact'
  BY DEF HaltedExact, Calls
<1> QED
  BY <1>2, <1>5, <1>6, <1>7 DEF Exact

\* The result is the one operand that the caller is missing.
LEMMA ReturnExact ==
  ASSUME NEW depth, NEW room, Balanced(depth, room), status = "running", Returns
  PROVE  Exact(depth, room)' /\ Len(stack) = Frame.bottom + 1
<1> DEFINE n == Len(frames)
<1>1. TInv /\ Certified(depth, room) /\ CallersExact(depth)
  BY DEF Balanced, Exact
<1>2. Certified(depth, room)'
  BY <1>1, ReturnsCertified
<1>3. /\ n \in Nat /\ n > 1 /\ Len(frames') = n - 1
      /\ \A k \in 1 .. n - 1 : frames'[k] = frames[k]
      /\ pc' = Frame.ret /\ Here.op = "RETURN_VALUE"
      /\ UNCHANGED <<stack, status>>
  BY <1>1, TypesOfParts DEF Returns
<1>4. Len(stack) = Frame.bottom + 1
  <2>1. depth[pc] = 1
    BY <1>3, ExactInstr
  <2> QED
    BY <2>1, ExactHeight
<1>5. Frame.bottom + 1 = frames[n - 1].bottom + depth[Frame.ret]
  <2>1. n \in 2 .. Len(frames)
    BY <1>3
  <2> QED
    BY <1>1, <2>1 DEF CallersExact, Frame
<1>6. CallersExact(depth)'
  <2>1. ASSUME NEW k \in 2 .. n - 1
        PROVE  frames'[k].bottom + 1 = frames'[k - 1].bottom + depth[frames'[k].ret]
    <3>1. k \in 1 .. n - 1 /\ k - 1 \in 1 .. n - 1 /\ k \in 2 .. Len(frames)
      BY <1>3
    <3> QED
      BY <1>1, <1>3, <3>1 DEF CallersExact
  <2>2. 1 \in 1 .. n - 1
    BY <1>3
  <2>3. \A j, k \in 1 .. n - 1 : j <= k => frames'[j].bottom <= frames'[k].bottom
    <3>1. \A k \in 1 .. n - 1 : k \in 1 .. Len(frames)
      BY <1>3
    <3> QED
      BY <1>1, <1>3, <3>1 DEF CallersExact
  <2> QED
    BY <1>1, <1>3, <2>1, <2>2, <2>3 DEF CallersExact
<1>7. CurrentExact(depth)'
  <2>1. n - 1 \in 1 .. n - 1
    BY <1>3
  <2>2. Frame' = frames[n - 1]
    BY <1>3, <2>1 DEF Frame
  <2> QED
    BY <1>3, <1>4, <1>5, <2>2 DEF CurrentExact
<1>8. HaltedExact'
  BY <1>3 DEF HaltedExact
<1> QED
  BY <1>2, <1>4, <1>6, <1>7, <1>8 DEF Exact

\* The start of an execution is exact.
LEMMA StartedExact ==
  ASSUME NEW p, Started(p)
  PROVE  Exact(Depth[p], Room[p])
<1>1. Len(frames) = 1 /\ frames[1].bottom = 0 /\ stack = <<>> /\ pc = 0 /\ status = "running"
  BY DEF Started, MainFrame, NewFrame
<1>2. Depth[p][0] = 0
  BY CertifiedPrograms DEF Started, IsCertificate
<1>3. CallersExact(Depth[p]) /\ HaltedExact
  BY <1>1 DEF CallersExact, HaltedExact
<1>4. CurrentExact(Depth[p])
  BY <1>1, <1>2, EmptyIsSeq DEF CurrentExact, Frame
<1> QED
  BY <1>3, <1>4, StartedCertified DEF Exact

\* The same of the state after a step.
LEMMA StartedExactNext ==
  ASSUME NEW p
  PROVE  Started(p)' => Exact(Depth[p], Room[p])'
<1>1. Started(p) => Exact(Depth[p], Room[p])
  BY StartedExact
<1> QED
  BY <1>1, PTL

\* BInv makes a clean program balanced: the certificate that Safety only knows
\* to exist is the program's own.
LEMMA CleanIsBalanced ==
  ASSUME TInv, BInv, prog \in Clean
  PROVE  ArgumentsFit /\ Balanced(Depth[prog], Room[prog])
  BY CleanPrograms DEF BInv, OwnCode, Balanced

\* A step of balanced code keeps it so.
LEMMA StepExact ==
  ASSUME NEW depth, NEW room, Balanced(depth, room), ArgumentsFit, Step
  PROVE  Exact(depth, room)' /\ UNCHANGED <<prog, code>>
<1>1. TInv
  BY DEF Balanced
<1>2. TInv' /\ status = "running" /\ (Moves \/ Stops \/ Calls \/ Returns \/ Links)
  BY <1>1, StepKinds
<1>3. ~Links
  BY <1>2, ExactInstr DEF Links
<1>4. UNCHANGED <<prog, code>>
  BY <1>2, <1>3 DEF Moves, Stops, Calls, Returns, loaded
<1> QED
  BY <1>2, <1>3, <1>4, MovesExact, StopsExact, CallExact, ReturnExact

\* BInv of the state after a step that runs p.
LEMMA ExactNext ==
  ASSUME NEW p
  PROVE  (Fits /\ prog = p /\ (p \in Clean => code = Programs[p] /\ Exact(Depth[p], Room[p])) => BInv)'
<1>1. Fits /\ prog = p /\ (p \in Clean => code = Programs[p] /\ Exact(Depth[p], Room[p])) => BInv
  BY DEF Fits, BInv, OwnCode
<1> QED
  BY <1>1, PTL

\* Every step keeps a clean program exact, as long as its arguments fit.
LEMMA NextExact ==
  ASSUME TInv, TInv', Fits', BInv, [Next]_vars
  PROVE  BInv'
<1>1. PICK p : p = prog'
  OBVIOUS
<1> SUFFICES ASSUME p \in Clean PROVE code' = Programs[p] /\ Exact(Depth[p], Room[p])'
  BY <1>1, ExactNext DEF Fits
<1>2. CASE Step \/ UNCHANGED vars
  <2>1. prog' = prog
    <3>1. CASE Step
      <4>1. Moves \/ Stops \/ Calls \/ Returns \/ Links
        BY <3>1, StepKinds
      <4> QED
        BY <4>1 DEF Moves, Stops, Calls, Returns, Links, loaded
    <3> QED
      BY <1>2, <3>1 DEF vars
  <2>2. ArgumentsFit /\ Balanced(Depth[p], Room[p]) /\ code = Programs[p]
    BY <1>1, <2>1, CleanIsBalanced DEF BInv, OwnCode
  <2>3. CASE Step
    BY <2>2, <2>3, StepExact
  <2>4. CASE UNCHANGED vars
    BY <2>2, <2>4
       DEF Balanced, Exact, CallersExact, CurrentExact, HaltedExact, Frame, Certified, OwnUpdates,
           CallersInv, CurrentInv, RoomOf, vars
  <2> QED
    BY <1>2, <2>3, <2>4
<1>3. CASE ExecuteAgain
  <2>1. Started(p)'
    BY <1>1, <1>3, ExecuteAgainTyped
  <2> QED
    BY <2>1, StartedExactNext DEF Started
<1> QED
  BY <1>2, <1>3 DEF Next, Finished

---------------------------------------------------------------------------------
(* The theorems. *)

\* In a clean program called as it is defined, the height of the operand stack
\* is what the certificate says, in the current frame and under every caller.
THEOREM Balance == Spec /\ []Fits => []BInv
<1>1. Init /\ Fits => BInv
  <2> SUFFICES ASSUME Init, Fits, prog \in Clean PROVE OwnCode /\ Exact(Depth[prog], Room[prog])
    BY DEF Fits, BInv
  <2>1. Started(prog)
    BY InitTyped
  <2> QED
    BY <2>1, StartedExact DEF Started, OwnCode
<1>2. TInv /\ TInv' /\ Fits' /\ BInv /\ [Next]_vars => BInv'
  BY NextExact
<1> QED
  BY <1>1, <1>2, Typed, PTL DEF Spec

\* A return leaves exactly its result where the operands of the call were, and
\* the caller goes on behind the call (RETURN_VALUE in vm.cpp only drops the frame).
THEOREM ReturnsRestore == Spec /\ []Tidy => ReturnRestores
<1>1. TInv /\ BInv /\ Tidy /\ [Next]_vars =>
        [Len(frames') < Len(frames) /\ runs' = runs =>
           Len(stack') = Frame.bottom + 1 /\ pc' = Frame.ret]_vars
  <2> SUFFICES ASSUME TInv, BInv, Tidy, Next, Len(frames') < Len(frames), runs' = runs
               PROVE  Len(stack') = Frame.bottom + 1 /\ pc' = Frame.ret
    OBVIOUS
  <2>1. Balanced(Depth[prog], Room[prog]) /\ Len(frames) \in Nat
    BY CleanIsBalanced, TypesOfParts DEF Tidy
  <2>2. ~ExecuteAgain
    <3>1. runs \in Nat
      BY MaxRunsAssumption DEF TInv, MachineInv
    <3> QED
      BY <3>1 DEF ExecuteAgain, Execute
  <2>3. ~UNCHANGED frames
    BY <2>1
  <2>4. status = "running" /\ (Moves \/ Stops \/ Calls \/ Returns \/ Links)
    BY <2>2, <2>3, StepKinds DEF Next, Finished, vars
  <2>5. Returns
    BY <2>1, <2>3, <2>4 DEF Moves, SameCallers, Stops, Calls, Links
  <2>6. stack' = stack /\ pc' = Frame.ret
    BY <2>5 DEF Returns
  <2> QED
    BY <2>1, <2>4, <2>5, <2>6, ReturnExact
<1>2. Tidy => Fits
  BY DEF Tidy, Fits
<1> QED
  BY <1>1, <1>2, Typed, Balance, PTL DEF Spec, ReturnRestores

\* A program that halts has left every call and has nothing on the stack (HALT
\* in vm.cpp looks at neither).
THEOREM HaltsAreClean == Spec /\ []Tidy => []HaltsClean
<1>1. BInv /\ Tidy => HaltsClean
  BY DEF BInv, Exact, Tidy, HaltedExact, HaltsClean
<1>2. Tidy => Fits
  BY DEF Tidy, Fits
<1> QED
  BY <1>1, <1>2, Balance, PTL

---------------------------------------------------------------------------------
(* The refinement: what the steps do to the calls of CallStack. *)

\* A call starts no lower than its callers.
Ordered == \A j, k \in 1 .. Len(frames) : j <= k => frames[j].bottom <= frames[k].bottom

\* The elements of a part of a sequence.
LEMMA SliceFacts ==
  ASSUME NEW s, IsSeq(s), NEW a \in Nat, NEW b \in Nat, a <= b, b <= Len(s)
  PROVE  /\ IsSeq(SubSeq(s, a + 1, b))
         /\ Len(SubSeq(s, a + 1, b)) = b - a
         /\ \A i \in 1 .. b - a : SubSeq(s, a + 1, b)[i] = s[a + i]
<1> DEFINE S == {s[i] : i \in 1 .. Len(s)}
<1>1. a + 1 \in Int /\ b \in Int /\ \A i \in a + 1 .. b : s[i] \in S
  BY DEF IsSeq
<1> HIDE DEF S
<1>2. /\ SubSeq(s, a + 1, b) \in Seq(S)
      /\ Len(SubSeq(s, a + 1, b)) = IF a + 1 <= b THEN b - (a + 1) + 1 ELSE 0
      /\ \A i \in 1 .. b - (a + 1) + 1 : SubSeq(s, a + 1, b)[i] = s[(a + 1) + i - 1]
  BY <1>1, SubSeqProperties
<1>3. IsSeq(SubSeq(s, a + 1, b))
  BY <1>2, SeqIsSeq
<1>4. /\ (IF a + 1 <= b THEN b - (a + 1) + 1 ELSE 0) = b - a
      /\ b - (a + 1) + 1 = b - a
      /\ \A i \in 1 .. b - a : (a + 1) + i - 1 = a + i
  OBVIOUS
<1> QED
  BY <1>2, <1>3, <1>4

\* Parts of sequences that agree up to their end are equal.
LEMMA SameSlices ==
  ASSUME NEW s, IsSeq(s), NEW u, IsSeq(u), NEW a \in Nat, NEW b \in Nat, a <= b,
         b <= Len(s), b <= Len(u), \A i \in 1 .. b : s[i] = u[i]
  PROVE  SubSeq(s, a + 1, b) = SubSeq(u, a + 1, b)
<1>1. /\ IsSeq(SubSeq(s, a + 1, b)) /\ Len(SubSeq(s, a + 1, b)) = b - a
      /\ \A i \in 1 .. b - a : SubSeq(s, a + 1, b)[i] = s[a + i]
  BY SliceFacts
<1>2. /\ IsSeq(SubSeq(u, a + 1, b)) /\ Len(SubSeq(u, a + 1, b)) = b - a
      /\ \A i \in 1 .. b - a : SubSeq(u, a + 1, b)[i] = u[a + i]
  BY SliceFacts
<1>3. \A i \in 1 .. b - a : a + i \in 1 .. b
  OBVIOUS
<1>4. \A i \in 1 .. b - a : SubSeq(s, a + 1, b)[i] = SubSeq(u, a + 1, b)[i]
  BY <1>1, <1>2, <1>3
<1> QED
  BY <1>1, <1>2, <1>4, SeqExtensional

\* The calls are as many as the frames.
LEMMA CallsFacts ==
  ASSUME TInv
  PROVE  /\ IsSeq(OpenCalls) /\ Len(OpenCalls) = Len(frames) /\ Len(frames) \in Nat \ {0}
         /\ \A k \in 1 .. Len(frames) :
              OpenCalls[k] = [ops |-> OwnOperands(k), locals |-> frames[k].locals,
                          ret |-> frames[k].ret]
<1>1. Len(frames) \in Nat \ {0}
  BY TypesOfParts
<1>2. /\ OpenCalls = [k \in 1 .. Len(frames) |-> OpenCalls[k]]
      /\ \A k \in 1 .. Len(frames) :
           OpenCalls[k] = [ops |-> OwnOperands(k), locals |-> frames[k].locals, ret |-> frames[k].ret]
  BY DEF OpenCalls
<1> QED
  BY <1>1, <1>2, SeqFromFunction

\* The same of a primed state.
LEMMA CallsFactsNext ==
  ASSUME TInv'
  PROVE  /\ IsSeq(OpenCalls') /\ Len(OpenCalls') = Len(frames')
         /\ \A k \in 1 .. Len(frames') :
              OpenCalls'[k] = [ops |-> OwnOperands(k)', locals |-> frames'[k].locals,
                           ret |-> frames'[k].ret]
<1>1. Len(frames') \in Nat
  BY DEF TInv, FramesInv, IsSeq
<1>2. /\ OpenCalls' = [k \in 1 .. Len(frames') |-> OpenCalls'[k]]
      /\ \A k \in 1 .. Len(frames') :
           OpenCalls'[k] = [ops |-> OwnOperands(k)', locals |-> frames'[k].locals,
                        ret |-> frames'[k].ret]
  BY DEF OpenCalls
<1> QED
  BY <1>1, <1>2, SeqFromFunction

\* The fields of a call.
LEMMA CallFields ==
  ASSUME TInv, NEW k \in 1 .. Len(frames)
  PROVE  OpenCalls[k].ops = OwnOperands(k) /\ OpenCalls[k].ret = frames[k].ret
<1>1. OpenCalls[k] = [ops |-> OwnOperands(k), locals |-> frames[k].locals, ret |-> frames[k].ret]
  BY CallsFacts
<1> QED
  BY <1>1

\* The same of a primed state.
LEMMA CallFieldsNext ==
  ASSUME TInv', NEW k \in 1 .. Len(frames')
  PROVE  OpenCalls'[k].ops = OwnOperands(k)' /\ OpenCalls'[k].ret = frames'[k].ret
<1>1. OpenCalls'[k] = [ops |-> OwnOperands(k)', locals |-> frames'[k].locals, ret |-> frames'[k].ret]
  BY CallsFactsNext
<1> QED
  BY <1>1

\* The frames cut the stack at rising heights.
LEMMA HeightsRise ==
  ASSUME IInv, Ordered, status = "running", NEW k \in 1 .. Len(frames)
  PROVE  /\ frames[k].bottom \in Nat /\ frames[k].bottom <= Frame.bottom
         /\ Frame.bottom \in Nat /\ Len(stack) \in Nat /\ Frame.bottom <= Len(stack)
         /\ k < Len(frames) => /\ frames[k + 1].bottom \in Nat
                               /\ frames[k].bottom <= frames[k + 1].bottom
                               /\ frames[k + 1].bottom <= Frame.bottom
<1>1. Len(frames) \in Nat \ {0} /\ \A j \in 1 .. Len(frames) : frames[j].bottom \in Nat
  BY TypesOfParts, FramesAreTyped DEF IInv
<1>2. \A i, j \in 1 .. Len(frames) : i <= j => frames[i].bottom <= frames[j].bottom
  BY DEF Ordered
<1>3. Len(frames) \in 1 .. Len(frames) /\ (k < Len(frames) => k + 1 \in 1 .. Len(frames))
  BY <1>1
<1>4. Len(stack) \in Nat /\ Frame.bottom <= Len(stack)
  BY StackAgrees DEF Agrees, IsSeq
<1> QED
  BY <1>1, <1>2, <1>3, <1>4 DEF Frame

\* The calls below the first m + 1 frames stay if these frames do, and the stack
\* below the current frame.
LEMMA SameCalls ==
  ASSUME IInv, TInv', Ordered, status = "running", Agrees(stack'),
         NEW m \in Nat, m < Len(frames), m < Len(frames'),
         \A k \in 1 .. m : frames'[k] = frames[k],
         frames'[m + 1].bottom = frames[m + 1].bottom
  PROVE  /\ \A k \in 1 .. m : OpenCalls'[k] = OpenCalls[k]
         /\ SubSeq(OpenCalls', 1, m) = SubSeq(OpenCalls, 1, m)
<1>1. /\ IsSeq(OpenCalls) /\ Len(OpenCalls) = Len(frames) /\ Len(frames) \in Nat
      /\ IsSeq(OpenCalls') /\ Len(OpenCalls') = Len(frames') /\ Len(frames') \in Nat
  BY CallsFacts, CallsFactsNext DEF IInv, TInv, FramesInv, IsSeq
<1>2. ASSUME NEW k \in 1 .. m PROVE OwnOperands(k)' = OwnOperands(k)
  <2> DEFINE a == frames[k].bottom
             b == frames[k + 1].bottom
  <2>1. k \in 1 .. Len(frames) /\ k < Len(frames) /\ k # Len(frames')
    BY <1>1
  <2>2. a \in Nat /\ b \in Nat /\ a <= b /\ b <= Frame.bottom /\ Frame.bottom \in Nat
    BY <2>1, HeightsRise
  <2>3. frames'[k].bottom = a /\ frames'[k + 1].bottom = b
    <3>1. CASE k = m
      BY <3>1
    <3>2. CASE k # m
      <4>1. k + 1 \in 1 .. m
        BY <3>2
      <4> QED
        BY <4>1
    <3> QED
      BY <3>1, <3>2
  <2>4. OwnOperands(k)' = SubSeq(stack', a + 1, b)
    BY <2>1, <2>3, Zenon DEF OwnOperands
  <2>5. k # Len(frames)
    BY <1>1, <2>1
  <2>6. OwnOperands(k) = SubSeq(stack, a + 1, b)
    BY <2>5, Zenon DEF OwnOperands
  <2> HIDE DEF a, b
  <2>7. IsSeq(stack) /\ IsSeq(stack')
    BY StackAgrees DEF Agrees
  <2>8. /\ b <= Len(stack) /\ b <= Len(stack')
        /\ \A i \in 1 .. b : stack'[i] = stack[i]
    BY <2>2, <2>7, StackAgrees DEF Agrees, IsSeq
  <2>9. SubSeq(stack', a + 1, b) = SubSeq(stack, a + 1, b)
    BY <2>2, <2>7, <2>8, SameSlices
  <2> QED
    BY <2>4, <2>6, <2>9
<1>3. ASSUME NEW k \in 1 .. m PROVE OpenCalls'[k] = OpenCalls[k]
  <2>1. k \in 1 .. Len(frames) /\ k \in 1 .. Len(frames')
    BY <1>1
  <2> QED
    BY <1>2, <2>1, CallsFacts, CallsFactsNext DEF IInv
<1>4. m \in 0 .. Len(OpenCalls) /\ m \in 0 .. Len(OpenCalls')
  BY <1>1
<1>5. /\ IsSeq(SubSeq(OpenCalls, 1, m)) /\ Len(SubSeq(OpenCalls, 1, m)) = m
      /\ \A k \in 1 .. m : SubSeq(OpenCalls, 1, m)[k] = OpenCalls[k]
  BY <1>1, <1>4, PrefixIsSeq
<1>6. /\ IsSeq(SubSeq(OpenCalls', 1, m)) /\ Len(SubSeq(OpenCalls', 1, m)) = m
      /\ \A k \in 1 .. m : SubSeq(OpenCalls', 1, m)[k] = OpenCalls'[k]
  BY <1>1, <1>4, PrefixIsSeq
<1>7. SubSeq(OpenCalls', 1, m) = SubSeq(OpenCalls, 1, m)
  BY <1>3, <1>5, <1>6, SeqExtensional
<1> QED
  BY <1>3, <1>7

\* A step in the current frame is one of its call.
LEMMA MovesWork ==
  ASSUME IInv, TInv', Ordered, status = "running", Agrees(stack'), Moves
  PROVE  Separate!Work
<1> DEFINE n == Len(frames)
<1>1. /\ IsSeq(OpenCalls) /\ Len(OpenCalls) = n /\ n \in Nat \ {0}
      /\ Len(OpenCalls') = n /\ Len(frames') = n
      /\ OpenCalls[n].ret = Frame.ret /\ OpenCalls'[n].ret = Frame.ret
  <2>1. Len(frames') = n /\ Frame'.ret = Frame.ret
    BY DEF Moves, SameCallers
  <2>2. IsSeq(OpenCalls) /\ Len(OpenCalls) = n /\ n \in Nat \ {0} /\ Len(OpenCalls') = n
    BY <2>1, CallsFacts, CallsFactsNext DEF IInv
  <2>3. n \in 1 .. Len(frames) /\ n \in 1 .. Len(frames')
    BY <2>1, <2>2
  <2>4. OpenCalls[n].ret = frames[n].ret
    BY <2>3, CallFields DEF IInv
  <2>5. OpenCalls'[n].ret = frames'[n].ret
    BY <2>3, CallFieldsNext
  <2> QED
    BY <2>1, <2>2, <2>4, <2>5 DEF Frame
<1>2. SubSeq(OpenCalls', 1, n - 1) = SubSeq(OpenCalls, 1, n - 1)
  <2>1. n - 1 \in Nat /\ n - 1 < n /\ n - 1 + 1 = n
    BY <1>1
  <2>2. frames'[n].bottom = frames[n].bottom /\ \A k \in 1 .. n - 1 : frames'[k] = frames[k]
    BY <1>1 DEF Moves, SameCallers, Frame
  <2> QED
    BY <1>1, <2>1, <2>2, SameCalls
<1> QED
  BY <1>1, <1>2 DEF Separate!Work, Separate!NumCalls, Separate!Callers, Separate!Current

\* A part of a sequence is the beginning of a longer part.
LEMMA SliceOfLonger ==
  ASSUME NEW s, IsSeq(s), NEW u, IsSeq(u), NEW a \in Nat, NEW b \in Nat, NEW c \in Nat,
         a <= b, b <= c, b <= Len(u), c <= Len(s), \A i \in 1 .. b : u[i] = s[i]
  PROVE  /\ SubSeq(u, a + 1, b) = SubSeq(SubSeq(s, a + 1, c), 1, b - a)
         /\ Len(SubSeq(s, a + 1, c)) = c - a
<1> DEFINE t == SubSeq(s, a + 1, c)
           v == SubSeq(u, a + 1, b)
<1>1. IsSeq(t) /\ Len(t) = c - a /\ \A i \in 1 .. c - a : t[i] = s[a + i]
  <2>1. a <= c
    OBVIOUS
  <2> QED
    BY <2>1, SliceFacts
<1>2. IsSeq(v) /\ Len(v) = b - a /\ \A i \in 1 .. b - a : v[i] = u[a + i]
  BY SliceFacts
<1> HIDE DEF t, v
<1>3. b - a \in 0 .. Len(t)
  BY <1>1
<1>4. /\ IsSeq(SubSeq(t, 1, b - a)) /\ Len(SubSeq(t, 1, b - a)) = b - a
      /\ \A i \in 1 .. b - a : SubSeq(t, 1, b - a)[i] = t[i]
  BY <1>1, <1>3, PrefixIsSeq
<1>5. \A i \in 1 .. b - a : a + i \in 1 .. b /\ i \in 1 .. c - a
  OBVIOUS
<1>6. \A i \in 1 .. b - a : v[i] = SubSeq(t, 1, b - a)[i]
  BY <1>1, <1>2, <1>4, <1>5
<1>7. v = SubSeq(t, 1, b - a)
  BY <1>2, <1>4, <1>6, SeqExtensional
<1> QED
  BY <1>1, <1>7 DEF t, v

\* A part of a sequence and the element after it.
LEMMA SliceThenOne ==
  ASSUME NEW s, IsSeq(s), NEW a \in Nat, NEW b \in Nat, a <= b, b + 1 <= Len(s)
  PROVE  /\ SubSeq(s, a + 1, b + 1) = Append(SubSeq(s, a + 1, b), s[b + 1])
         /\ Len(SubSeq(s, b + 1, b + 1)) = 1 /\ SubSeq(s, b + 1, b + 1)[1] = s[b + 1]
<1> DEFINE t == SubSeq(s, a + 1, b)
           u == SubSeq(s, a + 1, b + 1)
           v == SubSeq(s, b + 1, b + 1)
<1>1. Len(s) \in Nat /\ b <= Len(s) /\ a <= b + 1 /\ b + 1 \in Nat /\ b <= b + 1
  BY DEF IsSeq
<1>2. IsSeq(t) /\ Len(t) = b - a /\ \A i \in 1 .. b - a : t[i] = s[a + i]
  BY <1>1, SliceFacts
<1>3. IsSeq(u) /\ Len(u) = b + 1 - a /\ \A i \in 1 .. b + 1 - a : u[i] = s[a + i]
  BY <1>1, SliceFacts
<1>4. Len(v) = b + 1 - b /\ \A i \in 1 .. b + 1 - b : v[i] = s[b + i]
  BY <1>1, SliceFacts
<1> HIDE DEF t, u, v
<1>5. /\ IsSeq(Append(t, s[b + 1])) /\ Len(Append(t, s[b + 1])) = Len(t) + 1
      /\ Append(t, s[b + 1])[Len(t) + 1] = s[b + 1]
      /\ \A i \in 1 .. Len(t) : Append(t, s[b + 1])[i] = t[i]
  BY <1>2, AppendIsSeq
<1>6. ASSUME NEW i \in 1 .. b + 1 - a PROVE u[i] = Append(t, s[b + 1])[i]
  <2>1. u[i] = s[a + i]
    BY <1>3
  <2>2. CASE i \in 1 .. b - a
    BY <1>2, <1>5, <2>1, <2>2
  <2>3. CASE i = Len(t) + 1
    <3>1. a + i = b + 1
      BY <1>2, <2>3
    <3> QED
      BY <1>5, <2>1, <2>3, <3>1
  <2>4. i \in 1 .. b - a \/ i = Len(t) + 1
    BY <1>2
  <2> QED
    BY <2>2, <2>3, <2>4
<1>7. Len(Append(t, s[b + 1])) = b + 1 - a
  BY <1>2, <1>5
<1>8. u = Append(t, s[b + 1])
  BY <1>3, <1>5, <1>6, <1>7, SeqExtensional
<1>9. Len(v) = 1 /\ v[1] = s[b + 1]
  BY <1>4
<1> QED
  BY <1>8, <1>9 DEF t, u, v

\* What belongs to the current frame, and to a caller.
LEMMA OwnFacts ==
  ASSUME NEW k
  PROVE  /\ k = Len(frames) => OwnOperands(k) = SubSeq(stack, frames[k].bottom + 1, Len(stack))
         /\ k # Len(frames) =>
              OwnOperands(k) = SubSeq(stack, frames[k].bottom + 1, frames[k + 1].bottom)
  BY Zenon DEF OwnOperands

\* The same of a primed state.
LEMMA OwnFactsNext ==
  ASSUME NEW k
  PROVE  /\ k = Len(frames') =>
              OwnOperands(k)' = SubSeq(stack', frames'[k].bottom + 1, Len(stack'))
         /\ k # Len(frames') =>
              OwnOperands(k)' = SubSeq(stack', frames'[k].bottom + 1, frames'[k + 1].bottom)
  BY Zenon DEF OwnOperands

\* A call with other operands.
LEMMA OtherOperands ==
  ASSUME NEW o, NEW l, NEW r, NEW q
  PROVE  [[ops |-> o, locals |-> l, ret |-> r] EXCEPT !.ops = q]
           = [ops |-> q, locals |-> l, ret |-> r]
  OBVIOUS

\* A call takes the function and its arguments from the caller's operands and
\* starts with none.
LEMMA CallsCall ==
  ASSUME IInv, TInv', Ordered, ArgumentsFit, status = "running", Agrees(stack'), Calls
  PROVE  Separate!Call
<1>1. PICK d \in Nat \ {0} : d = Len(frames)
  BY CallsFacts DEF IInv
<1> DEFINE current == OpenCalls[d]
           b == Frame.bottom
           h == Len(stack')
           l == Len(stack)
<1>2. PICK n \in Nat \ {0} :
           /\ n = Here.arg + 1 /\ n = Needs(Here) /\ Len(stack') = Len(stack) - n
           /\ Len(stack) \in Nat /\ Len(stack) >= n
           /\ \A i \in 1 .. Len(stack) - n : stack'[i] = stack[i]
           /\ Len(frames') = Len(frames) + 1
           /\ frames'[Len(frames) + 1].ret = pc + 1
           /\ frames'[Len(frames) + 1].bottom = Len(stack')
           /\ \A k \in 1 .. Len(frames) : frames'[k] = frames[k]
  <2>1. /\ Len(stack') = Len(stack) - (Here.arg + 1) /\ Needs(Here) = Here.arg + 1
        /\ Here.arg \in Nat /\ Len(stack) \in Nat
    BY CallTakes DEF IInv
  <2>2. /\ Len(stack) >= Needs(Here)
        /\ \A i \in 1 .. Len(stack) - Needs(Here) : stack'[i] = stack[i]
    BY DEF Calls, KeepsBelow
  <2>3. /\ Len(frames') = Len(frames) + 1
        /\ frames'[Len(frames) + 1].ret = pc + 1
        /\ frames'[Len(frames) + 1].bottom = Len(stack')
        /\ \A k \in 1 .. Len(frames) : frames'[k] = frames[k]
    BY DEF Calls, Frame
  <2>4. Needs(Here) \in Nat \ {0}
    BY <2>1
  <2> QED
    BY <2>1, <2>2, <2>3, <2>4
<1>3. d \in Nat \ {0} /\ Len(frames') = d + 1 /\ d \in 1 .. Len(frames)
      /\ d \in 1 .. Len(frames') /\ d + 1 \in 1 .. Len(frames') /\ d # Len(frames')
  BY <1>1, <1>2
<1>4. d \in 1 .. Len(frames) /\ d \in 1 .. Len(frames') /\ d + 1 \in 1 .. Len(frames')
  BY <1>1, <1>3
<1>5. d = Len(frames) /\ d # Len(frames') /\ d + 1 = Len(frames')
  BY <1>1, <1>3
<1>6. /\ IsSeq(OpenCalls) /\ Len(OpenCalls) = d /\ IsSeq(OpenCalls') /\ Len(OpenCalls') = d + 1
  BY <1>1, <1>3, CallsFacts, CallsFactsNext DEF IInv
<1>7. /\ frames'[d + 1].ret = pc + 1 /\ frames'[d + 1].bottom = h
      /\ frames'[d] = frames[d] /\ frames'[d].bottom = b
  BY <1>1, <1>2, <1>3 DEF NewFrame, Frame
<1>8. /\ IsSeq(stack) /\ IsSeq(stack') /\ l \in Nat /\ h \in Nat /\ b \in Nat /\ b <= h
  BY StackAgrees DEF Agrees, IsSeq
<1>9. /\ \A i \in 1 .. h : stack'[i] = stack[i]
      /\ h <= l /\ h = l - n
  BY <1>2, <1>8
<1>10. current.ops = SubSeq(stack, b + 1, l)
  <2>1. OwnOperands(d) = SubSeq(stack, frames[d].bottom + 1, Len(stack))
    BY <1>5, OwnFacts, Zenon
  <2>2. current.ops = OwnOperands(d)
    BY <1>4, CallFields DEF IInv
  <2> QED
    BY <1>5, <2>1, <2>2, Zenon DEF Frame
<1>11. OpenCalls'[d].ops = OwnOperands(d)' /\ OwnOperands(d)' = SubSeq(stack', b + 1, h)
  <2>1. OwnOperands(d)' = SubSeq(stack', frames'[d].bottom + 1, frames'[d + 1].bottom)
    BY <1>5, OwnFactsNext, Zenon
  <2>2. OpenCalls'[d].ops = OwnOperands(d)'
    BY <1>4, CallFieldsNext
  <2> QED
    BY <1>7, <2>1, <2>2, Zenon
<1>12. /\ SubSeq(stack', b + 1, h) = SubSeq(SubSeq(stack, b + 1, l), 1, h - b)
      /\ Len(SubSeq(stack, b + 1, l)) = l - b
  <2>1. h <= Len(stack') /\ l <= Len(stack)
    BY <1>8
  <2>2. h <= l /\ \A i \in 1 .. h : stack'[i] = stack[i]
    BY <1>9
  <2> HIDE DEF b, h, l
  <2> QED
    BY <1>8, <2>1, <2>2, SliceOfLonger
<1>13. n \in 1 .. Len(current.ops) /\ Len(current.ops) - n = h - b
  <2>1. Len(current.ops) = l - b
    BY <1>10, <1>12, Zenon
  <2>2. n \in Nat \ {0} /\ h = l - n
    BY <1>2, <1>9
  <2> HIDE DEF current, b, h, l
  <2> QED
    BY <1>8, <2>1, <2>2
<1>14. OpenCalls'[d] = [current EXCEPT !.ops = SubSeq(current.ops, 1, Len(current.ops) - n)]
  <2>1. current = [ops |-> OwnOperands(d), locals |-> frames[d].locals, ret |-> frames[d].ret]
    BY <1>4, CallsFacts DEF IInv
  <2>2. OpenCalls'[d] = [ops |-> OwnOperands(d)', locals |-> frames[d].locals, ret |-> frames[d].ret]
    <3>1. OpenCalls'[d] = [ops |-> OwnOperands(d)', locals |-> frames'[d].locals, ret |-> frames'[d].ret]
      BY <1>4, CallsFactsNext
    <3> QED
      BY <1>7, <3>1, Zenon
  <2>3. OwnOperands(d)' = SubSeq(current.ops, 1, Len(current.ops) - n)
    <3> HIDE DEF current, b, h, l
    <3> QED
      BY <1>10, <1>11, <1>12, <1>13, Zenon
  <2> DEFINE q == SubSeq(current.ops, 1, Len(current.ops) - n)
  <2>4. OpenCalls'[d] = [ops |-> q, locals |-> frames[d].locals, ret |-> frames[d].ret]
    BY <2>2, <2>3, Zenon
  <2> HIDE DEF current, q
  <2>5. [current EXCEPT !.ops = q] = [ops |-> q, locals |-> frames[d].locals, ret |-> frames[d].ret]
    <3>1. [[ops |-> OwnOperands(d), locals |-> frames[d].locals, ret |-> frames[d].ret]
             EXCEPT !.ops = q] = [ops |-> q, locals |-> frames[d].locals, ret |-> frames[d].ret]
      BY OtherOperands
    <3> QED
      BY <2>1, <3>1, Zenon
  <2>6. OpenCalls'[d] = [current EXCEPT !.ops = q]
    BY <2>4, <2>5, Zenon
  <2> QED
    BY <2>6, Zenon DEF q
<1>15. SubSeq(OpenCalls', 1, d - 1) = SubSeq(OpenCalls, 1, d - 1)
       /\ \A k \in 1 .. d - 1 : OpenCalls'[k] = OpenCalls[k]
  <2>1. d - 1 \in Nat /\ d - 1 < Len(frames) /\ d - 1 < Len(frames') /\ d - 1 + 1 = d
    BY <1>1, <1>3
  <2>2. \A k \in 1 .. d - 1 : frames'[k] = frames[k]
    BY <1>1, <1>2, <1>3
  <2>3. frames'[d - 1 + 1].bottom = frames[d - 1 + 1].bottom
    BY <1>7, <2>1
  <2> QED
    BY <2>1, <2>2, <2>3, SameCalls
<1> HIDE DEF current
<1>16. SubSeq(OpenCalls', 1, d) =
         Append(SubSeq(OpenCalls, 1, d - 1),
                [current EXCEPT !.ops = SubSeq(current.ops, 1, Len(current.ops) - n)])
  <2> DEFINE callers == SubSeq(OpenCalls, 1, d - 1)
             new == [current EXCEPT !.ops = SubSeq(current.ops, 1, Len(current.ops) - n)]
  <2>1. d - 1 \in 0 .. Len(OpenCalls) /\ d \in 0 .. Len(OpenCalls')
    BY <1>3, <1>6
  <2>2. IsSeq(callers) /\ Len(callers) = d - 1 /\ \A k \in 1 .. d - 1 : callers[k] = OpenCalls[k]
    BY <1>6, <2>1, PrefixIsSeq
  <2>3. /\ IsSeq(SubSeq(OpenCalls', 1, d)) /\ Len(SubSeq(OpenCalls', 1, d)) = d
        /\ \A k \in 1 .. d : SubSeq(OpenCalls', 1, d)[k] = OpenCalls'[k]
    BY <1>6, <2>1, PrefixIsSeq
  <2>4. OpenCalls'[d] = new
    BY <1>14
  <2> HIDE DEF callers, new
  <2>5. /\ IsSeq(Append(callers, new)) /\ Len(Append(callers, new)) = Len(callers) + 1
        /\ Append(callers, new)[Len(callers) + 1] = new
        /\ \A k \in 1 .. Len(callers) : Append(callers, new)[k] = callers[k]
    BY <2>2, AppendIsSeq
  <2>6. ASSUME NEW k \in 1 .. d PROVE SubSeq(OpenCalls', 1, d)[k] = Append(callers, new)[k]
    <3>1. CASE k = d
      <4>1. Len(callers) + 1 = d
        BY <1>3, <2>2
      <4>2. Append(callers, new)[d] = new
        BY <2>5, <4>1, Zenon
      <4>3. SubSeq(OpenCalls', 1, d)[d] = OpenCalls'[d]
        BY <1>3, <2>3
      <4> QED
        BY <2>4, <3>1, <4>2, <4>3, Zenon
    <3>2. CASE k \in 1 .. d - 1
      BY <1>15, <2>2, <2>3, <2>5, <3>2
    <3>3. k = d \/ k \in 1 .. d - 1
      OBVIOUS
    <3> QED
      BY <3>1, <3>2, <3>3
  <2>7. Len(Append(callers, new)) = d
    BY <1>3, <2>2, <2>5
  <2>8. SubSeq(OpenCalls', 1, d) = Append(callers, new)
    BY <2>3, <2>5, <2>6, <2>7, SeqExtensional
  <2> QED
    BY <2>8 DEF callers, new
<1>17. OpenCalls'[d + 1].ops = <<>> /\ OpenCalls'[d + 1].ret = pc + 1
  <2> DEFINE own == SubSeq(stack', h + 1, h)
  <2>1. OpenCalls'[d + 1].ops = OwnOperands(d + 1)' /\ OpenCalls'[d + 1].ret = pc + 1
    <3>1. OpenCalls'[d + 1].ops = OwnOperands(d + 1)' /\ OpenCalls'[d + 1].ret = frames'[d + 1].ret
      BY <1>4, CallFieldsNext
    <3> QED
      BY <1>7, <3>1, Zenon
  <2>3. OwnOperands(d + 1)' = SubSeq(stack', frames'[d + 1].bottom + 1, Len(stack'))
    BY <1>5, OwnFactsNext, Zenon
  <2>4. OwnOperands(d + 1)' = own
    BY <1>7, <2>3, Zenon
  <2>5. IsSeq(own) /\ Len(own) = h - h
    <3>1. h <= Len(stack') /\ h <= h
      BY <1>8
    <3> HIDE DEF h
    <3> QED
      BY <1>8, <3>1, SliceFacts
  <2>6. Len(own) = 0
    BY <1>8, <2>5
  <2> HIDE DEF own
  <2>7. own = <<>>
    BY <2>5, <2>6, EmptyIsSeq, SeqExtensional
  <2> QED
    BY <2>1, <2>4, <2>7
<1>18. Len(OpenCalls) = d
  BY <1>6
<1>19. Here.arg < Len(current.ops) /\ n = Here.arg + 1
  <2>1. Here.arg \in Nat
    BY CallTakes DEF IInv
  <2> QED
    BY <1>2, <1>13, <2>1
<1>20. SubSeq(OpenCalls', 1, d) =
         Append(SubSeq(OpenCalls, 1, d - 1),
                [current EXCEPT !.ops = SubSeq(@, 1, Len(@) - (Here.arg + 1))])
  BY <1>16, <1>19
<1> QED
  BY <1>6, <1>17, <1>18, <1>19, <1>20
     DEF Separate!Call, Separate!NumCalls, Separate!Callers, Separate!Current, current

\* A sequence in which the operands of one call got one more.
LEMMA OneMoreOperand ==
  ASSUME NEW s, IsSeq(s), NEW k \in 1 .. Len(s), NEW x,
         NEW t, IsSeq(t), Len(t) = Len(s), \A i \in 1 .. Len(s) : i # k => t[i] = s[i],
         t[k] = [s[k] EXCEPT !.ops = Append(s[k].ops, x)]
  PROVE  t = [s EXCEPT ![k].ops = Append(@, x)]
<1> DEFINE w == [s[k] EXCEPT !.ops = Append(s[k].ops, x)]
<1>1. [s EXCEPT ![k].ops = Append(@, x)] = [s EXCEPT ![k] = w]
  OBVIOUS
<1> HIDE DEF w
<1>2. /\ t = [i \in 1 .. Len(t) |-> t[i]] /\ s = [i \in 1 .. Len(s) |-> s[i]]
  BY DEF IsSeq
<1>3. t[k] = w
  BY DEF w
<1>4. t = [s EXCEPT ![k] = w]
  BY <1>2, <1>3
<1> QED
  BY <1>1, <1>4

\* A return hands the caller the one operand of the call that ends.
LEMMA CallsReturn ==
  ASSUME IInv, TInv', Ordered, status = "running", Agrees(stack'), Returns,
         Len(stack) = Frame.bottom + 1
  PROVE  Separate!Return
<1>1. PICK c \in Nat \ {0} : c + 1 = Len(frames)
  <2>1. Len(frames) \in Nat /\ Len(frames) > 1
    BY TypesOfParts DEF IInv, Returns
  <2> QED
    BY <2>1
<1>2. PICK d \in Nat \ {0} : d = c + 1
  OBVIOUS
<1>3. /\ d = Len(frames) /\ c # Len(frames) /\ c = Len(frames')
      /\ d \in 1 .. Len(frames) /\ c \in 1 .. Len(frames) /\ c \in 1 .. Len(frames')
  BY <1>1, <1>2 DEF Returns
<1>4. frames'[c] = frames[c] /\ \A k \in 1 .. c - 1 : frames'[k] = frames[k]
  BY <1>1 DEF Returns
<1>5. stack' = stack /\ pc' = Frame.ret
  BY DEF Returns
<1> DEFINE a == frames[c].bottom
           b == frames[d].bottom
           x == stack[b + 1]
<1>6. /\ IsSeq(stack) /\ a \in Nat /\ b \in Nat /\ a <= b /\ b + 1 <= Len(stack)
      /\ Len(stack) = b + 1
  <2>1. a \in Nat /\ b \in Nat /\ a <= b
    <3>1. frames[c].bottom \in Nat /\ frames[c + 1].bottom \in Nat
          /\ frames[c].bottom <= frames[c + 1].bottom
      BY <1>1, <1>3, <1>5, HeightsRise
    <3> QED
      BY <1>2, <3>1
  <2>2. Len(stack) = b + 1
    BY <1>3 DEF Frame
  <2>3. IsSeq(stack)
    BY <1>5, StackAgrees DEF Agrees
  <2>4. b + 1 <= Len(stack)
    BY <2>1, <2>2
  <2> QED
    BY <2>1, <2>2, <2>3, <2>4, Zenon
<1>7. OpenCalls[d].ops = SubSeq(stack, b + 1, b + 1) /\ OpenCalls[d].ret = Frame.ret
  <2>1. OpenCalls[d].ops = OwnOperands(d) /\ OpenCalls[d].ret = frames[d].ret
    BY <1>3, CallFields DEF IInv
  <2>2. OwnOperands(d) = SubSeq(stack, b + 1, Len(stack))
    BY <1>3, OwnFacts, Zenon
  <2> QED
    BY <1>3, <1>6, <2>1, <2>2, Zenon DEF Frame
<1>8. OwnOperands(c) = SubSeq(stack, a + 1, b)
  BY <1>2, <1>3, OwnFacts, Zenon
<1>9. OwnOperands(c)' = SubSeq(stack, a + 1, b + 1)
  <2>1. OwnOperands(c)' = SubSeq(stack', frames'[c].bottom + 1, Len(stack'))
    BY <1>3, OwnFactsNext, Zenon
  <2> QED
    BY <1>4, <1>5, <1>6, <2>1, Zenon
<1>10. /\ OwnOperands(c)' = Append(OwnOperands(c), x)
       /\ Len(OpenCalls[d].ops) = 1 /\ OpenCalls[d].ops[1] = x
  <2>1. /\ SubSeq(stack, a + 1, b + 1) = Append(SubSeq(stack, a + 1, b), stack[b + 1])
        /\ Len(SubSeq(stack, b + 1, b + 1)) = 1 /\ SubSeq(stack, b + 1, b + 1)[1] = stack[b + 1]
    <3> HIDE DEF a, b
    <3> QED
      BY <1>6, SliceThenOne
  <2> QED
    BY <1>7, <1>8, <1>9, <2>1, Zenon
<1> HIDE DEF a, b, x
<1>11. OpenCalls'[c] = [OpenCalls[c] EXCEPT !.ops = Append(OpenCalls[c].ops, x)]
  <2>1. OpenCalls[c] = [ops |-> OwnOperands(c), locals |-> frames[c].locals, ret |-> frames[c].ret]
    BY <1>3, CallsFacts DEF IInv
  <2>2. OpenCalls'[c] = [ops |-> OwnOperands(c)', locals |-> frames'[c].locals, ret |-> frames'[c].ret]
    BY <1>3, CallsFactsNext
  <2>3. OpenCalls[c].ops = OwnOperands(c)
    BY <1>3, CallFields DEF IInv
  <2> DEFINE q == Append(OwnOperands(c), x)
  <2>4. OpenCalls'[c] = [ops |-> q, locals |-> frames[c].locals, ret |-> frames[c].ret]
    BY <1>4, <1>10, <2>2, Zenon
  <2> HIDE DEF q
  <2>5. [[ops |-> OwnOperands(c), locals |-> frames[c].locals, ret |-> frames[c].ret]
           EXCEPT !.ops = q] = [ops |-> q, locals |-> frames[c].locals, ret |-> frames[c].ret]
    BY OtherOperands
  <2>6. OpenCalls'[c] = [OpenCalls[c] EXCEPT !.ops = q]
    BY <2>1, <2>4, <2>5, Zenon
  <2> QED
    BY <2>3, <2>6, Zenon DEF q
<1>12. \A k \in 1 .. c - 1 : OpenCalls'[k] = OpenCalls[k]
  <2>1. c - 1 \in Nat /\ c - 1 < Len(frames) /\ c - 1 < Len(frames') /\ c - 1 + 1 = c
    BY <1>1, <1>3
  <2>2. frames'[c - 1 + 1].bottom = frames[c - 1 + 1].bottom
    BY <1>4, <2>1
  <2> QED
    BY <1>4, <1>5, <2>1, <2>2, SameCalls
<1>13. /\ IsSeq(OpenCalls) /\ Len(OpenCalls) = d /\ IsSeq(OpenCalls') /\ Len(OpenCalls') = c
  BY <1>3, CallsFacts, CallsFactsNext DEF IInv
<1> DEFINE callers == SubSeq(OpenCalls, 1, c)
<1>14. IsSeq(callers) /\ Len(callers) = c /\ \A k \in 1 .. c : callers[k] = OpenCalls[k]
  <2>1. c \in 0 .. Len(OpenCalls)
    BY <1>2, <1>13
  <2> QED
    BY <1>13, <2>1, PrefixIsSeq
<1> HIDE DEF callers
<1>15. /\ c \in 1 .. Len(callers) /\ Len(OpenCalls') = Len(callers)
       /\ OpenCalls'[c] = [callers[c] EXCEPT !.ops = Append(callers[c].ops, x)]
       /\ \A k \in 1 .. Len(callers) : k # c => OpenCalls'[k] = callers[k]
  <2>1. callers[c] = OpenCalls[c] /\ c \in 1 .. Len(callers)
    BY <1>14
  <2>2. OpenCalls'[c] = [callers[c] EXCEPT !.ops = Append(callers[c].ops, x)]
    BY <1>11, <2>1, Zenon
  <2>3. ASSUME NEW k \in 1 .. Len(callers), k # c PROVE OpenCalls'[k] = callers[k]
    <3>1. k \in 1 .. c /\ k \in 1 .. c - 1
      BY <1>14, <2>3
    <3> QED
      BY <1>12, <1>14, <3>1
  <2> QED
    BY <1>13, <1>14, <2>1, <2>2, <2>3
<1>16. OpenCalls' = [callers EXCEPT ![c].ops = Append(@, x)]
  <2> DEFINE t == OpenCalls'
  <2>1. IsSeq(callers) /\ IsSeq(t)
    BY <1>13, <1>14
  <2>2. /\ c \in 1 .. Len(callers) /\ Len(t) = Len(callers)
        /\ t[c] = [callers[c] EXCEPT !.ops = Append(callers[c].ops, x)]
        /\ \A k \in 1 .. Len(callers) : k # c => t[k] = callers[k]
    BY <1>15
  <2> HIDE DEF t
  <2>3. t = [callers EXCEPT ![c].ops = Append(@, x)]
    BY <2>1, <2>2, OneMoreOperand
  <2> QED
    BY <2>3 DEF t
<1>17. Len(OpenCalls) - 1 = c /\ Len(OpenCalls) > 1
  BY <1>2, <1>13
<1>18. /\ OpenCalls' = [SubSeq(OpenCalls, 1, Len(OpenCalls) - 1) EXCEPT
                      ![Len(OpenCalls) - 1].ops =
                        Append(@, OpenCalls[Len(OpenCalls)].ops[
                                    Len(OpenCalls[Len(OpenCalls)].ops)])]
       /\ pc' = OpenCalls[Len(OpenCalls)].ret
  BY <1>5, <1>7, <1>10, <1>13, <1>16, <1>17, Zenon DEF callers
<1>19. OpenCalls[Len(OpenCalls)].ops # <<>>
  <2>1. OpenCalls[d].ops # <<>>
    BY <1>10, EmptyIsSeq
  <2> QED
    BY <1>13, <2>1, Zenon
<1> QED
  BY <1>17, <1>18, <1>19, Zenon
     DEF Separate!Return, Separate!NumCalls, Separate!Callers, Separate!Current

\* An execution starts with one call without operands.
LEMMA StartedIsStart ==
  ASSUME TInv, NEW p, Started(p)
  PROVE  Separate!IsStart(OpenCalls, pc)
<1>1. /\ Len(frames) = 1 /\ frames[1].bottom = 0 /\ frames[1].ret = 0
      /\ stack = <<>> /\ pc = 0
  BY DEF Started, MainFrame, NewFrame
<1>2. 1 \in 1 .. Len(frames) /\ 1 = Len(frames)
  BY <1>1
<1>3. OpenCalls[1].ops = OwnOperands(1) /\ OpenCalls[1].ret = frames[1].ret
  BY <1>2, CallFields
<1>4. OwnOperands(1) = SubSeq(stack, frames[1].bottom + 1, Len(stack))
  BY <1>2, OwnFacts, Zenon
<1>5. IsSeq(stack) /\ Len(stack) = 0
  BY <1>1, EmptyIsSeq
<1>6. IsSeq(SubSeq(stack, 0 + 1, 0)) /\ Len(SubSeq(stack, 0 + 1, 0)) = 0 - 0
  BY <1>5, SliceFacts
<1>7. SubSeq(stack, 0 + 1, 0) = stack
  BY <1>5, <1>6, SeqExtensional
<1>8. OpenCalls[1].ops = <<>>
  BY <1>1, <1>3, <1>4, <1>5, <1>7, Zenon
<1>9. Len(OpenCalls) = 1
  BY <1>1, CallsFacts
<1> QED
  BY <1>1, <1>3, <1>8, <1>9 DEF Separate!IsStart

\* The same of the state after a step.
LEMMA StartedIsStartNext ==
  ASSUME NEW p
  PROVE  TInv' /\ Started(p)' => Separate!IsStart(OpenCalls, pc)'
<1>1. TInv /\ Started(p) => Separate!IsStart(OpenCalls, pc)
  BY StartedIsStart
<1> QED
  BY <1>1, PTL

\* Every step is one of CallStack, or changes nothing there.
LEMMA NextSeparate ==
  ASSUME IInv, IInv', BInv, Tidy, [Next]_vars
  PROVE  [Separate!Next]_(Separate!stackVars)
<1>1. TInv /\ TInv' /\ prog \in Clean
  BY DEF IInv, Tidy
<1>2. PICK depth, room : Balanced(depth, room)
  BY <1>1, CleanIsBalanced
<1>3. ASSUME UNCHANGED <<frames, stack, pc>>
      PROVE  UNCHANGED Separate!stackVars
  <2>1. OpenCalls' = OpenCalls
    BY <1>3 DEF OpenCalls, OwnOperands
  <2> QED
    BY <1>3, <2>1 DEF Separate!stackVars
<1>4. CASE Step
  <2>1. status = "running" /\ Agrees(stack')
    BY <1>4, StepAgrees
  <2>2. ArgumentsFit /\ Ordered
    BY <1>2 DEF Tidy, Balanced, Exact, CallersExact, Ordered
  <2>3. Moves \/ Stops \/ Calls \/ Returns \/ Links
    BY <1>1, <1>4, StepKinds
  <2>4. CASE Moves
    BY <1>1, <2>1, <2>2, <2>4, MovesWork DEF Separate!Next
  <2>5. CASE Stops
    BY <1>3, <2>5 DEF Stops
  <2>6. CASE Calls
    BY <1>1, <2>1, <2>2, <2>6, CallsCall DEF Separate!Next
  <2>7. CASE Returns
    <3>1. Len(stack) = Frame.bottom + 1
      BY <1>2, <2>1, <2>7, ReturnExact
    <3> QED
      BY <1>1, <2>1, <2>2, <2>7, <3>1, CallsReturn DEF Separate!Next
  <2>8. ~Links
    BY <1>2, <2>1, ExactInstr DEF Links
  <2> QED
    BY <2>3, <2>4, <2>5, <2>6, <2>7, <2>8
<1>5. CASE ExecuteAgain
  <2>1. PICK p : p = prog'
    OBVIOUS
  <2>2. Started(p)'
    BY <1>1, <1>5, <2>1, ExecuteAgainTyped
  <2>3. Separate!IsStart(OpenCalls, pc)'
    BY <1>1, <2>2, StartedIsStartNext
  <2> QED
    BY <2>3 DEF Separate!Next, Separate!Restart, Separate!IsStart
<1>6. CASE UNCHANGED vars
  BY <1>3, <1>6 DEF vars
<1> QED
  BY <1>4, <1>5, <1>6 DEF Next, Finished

\* The VM with its one operand stack implements a machine in which every call has
\* a stack of its own: CALL_FUNCTION and RETURN_VALUE move nothing but arguments
\* and results, and no instruction reaches into a caller (vm.cpp:360-384).
THEOREM FramesAreSeparate == Spec /\ []Tidy => FramesSeparate
<1>1. Init => Separate!Init
  BY InitTyped, StartedIsStart DEF Separate!Init
<1>2. IInv /\ IInv' /\ BInv /\ Tidy /\ [Next]_vars => [Separate!Next]_(Separate!stackVars)
  BY NextSeparate
<1>3. Tidy => Fits
  BY DEF Tidy, Fits
<1> QED
  BY <1>1, <1>2, <1>3, Safety, Balance, PTL DEF Spec, FramesSeparate, Separate!Spec

================================================================================
