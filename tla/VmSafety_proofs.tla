---------------------------- MODULE VmSafety_proofs ----------------------------
(****************************************************************************)
(* Certified code is run safely, whatever values it computes, how deep its  *)
(* calls nest, which of them are native and which modules it links: the     *)
(* machine stays within the certificate, and the certificate grows with the *)
(* code.                                                                    *)
(*                                                                          *)
(* VmTypes_proofs says of what kinds the steps are; here is one lemma per   *)
(* kind.                                                                    *)
(****************************************************************************)
EXTENDS VmCertified, VmTypes_proofs

\* What the certificate says of the current instruction.
LEMMA CurrentInstr ==
  ASSUME TInv, NEW depth, NEW room, Certified(depth, room), status = "running"
  PROVE  /\ pc \in DOMAIN depth /\ pc \in Addresses(code) /\ pc \in Nat
         /\ depth[pc] \in Nat
         /\ room[pc] = RoomOf(Len(frames))
         /\ Len(stack) >= Frame.bottom + depth[pc]
         /\ Needs(Here) <= depth[pc]
         /\ OperandInRange(code, Here, room[pc])
         /\ \A s \in Successors(Here, pc, room[pc] # 0) : Flows(Here, depth, room, pc, s)
         /\ Here.arg \in Nat /\ Needs(Here) \in Nat /\ Gives(Here) \in Nat
<1>1. /\ pc \in DOMAIN depth /\ room[pc] = RoomOf(Len(frames))
      /\ Len(stack) >= Frame.bottom + depth[pc]
  BY DEF Certified, CurrentInv
<1>2. IsCertificate(code, depth, room)
  BY DEF Certified
<1>3. pc \in Addresses(code) /\ depth[pc] \in Nat
  BY <1>1, <1>2, Zenon DEF IsCertificate
<1>4. /\ Needs(Here) <= depth[pc]
      /\ OperandInRange(code, Here, room[pc])
      /\ \A s \in Successors(Here, pc, room[pc] # 0) : Flows(Here, depth, room, pc, s)
  BY <1>1, <1>2, Zenon DEF IsCertificate, Here
<1>5. pc \in Nat /\ Here.arg \in Nat /\ Needs(Here) \in Nat /\ Gives(Here) \in Nat
  BY <1>3, InstrOfCode DEF Here
<1> QED
  BY <1>1, <1>3, <1>4, <1>5

\* The certificate of an address: its depth is a number, the address one of the
\* code.
LEMMA DepthIsNat ==
  ASSUME NEW c, NEW depth, NEW room, IsCertificate(c, depth, room), NEW a \in DOMAIN depth
  PROVE  depth[a] \in Nat /\ a \in Addresses(c)
  BY Zenon DEF IsCertificate

\* Module-level code, and only that, runs in the first frame.
LEMMA RoomTellsFunctions ==
  ASSUME TInv, NEW depth, NEW room, Certified(depth, room), status = "running"
  PROVE  (room[pc] # 0) <=> (Len(frames) > 1)
<1>1. room[pc] = RoomOf(Len(frames))
  BY CurrentInstr
<1>2. Len(Frame.locals) # 0
  BY TypesOfParts
<1>5. Len(frames) = 1 \/ Len(frames) > 1
  <2>1. \A n \in Nat \ {0} : n = 1 \/ n > 1
    OBVIOUS
  <2> QED
    BY <2>1, TypesOfParts, Zenon
<1>3. CASE Len(frames) = 1
  BY <1>1, <1>3 DEF RoomOf
<1>4. CASE Len(frames) > 1
  <2>1. room[pc] = Len(Frame.locals)
    BY <1>1, <1>4 DEF RoomOf, Frame
  <2>2. room[pc] # 0
    BY <1>2, <2>1, Zenon
  <2> QED
    BY <1>4, <2>2, Zenon
<1> QED
  BY <1>3, <1>4, <1>5, Zenon

\* The frames' heights and return addresses are numbers.
LEMMA FramesAreTyped ==
  ASSUME TInv, NEW k \in 1 .. Len(frames)
  PROVE  frames[k].bottom \in Nat /\ frames[k].ret \in Nat /\ Len(frames[k].locals) \in Nat \ {0}
<1>1. /\ frames[k].bottom \in Nat /\ frames[k].ret \in Nat
      /\ Values(code, frames[k].locals) /\ Len(frames[k].locals) > 0
  BY DEF TInv, FramesInv
<1>2. Len(frames[k].locals) \in Nat
  BY <1>1 DEF Values, IsSeq
<1> QED
  BY <1>1, <1>2

\* The next state has a stack, too.
LEMMA NextStack ==
  ASSUME TInv'
  PROVE  Len(stack') \in Nat
  BY DEF TInv, Values, IsSeq

\* The stack stays as high as the certificate demands.
LEMMA StackStays ==
  ASSUME NEW before \in Nat, NEW after \in Nat, NEW needs \in Nat, NEW gives \in Nat,
         after + needs = before + gives,
         NEW bottom \in Nat, NEW d \in Nat, NEW e \in Nat,
         before >= bottom + d, e + needs <= d + gives
  PROVE  after >= bottom + e
  OBVIOUS

\* A step that goes on in the current frame follows the certificate.
LEMMA MovesCertified ==
  ASSUME TInv, TInv', NEW depth, NEW room, Certified(depth, room), status = "running", Moves
  PROVE  Certified(depth, room)'
<1>1. /\ pc \in DOMAIN depth /\ depth[pc] \in Nat /\ room[pc] = RoomOf(Len(frames))
      /\ Len(stack) >= Frame.bottom + depth[pc]
      /\ \A s \in Successors(Here, pc, room[pc] # 0) : Flows(Here, depth, room, pc, s)
      /\ Needs(Here) \in Nat /\ Gives(Here) \in Nat
  BY CurrentInstr
<1>2. /\ Len(frames') = Len(frames) /\ Frame'.bottom = Frame.bottom /\ Frame'.ret = Frame.ret
      /\ Len(Frame'.locals) = Len(Frame.locals)
      /\ \A k \in 1 .. Len(frames) - 1 : frames'[k] = frames[k]
      /\ Len(frames) \in Nat \ {0} /\ Frame.bottom \in Nat /\ Len(stack) \in Nat
  BY TypesOfParts DEF Moves, SameCallers
<1>3. IsCertificate(code, depth, room)' /\ OwnUpdates(depth)'
  BY DEF Certified, OwnUpdates, Moves, loaded
<1>4. ASSUME NEW k \in 1 .. Len(frames)
      PROVE  /\ frames'[k].ret = frames[k].ret /\ frames'[k].bottom = frames[k].bottom
             /\ Len(frames'[k].locals) = Len(frames[k].locals)
  <2>1. CASE k = Len(frames)
    BY <1>2, <2>1 DEF Frame
  <2>2. CASE k # Len(frames)
    <3>1. k \in 1 .. Len(frames) - 1
      BY <1>2, <2>2
    <3> QED
      BY <1>2, <3>1
  <2> QED
    BY <2>1, <2>2
<1>5. ASSUME NEW k \in 1 .. Len(frames) PROVE RoomOf(k)' = RoomOf(k)
  BY <1>4 DEF RoomOf
<1>6. CallersInv(depth, room)'
  <2> SUFFICES ASSUME NEW k \in 2 .. Len(frames)
               PROVE  /\ frames'[k].ret \in DOMAIN depth
                      /\ room[frames'[k].ret] = RoomOf(k - 1)'
                      /\ frames'[k].bottom + 1 >= frames'[k - 1].bottom + depth[frames'[k].ret]
    BY <1>2 DEF CallersInv, RoomOf
  <2>1. k \in 1 .. Len(frames) /\ k - 1 \in 1 .. Len(frames)
    BY <1>2
  <2>2. /\ frames[k].ret \in DOMAIN depth
        /\ room[frames[k].ret] = RoomOf(k - 1)
        /\ frames[k].bottom + 1 >= frames[k - 1].bottom + depth[frames[k].ret]
    BY DEF Certified, CallersInv
  <2> QED
    BY <1>4, <1>5, <2>1, <2>2
<1>7. CurrentInv(depth, room)'
  <2>1. pc' \in Successors(Here, pc, room[pc] # 0)
    BY RoomTellsFunctions DEF Moves
  <2>2. pc' \in DOMAIN depth /\ room[pc'] = room[pc] /\ depth[pc'] + Needs(Here) <= depth[pc] + Gives(Here)
    BY <1>1, <2>1 DEF Flows
  <2>3. depth[pc'] \in Nat
    BY <2>2, DepthIsNat DEF Certified
  <2>4. Len(stack') + Needs(Here) = Len(stack) + Gives(Here) /\ Len(stack') \in Nat
    BY NextStack DEF Moves
  <2>5. room[pc'] = RoomOf(Len(frames))'
    <3>1. RoomOf(Len(frames))' = RoomOf(Len(frames))
      BY <1>2 DEF RoomOf, Frame
    <3> QED
      BY <1>1, <2>2, <3>1
  <2>6. Len(stack') >= Frame'.bottom + depth[pc']
    <3>1. Len(stack') >= Frame.bottom + depth[pc']
      BY <1>1, <1>2, <2>2, <2>3, <2>4, StackStays
    <3> QED
      BY <1>2, <3>1
  <2> QED
    BY <2>2, <2>5, <2>6 DEF CurrentInv
<1> QED
  BY <1>3, <1>6, <1>7 DEF Certified

\* A machine that stops keeps its frames.
LEMMA StopsCertified ==
  ASSUME TInv, NEW depth, NEW room, Certified(depth, room), Stops
  PROVE  Certified(depth, room)'
<1>1. IsCertificate(code, depth, room)' /\ OwnUpdates(depth)' /\ CallersInv(depth, room)'
  BY DEF Certified, OwnUpdates, CallersInv, RoomOf, Stops, loaded
<1>2. CurrentInv(depth, room)'
  BY DEF CurrentInv, Stops, Errors
<1> QED
  BY <1>1, <1>2 DEF Certified

\* A function object that is called is one of the code: no module names range.
LEMMA CertifiedFunction ==
  ASSUME TInv, NEW depth, NEW room, Certified(depth, room),
         NEW f, IsValue(code, f), f.t = "FUNCTION"
  PROVE  /\ f.entry \in DOMAIN depth /\ depth[f.entry] = 0 /\ room[f.entry] = LocalCount(f.slots)
         /\ f.slots \in Nat
<1>1. f.slots \in Nat /\ \E i \in 1 .. Len(code.constants) : f = code.constants[i]
  BY FunctionFacts, CertifiedModules
<1>2. PICK i \in 1 .. Len(code.constants) : f = code.constants[i]
  BY <1>1
<1>3. /\ code.constants[i].entry \in DOMAIN depth
      /\ depth[code.constants[i].entry] = 0
      /\ room[code.constants[i].entry] = LocalCount(code.constants[i].slots)
  BY <1>2, Zenon DEF Certified, IsCertificate
<1> QED
  BY <1>1, <1>2, <1>3

\* What a caller has left when the arguments of a call are popped: the operands
\* its next instruction expects, but for the result.
LEMMA CallerKeeps ==
  ASSUME NEW before \in Nat, NEW after \in Nat, NEW args \in Nat,
         after >= before - (1 + args),
         NEW bottom \in Nat, NEW d \in Nat, NEW e \in Nat,
         before >= bottom + d, e + (args + 1) <= d + 1
  PROVE  after + 1 >= bottom + e
  OBVIOUS

\* A call: the callee starts with an empty frame of the slots it asked for, and
\* its caller waits for one result.
LEMMA CallsCertified ==
  ASSUME TInv, TInv', NEW depth, NEW room, Certified(depth, room), status = "running", Calls
  PROVE  Certified(depth, room)'
<1> DEFINE f == Peek(1)
<1>1. f.entry \in DOMAIN depth /\ depth[f.entry] = 0 /\ room[f.entry] = LocalCount(f.slots)
  BY CertifiedFunction DEF Calls
<1>2. /\ Len(frames') = Len(frames) + 1
      /\ Len(frames) \in Nat \ {0} /\ Frame.bottom \in Nat
      /\ Len(stack) \in Nat /\ Len(stack') \in Nat
      /\ Here.arg \in Nat
  BY TypesOfParts, NextStack DEF Calls
<1>3. ASSUME NEW k \in 1 .. Len(frames) PROVE frames'[k] = frames[k] /\ RoomOf(k)' = RoomOf(k)
  BY DEF RoomOf, Calls
<1>4. IsCertificate(code, depth, room)' /\ OwnUpdates(depth)'
  BY DEF Certified, OwnUpdates, Calls, loaded
<1>5. CallersInv(depth, room)'
  <2> SUFFICES ASSUME NEW k \in 2 .. Len(frames) + 1
               PROVE  /\ frames'[k].ret \in DOMAIN depth
                      /\ room[frames'[k].ret] = RoomOf(k - 1)'
                      /\ frames'[k].bottom + 1 >= frames'[k - 1].bottom + depth[frames'[k].ret]
    BY <1>2 DEF CallersInv, RoomOf
  <2>1. CASE k <= Len(frames)
    <3>1. k \in 2 .. Len(frames) /\ k \in 1 .. Len(frames) /\ k - 1 \in 1 .. Len(frames)
      BY <1>2, <2>1
    <3>2. /\ frames[k].ret \in DOMAIN depth
          /\ room[frames[k].ret] = RoomOf(k - 1)
          /\ frames[k].bottom + 1 >= frames[k - 1].bottom + depth[frames[k].ret]
      BY <3>1 DEF Certified, CallersInv
    <3> QED
      BY <1>3, <3>1, <3>2
  <2>2. CASE k = Len(frames) + 1
    <3>1. frames'[k] = Frame' /\ k - 1 = Len(frames) /\ Len(frames) \in 1 .. Len(frames)
      BY <1>2, <2>2 DEF Frame
    <3>2. frames'[k].ret = pc + 1 /\ frames'[k].bottom = Len(stack')
      BY <3>1 DEF Calls
    <3>3. pc + 1 \in Successors(Here, pc, room[pc] # 0)
      BY DEF Calls, Successors, CondJump
    <3>4. Flows(Here, depth, room, pc, pc + 1) /\ room[pc] = RoomOf(Len(frames))
          /\ depth[pc] \in Nat /\ Len(stack) >= Frame.bottom + depth[pc]
      BY <3>3, CurrentInstr
    <3>5. depth[pc + 1] \in Nat /\ depth[pc + 1] + (Here.arg + 1) <= depth[pc] + 1
      BY <3>4, DepthIsNat DEF Flows, Certified, Calls
    <3>6. Len(stack') >= Len(stack) - (1 + Here.arg)
      BY <1>2 DEF Calls
    <3>7. Len(stack') + 1 >= Frame.bottom + depth[pc + 1]
      <4> DEFINE before == Len(stack)
                 after  == Len(stack')
                 args   == Here.arg
                 bottom == Frame.bottom
                 d      == depth[pc]
                 e      == depth[pc + 1]
      <4>1. /\ before \in Nat /\ after \in Nat /\ args \in Nat
            /\ bottom \in Nat /\ d \in Nat /\ before >= bottom + d
        BY <1>2, <3>4
      <4>2. after >= before - (1 + args)
        BY <3>6
      <4>3. e \in Nat /\ e + (args + 1) <= d + 1
        BY <3>5
      <4> HIDE DEF before, after, args, bottom, d, e
      <4>4. after + 1 >= bottom + e
        BY <4>1, <4>2, <4>3, CallerKeeps
      <4> QED
        BY <4>4 DEF after, bottom, e
    <3>8. frames'[k - 1] = Frame /\ RoomOf(k - 1)' = RoomOf(Len(frames))
      BY <1>3, <3>1 DEF Frame
    <3>9. pc + 1 \in DOMAIN depth /\ room[pc + 1] = RoomOf(Len(frames))
      BY <3>4 DEF Flows
    <3> QED
      BY <3>2, <3>7, <3>8, <3>9
  <2> QED
    BY <1>2, <2>1, <2>2
<1>6. CurrentInv(depth, room)'
  <2>1. pc' = f.entry /\ Frame'.bottom = Len(stack') /\ Len(Frame'.locals) = LocalCount(f.slots)
    BY DEF Calls
  <2>2. RoomOf(Len(frames))' = Len(Frame'.locals)
    BY <1>2 DEF RoomOf, Frame
  <2>3. Len(stack') >= Len(stack') + 0
    BY <1>2
  <2> QED
    BY <1>1, <2>1, <2>2, <2>3 DEF CurrentInv
<1> QED
  BY <1>4, <1>5, <1>6 DEF Certified

\* With its result on the stack, a call leaves what its caller expects.
LEMMA ResultIsThere ==
  ASSUME NEW height \in Nat, NEW bottom \in Nat, height >= bottom + 1,
         NEW b \in Nat, NEW e \in Nat, bottom + 1 >= b + e
  PROVE  height >= b + e
  OBVIOUS

\* A return: the caller finds the result over the operands it has kept.
LEMMA ReturnsCertified ==
  ASSUME TInv, NEW depth, NEW room, Certified(depth, room), status = "running", Returns
  PROVE  Certified(depth, room)'
<1>1. /\ Len(frames) \in Nat /\ Len(frames) > 1 /\ Len(frames') = Len(frames) - 1
      /\ Len(stack) \in Nat /\ Frame.bottom \in Nat
  BY TypesOfParts DEF Returns
<1>2. ASSUME NEW k \in 1 .. Len(frames) - 1 PROVE frames'[k] = frames[k] /\ RoomOf(k)' = RoomOf(k)
  BY DEF RoomOf, Returns
<1>3. IsCertificate(code, depth, room)' /\ OwnUpdates(depth)'
  BY DEF Certified, OwnUpdates, Returns, loaded
<1>4. ASSUME NEW k \in 2 .. Len(frames)
      PROVE  /\ frames[k].ret \in DOMAIN depth
             /\ room[frames[k].ret] = RoomOf(k - 1)
             /\ frames[k].bottom + 1 >= frames[k - 1].bottom + depth[frames[k].ret]
  BY DEF Certified, CallersInv
<1>5. CallersInv(depth, room)'
  <2> SUFFICES ASSUME NEW k \in 2 .. Len(frames) - 1
               PROVE  /\ frames'[k].ret \in DOMAIN depth
                      /\ room[frames'[k].ret] = RoomOf(k - 1)'
                      /\ frames'[k].bottom + 1 >= frames'[k - 1].bottom + depth[frames'[k].ret]
    BY <1>1 DEF CallersInv, RoomOf
  <2>1. k \in 2 .. Len(frames) /\ k \in 1 .. Len(frames) - 1 /\ k - 1 \in 1 .. Len(frames) - 1
    BY <1>1
  <2> QED
    BY <1>2, <1>4, <2>1
<1>6. CurrentInv(depth, room)'
  <2>1. Len(frames) \in 2 .. Len(frames) /\ Len(frames) - 1 \in 1 .. Len(frames) - 1
    BY <1>1
  <2>2. /\ Frame.ret \in DOMAIN depth /\ room[Frame.ret] = RoomOf(Len(frames) - 1)
        /\ Frame.bottom + 1 >= frames[Len(frames) - 1].bottom + depth[Frame.ret]
    BY <1>4, <2>1 DEF Frame
  <2>3. pc' = Frame.ret /\ Len(stack') = Len(stack)
    BY DEF Returns
  <2>4. Frame' = frames[Len(frames) - 1] /\ RoomOf(Len(frames))' = RoomOf(Len(frames) - 1)
    BY <1>1, <1>2, <2>1 DEF Frame, RoomOf
  <2>5. Len(stack) >= Frame.bottom + 1
    <3>1. Len(stack) >= Frame.bottom + depth[pc] /\ Needs(Here) <= depth[pc] /\ depth[pc] \in Nat
      BY CurrentInstr
    <3>2. Needs(Here) = 1
      BY DEF Returns, Needs, Binary, BinaryArith, Comparison
    <3> QED
      BY <1>1, <3>1, <3>2
  <2>6. frames[Len(frames) - 1].bottom \in Nat /\ depth[Frame.ret] \in Nat
    <3>1. Len(frames) - 1 \in 1 .. Len(frames)
      BY <1>1
    <3> QED
      BY <2>2, <3>1, FramesAreTyped, DepthIsNat DEF Certified
  <2>7. Len(stack) >= frames[Len(frames) - 1].bottom + depth[Frame.ret]
    <3>1. /\ Len(stack) \in Nat /\ Frame.bottom \in Nat
          /\ Frame.bottom + 1 >= frames[Len(frames) - 1].bottom + depth[Frame.ret]
      BY <1>1, <2>2
    <3> QED
      BY <2>5, <2>6, <3>1, ResultIsThere
  <2> QED
    BY <2>2, <2>3, <2>4, <2>7 DEF CurrentInv
<1> QED
  BY <1>3, <1>5, <1>6 DEF Certified

---------------------------------------------------------------------------------
(* Linking joins two certificates.                                          *)

\* Module m is linked into c by the import at address at.
Joins(c, depth, room, m, md, mr, at) ==
  /\ IsCompiledCode(c) /\ IsCertificate(c, depth, room)
  /\ WellFormed(m) /\ IsCertificate(m, md, mr)
  /\ \A b \in DOMAIN md :
       /\ InstrAt(m, b).op \notin {"IMPORT_NAME"} \cup InplaceName
       /\ InstrAt(m, b).op = "HALT" => mr[b] = 0
  /\ at \in DOMAIN depth /\ at + 1 \in DOMAIN depth
  /\ room[at + 1] = room[at] /\ depth[at + 1] <= depth[at]

JoinedDepth(c, depth, md, mr, at) == LinkedDepth(depth, md, mr, Len(c.instructions), at)
JoinedRoom(c, depth, room, md, mr, at) == LinkedRoom(depth, room, md, mr, Len(c.instructions), at)

\* The lengths of the parts, and where addresses are.
LEMMA JoinedLengths ==
  ASSUME NEW c, NEW depth, NEW room, NEW m, NEW md, NEW mr, NEW at, Joins(c, depth, room, m, md, mr, at)
  PROVE  /\ IsCompiledCode(c) /\ IsCompiledCode(m)
         /\ Len(c.instructions) \in Nat /\ Len(m.instructions) \in Nat \ {0}
         /\ Len(c.constants) \in Nat /\ Len(m.constants) \in Nat
         /\ Len(c.names) \in Nat /\ Len(m.names) \in Nat
         /\ \A a \in DOMAIN depth : a \in Nat /\ a < Len(c.instructions) /\ depth[a] \in Nat
         /\ \A b \in DOMAIN md : b \in Nat /\ b < Len(m.instructions) /\ md[b] \in Nat
<1>1. IsCompiledCode(c) /\ IsCompiledCode(m) /\ Len(m.instructions) > 0
  BY DEF Joins, WellFormed
<1>2. IsSeq(c.instructions) /\ IsSeq(m.instructions) /\ IsSeq(c.constants) /\ IsSeq(m.constants)
      /\ IsSeq(c.names) /\ IsSeq(m.names)
  BY <1>1, SeqIsSeq DEF IsCompiledCode
<1>3. /\ Len(c.instructions) \in Nat /\ Len(m.instructions) \in Nat \ {0}
      /\ Len(c.constants) \in Nat /\ Len(m.constants) \in Nat
      /\ Len(c.names) \in Nat /\ Len(m.names) \in Nat
  BY <1>1, <1>2 DEF IsSeq
<1>4. ASSUME NEW a \in DOMAIN depth PROVE a \in Nat /\ a < Len(c.instructions) /\ depth[a] \in Nat
  <2>1. depth[a] \in Nat /\ a \in Addresses(c)
    BY DepthIsNat DEF Joins
  <2> QED
    BY <1>3, <2>1 DEF Addresses
<1>5. ASSUME NEW b \in DOMAIN md PROVE b \in Nat /\ b < Len(m.instructions) /\ md[b] \in Nat
  <2>1. md[b] \in Nat /\ b \in Addresses(m)
    BY DepthIsNat DEF Joins
  <2> QED
    BY <1>3, <2>1 DEF Addresses
<1> QED
  BY <1>1, <1>3, <1>4, <1>5

\* An address of the joined certificate is one of either part.
LEMMA JoinedParts ==
  ASSUME NEW c, NEW depth, NEW room, NEW m, NEW md, NEW mr, NEW at, Joins(c, depth, room, m, md, mr, at)
  PROVE  LET d == JoinedDepth(c, depth, md, mr, at)
             r == JoinedRoom(c, depth, room, md, mr, at)
             n == Len(c.instructions)
         IN  /\ \A a \in DOMAIN d : a \in DOMAIN depth \/ \E b \in DOMAIN md : a = n + b
             /\ \A a \in DOMAIN depth : a \in DOMAIN d /\ d[a] = depth[a] /\ r[a] = room[a]
             /\ \A b \in DOMAIN md : /\ n + b \in DOMAIN d
                                     /\ d[n + b] = md[b] + (IF mr[b] = 0 THEN depth[at] ELSE 0)
                                     /\ r[n + b] = (IF mr[b] = 0 THEN room[at] ELSE mr[b])
<1> DEFINE n == Len(c.instructions)
           all == LinkedAddresses(depth, md, n)
           d == JoinedDepth(c, depth, md, mr, at)
           r == JoinedRoom(c, depth, room, md, mr, at)
<1>1. n \in Nat /\ (\A a \in DOMAIN depth : a \in Nat /\ a < n) /\ (\A b \in DOMAIN md : b \in Nat)
  BY JoinedLengths
<1>2. /\ DOMAIN d = all
      /\ \A a \in all : d[a] = IF a < n THEN depth[a]
                               ELSE md[a - n] + (IF mr[a - n] = 0 THEN depth[at] ELSE 0)
      /\ \A a \in all : r[a] = IF a < n THEN room[a]
                               ELSE IF mr[a - n] = 0 THEN room[at] ELSE mr[a - n]
  BY Zenon DEF JoinedDepth, LinkedDepth, JoinedRoom, LinkedRoom
<1>3. \A a : a \in all <=> (a \in DOMAIN depth \/ \E b \in DOMAIN md : a = n + b)
  BY Zenon DEF LinkedAddresses
<1> HIDE DEF n, all, d, r
<1>4. ASSUME NEW a \in DOMAIN depth PROVE a \in DOMAIN d /\ d[a] = depth[a] /\ r[a] = room[a]
  BY <1>1, <1>2, <1>3
<1>5. ASSUME NEW b \in DOMAIN md
      PROVE  /\ n + b \in DOMAIN d
             /\ d[n + b] = md[b] + (IF mr[b] = 0 THEN depth[at] ELSE 0)
             /\ r[n + b] = (IF mr[b] = 0 THEN room[at] ELSE mr[b])
  <2>1. b \in Nat /\ n + b \in all /\ ~(n + b < n) /\ (n + b) - n = b
    BY <1>1, <1>3
  <2> QED
    BY <1>2, <2>1, Zenon
<1>6. \A a \in DOMAIN d : a \in DOMAIN depth \/ \E b \in DOMAIN md : a = n + b
  BY <1>2, <1>3, Zenon
<1> QED
  BY <1>4, <1>5, <1>6, Zenon DEF n, d, r

\* The joined certificate at an address of the old code ...
LEMMA JoinedOld ==
  ASSUME NEW c, NEW depth, NEW room, NEW m, NEW md, NEW mr, NEW at, Joins(c, depth, room, m, md, mr, at),
         NEW a \in DOMAIN depth
  PROVE  /\ a \in DOMAIN JoinedDepth(c, depth, md, mr, at)
         /\ JoinedDepth(c, depth, md, mr, at)[a] = depth[a]
         /\ JoinedRoom(c, depth, room, md, mr, at)[a] = room[a]
  BY JoinedParts

\* ... and at one of the module.
LEMMA JoinedNew ==
  ASSUME NEW c, NEW depth, NEW room, NEW m, NEW md, NEW mr, NEW at, Joins(c, depth, room, m, md, mr, at),
         NEW b \in DOMAIN md
  PROVE  /\ Len(c.instructions) + b \in DOMAIN JoinedDepth(c, depth, md, mr, at)
         /\ JoinedDepth(c, depth, md, mr, at)[Len(c.instructions) + b]
              = md[b] + (IF mr[b] = 0 THEN depth[at] ELSE 0)
         /\ JoinedRoom(c, depth, room, md, mr, at)[Len(c.instructions) + b]
              = (IF mr[b] = 0 THEN room[at] ELSE mr[b])
  BY JoinedParts

\* The instructions of the linked code, by address.
LEMMA JoinedInstrs ==
  ASSUME NEW c, NEW depth, NEW room, NEW m, NEW md, NEW mr, NEW at, Joins(c, depth, room, m, md, mr, at)
  PROVE  LET l == Link(c, m, at + 1)
             n == Len(c.instructions)
         IN  /\ \A a \in DOMAIN depth : InstrAt(l, a) = InstrAt(c, a)
             /\ \A b \in DOMAIN md :
                  /\ InstrAt(l, n + b) \in Instruction /\ InstrAt(m, b) \in Instruction
                  /\ b + 1 = Len(m.instructions) => InstrAt(l, n + b) = Instr("JUMP_ABSOLUTE", at + 1)
                  /\ b + 1 # Len(m.instructions) => MovedInstr(c, m, InstrAt(m, b), InstrAt(l, n + b))
<1> DEFINE l == Link(c, m, at + 1)
           n == Len(c.instructions)
<1>1. /\ IsCompiledCode(c) /\ IsCompiledCode(m) /\ n \in Nat /\ Len(m.instructions) \in Nat
      /\ \A a \in DOMAIN depth : a \in Nat /\ a < n
      /\ \A b \in DOMAIN md : b \in Nat /\ b < Len(m.instructions)
      /\ WellFormed(m) /\ at + 1 \in Nat
  BY JoinedLengths DEF Joins
<1>2. ASSUME NEW a \in DOMAIN depth PROVE InstrAt(l, a) = InstrAt(c, a)
  <2>1. a + 1 \in 1 .. n
    BY <1>1
  <2> QED
    BY <1>1, <2>1, LinkedKeeps DEF InstrAt
<1>3. ASSUME NEW b \in DOMAIN md
      PROVE  /\ InstrAt(l, n + b) \in Instruction /\ InstrAt(m, b) \in Instruction
             /\ b + 1 = Len(m.instructions) => InstrAt(l, n + b) = Instr("JUMP_ABSOLUTE", at + 1)
             /\ b + 1 # Len(m.instructions) => MovedInstr(c, m, InstrAt(m, b), InstrAt(l, n + b))
  <2>1. b + 1 \in 1 .. Len(m.instructions)
    BY <1>1
  <2>2. (n + b) + 1 = n + (b + 1)
    BY <1>1
  <2>3. /\ l.instructions[n + (b + 1)] \in Instruction /\ m.instructions[b + 1] \in Instruction
        /\ b + 1 = Len(m.instructions) => l.instructions[n + (b + 1)] = Instr("JUMP_ABSOLUTE", at + 1)
        /\ b + 1 # Len(m.instructions) =>
             MovedInstr(c, m, m.instructions[b + 1], l.instructions[n + (b + 1)])
    BY <1>1, <2>1, RelocatedInPlace, Zenon
  <2>4. InstrAt(l, n + b) = l.instructions[n + (b + 1)] /\ InstrAt(m, b) = m.instructions[b + 1]
    BY <2>2, Zenon DEF InstrAt
  <2> QED
    BY <2>3, <2>4, Zenon
<1> QED
  BY <1>2, <1>3, Zenon

\* The old instructions are where they were.
LEMMA InstrOld ==
  ASSUME NEW c, NEW depth, NEW room, NEW m, NEW md, NEW mr, NEW at, Joins(c, depth, room, m, md, mr, at),
         NEW a \in DOMAIN depth
  PROVE  InstrAt(Link(c, m, at + 1), a) = InstrAt(c, a)
  BY JoinedInstrs

\* What a certificate says of one address.
AddressInv(c, depth, room, a) ==
  /\ a \in Addresses(c) /\ depth[a] \in Nat
  /\ Needs(InstrAt(c, a)) <= depth[a]
  /\ OperandInRange(c, InstrAt(c, a), room[a])
  /\ \A s \in Successors(InstrAt(c, a), a, room[a] # 0) : Flows(InstrAt(c, a), depth, room, a, s)

\* It says so of each of its addresses.
LEMMA CertificateOfAddress ==
  ASSUME NEW c, NEW depth, NEW room, IsCertificate(c, depth, room), NEW a \in DOMAIN depth
  PROVE  AddressInv(c, depth, room, a)
<1>1. a \in Addresses(c) /\ depth[a] \in Nat
  BY DepthIsNat
<1>2. /\ Needs(InstrAt(c, a)) <= depth[a]
      /\ OperandInRange(c, InstrAt(c, a), room[a])
      /\ \A s \in Successors(InstrAt(c, a), a, room[a] # 0) : Flows(InstrAt(c, a), depth, room, a, s)
  BY Zenon DEF IsCertificate
<1> QED
  BY <1>1, <1>2 DEF AddressInv

\* A sum is no less than its parts.
LEMMA SumGrows ==
  ASSUME NEW x \in Nat, NEW y \in Nat, NEW z, z = x + y
  PROVE  z \in Nat /\ z >= x /\ \A a \in Nat : a < x => a \in 0 .. z - 1
  OBVIOUS

\* The old code keeps its certificate: its pools only grow.
LEMMA OldAddress ==
  ASSUME NEW c, NEW depth, NEW room, NEW m, NEW md, NEW mr, NEW at, Joins(c, depth, room, m, md, mr, at),
         NEW a \in DOMAIN depth
  PROVE  AddressInv(Link(c, m, at + 1), JoinedDepth(c, depth, md, mr, at),
                    JoinedRoom(c, depth, room, md, mr, at), a)
<1> DEFINE l == Link(c, m, at + 1)
           d == JoinedDepth(c, depth, md, mr, at)
           r == JoinedRoom(c, depth, room, md, mr, at)
           ins == InstrAt(c, a)
<1>1. AddressInv(c, depth, room, a)
  BY CertificateOfAddress DEF Joins
<1>2. \A x \in DOMAIN depth : x \in DOMAIN d /\ d[x] = depth[x] /\ r[x] = room[x]
  BY JoinedOld
<1>3. InstrAt(l, a) = ins
  BY InstrOld
<1>4. /\ Len(l.constants) >= Len(c.constants) /\ Len(l.names) >= Len(c.names)
      /\ Len(l.constants) \in Nat /\ Len(l.names) \in Nat
      /\ Len(c.constants) \in Nat /\ Len(c.names) \in Nat
      /\ a \in Addresses(l)
  <2>1. /\ Len(l.instructions) = Len(c.instructions) + Len(m.instructions)
        /\ Len(l.constants) = Len(c.constants) + Len(m.constants)
    BY JoinedLengths, LinkedPrefix
  <2>2. l.names = MergedNames(c.names, m.names)
    BY LinkedNames
  <2>3. IsSeq(c.names) /\ IsSeq(m.names)
    BY JoinedLengths, SeqIsSeq DEF IsCompiledCode
  <2>4. Len(l.names) >= Len(c.names) /\ Len(l.names) \in Nat
    BY <2>2, <2>3, MergedNamesAreBoth DEF IsSeq
  <2> HIDE DEF l
  <2>5. /\ a \in Nat /\ a < Len(c.instructions)
        /\ Len(c.instructions) \in Nat /\ Len(m.instructions) \in Nat
        /\ Len(c.constants) \in Nat /\ Len(m.constants) \in Nat /\ Len(c.names) \in Nat
    BY JoinedLengths
  <2> DEFINE size == Len(l.instructions)
             pool == Len(l.constants)
  <2>6. size = Len(c.instructions) + Len(m.instructions) /\ pool = Len(c.constants) + Len(m.constants)
    BY <2>1
  <2> HIDE DEF size, pool
  <2>7. a \in 0 .. size - 1 /\ pool >= Len(c.constants) /\ pool \in Nat
    BY <2>5, <2>6, SumGrows
  <2> USE DEF size, pool
  <2>8. a \in Addresses(l) /\ Len(l.constants) >= Len(c.constants) /\ Len(l.constants) \in Nat
    BY <2>7, Zenon DEF Addresses
  <2> QED
    BY <2>4, <2>5, <2>8
<1>5. ins.arg \in Nat
  <2>1. a + 1 \in 1 .. Len(c.instructions) /\ c.instructions \in Seq(Instruction)
    BY JoinedLengths DEF IsCompiledCode
  <2>2. ins \in Instruction
    BY <2>1, ElementOfSeq DEF InstrAt
  <2> QED
    BY <2>2 DEF Instruction
<1> HIDE DEF l, d, r, ins
<1>6. Needs(ins) <= d[a] /\ d[a] \in Nat /\ r[a] = room[a]
  BY <1>1, <1>2 DEF AddressInv, ins
<1>7. OperandInRange(l, ins, room[a])
  BY <1>1, <1>4, <1>5 DEF AddressInv, OperandInRange, ins
<1>8. ASSUME NEW s \in Successors(ins, a, room[a] # 0) PROVE Flows(ins, d, r, a, s)
  <2>1. Flows(ins, depth, room, a, s)
    BY <1>1 DEF AddressInv, ins
  <2>2. s \in DOMAIN depth /\ room[s] = room[a] /\ depth[s] + Needs(ins) <= depth[a] + Gives(ins)
    BY <2>1 DEF Flows
  <2>3. s \in DOMAIN d /\ d[s] = depth[s] /\ r[s] = room[s] /\ d[a] = depth[a] /\ r[a] = room[a]
    BY <1>2, <2>2
  <2> QED
    BY <2>2, <2>3, Zenon DEF Flows
<1>9. AddressInv(l, d, r, a)
  BY <1>3, <1>4, <1>6, <1>7, <1>8, Zenon DEF AddressInv
<1> QED
  BY <1>9 DEF l, d, r

\* A moved instruction needs and gives what it did ...
LEMMA MovedEffect ==
  ASSUME NEW c, NEW m, NEW was \in Instruction, NEW ins, MovedInstr(c, m, was, ins)
  PROVE  Needs(ins) = Needs(was) /\ Gives(ins) = Gives(was)
<1>1. ins.op = was.op
  BY DEF MovedInstr
<1>2. CASE was.op \in {"CALL_FUNCTION", "PRINT"}
  BY <1>2 DEF MovedInstr, Jump, CondJump, Renumbered
<1>3. CASE was.op \notin {"CALL_FUNCTION", "PRINT"}
  BY <1>1, <1>3 DEF Needs, Gives
<1> QED
  BY <1>2, <1>3

\* ins goes where was went, within the module (slots tell code of functions).
GoesAsBefore(c, was, ins, b, slots, before) ==
  \A s \in Successors(ins, Len(c.instructions) + b, slots # 0) :
    \E t \in Successors(was, b, before # 0) : s = Len(c.instructions) + t

\* A moved instruction goes where it went.
LEMMA MovedSuccessors ==
  ASSUME NEW c, NEW m, NEW was \in Instruction, NEW ins, MovedInstr(c, m, was, ins),
         Len(c.instructions) \in Nat, NEW b \in Nat, NEW slots, NEW before,
         before # 0 => slots # 0
  PROVE  GoesAsBefore(c, was, ins, b, slots, before)
<1> SUFFICES ASSUME NEW s \in Successors(ins, Len(c.instructions) + b, slots # 0)
             PROVE  \E t \in Successors(was, b, before # 0) : s = Len(c.instructions) + t
  BY DEF GoesAsBefore
<1> DEFINE n == Len(c.instructions)
<1>1. ins.op = was.op /\ n \in Nat
  BY DEF MovedInstr
<1>2. was.op \in Jump => ins.arg = was.arg + n
  BY DEF MovedInstr
<1>3. was.arg \in Nat
  BY DEF Instruction
<1>4. was.arg + n = n + was.arg /\ (n + b) + 1 = n + (b + 1)
  <2>1. \A x, y \in Nat : y + x = x + y /\ (x + y) + 1 = x + (y + 1)
    OBVIOUS
  <2> QED
    BY <1>1, <1>3, <2>1, Zenon
<1>5. was.op \in Jump => ins.arg = n + was.arg
  BY <1>2, <1>4, Zenon
<1>6. s \in Successors(ins, n + b, slots # 0)
  OBVIOUS
<1> HIDE DEF n
<1>7. CASE was.op \in CondJump
  <2>1. Successors(was, b, before # 0) = {b + 1, was.arg}
    BY <1>7 DEF Successors, CondJump
  <2>2. s \in {(n + b) + 1, ins.arg}
    BY <1>1, <1>6, <1>7 DEF Successors
  <2>3. s = n + (b + 1) \/ s = n + was.arg
    BY <1>4, <1>5, <1>7, <2>2 DEF Jump
  <2>4. b + 1 \in Successors(was, b, before # 0) /\ was.arg \in Successors(was, b, before # 0)
    BY <2>1
  <2>5. \E t \in Successors(was, b, before # 0) : s = n + t
    BY <2>3, <2>4, Zenon
  <2> QED
    BY <2>5 DEF n
<1>8. CASE was.op = "JUMP_ABSOLUTE"
  <2>1. Successors(was, b, before # 0) = {was.arg}
    BY <1>8 DEF Successors, CondJump
  <2>2. s \in {ins.arg}
    BY <1>1, <1>6, <1>8 DEF Successors, CondJump
  <2>3. s = n + was.arg
    BY <1>5, <1>8, <2>2 DEF Jump
  <2>4. \E t \in Successors(was, b, before # 0) : s = n + t
    BY <2>1, <2>3, Zenon
  <2> QED
    BY <2>4 DEF n
<1>9. CASE was.op \notin Jump
  <2>1. was.op # "HALT" /\ ~(was.op = "RETURN_VALUE" /\ slots # 0) /\ s \in {(n + b) + 1}
    BY <1>1, <1>6, <1>9 DEF Successors, Jump, CondJump
  <2>2. Successors(was, b, before # 0) = {b + 1}
    BY <1>9, <2>1 DEF Successors, Jump, CondJump
  <2>3. s = n + (b + 1) /\ b + 1 \in Successors(was, b, before # 0)
    BY <1>4, <2>1, <2>2
  <2>4. \E t \in Successors(was, b, before # 0) : s = n + t
    BY <2>3, Zenon
  <2> QED
    BY <2>4 DEF n
<1> QED
  BY <1>7, <1>8, <1>9, Zenon DEF Jump

\* The pools of the linked code hold what moved instructions name.
LEMMA MovedOperand ==
  ASSUME NEW c, NEW depth, NEW room, NEW m, NEW md, NEW mr, NEW at, Joins(c, depth, room, m, md, mr, at),
         NEW b \in DOMAIN md, NEW ins, MovedInstr(c, m, InstrAt(m, b), ins), NEW slots,
         mr[b] = 0 \/ slots = mr[b]
  PROVE  OperandInRange(Link(c, m, at + 1), ins, slots)
<1> DEFINE was == InstrAt(m, b)
           l   == Link(c, m, at + 1)
<1>1. OperandInRange(m, was, mr[b]) /\ was \in Instruction
  <2>1. AddressInv(m, md, mr, b)
    BY CertificateOfAddress DEF Joins
  <2> QED
    BY <2>1, JoinedInstrs DEF AddressInv
<1>2. ins.op = was.op /\ was.arg \in Nat
  BY <1>1 DEF MovedInstr, Instruction
<1>3. was.op \notin {"IMPORT_NAME"} \cup InplaceName
  BY DEF Joins
<1>4. ASSUME was.op = "LOAD_CONST" PROVE ins.arg < Len(l.constants)
  <2>1. ins.arg = was.arg + Len(c.constants)
    BY <1>4 DEF MovedInstr
  <2>2. was.arg < Len(m.constants)
    BY <1>1, <1>4 DEF OperandInRange
  <2>3. Len(l.constants) = Len(c.constants) + Len(m.constants)
    BY JoinedLengths, LinkedPrefix
  <2>4. Len(m.constants) \in Nat /\ Len(c.constants) \in Nat
    BY JoinedLengths
  <2>5. \A x, y, z \in Nat : x < y => x + z < z + y
    OBVIOUS
  <2>6. was.arg + Len(c.constants) < Len(c.constants) + Len(m.constants)
    BY <1>2, <2>2, <2>4, <2>5, Zenon
  <2> QED
    BY <2>1, <2>3, <2>6, Zenon
<1>5. ASSUME was.op \in UsesName PROVE ins.arg < Len(l.names)
  <2>1. was.op \in Renumbered
    BY <1>3, <1>5 DEF UsesName, Renumbered
  <2>2. was.arg + 1 \in 1 .. Len(m.names) /\ ins.arg = NameMap(c.names, m.names)[was.arg + 1]
    BY <2>1 DEF MovedInstr
  <2>3. IsSeq(c.names) /\ IsSeq(m.names)
    BY JoinedLengths, SeqIsSeq DEF IsCompiledCode
  <2>4. l.names = MergedNames(c.names, m.names)
    BY LinkedNames
  <2>5. NameMap(c.names, m.names)[was.arg + 1] < Len(MergedNames(c.names, m.names))
    BY <2>2, <2>3, NameMapInPool
  <2> QED
    BY <2>2, <2>4, <2>5, Zenon
<1>6. ASSUME was.op \in UsesLocal PROVE ins.arg < slots
  <2>1. ins = was /\ was.arg < mr[b]
    BY <1>1, <1>6 DEF MovedInstr, OperandInRange, UsesLocal, Jump, CondJump, Renumbered
  <2>2. mr[b] # 0
    <3>1. \A x \in Nat : ~(x < 0)
      OBVIOUS
    <3> QED
      BY <1>2, <2>1, <3>1, Zenon
  <2> QED
    BY <2>1, <2>2, Zenon
<1> QED
  BY <1>2, <1>4, <1>5, <1>6, Zenon DEF OperandInRange

\* The module's addresses are addresses of the linked code.
LEMMA NewIsAddress ==
  ASSUME NEW c, NEW depth, NEW room, NEW m, NEW md, NEW mr, NEW at, Joins(c, depth, room, m, md, mr, at),
         NEW b \in DOMAIN md
  PROVE  Len(c.instructions) + b \in Addresses(Link(c, m, at + 1))
<1> DEFINE size == Len(Link(c, m, at + 1).instructions)
<1>1. size = Len(c.instructions) + Len(m.instructions)
  BY JoinedLengths, LinkedPrefix
<1>2. b \in Nat /\ b < Len(m.instructions) /\ Len(c.instructions) \in Nat /\ Len(m.instructions) \in Nat
  BY JoinedLengths
<1>3. \A x, y, z \in Nat : z < y => x + z \in 0 .. (x + y) - 1
  OBVIOUS
<1> HIDE DEF size
<1>4. Len(c.instructions) + b \in 0 .. size - 1
  BY <1>1, <1>2, <1>3, Zenon
<1> QED
  BY <1>4, Zenon DEF Addresses, size

\* The module's HALT has become the jump back to its import.
LEMMA LastAddress ==
  ASSUME NEW c, NEW depth, NEW room, NEW m, NEW md, NEW mr, NEW at, Joins(c, depth, room, m, md, mr, at),
         NEW b \in DOMAIN md, b + 1 = Len(m.instructions)
  PROVE  AddressInv(Link(c, m, at + 1), JoinedDepth(c, depth, md, mr, at),
                    JoinedRoom(c, depth, room, md, mr, at), Len(c.instructions) + b)
<1> DEFINE n   == Len(c.instructions)
           l   == Link(c, m, at + 1)
           d   == JoinedDepth(c, depth, md, mr, at)
           r   == JoinedRoom(c, depth, room, md, mr, at)
           ins == InstrAt(l, n + b)
<1>1. ins = Instr("JUMP_ABSOLUTE", at + 1)
  BY JoinedInstrs
<1>2. mr[b] = 0
  <2>1. InstrAt(m, b).op = "HALT"
    BY Zenon DEF Joins, WellFormed, InstrAt
  <2> QED
    BY <2>1 DEF Joins
<1>3. d[n + b] = md[b] + depth[at] /\ r[n + b] = room[at]
  BY <1>2, JoinedNew
<1>4. /\ at \in DOMAIN depth /\ at + 1 \in DOMAIN depth
      /\ room[at + 1] = room[at] /\ depth[at + 1] <= depth[at]
  BY DEF Joins
<1>5. depth[at] \in Nat /\ depth[at + 1] \in Nat /\ md[b] \in Nat /\ b \in Nat
  BY <1>4, JoinedLengths
<1>6. at + 1 \in DOMAIN d /\ d[at + 1] = depth[at + 1] /\ r[at + 1] = room[at + 1]
  BY <1>4, JoinedOld
<1>7. n + b \in Addresses(l)
  BY NewIsAddress
<1> HIDE DEF n, l, d, r, ins
<1>8. /\ Needs(ins) = 0 /\ Gives(ins) = 0 /\ ins.op = "JUMP_ABSOLUTE"
      /\ \A f : Successors(ins, n + b, f) = {at + 1}
  BY <1>1 DEF Instr, Needs, Gives, Successors, Binary, BinaryArith, Comparison, Unary, CondJump, InplaceName
<1>9. OperandInRange(l, ins, r[n + b])
  BY <1>8 DEF OperandInRange, UsesName, UsesLocal, InplaceName
<1>10. d[n + b] \in Nat /\ 0 <= d[n + b] /\ d[at + 1] + 0 <= d[n + b] + 0
  <2>1. \A x, y, z \in Nat : z <= y => x + y \in Nat /\ 0 <= x + y /\ z + 0 <= (x + y) + 0
    OBVIOUS
  <2> QED
    BY <1>3, <1>4, <1>5, <1>6, <2>1, Zenon
<1>11. Flows(ins, d, r, n + b, at + 1)
  BY <1>3, <1>4, <1>6, <1>8, <1>10, Zenon DEF Flows
<1>12. AddressInv(l, d, r, n + b)
  BY <1>7, <1>8, <1>9, <1>10, <1>11 DEF AddressInv, ins
<1> QED
  BY <1>12 DEF n, l, d, r

\* The module's other instructions work over the operands of its importer, as
\* in the module's own certificate.
LEMMA MovedAddress ==
  ASSUME NEW c, NEW depth, NEW room, NEW m, NEW md, NEW mr, NEW at, Joins(c, depth, room, m, md, mr, at),
         NEW b \in DOMAIN md, b + 1 # Len(m.instructions)
  PROVE  AddressInv(Link(c, m, at + 1), JoinedDepth(c, depth, md, mr, at),
                    JoinedRoom(c, depth, room, md, mr, at), Len(c.instructions) + b)
<1> DEFINE n     == Len(c.instructions)
           l     == Link(c, m, at + 1)
           d     == JoinedDepth(c, depth, md, mr, at)
           r     == JoinedRoom(c, depth, room, md, mr, at)
           was   == InstrAt(m, b)
           ins   == InstrAt(l, n + b)
           under == IF mr[b] = 0 THEN depth[at] ELSE 0
           slots == IF mr[b] = 0 THEN room[at] ELSE mr[b]
<1>1. MovedInstr(c, m, was, ins) /\ was \in Instruction
  BY JoinedInstrs
<1>2. AddressInv(m, md, mr, b)
  BY CertificateOfAddress DEF Joins
<1>3. d[n + b] = md[b] + under /\ r[n + b] = slots
  BY JoinedNew
<1>4. under \in Nat /\ n \in Nat /\ b \in Nat /\ md[b] \in Nat
  <2>1. depth[at] \in Nat /\ n \in Nat /\ b \in Nat /\ md[b] \in Nat
    BY JoinedLengths DEF Joins
  <2> QED
    BY <2>1
<1>5. n + b \in Addresses(l)
  BY NewIsAddress
<1>6. OperandInRange(l, ins, slots)
  <2>1. mr[b] = 0 \/ slots = mr[b]
    OBVIOUS
  <2> QED
    BY <1>1, <2>1, MovedOperand
<1>7. (mr[b] # 0) => (slots # 0)
  OBVIOUS
<1>8. Needs(ins) = Needs(was) /\ Gives(ins) = Gives(was) /\ Needs(was) \in Nat /\ Gives(was) \in Nat
  BY <1>1, MovedEffect, StackEffectIsNat
<1>9. ASSUME NEW t \in DOMAIN md, mr[t] = mr[b]
      PROVE  /\ n + t \in DOMAIN d /\ d[n + t] = md[t] + under /\ r[n + t] = slots /\ md[t] \in Nat
  BY <1>9, JoinedNew, JoinedLengths
<1> HIDE DEF l, d, r, was, ins, under, slots
<1>10. ASSUME NEW s \in Successors(ins, n + b, slots # 0) PROVE Flows(ins, d, r, n + b, s)
  <2>1. PICK t \in Successors(was, b, mr[b] # 0) : s = n + t
    <3>1. GoesAsBefore(c, was, ins, b, slots, mr[b])
      BY <1>1, <1>4, <1>7, MovedSuccessors
    <3> QED
      BY <3>1 DEF GoesAsBefore
  <2>2. Flows(was, md, mr, b, t)
    BY <1>2 DEF AddressInv, was
  <2>3. t \in DOMAIN md /\ mr[t] = mr[b] /\ md[t] + Needs(was) <= md[b] + Gives(was)
    BY <2>2 DEF Flows
  <2>4. s \in DOMAIN d /\ d[s] = md[t] + under /\ r[s] = slots /\ md[t] \in Nat
    BY <1>9, <2>1, <2>3
  <2>5. (md[t] + under) + Needs(was) <= (md[b] + under) + Gives(was)
    <3>1. \A x, y, u, k, g \in Nat : x + k <= y + g => (x + u) + k <= (y + u) + g
      OBVIOUS
    <3> QED
      BY <1>4, <1>8, <2>3, <2>4, <3>1, Zenon
  <2> QED
    BY <1>3, <1>8, <2>4, <2>5, Zenon DEF Flows
<1>11. d[n + b] \in Nat /\ Needs(ins) <= d[n + b]
  <2>1. Needs(was) <= md[b]
    BY <1>2 DEF AddressInv, was
  <2>2. \A x, u, k \in Nat : k <= x => x + u \in Nat /\ k <= x + u
    OBVIOUS
  <2> QED
    BY <1>3, <1>4, <1>8, <2>1, <2>2, Zenon
<1>12. AddressInv(l, d, r, n + b)
  BY <1>3, <1>5, <1>6, <1>10, <1>11, Zenon DEF AddressInv, ins
<1> QED
  BY <1>12 DEF n, l, d, r

\* What a certificate says of a constant.
FunctionInv(depth, room, f) ==
  f.t = "FUNCTION" =>
    f.entry \in DOMAIN depth /\ depth[f.entry] = 0 /\ room[f.entry] = LocalCount(f.slots)

\* The functions of the old code start where they did.
LEMMA OldFunction ==
  ASSUME NEW c, NEW depth, NEW room, NEW m, NEW md, NEW mr, NEW at, Joins(c, depth, room, m, md, mr, at),
         NEW i \in 1 .. Len(c.constants)
  PROVE  FunctionInv(JoinedDepth(c, depth, md, mr, at), JoinedRoom(c, depth, room, md, mr, at),
                     c.constants[i])
<1> DEFINE f == c.constants[i]
<1>1. FunctionInv(depth, room, f)
  BY DEF Joins, IsCertificate, FunctionInv
<1> HIDE DEF f
<1>2. FunctionInv(JoinedDepth(c, depth, md, mr, at), JoinedRoom(c, depth, room, md, mr, at), f)
  <2> SUFFICES ASSUME f.t = "FUNCTION"
               PROVE  FunctionInv(JoinedDepth(c, depth, md, mr, at),
                                  JoinedRoom(c, depth, room, md, mr, at), f)
    BY DEF FunctionInv
  <2>1. f.entry \in DOMAIN depth /\ depth[f.entry] = 0 /\ room[f.entry] = LocalCount(f.slots)
    BY <1>1 DEF FunctionInv
  <2>2. /\ f.entry \in DOMAIN JoinedDepth(c, depth, md, mr, at)
        /\ JoinedDepth(c, depth, md, mr, at)[f.entry] = depth[f.entry]
        /\ JoinedRoom(c, depth, room, md, mr, at)[f.entry] = room[f.entry]
    BY <2>1, JoinedOld
  <2> QED
    BY <2>1, <2>2, Zenon DEF FunctionInv
<1> QED
  BY <1>2 DEF f

\* Those of the module have moved with it, and start with an empty frame, too.
LEMMA MovedFunction ==
  ASSUME NEW c, NEW depth, NEW room, NEW m, NEW md, NEW mr, NEW at, Joins(c, depth, room, m, md, mr, at),
         NEW i \in 1 .. Len(m.constants)
  PROVE  FunctionInv(JoinedDepth(c, depth, md, mr, at), JoinedRoom(c, depth, room, md, mr, at),
                     RelocatedConstant(m.constants[i], Len(c.instructions)))
<1> DEFINE n   == Len(c.instructions)
           was == m.constants[i]
           f   == RelocatedConstant(was, n)
           d   == JoinedDepth(c, depth, md, mr, at)
           r   == JoinedRoom(c, depth, room, md, mr, at)
<1> SUFFICES ASSUME f.t = "FUNCTION"
             PROVE  f.entry \in DOMAIN d /\ d[f.entry] = 0 /\ r[f.entry] = LocalCount(f.slots)
  BY DEF FunctionInv
<1>1. n \in Nat /\ WellFormed(m)
  BY JoinedLengths DEF Joins
<1>2. was.t = "FUNCTION" /\ f = PyFunction(was.entry + n, was.slots) /\ was.slots \in Nat
  BY <1>1, RelocatedConstants
<1>3. was.entry \in DOMAIN md /\ md[was.entry] = 0 /\ mr[was.entry] = LocalCount(was.slots)
  BY <1>2 DEF Joins, IsCertificate
<1>4. mr[was.entry] # 0
  BY <1>2, <1>3 DEF LocalCount, INLINE_SLOTS
<1>5. was.entry \in Nat
  BY <1>3, JoinedLengths
<1>6. /\ n + was.entry \in DOMAIN d
      /\ d[n + was.entry] = md[was.entry] + (IF mr[was.entry] = 0 THEN depth[at] ELSE 0)
      /\ r[n + was.entry] = (IF mr[was.entry] = 0 THEN room[at] ELSE mr[was.entry])
  BY <1>3, JoinedNew
<1> HIDE DEF n, was, f, d, r
<1>7. f.entry = n + was.entry /\ f.slots = was.slots
  <2>1. f.entry = was.entry + n /\ f.slots = was.slots
    BY <1>2 DEF PyFunction
  <2>2. was.entry + n = n + was.entry
    BY <1>1, <1>5
  <2> QED
    BY <2>1, <2>2, Zenon
<1>8. d[n + was.entry] = 0 /\ r[n + was.entry] = LocalCount(was.slots)
  <2>1. d[n + was.entry] = md[was.entry] + 0 /\ r[n + was.entry] = mr[was.entry]
    BY <1>4, <1>6
  <2>2. md[was.entry] + 0 = 0
    BY <1>3
  <2> QED
    BY <1>3, <2>1, <2>2, Zenon
<1> QED
  BY <1>6, <1>7, <1>8, Zenon

\* The joined certificate is one of the linked code.
LEMMA JoinedCertificate ==
  ASSUME NEW c, NEW depth, NEW room, NEW m, NEW md, NEW mr, NEW at, Joins(c, depth, room, m, md, mr, at)
  PROVE  IsCertificate(Link(c, m, at + 1), JoinedDepth(c, depth, md, mr, at),
                       JoinedRoom(c, depth, room, md, mr, at))
<1> DEFINE n == Len(c.instructions)
           l == Link(c, m, at + 1)
           d == JoinedDepth(c, depth, md, mr, at)
           r == JoinedRoom(c, depth, room, md, mr, at)
<1>1. ASSUME NEW a \in DOMAIN d PROVE AddressInv(l, d, r, a)
  <2>1. a \in DOMAIN depth \/ \E b \in DOMAIN md : a = n + b
    BY JoinedParts
  <2>2. CASE a \in DOMAIN depth
    BY <2>2, OldAddress
  <2>3. CASE \E b \in DOMAIN md : a = n + b
    <3>1. PICK b \in DOMAIN md : a = n + b
      BY <2>3
    <3>2. AddressInv(l, d, r, n + b)
      BY LastAddress, MovedAddress
    <3> QED
      BY <3>1, <3>2, Zenon
  <2> QED
    BY <2>1, <2>2, <2>3
<1>2. ASSUME NEW i \in 1 .. Len(l.constants) PROVE FunctionInv(d, r, l.constants[i])
  <2>1. /\ IsCompiledCode(c) /\ IsCompiledCode(m)
        /\ Len(c.constants) \in Nat /\ Len(m.constants) \in Nat
    BY JoinedLengths
  <2>2. Len(l.constants) = Len(c.constants) + Len(m.constants)
    BY <2>1, LinkedPrefix
  <2>3. i \in 1 .. Len(c.constants) + Len(m.constants)
    BY <2>2, Zenon
  <2>4. i \in 1 .. Len(c.constants) \/ \E k \in 1 .. Len(m.constants) : i = Len(c.constants) + k
    BY <2>1, <2>3, OldOrNew
  <2>5. CASE i \in 1 .. Len(c.constants)
    <3>1. l.constants[i] = c.constants[i]
      BY <2>1, <2>5, LinkedKeeps
    <3>2. FunctionInv(d, r, c.constants[i])
      BY <2>5, OldFunction
    <3> QED
      BY <3>1, <3>2, Zenon
  <2>6. CASE \E k \in 1 .. Len(m.constants) : i = Len(c.constants) + k
    <3>1. PICK k \in 1 .. Len(m.constants) : i = Len(c.constants) + k
      BY <2>6
    <3>2. l.constants[Len(c.constants) + k] = RelocatedConstant(m.constants[k], n)
      BY <2>1, LinkedSuffix
    <3>3. FunctionInv(d, r, RelocatedConstant(m.constants[k], n))
      BY MovedFunction
    <3> QED
      BY <3>1, <3>2, <3>3, Zenon
  <2> QED
    BY <2>4, <2>5, <2>6
<1>3. 0 \in DOMAIN d /\ d[0] = 0 /\ r[0] = 0
  <2>1. 0 \in DOMAIN depth /\ depth[0] = 0 /\ room[0] = 0
    BY Zenon DEF Joins, IsCertificate
  <2>2. 0 \in DOMAIN d /\ d[0] = depth[0] /\ r[0] = room[0]
    BY <2>1, JoinedOld
  <2> QED
    BY <2>1, <2>2, Zenon
<1>4. d = [a \in DOMAIN d |-> d[a]]
  BY DEF JoinedDepth, LinkedDepth
<1> HIDE DEF l, d, r
<1>5. d \in [DOMAIN d -> Nat] /\ DOMAIN d \subseteq Addresses(l)
  BY <1>1, <1>4 DEF AddressInv
<1>6. IsCertificate(l, d, r)
  BY <1>1, <1>2, <1>3, <1>5, Zenon DEF IsCertificate, AddressInv, FunctionInv
<1> QED
  BY <1>6 DEF l, d, r

\* An import joins the certificate of the code and that of the module.
LEMMA ImportJoins ==
  ASSUME TInv, NEW depth, NEW room, Certified(depth, room), status = "running", Here.op = "IMPORT_NAME",
         NEW name \in DOMAIN Modules, Modules[name] # NotCompiled
  PROVE  Joins(code, depth, room, Modules[name], ModuleDepth[name], ModuleRoom[name], pc)
<1>1. IsCompiledCode(code) /\ IsCertificate(code, depth, room)
  BY TypesOfParts DEF Certified
<1>2. /\ WellFormed(Modules[name])
      /\ IsCertificate(Modules[name], ModuleDepth[name], ModuleRoom[name])
      /\ \A b \in DOMAIN ModuleDepth[name] :
           /\ InstrAt(Modules[name], b).op \notin {"IMPORT_NAME"} \cup InplaceName
           /\ InstrAt(Modules[name], b).op = "HALT" => ModuleRoom[name][b] = 0
  BY CompilerAssumption, CertifiedModules
<1>3. Needs(Here) = 0 /\ Gives(Here) = 0 /\ pc + 1 \in Successors(Here, pc, room[pc] # 0)
  BY DEF Needs, Gives, Successors, Binary, BinaryArith, Comparison, Unary, CondJump, InplaceName
<1>4. pc \in DOMAIN depth /\ depth[pc] \in Nat /\ Flows(Here, depth, room, pc, pc + 1)
  BY <1>3, CurrentInstr
<1>5. pc + 1 \in DOMAIN depth /\ room[pc + 1] = room[pc] /\ depth[pc + 1] + 0 <= depth[pc] + 0
  BY <1>3, <1>4, Zenon DEF Flows
<1>6. depth[pc + 1] <= depth[pc]
  <2>1. depth[pc + 1] \in Nat
    BY <1>1, <1>5, DepthIsNat
  <2>2. \A x, y \in Nat : x + 0 <= y + 0 => x <= y
    OBVIOUS
  <2> QED
    BY <1>4, <1>5, <2>1, <2>2, Zenon
<1> QED
  BY <1>1, <1>2, <1>4, <1>5, <1>6 DEF Joins

\* Linking a module: it starts over the operands of the frame that imports it,
\* and comes back to that frame.
LEMMA LinksCertified ==
  ASSUME TInv, NEW depth, NEW room, Certified(depth, room), status = "running", Links,
         NEW d, d = JoinedDepth(code, depth, ModuleDepth[Imported], ModuleRoom[Imported], pc),
         NEW r, r = JoinedRoom(code, depth, room, ModuleDepth[Imported], ModuleRoom[Imported], pc)
  PROVE  Certified(d, r)'
<1>1. PICK name \in DOMAIN Modules :
        /\ name = Imported /\ Modules[name] # NotCompiled
        /\ code' = Link(code, Modules[name], pc + 1)
        /\ pc' = Len(code.instructions)
  BY DEF Links, Imported
<1>2. Here.op = "IMPORT_NAME" /\ UNCHANGED <<prog, frames, stack, status>>
  BY DEF Links, loaded
<1> DEFINE m  == Modules[name]
           md == ModuleDepth[name]
           mr == ModuleRoom[name]
<1>3. Joins(code, depth, room, m, md, mr, pc)
  BY <1>1, <1>2, ImportJoins
<1>4. d = JoinedDepth(code, depth, md, mr, pc)
  BY <1>1
<1>5. r = JoinedRoom(code, depth, room, md, mr, pc)
  BY <1>1
<1>6. IsCertificate(code, d, r)'
  <2>1. IsCertificate(Link(code, m, pc + 1), d, r)
    BY <1>3, <1>4, <1>5, JoinedCertificate
  <2> QED
    BY <1>1, <2>1
<1>7. ASSUME NEW a \in DOMAIN depth
      PROVE  a \in DOMAIN d /\ d[a] = depth[a] /\ r[a] = room[a] /\ InstrAt(code', a) = InstrAt(code, a)
  BY <1>1, <1>3, <1>4, <1>5, JoinedOld, InstrOld
<1>8. OwnUpdates(d)'
  <2> SUFFICES ASSUME NEW a \in DOMAIN d, InstrAt(code', a).op \in InplaceName
               PROVE  InstrAt(code', a).arg < Len(Programs[prog].names)
    BY <1>2 DEF OwnUpdates
  <2>1. a \in DOMAIN depth \/ \E b \in DOMAIN md : a = Len(code.instructions) + b
    BY <1>3, <1>4, JoinedParts
  <2>2. CASE a \in DOMAIN depth
    <3>1. InstrAt(code, a).op \in InplaceName => InstrAt(code, a).arg < Len(Programs[prog].names)
      BY <2>2 DEF Certified, OwnUpdates
    <3> QED
      BY <1>7, <2>2, <3>1
  <2>3. CASE \E b \in DOMAIN md : a = Len(code.instructions) + b
    <3>1. PICK b \in DOMAIN md : a = Len(code.instructions) + b
      BY <2>3
    <3>2. InstrAt(code', a).op \in {"JUMP_ABSOLUTE", InstrAt(m, b).op}
      <4>1. /\ b + 1 = Len(m.instructions) => InstrAt(code', a) = Instr("JUMP_ABSOLUTE", pc + 1)
            /\ b + 1 # Len(m.instructions) => MovedInstr(code, m, InstrAt(m, b), InstrAt(code', a))
        BY <1>1, <1>3, <3>1, JoinedInstrs
      <4> QED
        BY <4>1 DEF Instr, MovedInstr
    <3>3. InstrAt(m, b).op \notin InplaceName /\ "JUMP_ABSOLUTE" \notin InplaceName
      BY <1>3 DEF Joins, InplaceName
    <3> QED
      BY <3>2, <3>3
  <2> QED
    BY <2>1, <2>2, <2>3
<1>9. CallersInv(d, r)'
  <2> SUFFICES ASSUME NEW k \in 2 .. Len(frames)
               PROVE  /\ frames[k].ret \in DOMAIN d
                      /\ r[frames[k].ret] = RoomOf(k - 1)
                      /\ frames[k].bottom + 1 >= frames[k - 1].bottom + d[frames[k].ret]
    BY <1>2 DEF CallersInv, RoomOf
  <2>1. /\ frames[k].ret \in DOMAIN depth
        /\ room[frames[k].ret] = RoomOf(k - 1)
        /\ frames[k].bottom + 1 >= frames[k - 1].bottom + depth[frames[k].ret]
    BY DEF Certified, CallersInv
  <2>2. /\ frames[k].ret \in DOMAIN d
        /\ d[frames[k].ret] = depth[frames[k].ret] /\ r[frames[k].ret] = room[frames[k].ret]
    BY <1>7, <2>1
  <2> QED
    BY <2>1, <2>2, Zenon
<1>10. CurrentInv(d, r)'
  <2> DEFINE n == Len(code.instructions)
  <2>1. 0 \in DOMAIN md /\ md[0] = 0 /\ mr[0] = 0
    BY <1>3, Zenon DEF Joins, IsCertificate
  <2>2. /\ n + 0 \in DOMAIN d
        /\ d[n + 0] = md[0] + (IF mr[0] = 0 THEN depth[pc] ELSE 0)
        /\ r[n + 0] = (IF mr[0] = 0 THEN room[pc] ELSE mr[0])
    BY <1>3, <1>4, <1>5, <2>1, JoinedNew
  <2>3. n + 0 = n
    BY <1>3, JoinedLengths
  <2>4. room[pc] = RoomOf(Len(frames)) /\ Len(stack) >= Frame.bottom + depth[pc] /\ depth[pc] \in Nat
    BY CurrentInstr
  <2>5. n \in DOMAIN d /\ r[n] = room[pc] /\ d[n] = depth[pc]
    <3>1. 0 + depth[pc] = depth[pc]
      BY <2>4
    <3> HIDE DEF n, md, mr
    <3> QED
      BY <2>1, <2>2, <2>3, <3>1, Zenon
  <2>6. pc' = n
    BY <1>1
  <2>7. pc' \in DOMAIN d /\ r[pc'] = RoomOf(Len(frames)) /\ Len(stack) >= Frame.bottom + d[pc']
    BY <2>4, <2>5, <2>6, Zenon
  <2> QED
    BY <1>2, <2>7 DEF CurrentInv, RoomOf, Frame
<1> QED
  BY <1>6, <1>8, <1>9, <1>10 DEF Certified

\* Linked code is longer than the code it grows from.
LEMMA LinkingGrows ==
  ASSUME TInv, NEW depth, NEW room, Certified(depth, room), status = "running", Links
  PROVE  code' # code
<1>1. PICK name \in DOMAIN Modules :
        Modules[name] # NotCompiled /\ code' = Link(code, Modules[name], pc + 1)
  BY DEF Links
<1>2. Joins(code, depth, room, Modules[name], ModuleDepth[name], ModuleRoom[name], pc)
  BY <1>1, ImportJoins DEF Links
<1> DEFINE m == Modules[name]
<1>3. /\ IsCompiledCode(code) /\ IsCompiledCode(m)
      /\ Len(code.instructions) \in Nat /\ Len(m.instructions) \in Nat \ {0}
  BY <1>2, JoinedLengths
<1>4. Len(code'.instructions) = Len(code.instructions) + Len(m.instructions)
  BY <1>1, <1>3, LinkedPrefix
<1> HIDE DEF m
<1>5. \A x \in Nat, y \in Nat \ {0} : x + y # x
  OBVIOUS
<1>6. Len(code'.instructions) # Len(code.instructions)
  BY <1>3, <1>4, <1>5, Zenon
<1> QED
  BY <1>6, Zenon

\* A program starts with the certificate of its compiled code.
LEMMA StartedCertified ==
  ASSUME NEW p, Started(p)
  PROVE  Certified(Depth[p], Room[p])
<1>1. IsCertificate(code, Depth[p], Room[p])
  BY CertifiedPrograms DEF Started
<1>2. OwnUpdates(Depth[p])
  <2> SUFFICES ASSUME NEW a \in DOMAIN Depth[p], InstrAt(code, a).op \in InplaceName
               PROVE  InstrAt(code, a).arg < Len(Programs[prog].names)
    BY DEF OwnUpdates
  <2>1. OperandInRange(code, InstrAt(code, a), Room[p][a])
    BY <1>1, Zenon DEF IsCertificate
  <2> QED
    BY <2>1 DEF OperandInRange, UsesName, Started
<1>3. Len(frames) = 1 /\ Frame.bottom = 0 /\ stack = <<>> /\ pc = 0
  BY DEF Started, Frame, MainFrame, NewFrame
<1>4. CallersInv(Depth[p], Room[p])
  BY <1>3 DEF CallersInv
<1>5. CurrentInv(Depth[p], Room[p])
  <2>1. 0 \in DOMAIN Depth[p] /\ Depth[p][0] = 0 /\ Room[p][0] = 0
    BY <1>1, Zenon DEF IsCertificate
  <2> QED
    BY <1>3, <2>1 DEF CurrentInv, RoomOf
<1> QED
  BY <1>1, <1>2, <1>4, <1>5 DEF Certified

\* The same of the state after a step.
LEMMA StartedCertifiedNext ==
  ASSUME NEW p
  PROVE  Started(p)' => Certified(Depth[p], Room[p])'
<1>1. Started(p) => Certified(Depth[p], Room[p])
  BY StartedCertified
<1> QED
  BY <1>1, PTL

---------------------------------------------------------------------------------
(* The inductive invariant, and what follows from it. *)

\* The first execution.
LEMMA InitSafe ==
  ASSUME Init
  PROVE  IInv
<1>1. TInv /\ Started(prog)
  BY InitTyped
<1>2. Certified(Depth[prog], Room[prog])
  BY <1>1, StartedCertified
<1> QED
  BY <1>1, <1>2 DEF IInv

\* Every step keeps the invariant; an import joins two certificates.
LEMMA NextSafe ==
  ASSUME IInv, [Next]_vars
  PROVE  IInv'
<1>1. TInv /\ TInv'
  BY NextTyped DEF IInv
<1>2. PICK depth, room : Certified(depth, room)
  BY DEF IInv
<1>3. ASSUME NEW d, NEW r, Certified(d, r)' PROVE IInv'
  BY <1>1, <1>3 DEF IInv
<1>4. CASE Step
  <2>1. status = "running" /\ (Moves \/ Stops \/ Calls \/ Returns \/ Links)
    BY <1>1, <1>4, StepKinds
  <2>2. CASE Moves
    BY <1>1, <1>2, <1>3, <2>1, <2>2, MovesCertified
  <2>3. CASE Stops
    BY <1>1, <1>2, <1>3, <2>3, StopsCertified
  <2>4. CASE Calls
    BY <1>1, <1>2, <1>3, <2>1, <2>4, CallsCertified
  <2>5. CASE Returns
    BY <1>1, <1>2, <1>3, <2>1, <2>5, ReturnsCertified
  <2>6. CASE Links
    <3>1. PICK d : d = JoinedDepth(code, depth, ModuleDepth[Imported], ModuleRoom[Imported], pc)
      OBVIOUS
    <3>2. PICK r : r = JoinedRoom(code, depth, room, ModuleDepth[Imported], ModuleRoom[Imported], pc)
      OBVIOUS
    <3>3. Certified(d, r)'
      BY <1>1, <1>2, <2>1, <2>6, <3>1, <3>2, LinksCertified
    <3> QED
      BY <1>3, <3>3
  <2> QED
    BY <2>1, <2>2, <2>3, <2>4, <2>5, <2>6
<1>5. CASE ExecuteAgain
  <2>1. PICK p : p = prog'
    OBVIOUS
  <2>2. Started(p)'
    BY <1>1, <1>5, <2>1, ExecuteAgainTyped
  <2>3. Certified(Depth[p], Room[p])'
    BY <2>2, StartedCertifiedNext
  <2> QED
    BY <1>3, <2>3
<1>6. CASE UNCHANGED vars
  <2>1. Certified(depth, room)'
    BY <1>2, <1>6 DEF Certified, OwnUpdates, CallersInv, CurrentInv, RoomOf, Frame, vars
  <2> QED
    BY <1>3, <2>1
<1> QED
  BY <1>4, <1>5, <1>6 DEF Next, Finished

\* The running machine fits a certificate of the code that is loaded.
THEOREM Safety == Spec => []IInv
<1>1. Init => IInv
  BY InitSafe
<1>2. IInv /\ [Next]_vars => IInv'
  BY NextSafe
<1> QED
  BY <1>1, <1>2, PTL DEF Spec

\* The witnesses of that invariant: certificate and machine go together through
\* every step.
LEMMA CertificateStays ==
  ASSUME TInv, CertifiedHere, [CertifiedNext]_<<vars, certificate>>
  PROVE  TInv' /\ CertifiedHere'
<1>1. [Next]_vars
  BY DEF CertifiedNext, CertifiedStep, CertifiedAgain, Next
<1>2. TInv'
  BY <1>1, NextTyped
<1>3. PICK d : d = certDepth
  OBVIOUS
<1>4. PICK r : r = certRoom
  OBVIOUS
<1>5. Certified(d, r)
  BY <1>3, <1>4 DEF CertifiedHere
<1>6. ASSUME NEW e, NEW s, e = certDepth', s = certRoom', Certified(e, s)' PROVE CertifiedHere'
  BY <1>6 DEF CertifiedHere, Certified, OwnUpdates, CallersInv, CurrentInv
<1>7. CASE CertifiedStep
  <2>1. status = "running" /\ (Moves \/ Stops \/ Calls \/ Returns \/ Links)
    BY <1>7, StepKinds DEF CertifiedStep
  <2>2. CASE Moves \/ Stops \/ Calls \/ Returns
    <3>1. Certified(d, r)'
      BY <1>2, <1>5, <2>1, <2>2, MovesCertified, StopsCertified, CallsCertified, ReturnsCertified
    <3>2. code' = code
      BY <2>2 DEF Moves, Stops, Calls, Returns
    <3>3. d = certDepth' /\ r = certRoom'
      BY <1>3, <1>4, <1>7, <3>2 DEF CertifiedStep, certificate
    <3> QED
      BY <1>2, <1>6, <3>1, <3>3
  <2>3. CASE Links
    <3>1. PICK e : e = JoinedDepth(code, d, ModuleDepth[Imported], ModuleRoom[Imported], pc)
      OBVIOUS
    <3>2. PICK s : s = JoinedRoom(code, d, r, ModuleDepth[Imported], ModuleRoom[Imported], pc)
      OBVIOUS
    <3>3. Certified(e, s)'
      BY <1>5, <2>1, <2>3, <3>1, <3>2, LinksCertified
    <3>4. code' # code
      BY <1>5, <2>1, <2>3, LinkingGrows
    <3>5. e = certDepth' /\ s = certRoom'
      BY <1>3, <1>4, <1>7, <3>1, <3>2, <3>4
         DEF CertifiedStep, CertificateGrows, JoinedDepth, JoinedRoom
    <3> QED
      BY <1>2, <1>6, <3>3, <3>5
  <2> QED
    BY <2>1, <2>2, <2>3
<1>8. CASE CertifiedAgain
  <2>1. PICK p : p = prog'
    OBVIOUS
  <2>2. Started(p)'
    BY <1>8, <2>1, ExecuteAgainTyped DEF CertifiedAgain
  <2>3. Certified(Depth[p], Room[p])'
    BY <2>2, StartedCertifiedNext
  <2>4. Depth[p] = certDepth' /\ Room[p] = certRoom'
    BY <1>8, <2>1 DEF CertifiedAgain
  <2>5. PICK e : e = Depth[p]
    OBVIOUS
  <2>6. PICK s : s = Room[p]
    OBVIOUS
  <2> QED
    BY <1>2, <1>6, <2>3, <2>4, <2>5, <2>6
<1>9. CASE UNCHANGED <<vars, certificate>>
  BY <1>2, <1>9 DEF CertifiedHere, Certified, OwnUpdates, CallersInv, CurrentInv, RoomOf, Frame, vars,
              certificate
<1>10. CASE Finished /\ UNCHANGED certificate
  BY <1>9, <1>10 DEF Finished
<1> QED
  BY <1>2, <1>7, <1>8, <1>9, <1>10 DEF CertifiedNext

\* The certificate that starts as the program's and is joined at every import with
\* the module's holds good in every state: IInv, with its witness.
THEOREM CertificateIsKept == CertifiedSpec => []CertifiedHere
<1>1. CertifiedInit => TInv /\ CertifiedHere
  <2> SUFFICES ASSUME CertifiedInit PROVE TInv /\ CertifiedHere
    OBVIOUS
  <2>1. TInv /\ Started(prog)
    BY InitTyped DEF CertifiedInit
  <2>2. Certified(Depth[prog], Room[prog])
    BY <2>1, StartedCertified
  <2> QED
    BY <2>1, <2>2 DEF CertifiedInit, CertifiedHere
<1>2. TInv /\ CertifiedHere /\ [CertifiedNext]_<<vars, certificate>> => (TInv /\ CertifiedHere)'
  BY CertificateStays
<1> QED
  BY <1>1, <1>2, PTL DEF CertifiedSpec

\* What the certificate says of the instruction that runs.
LEMMA SafeInstr ==
  ASSUME IInv, status = "running"
  PROVE  /\ TInv /\ pc \in Addresses(code)
         /\ Len(stack) \in Nat /\ Frame.bottom \in Nat /\ Needs(Here) \in Nat
         /\ Len(stack) >= Frame.bottom + Needs(Here)
         /\ OperandInRange(code, Here, RoomOf(Len(frames)))
         /\ Here.op \in InplaceName => Here.arg < Len(Programs[prog].names)
<1>1. TInv
  BY DEF IInv
<1>2. PICK depth, room : Certified(depth, room)
  BY DEF IInv
<1>3. /\ pc \in DOMAIN depth /\ pc \in Addresses(code)
      /\ depth[pc] \in Nat /\ Needs(Here) \in Nat
      /\ Len(stack) >= Frame.bottom + depth[pc] /\ Needs(Here) <= depth[pc]
      /\ OperandInRange(code, Here, room[pc]) /\ room[pc] = RoomOf(Len(frames))
  BY <1>1, <1>2, CurrentInstr
<1>4. Len(stack) \in Nat /\ Frame.bottom \in Nat
  BY <1>1, TypesOfParts
<1>5. Len(stack) >= Frame.bottom + Needs(Here)
  <2>1. \A x, b, d, n \in Nat : x >= b + d /\ n <= d => x >= b + n
    OBVIOUS
  <2> QED
    BY <1>3, <1>4, <2>1, Zenon
<1>6. Here.op \in InplaceName => Here.arg < Len(Programs[prog].names)
  BY <1>2, <1>3 DEF Certified, OwnUpdates, Here
<1> QED
  BY <1>1, <1>3, <1>4, <1>5, <1>6

\* No instruction of a certified program pops or reads below the operands of
\* its own frame, or runs off the end of the code: stack_.back(), pop_back()
\* and instrs[pc_] in vm.cpp are never undefined.
THEOREM FramesAreSafe == Spec => []FrameSafe
<1>1. IInv => FrameSafe
  BY SafeInstr DEF FrameSafe
<1> QED
  BY <1>1, Safety, PTL

\* Every operand a certified program uses is in range when it is used:
\* consts[operand], globals_[operand] and get_fast_local(operand) of vm.cpp.
THEOREM OperandsAreSafe == Spec => []OperandsSafe
<1>1. IInv => OperandsSafe
  <2> SUFFICES ASSUME IInv, status = "running"
               PROVE  /\ Here.op = "LOAD_CONST" => Here.arg < Len(code.constants)
                      /\ Here.op \in UsesName => Here.arg < Len(code.names)
                      /\ Here.op \in InplaceName => Here.arg < Len(globals)
                      /\ Here.op \in UsesLocal => Here.arg < Len(Frame.locals)
    BY DEF OperandsSafe
  <2>1. /\ TInv /\ pc \in Addresses(code)
        /\ OperandInRange(code, Here, RoomOf(Len(frames)))
        /\ Here.op \in InplaceName => Here.arg < Len(Programs[prog].names)
    BY SafeInstr
  <2>2. Here.arg \in Nat
    BY <2>1, InstrOfCode DEF Here
  <2>3. ASSUME Here.op \in InplaceName PROVE Here.arg < Len(globals)
    <3>1. Len(Programs[prog].names) \in 0 .. Len(globals) /\ Len(globals) \in Nat
      BY <2>1, TypesOfParts DEF TInv, NamesInv, NamesCovered
    <3>2. \A a, g \in Nat : \A n \in 0 .. g : a < n => a < g
      OBVIOUS
    <3> QED
      BY <2>1, <2>2, <2>3, <3>1, <3>2, Zenon
  <2>4. ASSUME Here.op \in UsesLocal PROVE Here.arg < Len(Frame.locals)
    <3>1. Here.arg < RoomOf(Len(frames))
      BY <2>1, <2>4 DEF OperandInRange
    <3>2. Len(frames) # 1
      BY <2>2, <3>1 DEF RoomOf
    <3> QED
      BY <3>1, <3>2 DEF RoomOf, Frame
  <2> QED
    BY <2>1, <2>3, <2>4 DEF OperandInRange
<1> QED
  BY <1>1, Safety, PTL

\* u has the part of the stack below the current frame.
Agrees(u) ==
  IsSeq(u) /\ Len(u) >= Frame.bottom /\ \A i \in 1 .. Frame.bottom : u[i] = stack[i]

\* The stack agrees with itself below the current frame.
LEMMA StackAgrees ==
  ASSUME IInv, status = "running"
  PROVE  Agrees(stack) /\ Frame.bottom \in Nat
<1>1. /\ TInv /\ Len(stack) \in Nat /\ Frame.bottom \in Nat /\ Needs(Here) \in Nat
      /\ Len(stack) >= Frame.bottom + Needs(Here)
  BY SafeInstr
<1>2. IsSeq(stack)
  BY <1>1 DEF TInv, Values
<1> QED
  BY <1>1, <1>2 DEF Agrees

\* Agreement is equality of the prefixes.
LEMMA AgreeingPrefix ==
  ASSUME IInv, status = "running", NEW u, Agrees(u)
  PROVE  SubSeq(u, 1, Frame.bottom) = SubSeq(stack, 1, Frame.bottom)
<1> DEFINE b == Frame.bottom
<1>1. b \in Nat /\ Agrees(stack)
  BY StackAgrees
<1>2. b \in 0 .. Len(u) /\ b \in 0 .. Len(stack)
  BY <1>1 DEF Agrees, IsSeq
<1> HIDE DEF b
<1>3. /\ IsSeq(SubSeq(u, 1, b)) /\ Len(SubSeq(u, 1, b)) = b
      /\ \A i \in 1 .. b : SubSeq(u, 1, b)[i] = u[i]
  BY <1>2, PrefixIsSeq DEF Agrees
<1>4. /\ IsSeq(SubSeq(stack, 1, b)) /\ Len(SubSeq(stack, 1, b)) = b
      /\ \A i \in 1 .. b : SubSeq(stack, 1, b)[i] = stack[i]
  BY <1>1, <1>2, PrefixIsSeq DEF Agrees
<1>5. \A i \in 1 .. b : u[i] = stack[i]
  BY DEF Agrees, b
<1>6. SubSeq(u, 1, b) = SubSeq(stack, 1, b)
  BY <1>3, <1>4, <1>5, SeqExtensional
<1> QED
  BY <1>6 DEF b

\* A step keeps what is below the operands of its instruction: so it keeps what
\* is below its frame.
LEMMA StepAgrees ==
  ASSUME IInv, Step
  PROVE  status = "running" /\ Agrees(stack')
<1> DEFINE b == Frame.bottom
<1>1. TInv /\ TInv' /\ status = "running" /\ (Moves \/ Stops \/ Calls \/ Returns \/ Links)
  BY StepKinds DEF IInv
<1>2. /\ Len(stack) \in Nat /\ b \in Nat /\ Needs(Here) \in Nat
      /\ Len(stack) >= b + Needs(Here)
  BY <1>1, SafeInstr
<1>3. CASE Stops \/ Links
  <2>1. stack' = stack
    BY <1>3 DEF Stops, Links
  <2> QED
    BY <1>1, <2>1, StackAgrees
<1>4. CASE Moves \/ Calls \/ Returns
  <2>1. KeepsBelow
    BY <1>4 DEF Moves, Calls, Returns
  <2>2. IsSeq(stack') /\ Len(stack') \in Nat
    BY <1>1 DEF TInv, Values, IsSeq
  <2>3. Len(stack') >= b
    <3>1. CASE Moves
      <4>1. Len(stack') + Needs(Here) = Len(stack) + Gives(Here) /\ Gives(Here) \in Nat
        BY <1>1, <3>1, SafeInstr, InstrOfCode DEF Moves, Here
      <4>2. \A x, y, n, g, z \in Nat : y + n = x + g /\ x >= z + n => y >= z
        OBVIOUS
      <4> QED
        BY <1>2, <2>2, <4>1, <4>2, Zenon
    <3>2. CASE Calls
      <4>1. /\ Len(stack') = Len(stack) - (IF Peek(1).slots > 0 THEN 1 + Here.arg ELSE 1)
            /\ Here.arg \in Nat /\ Needs(Here) = Here.arg + 1
        BY <3>2 DEF Calls
      <4> QED
        BY <1>2, <4>1
    <3>3. CASE Returns
      BY <1>2, <3>3 DEF Returns
    <3> QED
      BY <1>4, <3>1, <3>2, <3>3
  <2>4. \A i \in 1 .. b : stack'[i] = stack[i]
    <3>1. \A i \in 1 .. b : i \in 1 .. Len(stack) - Needs(Here)
      BY <1>2
    <3> QED
      BY <2>1, <3>1 DEF KeepsBelow
  <2> QED
    BY <1>1, <2>2, <2>3, <2>4 DEF Agrees
<1> QED
  BY <1>1, <1>3, <1>4

\* While a frame is current no step of a certified program changes the part of
\* the shared operand stack below it (the operands its callers still need).
THEOREM CallersStayUntouched == Spec => CallersUntouched
<1>1. IInv /\ [Next]_vars =>
        [runs' = runs =>
           /\ Len(stack') >= Frame.bottom
           /\ SubSeq(stack', 1, Frame.bottom) = SubSeq(stack, 1, Frame.bottom)]_vars
  <2> SUFFICES ASSUME IInv, Next, runs' = runs, ~UNCHANGED vars
               PROVE  /\ Len(stack') >= Frame.bottom
                      /\ SubSeq(stack', 1, Frame.bottom) = SubSeq(stack, 1, Frame.bottom)
    OBVIOUS
  <2>1. ~ExecuteAgain
    <3>1. runs \in Nat
      BY MaxRunsAssumption DEF IInv, TInv, MachineInv
    <3> QED
      BY <3>1 DEF ExecuteAgain, Execute
  <2>2. Step
    BY <2>1 DEF Next, Finished
  <2>3. status = "running" /\ Agrees(stack')
    BY <2>2, StepAgrees
  <2> QED
    BY <2>3, AgreeingPrefix DEF Agrees
<1> QED
  BY <1>1, Safety, PTL DEF Spec, CallersUntouched
=================================================================================
