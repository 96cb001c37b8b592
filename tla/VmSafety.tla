-------------------------------- MODULE VmSafety --------------------------------
(****************************************************************************)
(* When is the virtual machine memory-safe?  A certificate gives every      *)
(* address control may reach the number of operands that are on the stack   *)
(* of its own frame there, and the local slots its function has.  The       *)
(* compiler keeps no such record; CertifiedPrograms and CertifiedModules    *)
(* state that one exists for the code it makes.  The certificate grows with *)
(* the code: linking a module joins the two.  IInv ties the running machine *)
(* to the certificate of the code that is loaded.                           *)
(****************************************************************************)
EXTENDS VmTypes

CONSTANTS
  Depth,         \* program -> address -> operands of the frame, at least
  Room,          \* program -> address -> local slots of the function, 0 outside functions
  ModuleDepth,   \* the same of the modules, before they are linked
  ModuleRoom

\* Falling, jumping or coming back from a to s fits the certificate.
Flows(ins, depth, room, a, s) ==
  /\ s \in DOMAIN depth
  /\ room[s] = room[a]
  /\ depth[s] + Needs(ins) <= depth[a] + Gives(ins)

OperandInRange(c, ins, slots) ==
  /\ ins.op = "LOAD_CONST" => ins.arg < Len(c.constants)
  /\ ins.op \in UsesName => ins.arg < Len(c.names)
  /\ ins.op \in UsesLocal => ins.arg < slots

IsCertificate(c, depth, room) ==
  /\ DOMAIN depth \subseteq Addresses(c)
  /\ depth \in [DOMAIN depth -> Nat]
  /\ 0 \in DOMAIN depth /\ depth[0] = 0 /\ room[0] = 0
  /\ \A a \in DOMAIN depth :
       /\ Needs(InstrAt(c, a)) <= depth[a]
       /\ OperandInRange(c, InstrAt(c, a), room[a])
       /\ \A s \in Successors(InstrAt(c, a), a, room[a] # 0) :
            Flows(InstrAt(c, a), depth, room, a, s)
  /\ \A i \in 1 .. Len(c.constants) :
       LET f == c.constants[i]
       IN  f.t = "FUNCTION" =>
             /\ f.entry \in DOMAIN depth
             /\ depth[f.entry] = 0
             /\ room[f.entry] = LocalCount(f.slots)

ASSUME CertifiedPrograms ==
  \A p \in DOMAIN Programs : IsCertificate(Programs[p], Depth[p], Room[p])

\* A module has a certificate of its own, and leaves it through the HALT at its
\* end, outside of its functions.  It imports nothing and updates no global in
\* place: the linker spoils the operands of IMPORT_NAME and INPLACE_*_NAME.
ASSUME CertifiedModules ==
  /\ ~RangeRead
  /\ \A m \in DOMAIN Modules : Modules[m] # NotCompiled =>
       /\ IsCertificate(Modules[m], ModuleDepth[m], ModuleRoom[m])
       /\ \A a \in DOMAIN ModuleDepth[m] :
            LET op == InstrAt(Modules[m], a).op
            IN  /\ op \notin {"IMPORT_NAME"} \cup InplaceName
                /\ op = "HALT" => ModuleRoom[m][a] = 0

---------------------------------------------------------------------------------
(* The certificate of linked code. *)

\* That of a module, md and mr, follows from address offset on.  Outside of its
\* functions the module runs in the frame that imports it: over the operands
\* that are there at the import's address, and with the slots of that frame.
LinkedAddresses(depth, md, offset) == DOMAIN depth \cup {offset + b : b \in DOMAIN md}

LinkedDepth(depth, md, mr, offset, at) ==
  [a \in LinkedAddresses(depth, md, offset) |->
     IF a < offset THEN depth[a]
     ELSE md[a - offset] + (IF mr[a - offset] = 0 THEN depth[at] ELSE 0)]

LinkedRoom(depth, room, md, mr, offset, at) ==
  [a \in LinkedAddresses(depth, md, offset) |->
     IF a < offset THEN room[a]
     ELSE IF mr[a - offset] = 0 THEN room[at] ELSE mr[a - offset]]

---------------------------------------------------------------------------------
(* The inductive invariant. *)

\* The slots of the k-th frame, as the certificate counts them.
RoomOf(k) == IF k = 1 THEN 0 ELSE Len(frames[k].locals)

\* Every caller finds, when the call has returned its one result, the operands
\* and the slots its next instruction expects.
CallersInv(depth, room) ==
  \A k \in 2 .. Len(frames) :
    /\ frames[k].ret \in DOMAIN depth
    /\ room[frames[k].ret] = RoomOf(k - 1)
    /\ frames[k].bottom + 1 >= frames[k - 1].bottom + depth[frames[k].ret]

\* The current frame has what the certificate says.
CurrentInv(depth, room) ==
  status = "running" =>
    /\ pc \in DOMAIN depth
    /\ room[pc] = RoomOf(Len(frames))
    /\ Len(stack) >= Frame.bottom + depth[pc]

\* The globals that are updated in place are the program's own.
OwnUpdates(depth) ==
  \A a \in DOMAIN depth :
    InstrAt(code, a).op \in InplaceName => InstrAt(code, a).arg < Len(Programs[prog].names)

Certified(depth, room) ==
  /\ IsCertificate(code, depth, room) /\ OwnUpdates(depth)
  /\ CallersInv(depth, room) /\ CurrentInv(depth, room)

IInv == TInv /\ \E depth, room : Certified(depth, room)
================================================================================
