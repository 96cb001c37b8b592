------------------------------- MODULE VmBalance -------------------------------
(****************************************************************************)
(* When does the virtual machine keep its one operand stack in order?       *)
(* VmSafety bounds the stack from below, since the code may leave operands  *)
(* behind.  Here the depths of the certificate are exact, for the programs  *)
(* in Clean: those without or and without a return at module level.  BInv   *)
(* then says how high the stack is at every moment, which is what a return  *)
(* (vm.cpp:384, it keeps the stack as it is) relies on without a check.     *)
(****************************************************************************)
EXTENDS VmSafety, Frames

CONSTANT
  Clean   \* the programs whose certificate is exact

\* All paths to an address agree on the operands there, a function returns with
\* its result alone, and only module-level code halts, with none.  Nothing is
\* imported: a module runs over what the importing frame has on the stack.
IsExact(c, depth, room) ==
  \A a \in DOMAIN depth :
    LET ins == InstrAt(c, a)
    IN  /\ ins.op # "IMPORT_NAME"
        /\ \A s \in Successors(ins, a, room[a] # 0) :
             depth[s] + Needs(ins) = depth[a] + Gives(ins)
        /\ ins.op = "RETURN_VALUE" /\ room[a] # 0 => depth[a] = 1
        /\ ins.op = "HALT" => depth[a] = 0 /\ room[a] = 0

ASSUME CleanPrograms ==
  \A p \in Clean : p \in DOMAIN Programs /\ IsExact(Programs[p], Depth[p], Room[p])

\* No call passes an argument to a function without slots: as any call with the
\* right number of arguments, since a parameter has a slot.
ArgumentsFit ==
  status = "running" /\ Here.op = "CALL_FUNCTION" /\ Peek(1).t = "FUNCTION" =>
    Here.arg = 0 \/ Peek(1).slots > 0

\* A clean program is called as it is defined; and, no other program is run.
Fits == prog \in Clean => ArgumentsFit
Tidy == prog \in Clean /\ ArgumentsFit

---------------------------------------------------------------------------------
(* The inductive invariant. *)

\* Every caller finds exactly the operands its next instruction expects.
CallersExact(depth) ==
  /\ frames[1].bottom = 0
  /\ \A j, k \in 1 .. Len(frames) : j <= k => frames[j].bottom <= frames[k].bottom
  /\ \A k \in 2 .. Len(frames) :
       frames[k].bottom + 1 = frames[k - 1].bottom + depth[frames[k].ret]

\* The current frame has exactly what the certificate says.
CurrentExact(depth) == status = "running" => Len(stack) = Frame.bottom + depth[pc]

HaltedExact == status = "halted" => Len(frames) = 1 /\ stack = <<>>

\* A clean program is run as it was compiled.
OwnCode == code = Programs[prog]

Exact(depth, room) ==
  Certified(depth, room) /\ CallersExact(depth) /\ CurrentExact(depth) /\ HaltedExact

\* In a clean program every call is given back the stack it has made room on:
\* no operand is lost or left behind by any instruction, call, return or halt.
BInv == prog \in Clean => OwnCode /\ ArgumentsFit /\ Exact(Depth[prog], Room[prog])
================================================================================
