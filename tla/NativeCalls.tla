------------------------------- MODULE NativeCalls -------------------------------
(****************************************************************************)
(* Why does native code come back, with the right result?  The calls of the *)
(* emitted function that are under way lie on the stack in frames of five   *)
(* slots: the return address, rbp, rbx and r12 as the call found them, and  *)
(* n, from which a call can be read off the slots of its caller.  NInv says *)
(* what is in these slots and in the registers at each instruction.         *)
(****************************************************************************)
EXTENDS NativeCode

IsFib == native.pattern = "FIB"
At(k) == Address[native][k]

\* The instructions are counted from the first: the calls of the function leave
\* at 11 and, for fib, at 16; the last four are the epilogue, the base case is
\* before it, and before that the jump behind the body.
Last == IF IsFib THEN 24 ELSE 19
BehindCalls == IF IsFib THEN {12, 17} ELSE {12}

\* The registers at the call of the VM, and what the function computes.
Given  == CallRegisters(argument)
Rec(n) == NativeCall(native, n)

\* The stack by slots: 5 * j is the first one of the call at depth j.
Pointer(m) == StackTop - 8 * m
Slot(m)    == mem[Pointer(m)]

\* The argument of the call at depth j.
Arg(j) ==
  IF j = 0 THEN Given["RCX"]
  ELSE Slot(5 * (j - 1) + 4) - (IF Slot(5 * j) = At(12) THEN 1 ELSE 2)

\* What the call at depth j found in the registers it has to preserve: the VM's
\* registers, or those of its caller, of which rbx matters in its second call.
FoundRbp(j) == IF j = 0 THEN Given["RBP"] ELSE Pointer(5 * (j - 1) + 1)
FoundR12(j) == IF j = 0 THEN Given["R12"] ELSE Arg(j - 1)
FoundRbx(j) ==
  IF j = 0 THEN {Given["RBX"]}
  ELSE IF Slot(5 * j) = At(12) THEN Words ELSE {Word(Rec(Arg(j - 1) - 1))}

\* Every call is one of the function's own, for an argument above the threshold,
\* or that of the VM; the callers up to depth d have saved their registers and n.
Chain(d) ==
  /\ Slot(0) = ReturnTo
  /\ \A j \in 1 .. d : Arg(j - 1) > 1 /\ \E k \in BehindCalls : Slot(5 * j) = At(k)
  /\ \A j \in 0 .. d - 1 :
       /\ Slot(5 * j + 1) = FoundRbp(j)
       /\ Slot(5 * j + 2) \in FoundRbx(j)
       /\ Slot(5 * j + 3) = FoundR12(j)
       /\ Slot(5 * j + 4) = Arg(j)

\* The slots a call has pushed before its k-th instruction.
Pushed(k) ==
  CASE k \in {1, Last}                                    -> 0
    [] k \in {2, 3, Last - 1}                             -> 1
    [] k \in {4, Last - 2}                                -> 2
    [] k \in (5 .. 8) \cup (Last - 5 .. Last - 3)         -> 3
    [] OTHER                                              -> 4

\* What the current call has saved before its k-th instruction.
Saved(d, k) ==
  /\ k \in 2 .. Last - 1 => Slot(5 * d + 1) = FoundRbp(d)
  /\ k \in 4 .. Last - 2 => Slot(5 * d + 2) \in FoundRbx(d)
  /\ k \in 5 .. Last - 3 => Slot(5 * d + 3) = FoundR12(d)
  /\ k \in 9 .. Last - 6 => Slot(5 * d + 4) = Arg(d)

\* The registers that are kept for the caller.
Kept(d, k) ==
  /\ regs["RSP"] = Pointer(5 * d + Pushed(k))
  /\ regs["RBP"] = IF k \in {1, 2, Last} THEN FoundRbp(d) ELSE Pointer(5 * d + 1)
  /\ k \in {1, 2, 3, Last - 1, Last} => regs["RBX"] \in FoundRbx(d)
  /\ k \in {1, 2, 3, 4, Last - 2, Last - 1, Last} => regs["R12"] = FoundR12(d)

\* The registers the recurrence is computed with, n being the argument.
Computed(n, k) ==
  /\ k \in 1 .. 5 => regs["RCX"] = n
  /\ k \in 6 .. Last - 3 => regs["R12"] = n
  /\ k = 7 => lessEqual = (n <= 1)
  /\ k \in 8 .. Last - 5 => n > 1
  /\ k = Last - 4 => n <= 1
  /\ k \in {10, 11} => regs["RCX"] = n - 1
  /\ k = 12 => regs["RAX"] = Word(Rec(n - 1))
  /\ k = 11 \/ (IsFib /\ k = 16) => regs["RAX"] = CodeAddress
  /\ IsFib /\ k \in 13 .. 17 => regs["RBX"] = Word(Rec(n - 1))
  /\ IsFib /\ k = 14 => regs["RCX"] = n
  /\ IsFib /\ k \in {15, 16} => regs["RCX"] = n - 2
  /\ IsFib /\ k = 17 => regs["RAX"] = Word(Rec(n - 2))
  /\ k \in {Last - 6, Last - 5, Last - 3, Last - 2, Last - 1, Last} => regs["RAX"] = Word(Rec(n))

\* The call at depth d is before its k-th instruction.
Point(d, k) ==
  rip = At(k) /\ Chain(d) /\ Saved(d, k) /\ Kept(d, k) /\ Computed(Arg(d), k)

\* The VM has its stack and its registers back, and the result.
Back ==
  /\ Returned
  /\ regs["RSP"] = StackTop + 8 /\ Slot(0) = ReturnTo
  /\ \A r \in {"RBX", "RBP", "R12"} : regs[r] = Given[r]
  /\ regs["RAX"] = Word(Rec(Given["RCX"]))

\* Types: registers and slots hold words, and the stack pointer does not leave
\* the stack.
NTypes ==
  /\ native \in Natives /\ argument \in Arguments
  /\ regs \in [Registers -> Words] /\ mem \in [Addresses8 -> Words] /\ lessEqual \in BOOLEAN
  /\ regs["RSP"] \in Addresses8 /\ mem[StackTop + 8] = 7

\* The inductive invariant.
NInv ==
  /\ NTypes
  /\ (\E d \in 0 .. StackBytes, k \in 1 .. Last : Point(d, k)) \/ Back
=================================================================================
