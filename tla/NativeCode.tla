------------------------------- MODULE NativeCode -------------------------------
(****************************************************************************)
(* The machine code the JIT emits for a pattern (X86Emitter and             *)
(* compile_function in jit.cpp), and an x86-64 that runs it.  An            *)
(* instruction is a record with the length of its encoding: jump offsets,   *)
(* return addresses and the patching of addresses count bytes.  Registers   *)
(* and memory hold words, which wrap around.                                *)
(****************************************************************************)
EXTENDS Jit

CONSTANTS
  Natives,           \* the pattern and base of the functions that are called
  Arguments,         \* the ints they are called with
  ArgumentRegister,  \* where the caller puts the argument
  HalfWord,          \* bound: words are -HalfWord .. HalfWord - 1, with 2^63 in the code
  CodeAddress,       \* the address of the block of ExecutableMemory
  ReturnTo,          \* the address behind the call in the VM, outside of the block
  StackTop,          \* the stack pointer of the VM at that call
  StackBytes         \* bound: the stack below it

VARIABLES
  native,    \* the function that was called
  argument,  \* with this argument
  regs,      \* the registers
  mem,       \* the stack, by address
  rip,       \* the address of the next instruction
  lessEqual  \* the flags, as jle reads them

vars == <<native, argument, regs, mem, rip, lessEqual>>

Words == -HalfWord .. HalfWord - 1
Word(n) == ((n + HalfWord) % (2 * HalfWord)) - HalfWord

ASSUME NativeAssumption ==
  \* The words hold at least what the VM is taken to have in its registers.
  /\ HalfWord \in Nat /\ HalfWord >= 8 /\ StackBytes \in Nat
  /\ Arguments \subseteq Words /\ ArgumentRegister \in {"RCX", "RDI"}
  /\ {ReturnTo, StackTop, StackTop + 8, StackTop - StackBytes} \subseteq Words
  /\ ReturnTo < CodeAddress /\ CodeAddress \in Nat \ {0}
  \* A base of 0 would be taken for an address to patch: see PatchSafe in Vm.
  /\ \A f \in Natives : f.pattern \in {"FIB", "FACTORIAL"} /\ f.base \in Int \ {0}

--------------------------------------------------------------------------------
(* X86Emitter: the methods compile_function uses. *)

\* R12 takes a prefix byte in push and pop, and a SIB byte as a base.
PushReg(r)      == [op |-> "push", dst |-> r, src |-> r, imm |-> 0, size |-> IF r = "R12" THEN 2 ELSE 1]
PopReg(r)       == [op |-> "pop", dst |-> r, src |-> r, imm |-> 0, size |-> IF r = "R12" THEN 2 ELSE 1]
MovRegReg(d, s) == [op |-> "mov", dst |-> d, src |-> s, imm |-> 0, size |-> 3]
MovRegImm(d, n) == [op |-> "movimm", dst |-> d, src |-> d, imm |-> n, size |-> 10]
MovRegMem(d, b, n) == [op |-> "load", dst |-> d, src |-> b, imm |-> n, size |-> 7]
Lea(d, b, n)    == [op |-> "lea", dst |-> d, src |-> b, imm |-> n, size |-> IF b = "R12" THEN 8 ELSE 7]
AddRegReg(d, s) == [op |-> "add", dst |-> d, src |-> s, imm |-> 0, size |-> 3]
ImulRegReg(d, s) == [op |-> "imul", dst |-> d, src |-> s, imm |-> 0, size |-> 4]
AddRegImm(d, n) == [op |-> "addimm", dst |-> d, src |-> d, imm |-> n, size |-> 7]
CmpRegImm(d, n) == [op |-> "cmp", dst |-> d, src |-> d, imm |-> n, size |-> 7]
Jle(offset)     == [op |-> "jle", dst |-> "RAX", src |-> "RAX", imm |-> offset, size |-> 6]
Jmp(offset)     == [op |-> "jmp", dst |-> "RAX", src |-> "RAX", imm |-> offset, size |-> 5]
CallReg(r)      == [op |-> "call", dst |-> r, src |-> r, imm |-> 0, size |-> 2]
RetInstr        == [op |-> "ret", dst |-> "RAX", src |-> "RAX", imm |-> 0, size |-> 1]

\* position() before the k-th of these instructions, and after all of them: the
\* number of bytes, each of them given by its instruction and its place in it.
Position(instrs, k) == Cardinality(UNION {{j} \X (1 .. instrs[j].size) : j \in 1 .. k - 1})
Bytes(instrs) == Position(instrs, Len(instrs) + 1)

--------------------------------------------------------------------------------
(* compile_function. *)

\* Mutant of Prologue: the registers are saved in the order they should come back.
PrologueSwapped ==
  <<PushReg("RBP"), MovRegReg("RBP", "RSP"), PushReg("R12"), PushReg("RBX"),
    MovRegReg("R12", "RCX"), CmpRegImm("R12", 1)>>

\* rbp is the frame, rbx and r12 belong to the caller; r12 is n.
Prologue ==
  <<PushReg("RBP"), MovRegReg("RBP", "RSP"), PushReg("RBX"), PushReg("R12"),
    MovRegReg("R12", "RCX"), CmpRegImm("R12", 1)>>

CallSelf == <<MovRegImm("RAX", CodeAddress), CallReg("RAX")>>

\* Mutant of FibBody: n - 2 is loaded from the slot above.
FibBodyShifted ==
  <<PushReg("R12"), Lea("RCX", "R12", -1)>> \o CallSelf \o
  <<MovRegReg("RBX", "RAX"), MovRegMem("RCX", "RBP", -16), Lea("RCX", "RCX", -2)>> \o CallSelf \o
  <<AddRegReg("RAX", "RBX"), AddRegImm("RSP", 8)>>

\* n is pushed below the saved registers, at rbp - 24.
FibBody ==
  <<PushReg("R12"), Lea("RCX", "R12", -1)>> \o CallSelf \o
  <<MovRegReg("RBX", "RAX"), MovRegMem("RCX", "RBP", -24), Lea("RCX", "RCX", -2)>> \o CallSelf \o
  <<AddRegReg("RAX", "RBX"), AddRegImm("RSP", 8)>>
FactorialBody ==
  <<PushReg("R12"), Lea("RCX", "R12", -1)>> \o CallSelf \o
  <<ImulRegReg("RAX", "R12"), AddRegImm("RSP", 8)>>

BaseCase(base) == IF base = -1 THEN <<MovRegReg("RAX", "R12")>> ELSE <<MovRegImm("RAX", base)>>

\* Mutant of Epilogue: the registers come back in the order they were saved.
EpilogueUnreversed == <<PopReg("RBX"), PopReg("R12"), PopReg("RBP"), RetInstr>>

Epilogue == <<PopReg("R12"), PopReg("RBX"), PopReg("RBP"), RetInstr>>

\* Mutant of JumpOffset: the length of the jump is left out.
OffsetFromJump(target, position, size) == target - position
\* A jump is relative to the instruction behind it.
JumpOffset(target, position, size) == target - (position + size)

CompileFunction(f) ==
  LET body    == IF f.pattern = "FIB" THEN FibBody ELSE FactorialBody
      jlePos  == Bytes(Prologue)
      jmpPos  == jlePos + 6 + Bytes(body)
      basePos == jmpPos + 5
      endPos  == basePos + Bytes(BaseCase(f.base))
  IN  Prologue \o <<Jle(JumpOffset(basePos, jlePos, 6))>> \o body
        \o <<Jmp(JumpOffset(endPos, jmpPos, 5))>> \o BaseCase(f.base) \o Epilogue

\* compile() copies the code and then takes every 0 that is loaded into rax for
\* the address of the code.
Patched(instrs) ==
  [k \in DOMAIN instrs |->
     IF instrs[k].op = "movimm" /\ instrs[k].imm = 0 THEN [instrs[k] EXCEPT !.imm = CodeAddress]
     ELSE instrs[k]]

\* The instructions of every function, their addresses in its block of
\* executable memory, and what is at an address.
Emitted == [f \in Natives |-> Patched(CompileFunction(f))]
Address == [f \in Natives |-> [k \in DOMAIN Emitted[f] |-> CodeAddress + Position(Emitted[f], k)]]
Blocks  == [f \in Natives |->
  [a \in {Address[f][k] : k \in DOMAIN Emitted[f]} |->
     Emitted[f][CHOOSE k \in DOMAIN Emitted[f] : Address[f][k] = a]]]

ASSUME CodeAssumption == \A f \in Natives : CodeAddress + Bytes(Emitted[f]) \in Words

--------------------------------------------------------------------------------
(* The machine. *)

Registers == {"RAX", "RCX", "RDI", "RBX", "RBP", "RSP", "R12"}
Addresses8 == {StackTop - 8 * k : k \in 0 .. StackBytes \div 8} \cup {StackTop + 8}

Returned == rip = ReturnTo

Now       == Blocks[native][rip]
Fetch(op) == ~Returned /\ rip \in DOMAIN Blocks[native] /\ Now.op = op

\* An instruction that leaves a word in its register and goes on.
Compute(value) ==
  /\ regs' = [regs EXCEPT ![Now.dst] = Word(value)]
  /\ rip' = rip + Now.size
  /\ UNCHANGED <<native, argument, mem, lessEqual>>

Below == regs["RSP"] - 8

Push ==
  /\ Fetch("push") /\ Below \in DOMAIN mem
  /\ mem' = [mem EXCEPT ![Below] = regs[Now.src]]
  /\ regs' = [regs EXCEPT !["RSP"] = Below]
  /\ rip' = rip + Now.size
  /\ UNCHANGED <<native, argument, lessEqual>>

Pop ==
  /\ Fetch("pop") /\ regs["RSP"] \in DOMAIN mem
  /\ regs' = [regs EXCEPT !["RSP"] = @ + 8, ![Now.dst] = mem[regs["RSP"]]]
  /\ rip' = rip + Now.size
  /\ UNCHANGED <<native, argument, mem, lessEqual>>

Mov          == Fetch("mov") /\ Compute(regs[Now.src])
MovImmediate == Fetch("movimm") /\ Compute(Now.imm)
LoadAddress  == Fetch("lea") /\ Compute(regs[Now.src] + Now.imm)
AddImmediate == Fetch("addimm") /\ Compute(regs[Now.dst] + Now.imm)
AddRegister  == Fetch("add") /\ Compute(regs[Now.dst] + regs[Now.src])
Multiply     == Fetch("imul") /\ Compute(regs[Now.dst] * regs[Now.src])
Load ==
  /\ Fetch("load") /\ regs[Now.src] + Now.imm \in DOMAIN mem
  /\ Compute(mem[regs[Now.src] + Now.imm])

Cmp ==
  /\ Fetch("cmp")
  /\ lessEqual' = (regs[Now.dst] <= Now.imm)
  /\ rip' = rip + Now.size
  /\ UNCHANGED <<native, argument, regs, mem>>

TakeJump ==
  /\ Fetch("jmp") \/ Fetch("jle")
  /\ rip' = rip + Now.size + IF Now.op = "jmp" \/ lessEqual THEN Now.imm ELSE 0
  /\ UNCHANGED <<native, argument, regs, mem, lessEqual>>

Call ==
  /\ Fetch("call") /\ Below \in DOMAIN mem
  /\ mem' = [mem EXCEPT ![Below] = rip + Now.size]
  /\ regs' = [regs EXCEPT !["RSP"] = Below]
  /\ rip' = regs[Now.src]
  /\ UNCHANGED <<native, argument, lessEqual>>

Return ==
  /\ Fetch("ret") /\ regs["RSP"] \in DOMAIN mem
  /\ rip' = mem[regs["RSP"]]
  /\ regs' = [regs EXCEPT !["RSP"] = @ + 8]
  /\ UNCHANGED <<native, argument, mem, lessEqual>>

Done == Returned /\ UNCHANGED vars

\* The registers in which the VM calls the function: the argument where the
\* caller's convention has it, something else everywhere else.
CallRegisters(n) ==
  [r \in Registers |-> CASE r = ArgumentRegister -> n
                         [] r = "RSP"            -> StackTop
                         [] r = "RBX"            -> -3
                         [] r = "RBP"            -> -4
                         [] r = "R12"            -> -5
                         [] OTHER                -> 2]

Init ==
  /\ native \in Natives
  /\ argument \in Arguments
  /\ regs = CallRegisters(argument)
  /\ mem = [a \in Addresses8 |-> IF a = StackTop THEN ReturnTo ELSE 7]
  /\ rip = CodeAddress
  /\ lessEqual \in BOOLEAN

Next ==
  \/ Push \/ Pop \/ Mov \/ MovImmediate \/ LoadAddress \/ AddImmediate \/ AddRegister
  \/ Multiply \/ Load \/ Cmp \/ TakeJump \/ Call \/ Return
  \/ Done

Spec == Init /\ [][Next]_vars /\ WF_vars(Next)

--------------------------------------------------------------------------------
(* Properties. *)

\* What runs is an instruction that was emitted: patched offsets and the
\* addresses that call and ret leave on the stack hit where one starts.
RunsEmitted == Returned \/ rip \in DOMAIN Blocks[native]

\* The emitted code computes the recurrence the VM relies on, in machine words.
ResultCorrect == Returned => regs["RAX"] = Word(NativeCall(native, argument))

\* The VM finds its registers and its stack as they were before the call.
CallerPreserved ==
  /\ mem[StackTop] = ReturnTo /\ mem[StackTop + 8] = 7
  /\ Returned => /\ regs["RSP"] = StackTop + 8
                 /\ \A r \in {"RBX", "RBP", "R12"} : regs[r] = CallRegisters(argument)[r]

\* The recursion comes back to the VM.
ReturnsToVm == <>Returned
==============================================================================
