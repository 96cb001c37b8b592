--------------------------------- MODULE Jit ---------------------------------
(****************************************************************************)
(* The JIT compiler's decisions (jit.cpp): which functions it accepts, the  *)
(* pattern it takes them for, and what the native function it emits for     *)
(* that pattern computes.  The emitted machine code itself is abstracted to *)
(* the recurrence it implements, under the Windows x64 convention it is     *)
(* written for (argument in RCX), without 64-bit wrap-around.               *)
(****************************************************************************)
EXTENDS Bytecode, FiniteSets

\* The opcodes validate_bytecode lets through.
Supported == {"LOAD_FAST", "LOAD_CONST", "LOAD_NAME", "COMPARE_LTE", "JUMP_IF_FALSE",
              "JUMP_ABSOLUTE", "RETURN_VALUE", "BINARY_SUB", "BINARY_ADD", "BINARY_MUL",
              "CALL_FUNCTION", "POP_TOP"}

\* What compile returns for a function it leaves to the interpreter (nullptr).
NotNative == [pattern |-> "UNKNOWN", base |-> 0]

\* The address after a function's last instruction, taken from the jump that
\* skips its body.
FuncEnd(instrs, entry) ==
  IF entry > 0 /\ instrs[entry].op = "JUMP_ABSOLUTE" THEN instrs[entry].arg ELSE Len(instrs)

\* The function at entry lies between the jump that skips its body and the end
\* that jump names, which a RETURN_VALUE precedes.
Delimited(instrs, entry) ==
  /\ entry \in 1 .. Len(instrs)
  /\ instrs[entry].op = "JUMP_ABSOLUTE"
  /\ instrs[entry].arg \in entry + 2 .. Len(instrs)
  /\ instrs[instrs[entry].arg].op = "RETURN_VALUE"

ValidateBytecode(instrs, entry) ==
  \A a \in entry .. FuncEnd(instrs, entry) - 1 : instrs[a + 1].op \in Supported

\* The instructions of the function after its base case that have opcode op.
AfterBase(instrs, entry, op) ==
  {a \in entry + 7 .. FuncEnd(instrs, entry) - 1 : instrs[a + 1].op = op}

HasBaseCase(instrs, entry) ==
  /\ entry + 6 < FuncEnd(instrs, entry)
  /\ instrs[entry + 1].op = "LOAD_FAST"
  /\ instrs[entry + 2].op = "LOAD_CONST"
  /\ instrs[entry + 3].op = "COMPARE_LTE"
  /\ instrs[entry + 4].op = "JUMP_IF_FALSE"
  /\ instrs[entry + 5].op = "POP_TOP"
  /\ instrs[entry + 6].op \in {"LOAD_FAST", "LOAD_CONST"}

\* Mutant of BaseValue: the operand of the first constant, the threshold.
BaseValueOfThreshold(instrs, entry) ==
  IF instrs[entry + 6].op = "LOAD_FAST" THEN -1 ELSE instrs[entry + 2].arg

\* The base value is the OPERAND of the load: the index of the constant in the
\* pool; -1 stands for "return n".
BaseValue(instrs, entry) ==
  IF instrs[entry + 6].op = "LOAD_FAST" THEN -1 ELSE instrs[entry + 6].arg

DetectPattern(instrs, entry) ==
  LET calls == Cardinality(AfterBase(instrs, entry, "CALL_FUNCTION"))
      has(op) == AfterBase(instrs, entry, op) # {}
  IN  CASE ~HasBaseCase(instrs, entry)         -> "UNKNOWN"
        [] HasBaseCase(instrs, entry) /\ has("BINARY_ADD") /\ calls = 2 -> "FIB"
        [] HasBaseCase(instrs, entry) /\ has("BINARY_MUL") /\ calls = 1 -> "FACTORIAL"
        [] OTHER                               -> "UNKNOWN"

\* The native function made for the function at entry, or NotNative.
JitCompile(instrs, entry) ==
  IF ValidateBytecode(instrs, entry) /\ DetectPattern(instrs, entry) # "UNKNOWN"
  THEN [pattern |-> DetectPattern(instrs, entry), base |-> BaseValue(instrs, entry)]
  ELSE NotNative

\* What calling the emitted code with argument n returns: the threshold 1 and
\* the steps 1 and 2 are those of the emitted instructions.
NativeCall(native, n) ==
  LET base(k) == IF native.base = -1 THEN k ELSE native.base
      fib[k \in Int]  == IF k <= 1 THEN base(k) ELSE fib[k - 1] + fib[k - 2]
      fact[k \in Int] == IF k <= 1 THEN base(k) ELSE k * fact[k - 1]
  IN  IF native.pattern = "FIB" THEN fib[n] ELSE fact[n]
==============================================================================
