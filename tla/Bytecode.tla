------------------------------ MODULE Bytecode -------------------------------
(****************************************************************************)
(* The linear bytecode (bytecode.h, CompiledCode in compiler.h) and what    *)
(* each instruction does to the operand stack, read off the handlers of     *)
(* vm.cpp.  Addresses and operands are 0-based, as in the code; sequences   *)
(* are 1-based, so the instruction at address a is instructions[a + 1].     *)
(****************************************************************************)
EXTENDS PyValue

BinaryArith == {"BINARY_ADD", "BINARY_SUB", "BINARY_MUL", "BINARY_FLOOR_DIV", "BINARY_MOD"}
Unary       == {"UNARY_NEG", "UNARY_NOT"}
Comparison  == {"COMPARE_EQ", "COMPARE_NEQ", "COMPARE_LT", "COMPARE_GT", "COMPARE_LTE",
                "COMPARE_GTE"}
Binary      == BinaryArith \cup Comparison
CondJump    == {"JUMP_IF_FALSE", "JUMP_IF_TRUE"}
Jump        == CondJump \cup {"JUMP_ABSOLUTE"}
InplaceName == {"INPLACE_ADD_NAME", "INPLACE_SUB_NAME", "INPLACE_MUL_NAME",
                "INPLACE_MOD_NAME"}
\* Opcodes whose operand is an index into the names pool.
UsesName    == {"LOAD_NAME", "STORE_NAME", "IMPORT_NAME"} \cup InplaceName
UsesLocal   == {"LOAD_FAST", "STORE_FAST"}
\* Opcodes the compiler never emits; their handlers do nothing, as NOP's.
Reserved    == {"MAKE_FUNCTION", "FOR_ITER", "GET_ITER", "SETUP_LOOP", "POP_BLOCK",
                "BREAK_LOOP", "CONTINUE_LOOP"}

OpCode == Binary \cup Unary \cup Jump \cup UsesName \cup UsesLocal \cup Reserved \cup
          {"LOAD_CONST", "POP_TOP", "DUP_TOP", "CALL_FUNCTION", "RETURN_VALUE", "PRINT",
           "NOP", "HALT"}

Instruction == [op : OpCode, arg : Nat]
Instr(op, arg) == [op |-> op, arg |-> arg]
Plain(op) == Instr(op, 0)

Addresses(code) == 0 .. Len(code.instructions) - 1
InstrAt(code, a) == code.instructions[a + 1]

\* The values an instruction needs on the stack, its operands ...
Needs(ins) ==
  CASE ins.op \in Binary                                     -> 2
    [] ins.op \in Unary \cup CondJump \cup InplaceName
         \cup {"STORE_NAME", "STORE_FAST", "POP_TOP", "DUP_TOP", "RETURN_VALUE"} -> 1
    [] ins.op = "CALL_FUNCTION"                              -> ins.arg + 1
    [] ins.op = "PRINT"                                      -> ins.arg
    [] OTHER                                                 -> 0

\* ... and the values it leaves in their place.  For a call: once it returned.
Gives(ins) ==
  CASE ins.op \in Binary \cup Unary \cup CondJump
         \cup {"LOAD_CONST", "LOAD_NAME", "LOAD_FAST", "CALL_FUNCTION", "RETURN_VALUE"} -> 1
    [] ins.op = "DUP_TOP"                                    -> 2
    [] OTHER                                                 -> 0

\* The addresses control may reach next; a call comes back to the next one.
\* RETURN_VALUE in module-level code continues with the next instruction.
Successors(ins, a, inFunction) ==
  CASE ins.op \in CondJump                              -> {a + 1, ins.arg}
    [] ins.op = "JUMP_ABSOLUTE"                         -> {ins.arg}
    [] ins.op = "HALT"                                  -> {}
    [] ins.op = "RETURN_VALUE" /\ inFunction            -> {}
    [] OTHER                                            -> {a + 1}

\* A sequence whose elements are in no given set.
IsSeq(s) == Len(s) \in Nat /\ s = [i \in 1 .. Len(s) |-> s[i]]

IsCompiledCode(code) ==
  /\ DOMAIN code = {"instructions", "constants", "names"}
  /\ code.instructions \in Seq(Instruction)
  /\ IsSeq(code.constants)
  /\ \A i \in 1 .. Len(code.constants) : code.constants[i].t \in Tags
  /\ code.names \in Seq(STRING)

\* find_or_add_name: the pool after it, and the 0-based index it returns.
WithName(names, n) ==
  IF \E i \in 1 .. Len(names) : names[i] = n THEN names ELSE Append(names, n)
NameIndex(names, n) == (CHOOSE i \in 1 .. Len(names) : names[i] = n) - 1
==============================================================================
