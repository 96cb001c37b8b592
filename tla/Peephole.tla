-------------------------------- MODULE Peephole --------------------------------
(****************************************************************************)
(* peephole_optimize (compiler.cpp): LOAD_NAME n; X; op; STORE_NAME n       *)
(* becomes X; INPLACE_op n; NOP; NOP.  X is taken as it is: nothing checks  *)
(* that it pushes one value, or that no jump enters the window.             *)
(****************************************************************************)
EXTENDS Bytecode

Fusible == {"BINARY_ADD", "BINARY_SUB", "BINARY_MUL", "BINARY_MOD"}

InplaceOf(op) == CASE op = "BINARY_ADD" -> "INPLACE_ADD_NAME"
                   [] op = "BINARY_SUB" -> "INPLACE_SUB_NAME"
                   [] op = "BINARY_MUL" -> "INPLACE_MUL_NAME"
                   [] op = "BINARY_MOD" -> "INPLACE_MOD_NAME"

\* The window of four instructions that starts at (1-based) position i.
Matches(instrs, i) ==
  /\ instrs[i].op = "LOAD_NAME"
  /\ instrs[i + 3].op = "STORE_NAME"
  /\ instrs[i].arg = instrs[i + 3].arg
  /\ instrs[i + 2].op \in Fusible

\* The turn of the loop at position i, which rewrites the window in place.
RewriteAt(instrs, i) ==
  IF i \in 1 .. Len(instrs) - 3 /\ Matches(instrs, i)
  THEN [instrs EXCEPT ![i]     = instrs[i + 1],
                      ![i + 1] = Instr(InplaceOf(instrs[i + 2].op), instrs[i].arg),
                      ![i + 2] = Plain("NOP"),
                      ![i + 3] = Plain("NOP")]
  ELSE instrs

\* All windows at once, which is what the turns of the loop, first to last, come
\* to (theorem PeepholeInPlace): since the four positions of a match hold
\* LOAD_NAME, X, an operator and STORE_NAME, none starts inside another.
PeepholeOptimize(instrs) ==
  LET match(i) == i \in 1 .. Len(instrs) - 3 /\ Matches(instrs, i)
  IN  [i \in 1 .. Len(instrs) |->
         CASE match(i)     -> instrs[i + 1]
           [] match(i - 1) -> Instr(InplaceOf(instrs[i + 1].op), instrs[i - 1].arg)
           [] match(i - 2) \/ match(i - 3) -> Plain("NOP")
           [] OTHER        -> instrs[i]]
================================================================================
