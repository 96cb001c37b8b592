-------------------------------- MODULE VmTypes --------------------------------
(****************************************************************************)
(* Which values, frames, code and native functions can the virtual machine  *)
(* get to see?  TInv ties every function object to the code that is loaded, *)
(* also after modules have been linked into it, and the JIT's table to that *)
(* code.  WellFormed is what this relies on from the compiler; nothing is   *)
(* assumed of the height of the stack.                                      *)
(****************************************************************************)
EXTENDS Vm

CONSTANT
  ModuleNames   \* the names the modules use

\* EmitConst always adds a constant: their loads are in the order of the pool.
ConstantsRise(instrs) ==
  \A a, b \in 1 .. Len(instrs) :
    a < b /\ instrs[a].op = "LOAD_CONST" /\ instrs[b].op = "LOAD_CONST" =>
      instrs[a].arg < instrs[b].arg

WellFormed(c) ==
  /\ IsCompiledCode(c)
  /\ \A a \in 1 .. Len(c.instructions) :
       c.instructions[a].op \in Renumbered => c.instructions[a].arg < Len(c.names)
  /\ \A i \in 1 .. Len(c.constants) :
       c.constants[i].t = "FUNCTION" =>
         /\ c.constants[i] = PyFunction(c.constants[i].entry, c.constants[i].slots)
         /\ c.constants[i].slots \in Nat
         /\ Delimited(c.instructions, c.constants[i].entry)
  /\ ConstantsRise(c.instructions)
  /\ Len(c.instructions) > 0 /\ c.instructions[Len(c.instructions)].op = "HALT"

ASSUME MaxRunsAssumption == MaxRuns \in Nat \ {0}

ASSUME CompilerAssumption ==
  /\ \A p \in DOMAIN Programs : WellFormed(Programs[p])
  /\ \A m \in DOMAIN Modules : Modules[m] # NotCompiled => WellFormed(Modules[m])

ASSUME ModuleNamesAssumption ==
  \A m \in DOMAIN Modules : \A i \in 1 .. Len(Modules[m].names) : Modules[m].names[i] \in ModuleNames

---------------------------------------------------------------------------------
(* The inductive invariant. *)

\* The base case of the function at entry returns no constant of index 0.
NonzeroBase(instrs, entry) == HasBaseCase(instrs, entry) => BaseValue(instrs, entry) # 0

\* A module reads the name range: the VM makes a function object for it.
RangeRead == "range" \in ModuleNames

\* A value that may be on the stack, in a local or in a global: the function
\* objects are those of the constant pool, and range.
IsValue(c, v) ==
  /\ v.t \in Tags
  /\ v.t = "FUNCTION" =>
       \/ RangeRead /\ v = PyFunction(0, 0)
       \/ \E i \in 1 .. Len(c.constants) : v = c.constants[i]

Values(c, s) == IsSeq(s) /\ \A i \in 1 .. Len(s) : IsValue(c, s[i])

\* Every function object of the code is one the JIT can find the end of, and
\* there is a HALT in the code, which the JIT never compiles.
IsLinked(c) ==
  /\ IsCompiledCode(c)
  /\ \A i \in 1 .. Len(c.constants) :
       c.constants[i].t = "FUNCTION" =>
         /\ c.constants[i].slots \in Nat
         /\ Delimited(c.instructions, c.constants[i].entry)
         /\ NonzeroBase(c.instructions, c.constants[i].entry)
  /\ \E a \in 1 .. Len(c.instructions) : c.instructions[a].op = "HALT"

\* There is a global for every name of the program; the others are modules'.
NamesCovered(own) ==
  /\ own \in 0 .. Len(globals)
  /\ \A i \in 1 .. Len(code.names) : i > own => code.names[i] \in ModuleNames

NamesInv == NamesCovered(Len(Programs[prog].names))

MachineInv ==
  /\ status \in {"running", "halted"} \cup Errors
  /\ pc \in Nat
  /\ runs \in 1 .. MaxRuns
  /\ IsSeq(output) /\ printed \in 0 .. Len(output)

FramesInv ==
  /\ IsSeq(frames) /\ Len(frames) > 0
  /\ \A k \in 1 .. Len(frames) :
       /\ frames[k] = NewFrame(frames[k].ret, frames[k].locals, frames[k].bottom)
       /\ frames[k].ret \in Nat /\ frames[k].bottom \in Nat
       /\ Values(code, frames[k].locals) /\ Len(frames[k].locals) > 0

\* The table has entry points of functions, and that of range; it holds what
\* the JIT would make of the code now, until execute() is called again.
TableInv ==
  /\ DOMAIN native \subseteq DOMAIN compiled
  /\ PatchSafe
  /\ runs = 1 => \A e \in DOMAIN compiled :
                   /\ e = 0 \/ Delimited(code.instructions, e)
                   /\ compiled[e] = JitCompile(code.instructions, e)

TInv ==
  /\ MachineInv /\ NamesInv
  /\ IsLinked(code) /\ Values(code, stack) /\ Values(code, globals)
  /\ FramesInv /\ TableInv
================================================================================
