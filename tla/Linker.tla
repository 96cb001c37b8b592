-------------------------------- MODULE Linker --------------------------------
(****************************************************************************)
(* How the IMPORT_NAME handler merges a module's compiled code into the     *)
(* running code object (vm.cpp): pools and instructions are appended, and   *)
(* operands are shifted or renumbered by opcode.                            *)
(****************************************************************************)
EXTENDS Bytecode, FiniteSets

\* The first n of added that find_or_add_name has not found in names, by index
\* (a names pool has no duplicates: find_or_add_name is the only way in).
Missing(names, added, n) ==
  {k \in 1 .. n : ~ \E i \in 1 .. Len(names) : names[i] = added[k]}

\* names after find_or_add_name for each of added, in order.
MergedNames(names, added) ==
  LET missing == Missing(names, added, Len(added))
  IN  names \o [r \in 1 .. Cardinality(missing) |->
        added[CHOOSE k \in missing : Cardinality(Missing(names, added, k)) = r]]

\* name_map: the index in the merged pool of each name of added.
NameMap(names, added) ==
  LET merged == MergedNames(names, added)
  IN  [i \in 1 .. Len(added) |-> NameIndex(merged, added[i])]

\* Mutant of RelocatedConstant: entry points are left as they are.
UnmovedConstant(c, instrOffset) == c

\* A constant of the module; a function's entry point moves with the code.
RelocatedConstant(c, instrOffset) ==
  IF c.t = "FUNCTION" THEN [c EXCEPT !.entry = @ + instrOffset] ELSE c

\* The opcodes whose operand is renumbered by name_map.
Renumbered == {"LOAD_NAME", "STORE_NAME", "MAKE_FUNCTION"}

\* Mutants of RelocatedInstr: the wrong offset for constants, names not
\* renumbered, jumps that do not move.
RelocatedBy(ins, constants, names(_), jumps) ==
  CASE ins.op \in {"LOAD_CONST", "IMPORT_NAME"} -> [ins EXCEPT !.arg = @ + constants]
    [] ins.op \in Renumbered                  -> [ins EXCEPT !.arg = names(@)]
    [] ins.op \in Jump                          -> [ins EXCEPT !.arg = @ + jumps]
    [] OTHER                                    -> ins
ConstantsByInstrOffset(ins, instrOffset, constOffset, nameMap) ==
  RelocatedBy(ins, instrOffset, LAMBDA n : nameMap[n + 1], instrOffset)
NamesUnmapped(ins, instrOffset, constOffset, nameMap) ==
  RelocatedBy(ins, constOffset, LAMBDA n : n, instrOffset)
JumpsUnmoved(ins, instrOffset, constOffset, nameMap) ==
  RelocatedBy(ins, constOffset, LAMBDA n : nameMap[n + 1], 0)

\* An instruction of the module.  IMPORT_NAME is shifted like LOAD_CONST
\* although its operand is a name; INPLACE_*_NAME is not renumbered.
RelocatedInstr(ins, instrOffset, constOffset, nameMap) ==
  CASE ins.op \in {"LOAD_CONST", "IMPORT_NAME"} -> [ins EXCEPT !.arg = @ + constOffset]
    [] ins.op \in Renumbered                    -> [ins EXCEPT !.arg = nameMap[@ + 1]]
    [] ins.op \in Jump                          -> [ins EXCEPT !.arg = @ + instrOffset]
    [] OTHER                                    -> ins

\* The code with the module appended; its final HALT becomes a jump back to ret.
Link(code, mod, ret) ==
  LET instrOffset == Len(code.instructions)
      constOffset == Len(code.constants)
      nameMap     == NameMap(code.names, mod.names)
      size        == Len(mod.instructions)
  IN  [instructions |-> code.instructions \o
         [a \in 1 .. size |->
            IF a = size THEN Instr("JUMP_ABSOLUTE", ret)
            ELSE RelocatedInstr(mod.instructions[a], instrOffset, constOffset, nameMap)],
       constants |-> code.constants \o
         [i \in 1 .. Len(mod.constants) |-> RelocatedConstant(mod.constants[i], instrOffset)],
       names |-> MergedNames(code.names, mod.names)]
==============================================================================
