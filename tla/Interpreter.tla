------------------------------ MODULE Interpreter ------------------------------
(****************************************************************************)
(* The pipeline of main.cpp from the syntax tree on: the compiler's output  *)
(* runs on the virtual machine, and what it prints is compared with the     *)
(* reference semantics.  A configuration gives Programs <- CompiledPrograms,*)
(* Modules <- CompiledModules, ModuleNames <- NamesOfModules and            *)
(* Meanings <- SourceMeanings.                                              *)
(****************************************************************************)
EXTENDS Frames, VmTypes, Compiler, PySemantics

CONSTANTS
  Sources,        \* program name -> its statements
  ModuleSources,  \* module name -> the statements of its file
  Meanings        \* program name -> what it prints and how it ends

\* Every program gets past the compiler: main() runs nothing otherwise.
ASSUME SourcesCompile == \A p \in DOMAIN Sources : Compiles(Sources[p])

CompiledPrograms == [p \in DOMAIN Sources |-> Compile(Sources[p])]
CompiledModules  == [m \in DOMAIN ModuleSources |->
  IF Compiles(ModuleSources[m]) THEN Compile(ModuleSources[m]) ELSE NotCompiled]
NamesOfModules ==
  UNION {{CompiledModules[m].names[i] : i \in DOMAIN CompiledModules[m].names} : m \in DOMAIN ModuleSources}

ReadableModules == [m \in DOMAIN ModuleSources |->
  IF Compiles(ModuleSources[m]) THEN ModuleSources[m] ELSE Uncompiled]
SourceMeanings == [p \in DOMAIN Sources |-> Meaning(Sources[p], ReadableModules)]

\* What the current execute() has printed so far.
OutputOfRun == SubSeq(output, printed + 1, Len(output))

Agrees(meaning) ==
  /\ IsPrefixOf(OutputOfRun, meaning.out)
  /\ status # "running" => OutputOfRun = meaning.out /\ status = meaning.end

\* At every moment the program has printed a prefix of what it means, and when
\* it stops it has printed all of it and stops the way it means to: compiler,
\* peephole, VM, JIT and linker together preserve the meaning of the source.
OutputAgrees == Agrees(Meanings[prog])
================================================================================
