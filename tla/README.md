# A verification of mimopython in TLA+

mimopython (`src/`) runs a subset of Python: source text is turned into tokens,
a syntax tree, linear bytecode, and the bytecode runs on a stack machine that
compiles two shapes of recursive function to native x86-64 code. The whole is
single-threaded C++ without persistence or network. What makes it hard is not
concurrency but *agreement between layers*: a compiler that keeps no record of
the stack depth emits code for a machine that never checks it; a peephole pass, a
linker and a JIT each rewrite or reinterpret that code with assumptions of their
own; and one `Vm` object outlives the programs it runs, errors included.

This directory models everything between the characters of a file and the output,
down to the instructions of the native code, checks it with TLC on families of texts
and programs, and proves with TLAPS: of the machine, that its values, code and native
functions stay what they should be while modules are linked into the running code; its
memory safety for all programs and modules that have a certificate; that with an exact
certificate it implements a machine in which every call has a stack of its own; of the
native code, for words of every width, that it returns what the recurrence says and leaves the
machine's registers and stack alone; of the lexer, for every text, that it keeps its blocks
balanced and comes to an end; and of the parser, for every text, that it stays inside its tokens,
comes back from every statement and never recovers in the same place twice.

## 1. Inventory

| Component | Code | State | Operations | What makes it correct |
|---|---|---|---|---|
| Lexer | `src/src/lexer.cpp` | position, line, stack of indentation widths, parenthesis depth, errors | `tokenize` | it reads on at every turn; INDENT and DEDENT balance and are where the layout calls for them; a bad dedent is an error; blank and comment lines do not count |
| Parser | `src/src/parser.cpp` | token position, errors | `parse`, one method per construct, `synchronize` | it terminates and makes progress on every input; precedence; a tree without errors holds every token; an error costs no other statement |
| Syntax tree | `src/include/ast.h` | none | visitor dispatch | - |
| Compiler | `src/src/compiler.cpp` | code object, `in_function_`, local slots, `loop_stack_` | one visitor per node | all paths to an address agree on the stack; breaks and continues go to the right place; locals are separate per function |
| Peephole | `src/src/compiler.cpp:45` | none | `peephole_optimize` | the fused code means the same |
| Bytecode | `src/include/bytecode.h` | instructions, constants, names | - | operands in range |
| Values | `src/src/value.cpp` | - | arithmetic, comparison, truth, text | the same for every path an operation can take |
| Virtual machine | `src/src/vm.cpp` | `stack_`, `globals_`, `frames_`, `pc_`, `code_`, `output_` | `execute`, one handler per opcode | no frame touches its caller's operands; a return leaves one result; a halt leaves nothing; a run does not see the previous one |
| Import linker | `src/src/vm.cpp:408` | the running code object grows | IMPORT_NAME | relocated code means what the module means; control returns to the importer |
| JIT | `src/src/jit.cpp` | table by entry point, executable blocks | `compile`, native calls | native code computes what the bytecode computes, also after the code object changed; it gives the machine its registers and stack back |
| Command line | `src/src/main.cpp` | - | the pipeline | - |

**How they interact.** Only by calls. `main` runs lexer, parser and compiler once
and hands the code object to `Vm::execute`. The machine calls the JIT on the first
call of a function object and calls native code afterwards; native code never calls
back. IMPORT_NAME runs lexer, parser and a new compiler from inside the machine and
appends to the code object that is running. Shared state: the operand stack (all
frames), the globals (indexed by the program's names pool), the code object
(machine, linker, JIT), and the JIT's table, which outlives `execute`.

**Behaviours that are hard here.** The stack discipline across calls, returns,
jumps and short-circuit operators; back-patching; the window conditions of the
peephole; relocation by opcode; native code made from a code object that has changed
since; functions switching from interpreted to native while they recurse; errors
thrown with operands and frames left behind; a parser that recovers from an error in the
middle of nested blocks, and an import that never asks whether it had to. `PROJECT.json`
lists these under "hazards", each at its line, with the properties that cover it.

## 2. Modules

    Token, Lexer   characters -> tokens                    lexer.cpp, token.h
    Parser         tokens -> tree, and the recovery        parser.cpp
    FrontEnd       the two in a row, as a file or an import main.cpp, vm.cpp   (EXTENDS Lexer, Parser, Layout)
    Layout         lines of words, and the blocks their widths open: the reference of the lexer
    Unparser       how a tree is written down: the reference of the parser (EXTENDS FrontEnd)
    Lexer_proofs   theorems about the lexer                                (EXTENDS Lexer)
    FrontEnd_proofs  theorems about the parser and the whole front end     (EXTENDS FrontEnd, Lexer_proofs)

    PyValue    runtime values and operators            value.cpp, the arithmetic of vm.cpp
    Bytecode   opcodes, code objects, stack effects    bytecode.h, compiler.h
    Ast        syntax tree nodes                       ast.h
    Peephole   the fusion of updates                   compiler.cpp
    Compiler   tree -> code object                     compiler.cpp
    Jit        which functions become native, as what  jit.cpp
    Linker     merging a module into running code      vm.cpp, IMPORT_NAME
    Vm         the machine: state, actions, properties vm.cpp, vm.h      (EXTENDS Jit, Linker)
    CallStack  what calls promise: a stack for each of them
    Frames     the refinement: Vm implements CallStack                   (EXTENDS Vm, INSTANCE CallStack)
    VmTypes    what the machine gets to see: its inductive invariant TInv (EXTENDS Vm)
    VmLemmas   sequences, values, linker, JIT, fusion: lemmas, two theorems (EXTENDS Vm, Peephole)
    VmTypes_proofs    its theorems                                       (EXTENDS VmTypes, VmLemmas)
    VmSafety   certificates, how linking joins them, IInv                (EXTENDS VmTypes)
    VmCertified  the machine with the certificate of its code as a history (EXTENDS VmSafety)
    VmSafety_proofs   theorems about both                                (EXTENDS VmCertified, VmTypes_proofs)
    VmBalance  exact certificates, the height of the stack               (EXTENDS VmSafety, Frames)
    VmBalance_proofs  its theorems, the refinement among them            (EXTENDS VmBalance, VmSafety_proofs)
    NativeCode the instructions the JIT emits, run     jit.cpp           (EXTENDS Jit)
    NativeCalls       the calls on its stack: the inductive invariant NInv (EXTENDS NativeCode)
    NativeLemmas      words, recurrences, where the instructions lie     (EXTENDS NativeCalls)
    NativeCalls_proofs   its theorems                                    (EXTENDS NativeLemmas)
    PySemantics  what a tree means, without any machine: the reference
    Interpreter  Frames + Compiler + PySemantics: OutputAgrees           main.cpp
    Syntax       abbreviations for writing programs
    MC*          families of texts and programs, one module per run (MCPrograms puts
                 MCExpressions, MCControlFlow and MCCalls together)

**How state and actions correspond to the code.** The variables of `Vm` are the
members of class `Vm` (`stack_`, `globals_`, `frames_`, `pc_`, `code_`, `output_`)
plus what other objects hold: `native` is `native_func` of each function object that
has been called (a function object is identified by its entry point, which is unique
within one code object), `compiled` is `JitCompiler::compiled_funcs_`. `pc` is the
address of the instruction about to run, which is `pc_` before the increment of
`NEXT()`. `status` is "running" inside `run()`, "halted" after HALT, or the error
that was thrown. `runs` and `printed` count the calls of `execute` and remember how
long `output_` was at the last one. Each action is one handler of `run()`, or one
path through it where the handler branches (`CallUncallable`, `CallNative`,
`CallInterpreted`), with everything the handler does: an import is one step because
the handler reads, compiles, links and jumps without executing an instruction in
between. A handler whose C++ would index outside a vector is not enabled there;
`FrameSafe` and `OperandsSafe` say no reachable state gets there.

`Lexer` has one action per turn of the loops in `tokenize()`; its variables are the members
of class `Lexer`, `pos` counted from 1. A number, a string that is closed or a word is one
character of the model, so reading it to its end is one step; a quote that is not closed is a
character of its own. `Parser` has one action per turn of the loop in `parse()`: the recursive
methods are functions from the position they start at to the position they leave and a tree,
or the position at which they threw, and the seven levels of binary and prefix operators, which
differ in nothing but their operators (`Infix`, `Prefix`, `Operands`), are one function with a
table. The recursion is a function of the depth it may go to: `Calls[n]` is what the methods
return when calls are followed to depth `n`, `TooDeep` where that does not suffice. `parse()`
follows them to `MaxDepth = 8 * Len(tokens)`, and a lemma shows that no text needs more, so that
this bound cuts nothing off (section 4). `FrontEnd` runs them for
one of two callers: `main`, which stops at an error, or `import`, which asks for none.

`NativeCode` has the instructions of `compile_function` in their order, each with the length of
its encoding, since jumps, calls and the patching count in bytes, and one action per kind of
instruction of a machine with the registers the code uses, the flag `jle` reads and a stack in
memory. The registers of the machine before the call, the argument's among them, are the
environment, and a constant says which register the caller puts the argument into.

`Compiler` is written as operators from a compiler state to a compiler state, one per
visitor; it and `PySemantics` walk trees and are RECURSIVE, so nothing is proved in
modules that reach them; the same holds of `Unparser`. `Token`, `Lexer`, `Parser`, `Layout`,
`FrontEnd`, `PyValue` to `Vm` (but for `Compiler`), `VmTypes`, `VmSafety`, `VmCertified`,
`NativeCode` and `NativeCalls` contain no RECURSIVE operator, nor do `VmBalance`, `Frames` and `CallStack`.

`PySemantics` is the abstract specification of a program: evaluation of the tree with
environments, no bytecode, stack, slots, jumps or linking. Its operations on values
are those of `PyValue` (so how `//` rounds is not judged), but names, calls, control
flow and imports are Python's: a name is local to the function that assigned it, a
module runs once. `OutputAgrees` compares the machine with it at every step: the
output is a prefix of what the program means, and at the end all of it, with the same
error or none. It is a state predicate rather than an INSTANCE with a refinement
mapping because the reference is a function of the program, not a state machine.

`CallStack` is the abstract specification of calls: each has operands, locals and a return
address of its own, an instruction works on those of the current call, a call takes the
function and the arguments it passes from the caller and starts with none, a return gives back
one value. How many arguments an instruction passes is an input to it (`passed`, which `Frames`
maps to the operand of CALL_FUNCTION), so that an argument left behind is no step of it. The code has
one vector `stack_` for all calls and records in a frame no height of it; `Frames` cuts the
vector at the heights the frames started from (`bottom`, which the model records for the
properties) and `FramesSeparate` says that every step is then a step of `CallStack`.

`Unparser` and `Layout` are the reference of the front end, written in the other direction: the
words of a tree with the fewest parentheses, a layout of words in lines, and which blocks the
widths of lines open and close, by quantifying over all lines instead of keeping a stack.

Operators whose comment starts with "Mutant of" are deliberate faults. Each one,
put in place of the definition it follows, makes TLC find one of the properties
violated (`PROJECT.json`, "mutants"); nothing else uses them.

## 3. Properties and runs

| Property | Says |
|---|---|
| `OutputAgrees` | compiler, peephole, machine, JIT and linker together print what the source means and end as it means to |
| `FrameSafe` | no instruction pops below its own call frame; control stays inside the code |
| `OperandsSafe` | constants, names, globals and locals are indexed in range, the locals within the frame that is current |
| `FramesSeparate` | the machine implements a machine with a stack per call, in which a call takes the function and as many arguments as it passes (`CallStack`) |
| `CallersUntouched` | no step changes the operands of the callers below the current frame |
| `ReturnRestores` | a return leaves exactly one value where the operands of the call were, and continues after the call |
| `HaltsClean` | a program that halts has an empty stack and one frame |
| `FunctionsDelimited` | every function lies between the jump over it and the RETURN_VALUE before that jump's target, also after linking: what the JIT's search relies on |
| `JitCacheCurrent` | what the JIT remembers for an entry point is what it would produce from the code that is loaded now |
| `PatchSafe` | no native function has a base that the patching of addresses takes for a placeholder |
| `Terminates` | an execution of these programs comes to an end; of a text, its reading |
| `RoundTrip` | a tree that is written down, in any layout, is read back as that tree |
| `ErrorsStayLocal` | an import gets every statement but the broken ones, and the one behind a broken block |
| `LayoutAgrees` | INDENT, DEDENT and NEWLINE are where the widths and parentheses of the lines call for them, and a line at no open width is reported |
| `NothingLost` | a text accepted by `main` has every one of its tokens in the tree |
| `BlocksBalance` | INDENT less DEDENT tokens are the open levels at every moment, and none at the end |
| `Advances`, `Progress` | no turn of the lexer's loops, no turn of `parse()`, leaves its position as it was |
| `RunsEmitted` | native code executes nothing but instructions that were emitted |
| `ResultCorrect` | and computes the recurrence that the machine model relies on, in words |
| `CallerPreserved`, `ReturnsToVm` | and comes back, with the callee-saved registers and the stack as they were |
| `NInv` | at every instruction the calls under way lie on the stack in frames of five slots, with what each of them found and its argument, and the registers hold what the recurrence needs next: the inductive invariant of the theorems about native code, its types (`NTypes`) among them |
| `BInv` | in a program with an exact certificate, called as it is defined, the stack is exactly as high as the certificate says: in the current frame, under every caller, and empty at a halt |
| `TypeOK` | types, of the machine (`imports`) and of the front end (`texts`); of the latter also that the one ENDOFFILE is the last token, and that the parser's position and its errors are positions of tokens |
| `TInv` | every value, frame, constant and entry of the JIT's table is tied to the code that is loaded, before and after linking: the inductive invariant of the type theorems |
| `CertifiedHere` | the current frame, every caller and the code, linked modules included, match the certificate of that code: the rest of the inductive invariant `IInv`, with the certificate as a variable in place of the quantifier |

| Run | Instances | Distinct states |
|---|---|---|
| `programs` | all 13 operators on 9 leaves of every type, pairs of operators on 4 leaves, all fused updates, both unary operators (1915 programs); all pairs of 14 statements from 4 starting values (784); 34 calls, each made twice, so that the second may be native | 54 711 |
| `imports` | all ordered pairs of 10 modules, at top level and in a function | 6 214 |
| `reruns` | all ordered pairs of 10 programs on one `Vm` | 2 772 |
| `safety` | 13 programs with every construct, six of them clean (no `or`, `return` at module level or import), two that import modules with functions, loops, a function the JIT compiles and an `or`, at module level and in a function; certificates computed from the bytecode; ordered pairs | 9 189 |
| `texts` | expressions with every operator in every other on both sides, 17 statements in 3 layouts, 14 broken lines and 4 broken blocks around or behind every statement; both callers | 37 540 |
| `lines` | all texts of 3 lines out of 11 contents at 3 widths (the first out of 4 at 2), all of 4 lines out of 2 at 4 widths, the empty text; an import | 289 219 |
| `native` | 2 patterns, 3 bases (the argument itself, 1, 100), arguments -2 to 7 | 7 104 |

**Bounds and why they are enough.** The state space of one program is its execution, so
the bound that matters is the family of programs. Stack discipline is compositional:
a construct unbalances the stack by itself or in one nesting, which pairs of statements
and pairs of operators show. Calls have to go beyond the inline slots (5 locals), miss
and have surplus arguments, recurse deeper than two, and reach the second call of a
function (native code) with int, float, bool and string arguments. Linking has to happen
twice (the second module is appended to code that has already grown) and inside a frame.
`MaxRuns = 2` suffices for a rerun because `execute` resets from any state. The leaves of
expressions include a zero (division), a negative number (truncation), a float, a bool
(neither numeric nor integral by turns), two strings, None and a variable.

Texts are bounded by what can interact. A layout error needs a line before and a line after
the offending one, at widths below, between and above the open ones: three lines at three
widths, and four where only block structure matters, so that two levels can be open and a line
can close one, both or land between them. `RoundTrip` needs an operator inside an operator, on
either side; deeper nesting repeats the same two levels. `ErrorsStayLocal` needs one error and
the statements around it. Numerals stop at `MaxNumeral = 9`. Native code runs in words of
11 bits (`HalfWord = 1024`) rather than 64: factorial 7 and the base 100 wrap, so `ResultCorrect`
compares wrapped words, and 400 bytes of stack (`StackBytes`) hold the deepest recursion with
eight frames; running out would be reported as a deadlock.

In `safety` the specification is `CertifiedSpec` of `VmCertified`: `Spec` with two history
variables, the certificate of the code that is loaded, which no action of the machine reads. It
starts as the program's, and a step that links a module joins to it the module's, with the
operators the proof uses (`LinkedDepth`, `LinkedRoom`); `MCSafety` computes both by following
the compiled code. So TLC checks the invariant that is proved, the witnesses of its quantifier
included.

**Left out of the passing families, because it is known to fail** (section 5): `or` where
its leftover operand matters (`ReturnRestores`, `HaltsClean`), surplus arguments to a function
without slots (in `safety` one such call shows that memory stays safe, in a program that is not
in `Clean`), calls of a parameter, a name that a function reads as a global before it assigns it
in a loop, a `for` in a function whose variable is also a global, `break` in a function defined
in a loop, updates and imports inside imported modules, string
repetition by `x = x * n`, a JIT-compiled factorial elsewhere than first in the file,
recursion of a JIT-compiled shape with another threshold, step or callee, JIT-compiled functions
in reruns. `or` itself is checked for its value (`programs`) and for
memory safety (`safety`).

**Fairness.** `WF_vars(Step)`: `run()` is a loop without waiting; from an enabled handler it
always goes on, and leaves only through HALT or a throw. No fairness is assumed of
`ExecuteAgain`: nothing forces a client to call `execute` again. Deadlock is checked:
`Finished` stutters when no call of `execute` is left, so a state in which the machine is
running and no handler is enabled would be reported. `FrontEnd` has
`WF_vars(Tokenize \/ StartParser \/ Parse \/ HandOver)` and `NativeCode` has
`WF_vars(Next)`: loops of one thread and a processor, which wait for nothing.

## 4. What is proved

Of the machine (`VmTypes_proofs`, `VmSafety_proofs`, `VmBalance_proofs`), for every set of
programs and modules, every `MaxRuns` and executions of any length; of the fusion of updates
(`VmLemmas`), for any code; of lexer and parser (`Lexer_proofs`, `FrontEnd_proofs`), for every
text; of the native code (`NativeCalls_proofs`), for both patterns, every base, argument, word
width and stack:

| Theorem | Statement |
|---|---|
| `Typed` | `Spec => []TInv` |
| `TypesAreCorrect` | `Spec => []TypeOK` |
| `LinkingKeepsFunctions` | `Spec => []FunctionsDelimited` |
| `PatchingIsSafe` | `Spec => []PatchSafe` |
| `FirstRunCacheIsCurrent` | `Spec => []((runs = 1) => JitCacheCurrent)` |
| `CacheIsCurrent` | `Spec => []JitCacheCurrent`, when `MaxRuns = 1` |
| `Safety` | `Spec => []IInv` |
| `CertificateIsKept` | `CertifiedSpec => []CertifiedHere` |
| `FramesAreSafe` | `Spec => []FrameSafe` |
| `OperandsAreSafe` | `Spec => []OperandsSafe` |
| `CallersStayUntouched` | `Spec => CallersUntouched` |
| `Balance` | `Spec /\ []Fits => []BInv` |
| `ReturnsRestore` | `Spec /\ []Tidy => ReturnRestores` |
| `HaltsAreClean` | `Spec /\ []Tidy => []HaltsClean` |
| `FramesAreSeparate` | `Spec /\ []Tidy => FramesSeparate` |
| `PeepholeInPlace` | the loop of `peephole_optimize`, turn by turn, ends with `PeepholeOptimize(instrs)` |
| `FusedUpdate` | a step `InplaceOp` stores what its arithmetic instruction and a STORE_NAME would, or throws the same |
| `LexerTypes` | `LexerSpec => []LexerTypeOK` |
| `LexerBalances` | `LexerSpec => []BlocksBalance` |
| `LexerAdvances` | `LexerSpec => Advances` |
| `FrontEndTypes` | `Spec => []TypeOK` |
| `ParserReturns` | `Spec => []` every call of parse_statement by parse() comes back, behind the token it started at or with an error not before it |
| `EveryTurnConsumes` | `Spec => Progress` |
| `NativeCallsAreFramed` | `Spec => []NInv` |
| `JumpsHitInstructions` | `Spec => []RunsEmitted` |
| `CallersAreRestored` | `Spec => []CallerPreserved` |
| `NativeResults` | `ArgumentRegister = "RCX" => (Spec => []ResultCorrect)` |

Those about the machine build on one another as the modules do: each layer adds what it assumes
of the compiled code to the layer below, and a conjunct to its invariant.

### Types, linking and the JIT

**Assumptions.** `CompilerAssumption`: every program and module is `WellFormed`. Operands that
the linker renumbers are in the names pool; function objects have a slot count, and their
bodies lie behind a jump over them whose target a RETURN_VALUE precedes (`Delimited`, how
`visit(FuncDef)` lays them out); constants are loaded in the order of the pool (`EmitConst`
always adds one); the last instruction is a HALT. `ModuleNamesAssumption` gives a name to the
set of names that occur in modules, `MaxRunsAssumption` says that `execute` is called. Nothing
is assumed about the stack: `TInv` holds for code no certificate exists for, such as the nested
import of section 5. TLC evaluates the assumptions on what `Compiler` makes of every program and
module of the runs `programs`, `imports`, `reruns` and `safety`.

**The argument.** `TypeOK` is not inductive: what a call enters, and what the JIT compiles,
depends on values that were pushed long before. `TInv` adds that every function value on the
stack, in a frame or in a global *is* one of the constants of the loaded code (or the object
the VM makes for `range`), that every such constant is delimited, and that every frame has at
least one slot (the four inline ones). The difficult step is IMPORT_NAME, which changes the
code under all of them: `LinkedPrefix` says that the old code is a prefix of the new,
`LinkedSuffix` what every instruction and constant behind it has become, `MergedNamesAreBoth`
and `NameMapInPool` what `find_or_add_name` makes of two pools, so that old functions stay
delimited by the same jump and a module's function moves by the same offset as its jump. For
the JIT, the functions it looks at lie before the HALT of the program, so what it would make of
them never changes as code is appended (`JitReadsNoFurther`): the table stays current
until `execute` replaces the code. That it also holds no base value 0, the placeholder of
`compile`, follows from `ConstantsRise`: a base case loads its second constant, whose index is
at least 1, and linking only raises indices.

### Memory safety

**Assumptions.** `CertifiedPrograms` and `CertifiedModules`: every program and module has a
*certificate*, as in a bytecode verifier. It gives each reachable address the operands its own
frame has there (`Depth`, a lower bound) and the slots of its function (`Room`, 0 outside
functions), such that every instruction finds its operands, its operand is in range, its
successors fit, and every function object's entry has depth 0 and the room a call will
allocate. The compiler produces no such record; the `safety` run computes one by propagation
for compiled programs and modules, and TLC evaluates the assumptions on them. Of a module it is
assumed besides that it holds neither IMPORT_NAME nor a fused update at a reachable address,
which the linker gets wrong (`FindNestedImport` and section 5 have the programs), that it halts
outside of its functions only, and that it does not read the name `range`.

**The argument.** Neither `FrameSafe` nor `OperandsSafe` is inductive: they say nothing of
what a return will find. `IInv` says of the code that is loaded that *there is* a certificate
such that (`CurrentInv`) the stack is at least as deep above the current frame's bottom as
that says, and (`CallersInv`) for every suspended frame its return address is certified for
that frame's slots, and its operands plus the one result reach the depth certified there. The
depth is a bound from below because the code leaves operands behind (`or`, surplus arguments):
the theorem says the machine is memory-safe in spite of them.

The quantifier is there because the certificate grows with the code. `LinkedDepth` and
`LinkedRoom` join that of a module to that of the code at the import: the module's functions
keep theirs, while its module-level code runs in the importing frame, over the operands that
frame has there and with its slots (`JoinedCertificate`). Two things make this go through: a
module-level instruction indexes no slot, and the module's last HALT has become a jump to the
instruction behind the import (`MovedSuccessors`), where nothing was added to the stack.
`CertificateIsKept` says which certificate it is: with `certDepth` and `certRoom` as history
variables, every step of `CertifiedSpec` keeps `Certified` (`CertificateStays`). The history
recognises a link by the code it changes; that every link changes it is `LinkingGrows`.

There is one lemma per kind of step (`StepKinds`): a step moves on in its frame, stops, enters a
frame, leaves one, or links (`MovesCertified`, `StopsCertified`, `CallsCertified`,
`ReturnsCertified`, `LinksCertified`). That an in-place update needs no check follows from
`OwnUpdates`: it names a name of the program itself, for which `execute` made a global.
`CallersStayUntouched` is shown from the same invariant: new and old stack agree below the frame.

### Balance and the refinement

**Assumptions.** `CleanPrograms`: for the programs in `Clean` the certificate is *exact*. All
paths to an address agree on the operands there, a function returns with depth 1, and only
module-level code halts, with depth 0. No program with `or` has one, since its two paths meet
at different depths, nor one with a `return` at module level; and nothing is imported, since a
module runs over whatever the importing frame has on the stack. The theorems are also under a
condition on the execution: `Fits` says that a clean program passes no argument to a function
without slots, which is what any call with the right number of arguments satisfies and what
the code does not check; `Tidy`, that the programs executed are clean and called like that.
Section 5 has a program for either condition that breaks the conclusions without it
(`FindReturnedOr`, `f(1)` for `def f(): pass`).

**The argument.** `BInv` turns the bounds of `IInv` into equations: the stack is the bottom of
the current frame plus the certified depth, and from frame to frame the bottom of a callee plus
the result to come is the depth its return address expects (`CallersExact`). Every step of
such a program is of one of the first four kinds of `StepKinds`, and each has a lemma
(`MovesExact`, `StopsExact`, `CallExact`, `ReturnExact`). A return then finds one
operand in its frame because the certificate says 1 there, which is `ReturnsRestore`; and with
the bottoms rising, the parts that `Frames` cuts the stack into are well defined, so that the
four kinds of step are `Work`, a stutter, `Call` and `Return` of `CallStack`, and a new
execution is `Restart` (`MovesWork`, `CallsCall`, `CallsReturn`, `NextSeparate`). These lemmas
say which parts of the sequence stay the same when one end of it changes.

### The fusion of updates

`peephole_optimize` rewrites the code in place while it goes through it, so a window it has
rewritten is part of what it reads next; `PeepholeOptimize` fuses all windows of the original
code at once. `PeepholeInPlace` says these are the same. Windows have no instruction in common
(`WindowsApart`), and a turn of the loop finds a window exactly where the original code has one,
since at the positions written so far there is the X of a window already passed, an update or a
NOP (`TurnFuses`). `FusedUpdate` compares the second copy of the arithmetic, in the handlers of
the updates, with the first: they agree on values of every type but for a string times an
integer, which the theorem excludes and section 5 lists. What neither says is that X pushes one
value and that no jump enters the window; the compiler does not check it (`FindNegatedOperand`).

### The lexer

**Assumptions.** None on the constants: a text is any sequence of strings, one string for
what the model takes as one character.

**The argument.** `BlocksBalance` (INDENT less DEDENT tokens are the open levels) holds only
because the levels on `indents_` rise strictly from 0: popping to the width of a line then
stops at a level that exists, and at the end of the file every level but the first is popped.
`LexerInv` therefore joins it to the types, of which the rising levels are a part. The counts
are those of a sequence that grows: the lemmas about `Append` and about the repeated DEDENTs of
one line say by how much each count changes. `IndentLine` and `EndOfFile`, the only two
actions that open or close levels, have a lemma each; the others emit tokens that are no
blocks. `LexerAdvances` is why `tokenize()` comes to an end on every text: each turn lowers
`2 * (Len(source) - pos) + (IF atLineStart THEN 1 ELSE 0)` or is the last. The conclusion
itself, liveness under fairness, is outside of the prover's reach and checked as `Terminates`.

### The parser

**Assumptions.** `TextsAssumption`: the characters of a text are strings. Nothing is assumed
about the tokens: texts with errors, unbalanced parentheses and broken blocks are included, for
`main` and for an import, which hands all of them to the parser.

**The argument.** The parser has no bound check of its own: `peek()` at any position relies on
the last token being ENDOFFILE, which `check()` never finds and nothing steps over. That it is,
and the only one, is a fact about the lexer, and one that holds only at its end. `FrontEndTypes`
therefore rests on `LexerInv` and on what each action of the lexer appends (`EmittedTurn`);
`FrontInv` adds to the types that tokens are there only once the lexer is done.

`Reads(r, p, least)` is what every parse function promises: from position `p` it stays in the
tokens, throws at `p` or behind, and leaves a position from `least` on, which is `p + 1` but for
lists of statements or branches, which may be empty. There is one lemma per parse method (`PrimaryReads`
to `StatementsEnd`), under the hypothesis that what it calls does the same
(`ReturnFrom`). What remains is that the recursion ends. Some calls start at the position of
their caller: a level of precedence calls the next one, a list of arguments an expression. `Rank`
orders the functions so that such a call goes to a lower rank, and all others start behind a
token; so `Measure`, eight times the tokens left plus the rank, falls with every call
(`MeasureFalls`), and `CallsReturn` follows by induction on it: a call whose measure is at
most `n` returns when calls are followed to depth `n`. The induction is taken on sets of
numbers, as for native code, and the existence of the recursive function `Calls` is shown first
(`FollowingExists`, `FollowingAgrees`). With `MaxDepth` every call of `parse()` returns, which is
`ParserReturns`.

`EveryTurnConsumes` needs the step from there to a turn of `parse()`. A statement that parses
has left its first token. One that throws at its first token is recovered from by `synchronize`,
which may stop at once, in front of a keyword that starts a statement: then the position would
not move. It does because a method that starts at such a keyword has consumed it before it can
throw; `break` and `continue` do not throw at all (`ParserTurn`). A keyword more in the list of
`synchronize`, `elif` for example, and it fails (the mutant `ResumingAtBranches`).

### Native code

**Assumptions.** `NativeAssumption` and `CodeAssumption`, on the constants: the addresses in use
are words, words go from `-HalfWord` to `HalfWord - 1` (any width from 16 values on), the VM's
return address lies in front of the block of code, and no base is 0, which is `PatchingIsSafe`
for the machine. `NativeResults` assumes besides that the caller passes the argument in RCX: in
RDI the theorem is false (`FindSystemVCall`). The other three hold for either register.

**The argument.** None of the three properties is inductive. That a `ret` hits an instruction
depends on a slot written an unbounded number of calls ago; that rbx holds `f(n - 1)` when
`f(n - 2)` is back depends on the inner call having saved and restored it; that n is at rbp - 24
on the two pushes before it. `NInv` reads the chain of calls off the stack. The frame at depth d
has the slots 5d to 5d + 4. Its argument is that of its caller less 1 or 2, depending on the
return address in slot 5d (`Arg`); what it found in rbp, rbx and r12 follows from its caller
(`FoundRbp`, `FoundRbx`, `FoundR12`). `Point(d, k)` says of each of the 19 or 24 instructions
what has been saved by then, which registers are as they were found, and what is computed. There
is one lemma per instruction (`PushRbp` to `PopRbp`), and for the calls and the return, which
change the depth, `CallEnters` and `CallReturns`.

Below these is what compile_function relies on without saying so (`NativeLemmas`):
`AddressesAre`, `BlocksAre` and `JumpsLand` compute the place of every instruction from the
lengths of the encodings, for every base, and show that both jumps land; `NativeCallIsRecursive`
that the recurrence has a value for every int; `WordOfSum` and `WordOfProduct` that adding and
multiplying wrapped words is wrapping the sum and the product. The induction those need is taken
on sets of numbers rather than on an operator (`Induction`, from the well-foundedness of `<`).

That the recursion ends before the stack does is not part of the theorems: `ReturnsToVm` is
checked, and a machine whose stack is full has no further step in the model.

### Only model-checked

- Liveness under fairness: `Terminates`, `ReturnsToVm`.
- `OutputAgrees`, `RoundTrip`, `NothingLost`: the references (`PySemantics`, `Unparser`) and, for
  the first, `Compiler` walk trees and are RECURSIVE, which the prover cannot take.
- `ErrorsStayLocal`, which speaks of the pieces a text was put together from, and `LayoutAgrees`,
  which compares the token sequence with one folded over the lines: both would need an induction
  over the text in parallel with the code.
- `HaltsClean` and `FramesSeparate` of programs without an exact certificate: of some they are
  false (section 5), and the families of the runs hold some of which they are true.
- `JitCacheCurrent` in later executions of one `Vm`: there it is false (section 5).
- That linked code means what the module means, as far as `OutputAgrees` sees it: the theorems
  say that its control and its operands stay right.
- That the bytecode of a function the JIT accepts computes the recurrence `NativeCall`:
  `OutputAgrees` compares the two on programs.

## 5. Where the code disagrees with its documents

Five disagreements have a run: one small program (`MCFindings`, `MCNative`), one property, and
the violation. `PROJECT.json` quotes the line each one contradicts.

| Run | Program | What happens |
|---|---|---|
| `FindReturnedOr` | `return n or 1` | the copy made by `or` stays among the caller's operands |
| `FindNestedImport` | a module that imports | the operand of IMPORT_NAME is relocated into the wrong pool |
| `FindNegatedOperand` | `x = y + -x` | fused although the window's X pushes nothing |
| `FindShiftedFactorial` | a factorial that is not first in its file | the native code uses the constant's index as its value |
| `FindSystemVCall` | `fib(n)` in a build for Linux or macOS | the code reads RCX, the caller passes RDI: the result is that of another argument |

The others have no run of their own. With the program as the `Sources` of a configuration
like these, TLC finds `OutputAgrees` violated (`HaltsClean` and `FramesSeparate` for the first);
the comparison of
bools is the exception, since the reference takes its operators from `PyValue`, where it can be
read off `CompareGte`, and the last four are read off `Parser` and `Compiler`.

| Program | What happens | Where |
|---|---|---|
| `f(1)` for `def f(): pass` | the argument stays on the stack (`HaltsClean`); "pops function + args", compiler.cpp:8 | vm.cpp:360 |
| `for i` in a function | overwrites the global `i`; README.md:551 "must not modify outer scope variables" | compiler.cpp:301 |
| `while k < 2: print(x); x = 5; k = k + 1` in a function, `x` being a global too | the first use reads the global in every turn: a name is local only behind its first assignment in the text | compiler.cpp:124 |
| `f(5)`, twice, of a function that adds two calls, with `if n <= 2: return n`, with `f(n - 1) + f(n - 3)` or with `g(n - 1) + g(n - 2)` | taken for fibonacci and computed as that once native: the emitted code compares with 1, subtracts 1 and 2 and calls itself | jit.cpp:388 |
| `break` in a function defined in a loop | jumps out of the function's frame | compiler.cpp:414 |
| `apply_twice(double, 3)` of `test_programs/functions.py` | the callee `f` is looked up as a global, never as the parameter | compiler.cpp:186 |
| `import m` twice | `m` runs twice; `imported_modules_` ("prevent re-import", vm.h:76) is never filled | vm.cpp:411 |
| `y = y + 1` in a module | the fused update is not renumbered and changes another variable | vm.cpp:472 |
| `s = s * 3` for a string | TypeError, once fused | vm.cpp:547 |
| two programs on one `Vm`, the first with a native function | the second may call native code of the first (`OutputAgrees` with `MaxRuns = 2`) | jit.cpp:322 |
| `True >= 0` | TypeError, although `True <= 0` is none and README.md:552 makes a bool numeric | vm.cpp:301 |
| an unassigned name | `None`; the NameError of vm.cpp:93 is out of reach of any name in the program | vm.cpp:32 |
| a syntax error in a block | the rest of the block becomes top-level statements, and the DEDENT left over costs the statement behind it | parser.cpp:19 |
| `from m import f` | the names are parsed and dropped: everything of `m` is imported; "then we just use the specific name", compiler.cpp:475 | compiler.cpp:477 |
| `a / b` | parsed, then rejected by the compiler | compiler.cpp:167 |
| `a < b < c` | compares the bool `a < b` with `c` | parser.cpp:322 |

## 6. What is not modelled

- **Programs that do not compile.** `SourcesCompile` excludes them: `main` runs nothing then.
  Which trees the compiler rejects is modelled in `Compiler`, and what an import does with a
  module it rejects in `Linker`.
- **The width of integers in the interpreter.** Ints are unbounded there; overflow is undefined
  in the interpreter. Native code does wrap, in words of 2 * `HalfWord` values. Floats are the integral
  doubles.
- **Numerals beyond 64 bits**, for which `std::stoll` throws, and bytes outside of ASCII, for
  which `isdigit` is undefined.
- **The insides of tokens.** Escapes in strings, the digits of numbers, the letters of words,
  and the line and column numbers that only messages show.
- **Encodings.** An x86 instruction is its meaning and its length in bytes; emitter methods
  without a caller, the allocation of executable memory and its 4096-byte limit are left out.
- **Text.** Names of functions, spaces between printed values and messages of errors.
- **Sharing of function objects between executions** of the same code object: every `execute`
  gets a freshly compiled one, as in `main.cpp` and the tests.
- **`range` called as a function** outside of a `for`, which restarts the program in a new
  frame; `return` at module level is in the `safety` run only.
- **Files.** Opening a file, searching a module's path, and reporting an error.

## 7. Plan

Done: everything between the text and the output, the refinement of the machine with a stack
per call, the native code, and the theorems of section 4. Next, in this order:

1. **Peephole**: from the theorems about the rewriting and the arithmetic to whole runs, for code
   where X is a push and no jump enters a window.
2. **Compiler acceptance**: which programs are rejected, against which ones are legal.
3. Arithmetic of a bounded width in the interpreter.

To check everything: `tlc -workers 2 -config X.cfg M` for each run of `PROJECT.json`,
`tlapm M.tla` for `VmLemmas`, `VmTypes_proofs`, `VmSafety_proofs`, `VmBalance_proofs`,
`Lexer_proofs`, `FrontEnd_proofs`, `NativeLemmas` and `NativeCalls_proofs`.
