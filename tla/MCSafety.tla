-------------------------------- MODULE MCSafety --------------------------------
(****************************************************************************)
(* The certificates of VmSafety computed for compiled programs, by a pass   *)
(* that follows the code from its start and from every function's entry,    *)
(* and the inductive invariants checked on their executions.                *)
(****************************************************************************)
EXTENDS VmBalance, VmCertified, Compiler, Syntax

Dec(n, k) == Minus(V(n), I(k))

\* Every construct, at top level and in a function; calls with too few and too
\* many arguments, with no slots, and from expressions that hold operands.
MCSources == <<
  <<Let("x", Or(I(0), And(I(2), Not(I(3))))), Let("x", Plus(V("x"), I(1))), Show(V("x")),
    IfElse(Lt(V("x"), I(3)), <<ExprStmt(Neg(V("x")))>>, <<PassStmt>>)>>,
  <<Let("k", I(0)),
    While(Lt(V("k"), I(4)), <<Let("k", Plus(V("k"), I(1))),
      If(Op(V("k"), "eq", I(1)), <<ContinueStmt>>), If(Op(V("k"), "eq", I(3)), <<BreakStmt>>)>>),
    For("i", I(2), <<For2("j", V("i"), I(2), <<PrintStmt(<<V("i"), V("j"), V("k")>>)>>)>>)>>,
  <<Def("fib", <<"n">>, <<If(Lte(V("n"), I(1)), <<Ret(V("n"))>>),
                          Ret(Plus(Call("fib", <<Dec("n", 1)>>), Call("fib", <<Dec("n", 2)>>)))>>),
    PrintStmt(<<Call("fib", <<I(3)>>), Call("fib", <<F(3)>>), Call("fib", <<I(4)>>)>>)>>,
  <<Def("five", <<"a", "b", "c">>, <<Let("d", Or(V("a"), V("b"))), Let("e", Times(V("d"), V("c"))),
                                     Ret(Plus(V("e"), V("a")))>>),
    Show(Plus(I(1), Call("five", <<I(2), I(3), I(4)>>))),
    Show(Call("five", <<I(2), SA, I(4), I(9)>>)), Show(Call("five", <<I(0)>>))>>,
  <<Def("none", <<>>, <<For("q", I(2), <<Show(V("q"))>>)>>),
    Show(Plus(I(1), Plus(Or(I(0), I(5)), I(2)))), Show(Call("none", <<I(8)>>)), Show(Call("five", <<>>))>>,
  <<Def("outer", <<"n">>, <<Def("inner", <<"m">>, <<Ret(Or(V("m"), I(1)))>>),
                            Ret(Plus(V("n"), Call("none", <<>>)))>>),
    Def("none", <<>>, <<If(B(FALSE), <<Ret(I(1))>>), Show(SB)>>), Show(Call("outer", <<I(1)>>))>>,
  <<Let("s", SA), Let("s", Plus(V("s"), I(1))), Let("s", Times(V("s"), I(2)))>>,
  <<ExprStmt(Op(I(7), "percent", Minus(I(1), I(1))))>>,
  <<Ret(I(4)), Show(SA)>>,
  <<Def("five", <<"a", "b", "c">>, <<Let("d", And(V("a"), V("b"))), Let("e", Times(V("d"), V("c"))),
                                     Ret(Plus(V("e"), V("a")))>>),
    Def("none", <<>>, <<While(B(TRUE), <<IfElse(V("g"), <<Ret(I(1))>>, <<Let("g", I(1))>>)>>)>>),
    Let("g", I(0)),
    Show(Plus(I(1), Times(Call("five", <<I(2), Call("none", <<>>), I(4)>>), Call("five", <<>>))))>>,
  <<Def("down", <<"n">>, <<If(Op(V("n"), "gt", I(0)),
                              <<ExprStmt(Call("down", <<Dec("n", 1)>>)), Show(Call("line", <<>>))>>)>>),
    Def("line", <<>>, <<PrintStmt(<<SA, SB>>)>>), ExprStmt(Call("down", <<I(2)>>))>>,
  <<Let("x", Or(I(0), I(7))), ImportStmt("shapes"), Show(Call("area", <<V("x"), I(2)>>)),
    ImportStmt("fib"), Show(Plus(I(1), Call("fib", <<I(4)>>))), ImportStmt("broken")>>,
  <<Def("load", <<"a", "b", "c">>, <<Let("d", And(V("a"), V("b"))), Let("e", V("c")),
      ImportStmt("fib"), ImportStmt("shapes"), Ret(Plus(V("d"), Call("area", <<V("e"), I(3)>>)))>>),
    Let("n", I(5)), Show(Plus(I(1), Call("load", <<I(2), I(3), I(4)>>))), Show(V("n")), ImportStmt("gone")>>
>>
\* Of these: those without or, with no return outside a function.
MCClean == {2, 3, 7, 8, 10, 11}
CompiledSources == [p \in DOMAIN MCSources |-> Compile(MCSources[p])]

\* A module of calls, loops and names of its own, one the JIT compiles, and one
\* that the compiler rejects.
MCModuleSources ==
  [shapes |-> <<Def("area", <<"a", "b">>, <<Let("f", Times(V("a"), V("b"))),
                  IfElse(Lt(V("f"), I(9)), <<Ret(V("f"))>>, <<Show(V("f"))>>)>>),
                Let("n", Or(I(0), Call("area", <<I(1), I(2)>>))),
                While(Lt(V("n"), I(4)), <<Let("n", Plus(I(1), V("n")))>>), Show(V("n"))>>,
   fib    |-> <<Def("fib", <<"n">>, <<If(Lte(V("n"), I(1)), <<Ret(V("n"))>>),
                  Ret(Plus(Call("fib", <<Dec("n", 1)>>), Call("fib", <<Dec("n", 2)>>)))>>)>>]
CompiledModules ==
  [m \in {"shapes", "fib", "broken"} |->
     IF m = "broken" THEN NotCompiled ELSE Compile(MCModuleSources[m])]
NamesOfModules == {"area", "a", "b", "f", "n", "fib"}

\* What is known of an address: <<address, depth, slots>>, for those reached so
\* far, and fresh of them in the last round, whose successors follow.  Paths
\* that meet agree in compiled code, but for or, which leaves an operand too
\* many when it evaluates its right side: the smaller depth replaces the other.
Entered(c) ==
  {<<0, 0, 0>>} \cup
  {<<c.constants[i].entry, 0, LocalCount(c.constants[i].slots)>> :
     i \in {i \in 1 .. Len(c.constants) : c.constants[i].t = "FUNCTION"}}

After(c, k) ==
  LET ins == InstrAt(c, k[1])
  IN  {<<s, k[2] + Gives(ins) - Needs(ins), k[3]>> : s \in Successors(ins, k[1], k[3] # 0)}

RECURSIVE Propagate(_, _, _)
Propagate(c, known, fresh) ==
  LET new  == {k \in UNION {After(c, f) : f \in fresh} :
                 \A o \in known : o[1] = k[1] => k[2] < o[2]}
      kept == {o \in known : \A k \in new : k[1] # o[1]}
  IN  IF fresh = {} THEN known ELSE Propagate(c, kept \cup new, new)

Certificate(c) == Propagate(c, Entered(c), Entered(c))

\* The k-th component of what is known, by address.
Column(known, k) == [a \in {t[1] : t \in known} |-> (CHOOSE t \in known : t[1] = a)[k]]

MCDepth == [p \in DOMAIN MCSources |-> Column(Certificate(CompiledSources[p]), 2)]
MCRoom  == [p \in DOMAIN MCSources |-> Column(Certificate(CompiledSources[p]), 3)]
MCModuleDepth == [m \in DOMAIN MCModuleSources |-> Column(Certificate(CompiledModules[m]), 2)]
MCModuleRoom  == [m \in DOMAIN MCModuleSources |-> Column(Certificate(CompiledModules[m]), 3)]

================================================================================
