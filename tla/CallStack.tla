------------------------------- MODULE CallStack -------------------------------
(****************************************************************************)
(* What calls promise, without the shared operand stack: every call has     *)
(* operands, locals and a return address of its own, and only the current   *)
(* call changes them.  It models no code: the VM is shown to implement it.  *)
(****************************************************************************)
EXTENDS Naturals, Sequences

VARIABLES
  calls,   \* the calls, the current one last: ops, locals and ret of each
  at,      \* the address of the next instruction
  passed   \* how many arguments it passes, if it is a call; only read here

stackVars == <<calls, at>>

NumCalls == Len(calls)
Current == calls[NumCalls]
Callers == SubSeq(calls, 1, NumCalls - 1)

IsStart(cs, address) ==
  Len(cs) = 1 /\ cs[1].ops = <<>> /\ cs[1].ret = 0 /\ address = 0

Init == IsStart(calls, at)

\* An instruction works on the operands and locals of the current call, and
\* nothing tells that another one exists.
Work ==
  /\ Len(calls') = NumCalls
  /\ SubSeq(calls', 1, NumCalls - 1) = Callers
  /\ calls'[NumCalls].ret = Current.ret

\* A call takes the function and the arguments passed to it from its caller, no
\* value more and none less, and starts with none.
Call ==
  /\ passed < Len(Current.ops)
  /\ Len(calls') = NumCalls + 1
  /\ SubSeq(calls', 1, NumCalls) =
       Append(Callers, [Current EXCEPT !.ops = SubSeq(@, 1, Len(@) - (passed + 1))])
  /\ calls'[NumCalls + 1].ops = <<>>
  /\ calls'[NumCalls + 1].ret = at + 1

\* A return hands its caller one value, after which the caller goes on.
Return ==
  /\ NumCalls > 1
  /\ Current.ops # <<>>
  /\ calls' = [Callers EXCEPT ![NumCalls - 1].ops = Append(@, Current.ops[Len(Current.ops)])]
  /\ at' = Current.ret

Restart == IsStart(calls', at')

Next == Work \/ Call \/ Return \/ Restart

Spec == Init /\ [][Next]_stackVars
==============================================================================
