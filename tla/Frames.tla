--------------------------------- MODULE Frames ---------------------------------
(****************************************************************************)
(* The VM implements CallStack: the one stack_ is cut into the operands of  *)
(* the calls at the heights the frames started from.                        *)
(****************************************************************************)
EXTENDS Vm

\* The part of the stack that belongs to the k-th frame.
OwnOperands(k) ==
  SubSeq(stack, frames[k].bottom + 1,
         IF k = Len(frames) THEN Len(stack) ELSE frames[k + 1].bottom)

\* The calls that are under way, each with what belongs to it.
OpenCalls ==
  [k \in 1 .. Len(frames) |->
     [ops |-> OwnOperands(k), locals |-> frames[k].locals, ret |-> frames[k].ret]]

Separate == INSTANCE CallStack WITH calls <- OpenCalls, at <- pc, passed <- Here.arg

\* No step of the VM can be told from one of a machine in which every call has
\* a stack of its own: nothing of one call is read, popped, left behind or
\* assigned by another, and a call takes exactly what was passed (vm.h: one
\* stack_, frames_ without a stack height; vm.cpp:360 removes the arguments on
\* one of two branches).
FramesSeparate == Separate!Spec
==============================================================================
