--------------------------------- MODULE MCNative ---------------------------------
(****************************************************************************)
(* Both patterns with every kind of base, for arguments around the          *)
(* threshold and into recursions whose results no longer fit a word.        *)
(****************************************************************************)
EXTENDS NativeCalls

MCNatives == {[pattern |-> p, base |-> b] : p \in {"FIB", "FACTORIAL"}, b \in {-1, 1, 100}}
MCArguments == -2 .. 7
=================================================================================
