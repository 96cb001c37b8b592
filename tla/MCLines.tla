--------------------------------- MODULE MCLines ---------------------------------
(****************************************************************************)
(* Arbitrary texts: every sequence of three lines of a set, at any widths,  *)
(* and longer ones of fewer lines.  Most of them are no program; an import  *)
(* reads them all to the end.                                               *)
(****************************************************************************)
EXTENDS Unparser

Contents == {
  <<"x", "=", "1">>,                       \* a statement,
  <<"if", "x", ":">>, <<"else", ":">>, <<"def", "f", "(", ")", ":">>,     \* headers,
  <<"f", "(", "x", "<=">>, <<"a", ")", ")">>,     \* parentheses that span lines,
  <<"return">>, <<"x", "=">>,              \* the rest of a line missing,
  <<"print", "(", "'", "x", ")">>,         \* a string that is not closed,
  <<"$", "elif", "not", "x", ":">>,        \* characters and keywords out of place
  <<>> }                                   \* and nothing but a comment

Widths == { <<>>, <<" ">>, <<"\t">> }
Lines(contents, widths) ==
  {Line(w, c, IF c = <<>> THEN <<"#", "x">> ELSE <<>>) : c \in contents, w \in widths}

FirstLines == Lines({<<"x", "=", "1">>, <<"if", "x", ":">>, <<"f", "(", "x", "<=">>,
                     <<"print", "(", "'", "x", ")">>}, {<<>>, <<" ">>})
AnyLines   == Lines(Contents, Widths)
\* Four lines of block structure, for every way to leave blocks.
BlockLines == Lines({<<"x">>, <<"if", "x", ":">>}, Widths \cup {<<" ", " ">>})

MCTexts ==
  {[lines |-> t, pieces |-> <<>>] :
     t \in {<<a, b, c>> : a \in FirstLines, b \in AnyLines, c \in AnyLines}
            \cup [1 .. 4 -> BlockLines] \cup {<<>>}}
MCCallers == {"import"}
=================================================================================
