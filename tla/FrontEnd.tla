-------------------------------- MODULE FrontEnd --------------------------------
(****************************************************************************)
(* Lexer and parser one after the other, as main() and the IMPORT_NAME      *)
(* handler run them.  main() gives up on an error of either; an import asks *)
(* neither of them and goes on with the statements that could be parsed.    *)
(****************************************************************************)
EXTENDS Lexer, Parser, Layout

CONSTANTS
  Texts,    \* texts: their lines, and what they are made of (see Statement below)
  Callers   \* who reads a text: "main", "import"

VARIABLES
  text,     \* the text that is read
  caller,   \* who reads it
  verdict   \* "reading", "accepted" (the tree is compiled), "rejected"

frontVars == <<text, caller, verdict>>
vars == <<lexVars, parseVars, frontVars>>

\* The end of the last line is added where it is missing.
FileText(lines) ==
  LET chars == Characters(lines)
  IN  IF chars # <<>> /\ Last(chars) # "\n" THEN Append(chars, "\n") ELSE chars

\* The characters of a text are strings.
ASSUME TextsAssumption == \A t \in Texts : FileText(t.lines) \in Seq(STRING)

Tokenize == LexerStep /\ UNCHANGED <<parseVars, frontVars>>

\* Tokens for the parser, unless main() has errors to report.
StartParser ==
  /\ lexed /\ tokens = <<>> /\ verdict = "reading"
  /\ IF caller = "main" /\ lexErrors # <<>>
     THEN verdict' = "rejected" /\ UNCHANGED tokens
     ELSE tokens' = emitted /\ UNCHANGED verdict
  /\ UNCHANGED <<lexVars, cursor, program, parseErrors, parsed, text, caller>>

Parse == tokens # <<>> /\ ParserStep /\ UNCHANGED <<lexVars, frontVars>>

HandOver ==
  /\ parsed /\ verdict = "reading"
  /\ verdict' = IF caller = "main" /\ parseErrors # {} THEN "rejected" ELSE "accepted"
  /\ UNCHANGED <<lexVars, parseVars, text, caller>>

Done == verdict # "reading" /\ UNCHANGED vars

Init ==
  /\ text \in Texts
  /\ caller \in Callers
  /\ verdict = "reading"
  /\ LexerInit(FileText(text.lines))
  /\ ParserInit(<<>>)

Next == Tokenize \/ StartParser \/ Parse \/ HandOver \/ Done

\* Both loops run without waiting for anything.
Spec == Init /\ [][Next]_vars /\ WF_vars(Tokenize \/ StartParser \/ Parse \/ HandOver)
--------------------------------------------------------------------------------
(* Properties. *)

\* A piece of a text is a statement; or a line, or a line with a block under
\* it, that is not one.
Statement(tree) == [kind |-> "statement", tree |-> <<tree>>]
BrokenLine      == [kind |-> "line", tree |-> <<>>]
BrokenBlock     == [kind |-> "block", tree |-> <<>>]

\* The mark of a token in the sense of Layout.
MarkOf(tok) ==
  IF tok.type \in {"NEWLINE", "INDENT", "DEDENT", "ERROR", "ENDOFFILE"} THEN tok.type ELSE tok.value

\* Every variable has its type, and no parser runs before the lexer is done: the
\* one ENDOFFILE it relies on is the last token.
TypeOK ==
  /\ LexerTypeOK
  /\ \A k \in DOMAIN emitted : emitted[k].type \in TokenType
  /\ {k \in DOMAIN emitted : emitted[k].type = "ENDOFFILE"} = IF lexed THEN {Len(emitted)} ELSE {}
  /\ tokens # <<>> => lexed /\ tokens = emitted /\ cursor \in 1 .. Len(tokens)
  /\ parseErrors \subseteq DOMAIN tokens
  /\ verdict \in {"reading", "accepted", "rejected"}

\* A text that is a laid-out tree is read back as that tree, whatever its
\* indentation, blank lines, comments and line breaks in parentheses: the
\* precedences of parser.cpp and the layout rules of lexer.cpp together.
RoundTrip ==
  verdict # "reading" /\ (\A k \in DOMAIN text.pieces : text.pieces[k].kind = "statement")
    => /\ verdict = "accepted"
       /\ program = [k \in DOMAIN text.pieces |-> text.pieces[k].tree[1]]

\* What an import makes of a text with errors: a broken line costs no other
\* statement, a block with an error in it at most the one behind it (its DEDENT
\* is an error too, and the recovery from that takes the rest of a line).
Surviving(pieces) ==
  LET safe == {k \in DOMAIN pieces : k = 1 \/ pieces[k - 1].kind # "block"}
  IN  FlattenSeq([k \in DOMAIN pieces |-> IF k \in safe THEN pieces[k].tree ELSE <<>>])
\* wanted, in order, is among the statements.
IsAmong(wanted, statements) ==
  FoldLeft(LAMBDA rest, s : IF rest # <<>> /\ rest[1] = s THEN Tail(rest) ELSE rest,
           wanted, statements) = <<>>
ErrorsStayLocal == parsed => IsAmong(Surviving(text.pieces), program)

\* Tokens, and their INDENT, DEDENT and NEWLINE, are those the layout of the
\* lines calls for; a line that is indented to no open level is reported, and
\* no other is (the error of lexer.cpp:146).
LayoutAgrees ==
  lexed /\ tokens = <<>> =>
    /\ ("inconsistent indentation" \in Range(lexErrors)) = (Misindented(text.lines) # {})
    /\ Misindented(text.lines) = {} =>
         [k \in DOMAIN emitted |-> MarkOf(emitted[k])] = Marks(text.lines)

\* Every turn of parse() consumes a token, also one that only recovers: the
\* recovery may stop without consuming any (parser.cpp:70).
Progress == [][Parse /\ ~parsed' => cursor' > cursor]_vars

\* Reading ends: no text sends lexer or parser round in circles.
Terminates == <>(verdict # "reading")
=================================================================================
