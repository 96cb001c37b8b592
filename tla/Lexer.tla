--------------------------------- MODULE Lexer ---------------------------------
(****************************************************************************)
(* The lexer (lexer.cpp): characters to tokens, with a stack of indentation *)
(* widths.  tokenize() is a loop; each action is one turn of it, or of the  *)
(* loop at the start of a line that passes over blank and comment lines.    *)
(****************************************************************************)
EXTENDS Token, SequencesExt, FiniteSetsExt

VARIABLES
  source,       \* source_: its characters
  pos,          \* pos_, from 1: the next character
  atLineStart,  \* at_line_start
  indents,      \* indent_stack_, the current width last
  parens,       \* paren_depth_
  emitted,      \* tokens
  lexErrors,    \* the messages of error_tokens_, in order
  lexed         \* tokenize() has returned

lexVars == <<source, pos, atLineStart, indents, parens, emitted, lexErrors, lexed>>

Inline == {" ", "\t", "\r"}

\* The first position from p on whose character is not in chars, or is.
SkipOver(chars, p)  == Min({q \in p .. Len(source) : source[q] \notin chars} \cup {Len(source) + 1})
SkipUntil(chars, p) == Min({q \in p .. Len(source) : source[q] \in chars} \cup {Len(source) + 1})

IsAtEnd(p) == p > Len(source)
CharIs(p, c) == ~IsAtEnd(p) /\ source[p] = c

--------------------------------------------------------------------------------
(* The start of a line. *)

AtLineStart == ~lexed /\ atLineStart /\ ~IsAtEnd(pos)

AfterIndent == SkipOver({" ", "\t"}, pos)
LineBody    == SkipOver({"\r"}, AfterIndent)
Counted(c)    == Cardinality({q \in pos .. AfterIndent - 1 : source[q] = c})
\* A space counts one, a tab four.
IndentWidth == Counted(" ") + 4 * Counted("\t")

SkipBlankLine ==
  /\ AtLineStart
  /\ CharIs(LineBody, "\n")
  /\ pos' = LineBody + 1
  /\ UNCHANGED <<source, atLineStart, indents, parens, emitted, lexErrors, lexed>>

SkipCommentLine ==
  /\ AtLineStart
  /\ CharIs(LineBody, "#")
  /\ LET newline == SkipUntil({"\n"}, LineBody)
     IN  pos' = IF IsAtEnd(newline) THEN newline ELSE newline + 1
  /\ UNCHANGED <<source, atLineStart, indents, parens, emitted, lexErrors, lexed>>

SkipLastSpaces ==
  /\ AtLineStart
  /\ IsAtEnd(LineBody)
  /\ pos' = LineBody
  /\ UNCHANGED <<source, atLineStart, indents, parens, emitted, lexErrors, lexed>>

\* A line of code that leaves the levels kept open: one INDENT for a greater
\* width, a DEDENT for each level that is closed.
EnterLine(kept) ==
  /\ AtLineStart
  /\ ~IsAtEnd(LineBody) /\ source[LineBody] \notin {"\n", "#"}
  /\ pos' = LineBody
  /\ atLineStart' = FALSE
  /\ IF IndentWidth > Last(indents)
     THEN /\ indents' = Append(indents, IndentWidth)
          /\ emitted' = Append(emitted, Mark("INDENT"))
          /\ UNCHANGED lexErrors
     ELSE /\ indents' = kept
          /\ emitted' = emitted \o [k \in 1 .. Len(indents) - Len(kept) |-> Mark("DEDENT")]
          /\ lexErrors' = IF Last(kept) = IndentWidth THEN lexErrors
                          ELSE Append(lexErrors, "inconsistent indentation")
  /\ UNCHANGED <<source, parens, lexed>>

\* Mutant of IndentLine: a line closes one level at most.
IndentLineClosingOne ==
  EnterLine(IF IndentWidth < Last(indents) THEN Front(indents) ELSE indents)

\* Levels are closed down to one that is not wider than the line.  A width
\* between two levels is an error and no level: the tokens of the line go on at
\* the level below it.
IndentLine ==
  EnterLine(SubSeq(indents, 1, Max({k \in DOMAIN indents : indents[k] <= IndentWidth})))

--------------------------------------------------------------------------------
(* Inside a line: here is the next character that is no space. *)

Here == SkipOver(Inline, pos)
InLine(chars) == ~lexed /\ ~atLineStart /\ ~IsAtEnd(pos) /\ ~IsAtEnd(Here) /\ source[Here] \in chars

\* The token tok, and the text from next on is left to read.
Emit(tok, next) ==
  /\ emitted' = Append(emitted, tok)
  /\ pos' = next
  /\ UNCHANGED <<source, atLineStart, indents, lexed>>

EmitError(message, next) ==
  /\ Emit(Mark("ERROR"), next)
  /\ lexErrors' = Append(lexErrors, message)
  /\ UNCHANGED parens

SkipTrailingSpaces ==
  /\ ~lexed /\ ~atLineStart /\ ~IsAtEnd(pos) /\ IsAtEnd(Here)
  /\ pos' = Here
  /\ UNCHANGED <<source, atLineStart, indents, parens, emitted, lexErrors, lexed>>

\* A line ends at a newline outside of parentheses only.
NewLine ==
  /\ InLine({"\n"})
  /\ pos' = Here + 1
  /\ IF parens = 0
     THEN emitted' = Append(emitted, Mark("NEWLINE")) /\ atLineStart' = TRUE
     ELSE UNCHANGED <<emitted, atLineStart>>
  /\ UNCHANGED <<source, indents, parens, lexErrors, lexed>>

SkipComment ==
  /\ InLine({"#"})
  /\ pos' = SkipUntil({"\n"}, Here)
  /\ UNCHANGED <<source, atLineStart, indents, parens, emitted, lexErrors, lexed>>

\* Numbers, strings, and words, which are keywords or names.
TokenOf(lexeme) ==
  CASE lexeme \in IntegerLexemes       -> Tok("INTEGER", lexeme)
    [] lexeme \in FloatLexemes         -> Tok("FLOAT", lexeme)
    [] lexeme \in DOMAIN StringLexemes -> Tok("STRING", StringLexemes[lexeme])
    [] lexeme \in DOMAIN Keywords      -> Tok(Keywords[lexeme], lexeme)
    [] OTHER                           -> Tok("IDENTIFIER", lexeme)

Lexeme ==
  /\ ~lexed /\ ~atLineStart /\ ~IsAtEnd(pos) /\ ~IsAtEnd(Here)
  /\ source[Here] \notin {"\n", "#", "(", ")", "!", OpenQuote} \cup DOMAIN Single \cup Strange
  /\ Emit(TokenOf(source[Here]), Here + 1)
  /\ UNCHANGED <<parens, lexErrors>>

\* Mutant of ReadOpenString: the rest of the line is not passed over.
OpenStringUnread ==
  /\ InLine({OpenQuote})
  /\ EmitError("unterminated string literal", Here)

ReadOpenString ==
  /\ InLine({OpenQuote})
  /\ EmitError("unterminated string literal", SkipUntil({"\n"}, Here))

OpenParen ==
  /\ InLine({"("})
  /\ Emit(Tok("LPAREN", "("), Here + 1)
  /\ parens' = parens + 1
  /\ UNCHANGED lexErrors

\* Mutant of CloseParen: a parenthesis too many is counted.
CloseParenUnguarded ==
  /\ InLine({")"})
  /\ Emit(Tok("RPAREN", ")"), Here + 1)
  /\ parens' = parens - 1
  /\ UNCHANGED lexErrors

CloseParen ==
  /\ InLine({")"})
  /\ Emit(Tok("RPAREN", ")"), Here + 1)
  /\ parens' = IF parens > 0 THEN parens - 1 ELSE 0
  /\ UNCHANGED lexErrors

\* match(): / takes a second /, and = ! < > take a = after them.
Pairs == /\ ~IsAtEnd(Here + 1)
         /\ source[Here] \o source[Here + 1] \in DOMAIN Double

Operator ==
  /\ InLine(DOMAIN Single \cup {"!"})
  /\ Pairs \/ source[Here] # "!"
  /\ IF Pairs
     THEN LET op == source[Here] \o source[Here + 1] IN Emit(Tok(Double[op], op), Here + 2)
     ELSE Emit(Tok(Single[source[Here]], source[Here]), Here + 1)
  /\ UNCHANGED <<parens, lexErrors>>

UnexpectedCharacter ==
  /\ InLine(Strange \cup {"!"})
  /\ source[Here] = "!" => ~Pairs
  /\ EmitError("unexpected character", Here + 1)

--------------------------------------------------------------------------------

\* Mutant of EndOfFile: the levels are forgotten, not closed.
EndOfFileForgetting ==
  /\ ~lexed /\ IsAtEnd(pos)
  /\ emitted' = Append(emitted, Mark("ENDOFFILE"))
  /\ indents' = <<0>>
  /\ lexed' = TRUE
  /\ UNCHANGED <<source, pos, atLineStart, parens, lexErrors>>

\* The levels still open are closed.
EndOfFile ==
  /\ ~lexed /\ IsAtEnd(pos)
  /\ emitted' = emitted \o [k \in 1 .. Len(indents) - 1 |-> Mark("DEDENT")]
                        \o <<Mark("ENDOFFILE")>>
  /\ indents' = <<0>>
  /\ lexed' = TRUE
  /\ UNCHANGED <<source, pos, atLineStart, parens, lexErrors>>

\* A lexer for the text s.
LexerInit(s) ==
  /\ source = s
  /\ pos = 1
  /\ atLineStart = TRUE
  /\ indents = <<0>>
  /\ parens = 0
  /\ emitted = <<>>
  /\ lexErrors = <<>>
  /\ lexed = FALSE

LexerStep ==
  \/ SkipBlankLine \/ SkipCommentLine \/ SkipLastSpaces \/ IndentLine
  \/ SkipTrailingSpaces \/ NewLine \/ SkipComment
  \/ Lexeme \/ ReadOpenString \/ OpenParen \/ CloseParen \/ Operator \/ UnexpectedCharacter
  \/ EndOfFile

\* The lexer on its own, for a text of any length.
LexerSpec == (\E s \in Seq(STRING) : LexerInit(s)) /\ [][LexerStep]_lexVars

--------------------------------------------------------------------------------
(* Properties. *)

\* Positions lie in the text, and the stack of widths starts with 0 and grows.
LexerTypeOK ==
  /\ pos \in 1 .. Len(source) + 1
  /\ indents \in Seq(Nat) /\ indents # <<>>
  /\ indents[1] = 0 /\ \A k \in 2 .. Len(indents) : indents[k] > indents[k - 1]
  /\ parens \in Nat
  /\ atLineStart \in BOOLEAN /\ lexed \in BOOLEAN

\* How many tokens of a type there are.
Count(type) == Cardinality({k \in DOMAIN emitted : emitted[k].type = type})

\* At every moment the blocks opened and not yet closed are the levels of the
\* stack, with and without errors; at the end there is none.
BlocksBalance ==
  /\ Count("INDENT") - Count("DEDENT") = Len(indents) - 1
  /\ lexed => Len(indents) = 1

\* Every turn of the two loops of tokenize() reads on, begins the line it is at,
\* or is the last one: 2 * (Len(source) - pos) + (1 if atLineStart) bounds the
\* turns that are left, whatever the text.
Advances ==
  [][\/ pos' > pos
     \/ pos' = pos /\ atLineStart /\ ~atLineStart'
     \/ ~lexed /\ lexed']_lexVars
================================================================================
