--------------------------------- MODULE Layout ---------------------------------
(****************************************************************************)
(* How the lines of a text are written, with no regard to how they are      *)
(* read: their characters, and which blocks their indentation opens and     *)
(* closes.  The lexer is checked against it.                                *)
(*                                                                          *)
(* A line has its indentation (spaces and tabs), its words, and a tail: the *)
(* comment at its end or nothing.  A word is the value of a token, or \n    *)
(* where the line is broken inside parentheses.                             *)
(****************************************************************************)
EXTENDS Token, SequencesExt, FiniteSetsExt

Line(indent, words, tail) == [indent |-> indent, words |-> words, tail |-> tail]

--------------------------------------------------------------------------------
(* Lines to characters. *)

Spelling(word) ==
  IF word \in DOMAIN Double
  THEN CHOOSE cs \in {<<a, b>> : a, b \in DOMAIN Single \cup {"!"}} : cs[1] \o cs[2] = word
  ELSE <<word>>
LineChars(line) ==
  line.indent \o FlattenSeq([i \in DOMAIN line.words |-> Append(Spelling(line.words[i]), " ")])
              \o line.tail \o <<"\n">>
Characters(lines) == FlattenSeq([i \in DOMAIN lines |-> LineChars(lines[i])])

--------------------------------------------------------------------------------
(* What the indentation of lines means. *)

\* The words before a quote that is not closed, which takes the rest of the line.
Legible(words) == SubSeq(words, 1, Min({k \in DOMAIN words : words[k] = OpenQuote} \cup {Len(words) + 1}) - 1)
WordMark(w) == CASE w \in Strange \cup {"!"}     -> "ERROR"
                 [] w \in DOMAIN StringLexemes -> StringLexemes[w]
                 [] OTHER                      -> w
WordMarks(words) ==
  LET read == SelectSeq(Legible(words), LAMBDA w : w # "\n")
  IN  [k \in DOMAIN read |-> WordMark(read[k])]
        \o IF Len(Legible(words)) < Len(words) THEN <<"ERROR">> ELSE <<>>

\* The depth of parentheses before each line, and behind the last one.
Depths(lines) ==
  LET after(d, w) == IF w = "(" THEN d + 1 ELSE IF w = ")" /\ d > 0 THEN d - 1 ELSE d
  IN  FoldLeft(LAMBDA ds, l : Append(ds, FoldLeft(after, Last(ds), Legible(l.words))), <<0>>, lines)

Width(line) ==
  FoldLeft(LAMBDA n, c : IF c = " " THEN n + 1 ELSE IF c = "\t" THEN n + 4 ELSE n, 0, line.indent)

\* The lines whose indentation counts.
CodeLines(lines) == {i \in DOMAIN lines : lines[i].words # <<>> /\ Depths(lines)[i] = 0}
Previous(lines, i) == Max({j \in CodeLines(lines) : j < i} \cup {0})

\* The widths of the blocks that are open in line i: those of the lines before
\* it that no line in between has been left of.  Line 0 is before the first.
OpenWidths(lines, i) ==
  {0} \cup {Width(lines[j]) : j \in {j \in CodeLines(lines) : j <= i /\
              \A k \in CodeLines(lines) : j <= k /\ k <= i => Width(lines[k]) >= Width(lines[j])}}
Level(lines, i) == Cardinality(OpenWidths(lines, i)) - 1

\* A line that goes back to a width of no open block.
Misindented(lines) ==
  {i \in CodeLines(lines) :
     LET before == OpenWidths(lines, Previous(lines, i))
     IN  Width(lines[i]) < Max(before) /\ Width(lines[i]) \notin before}

Repeated(mark, n) == [k \in 1 .. n |-> mark]
\* The marks between a line of level m and the next one, of level n.
BlockMarks(m, n) == IF n > m THEN Repeated("INDENT", n - m) ELSE Repeated("DEDENT", m - n)

\* The marks of a text without misindented lines.
Marks(lines) ==
  LET mark(i) ==
        (IF i \in CodeLines(lines)
         THEN BlockMarks(Level(lines, Previous(lines, i)), Level(lines, i)) ELSE <<>>)
        \o WordMarks(lines[i].words)
        \o IF lines[i].words # <<>> /\ Depths(lines)[i + 1] = 0 THEN <<"NEWLINE">> ELSE <<>>
  IN  FlattenSeq([i \in DOMAIN lines |-> mark(i)])
        \o BlockMarks(Level(lines, Previous(lines, Len(lines) + 1)), 0) \o <<"ENDOFFILE">>
=================================================================================
