------------------------------ MODULE Lexer_proofs ------------------------------
(****************************************************************************)
(* The lexer opens and closes blocks in balance and reads every text to its *)
(* end, for texts of any length.                                            *)
(****************************************************************************)
EXTENDS Lexer, TLAPS, FiniteSetTheorems, SequenceTheorems, WellFoundedInduction

(* The tokens inside a line open and close no block. *)

Blocks == {"INDENT", "DEDENT"}

\* No keyword opens or closes a block.
LEMMA KeywordTypes == \A w \in DOMAIN Keywords : Keywords[w] \notin Blocks
<1>1. DOMAIN Keywords = {"def", "return", "if", "elif", "else", "while", "for", "in", "and",
        "or", "not", "print", "range", "True", "False", "None", "break", "continue", "pass",
        "import", "from", "as"}
  BY SMT DEF Keywords
<1>2. /\ Keywords["def"] = "DEF" /\ Keywords["return"] = "RETURN"
      /\ Keywords["if"] = "IF" /\ Keywords["elif"] = "ELIF" /\ Keywords["else"] = "ELSE"
      /\ Keywords["while"] = "WHILE" /\ Keywords["for"] = "FOR" /\ Keywords["in"] = "IN"
      /\ Keywords["and"] = "AND" /\ Keywords["or"] = "OR" /\ Keywords["not"] = "NOT"
  BY Zenon DEF Keywords
<1>3. /\ Keywords["print"] = "PRINT" /\ Keywords["range"] = "RANGE" /\ Keywords["True"] = "TRUE"
      /\ Keywords["False"] = "FALSE" /\ Keywords["None"] = "NONE"
      /\ Keywords["break"] = "BREAK" /\ Keywords["continue"] = "CONTINUE"
      /\ Keywords["pass"] = "PASS" /\ Keywords["import"] = "IMPORT"
      /\ Keywords["from"] = "FROM" /\ Keywords["as"] = "AS"
  BY Zenon DEF Keywords
<1> QED
  BY <1>1, <1>2, <1>3, SMT DEF Blocks

\* No operator opens or closes a block.
LEMMA OperatorTypes ==
  /\ \A c \in DOMAIN Single : Single[c] \notin Blocks
  /\ \A c \in DOMAIN Double : Double[c] \notin Blocks
<1>1. \A c \in DOMAIN Single : Single[c] \notin Blocks
  <2> SUFFICES ASSUME NEW c \in DOMAIN Single PROVE Single[c] \notin Blocks
    OBVIOUS
  <2>1. c \in {"+", "-", "*", "%", ",", ":", "/", "=", "<", ">"}
    BY Zenon DEF Single
  <2>2. /\ Single["+"] = "PLUS" /\ Single["-"] = "MINUS" /\ Single["*"] = "STAR"
        /\ Single["%"] = "PERCENT" /\ Single[","] = "COMMA" /\ Single[":"] = "COLON"
        /\ Single["/"] = "SLASH" /\ Single["="] = "ASSIGN" /\ Single["<"] = "LT"
        /\ Single[">"] = "GT"
    BY ZenonT(30) DEF Single
  <2> QED
    BY <2>1, <2>2, ZenonT(30) DEF Blocks
<1>2. \A c \in DOMAIN Double : Double[c] \notin Blocks
  BY SMT DEF Double, Blocks
<1> QED
  BY <1>1, <1>2

\* A number, string or word opens and closes no block, whatever it is.
LEMMA LexemeTypes == \A w : TokenOf(w).type \notin Blocks
BY KeywordTypes, SMT DEF TokenOf, Tok, Blocks

--------------------------------------------------------------------------------
(* Sets of numbers have a least, and bounded ones a greatest element. *)

\* Min of SkipOver and SkipUntil: a nonempty set of positions in the text has a least one.
LEMMA LeastElement ==
  ASSUME NEW S, S \subseteq Nat, S # {}
  PROVE  Min(S) \in S /\ \A y \in S : Min(S) <= y
<1>1. PICK m \in S : \A y \in S : ~ (<<y, m>> \in OpToRel(<, Nat))
  BY WFMin, NatLessThanWellFounded, Zenon
<1>2. \A y \in S : m <= y
  <2> SUFFICES ASSUME NEW y \in S PROVE m <= y
    OBVIOUS
  <2>1. <<y, m>> \in Nat \X Nat /\ <<y, m>>[1] = y /\ <<y, m>>[2] = m
    OBVIOUS
  <2>2. ~ (y < m)
    BY <1>1, <2>1, Zenon DEF OpToRel
  <2> QED
    BY <2>2
<1> QED
  BY <1>2 DEF Min

\* Max of IndentLine: a nonempty set of levels has a greatest one.
LEMMA GreatestElement ==
  ASSUME NEW n \in Nat, NEW S, S \subseteq 1 .. n, S # {}
  PROVE  Max(S) \in S /\ \A y \in S : Max(S) >= y
<1> DEFINE T == {n - k : k \in S}
<1>1. T \subseteq Nat /\ T # {}
  <2>1. \A k \in S : n - k \in Nat
    OBVIOUS
  <2>2. PICK k \in S : TRUE
    OBVIOUS
  <2>3. n - k \in T
    OBVIOUS
  <2> QED
    BY <2>1, <2>3
<1>2. Min(T) \in T /\ \A y \in T : Min(T) <= y
  <2> HIDE DEF T
  <2> QED
    BY <1>1, LeastElement
<1>3. PICK m \in S : Min(T) = n - m
  BY <1>2
<1>4. \A y \in S : m >= y
  <2> SUFFICES ASSUME NEW y \in S PROVE m >= y
    OBVIOUS
  <2>1. n - m <= n - y
    BY <1>2, <1>3
  <2> QED
    BY <2>1
<1> QED
  BY <1>4 DEF Max

--------------------------------------------------------------------------------
(* Counting the tokens of a type in a sequence that grows. *)

IsSeq(s)        == \E S : s \in Seq(S)
CountIn(s, ty)  == Cardinality({k \in DOMAIN s : s[k].type = ty})

\* What Append does to a sequence of anything.
LEMMA AppendIsSeq ==
  ASSUME NEW s, IsSeq(s), NEW e
  PROVE  /\ Len(s) \in Nat /\ DOMAIN s = 1 .. Len(s)
         /\ IsSeq(Append(s, e))
         /\ DOMAIN Append(s, e) = 1 .. Len(s) + 1
         /\ \A k \in 1 .. Len(s) : Append(s, e)[k] = s[k]
         /\ Append(s, e)[Len(s) + 1] = e
<1>1. PICK S : s \in Seq(S)
  BY DEF IsSeq
<1>2. s \in Seq(S \cup {e})
  BY <1>1, SeqMonotonic
<1>3. Append(s, e) \in Seq(S \cup {e})
  BY <1>2, AppendProperties
<1> QED
  BY <1>2, <1>3, AppendProperties, LenProperties DEF IsSeq

\* A count of tokens is a number.
LEMMA CountType ==
  ASSUME NEW s, IsSeq(s), NEW ty
  PROVE  IsFiniteSet({k \in DOMAIN s : s[k].type = ty}) /\ CountIn(s, ty) \in Nat
<1>1. DOMAIN s = 1 .. Len(s) /\ Len(s) \in Nat
  BY AppendIsSeq
<1> DEFINE C == {k \in DOMAIN s : s[k].type = ty}
<1>2. C \in SUBSET (1 .. Len(s)) /\ IsFiniteSet(1 .. Len(s))
  BY <1>1, FS_Interval
<1>3. IsFiniteSet(C) /\ Cardinality(C) \in Nat
  <2> HIDE DEF C
  <2> QED
    BY <1>2, FS_Subset, FS_CardinalityType
<1> QED
  BY <1>3 DEF CountIn

\* One more token counts once, for its own type only.
LEMMA CountAppend ==
  ASSUME NEW s, IsSeq(s), NEW e, NEW ty
  PROVE  CountIn(Append(s, e), ty) = CountIn(s, ty) + IF e.type = ty THEN 1 ELSE 0
<1> DEFINE C == {k \in DOMAIN s : s[k].type = ty}
           D == {k \in DOMAIN Append(s, e) : Append(s, e)[k].type = ty}
<1>1. D = IF e.type = ty THEN C \cup {Len(s) + 1} ELSE C
  BY AppendIsSeq
<1>2. Len(s) + 1 \notin C
  BY AppendIsSeq
<1>3. IsFiniteSet(C) /\ Cardinality(C) \in Nat
  BY CountType DEF CountIn
<1>4. Cardinality(C \cup {Len(s) + 1}) = Cardinality(C) + 1
  <2> HIDE DEF C
  <2> QED
    BY <1>2, <1>3, FS_AddElement
<1>5. Cardinality(D) = Cardinality(C) + IF e.type = ty THEN 1 ELSE 0
  <2> HIDE DEF C, D
  <2> QED
    BY <1>1, <1>3, <1>4
<1> QED
  BY <1>5 DEF CountIn

\* A token that opens and closes no block.
LEMMA CountOrdinary ==
  ASSUME NEW s, IsSeq(s), NEW e, e.type \notin Blocks
  PROVE  /\ IsSeq(Append(s, e))
         /\ \A ty \in Blocks : CountIn(Append(s, e), ty) = CountIn(s, ty) /\ CountIn(s, ty) \in Nat
<1>1. IsSeq(Append(s, e))
  BY AppendIsSeq
<1>2. ASSUME NEW ty \in Blocks
      PROVE  CountIn(Append(s, e), ty) = CountIn(s, ty) /\ CountIn(s, ty) \in Nat
  <2>1. e.type # ty
    OBVIOUS
  <2>2. CountIn(Append(s, e), ty) = CountIn(s, ty) + IF e.type = ty THEN 1 ELSE 0
    BY CountAppend
  <2>3. CountIn(s, ty) \in Nat
    BY CountType
  <2> QED
    BY <2>1, <2>2, <2>3
<1> QED
  BY <1>1, <1>2

\* A run of n DEDENTs behind a sequence of anything.
LEMMA DedentsBehind ==
  ASSUME NEW s, IsSeq(s), NEW n \in Nat
  PROVE  LET t == s \o [k \in 1 .. n |-> Mark("DEDENT")]
         IN  /\ IsSeq(t)
             /\ Len(s) \in Nat /\ DOMAIN s = 1 .. Len(s)
             /\ DOMAIN t = 1 .. Len(s) + n
             /\ \A k \in 1 .. Len(s) : t[k] = s[k]
             /\ \A k \in Len(s) + 1 .. Len(s) + n : t[k] = Mark("DEDENT")
<1> DEFINE d == [k \in 1 .. n |-> Mark("DEDENT")]
           t == s \o d
<1>1. PICK S : s \in Seq(S)
  BY DEF IsSeq
<1>2. s \in Seq(S \cup {Mark("DEDENT")})
  BY <1>1, SeqMonotonic
<1>3. d \in Seq(S \cup {Mark("DEDENT")}) /\ Len(d) = n
  OBVIOUS
<1>4. Len(s) \in Nat /\ DOMAIN s = 1 .. Len(s)
  BY <1>2, LenProperties
<1>5. /\ t \in Seq(S \cup {Mark("DEDENT")}) /\ Len(t) = Len(s) + n
      /\ \A k \in 1 .. Len(s) + n : t[k] = IF k <= Len(s) THEN s[k] ELSE d[k - Len(s)]
  <2> HIDE DEF d
  <2> QED
    BY <1>2, <1>3, ConcatProperties
<1>6. DOMAIN t = 1 .. Len(t) /\ IsSeq(t)
  <2> HIDE DEF t
  <2> QED
    BY <1>5, LenProperties DEF IsSeq
<1> QED
  BY <1>4, <1>5, <1>6

\* A run of DEDENTs counts as often as it is long, for DEDENT only.
LEMMA CountDedents ==
  ASSUME NEW s, IsSeq(s), NEW n \in Nat
  PROVE  LET t == s \o [k \in 1 .. n |-> Mark("DEDENT")]
         IN  /\ IsSeq(t)
             /\ CountIn(t, "INDENT") = CountIn(s, "INDENT")
             /\ CountIn(t, "DEDENT") = CountIn(s, "DEDENT") + n
<1> DEFINE t == s \o [k \in 1 .. n |-> Mark("DEDENT")]
           C == {k \in DOMAIN s : s[k].type = "DEDENT"}
           E == Len(s) + 1 .. Len(s) + n
<1>1. /\ IsSeq(t)
      /\ Len(s) \in Nat /\ DOMAIN s = 1 .. Len(s)
      /\ DOMAIN t = 1 .. Len(s) + n
      /\ \A k \in 1 .. Len(s) : t[k] = s[k]
      /\ \A k \in E : t[k] = Mark("DEDENT")
  BY DedentsBehind
<1>2. Mark("DEDENT").type = "DEDENT" /\ Mark("DEDENT").type # "INDENT"
  BY DEF Mark, Tok
<1> HIDE DEF t
<1>3. {k \in DOMAIN t : t[k].type = "INDENT"} = {k \in DOMAIN s : s[k].type = "INDENT"}
  BY <1>1, <1>2
<1>4. {k \in DOMAIN t : t[k].type = "DEDENT"} = C \cup E
  BY <1>1, <1>2
<1>5. IsFiniteSet(C) /\ Cardinality(C) \in Nat
  BY CountType DEF CountIn
<1>6. IsFiniteSet(E) /\ Cardinality(E) = n
  BY <1>1, FS_Interval
<1>7. C \cap E = {} /\ Cardinality({}) = 0
  BY <1>1, FS_EmptySet
<1>8. Cardinality(C \cup E) = Cardinality(C) + n
  <2> HIDE DEF C, E
  <2> QED
    BY <1>5, <1>6, <1>7, FS_Union
<1> QED
  BY <1>1, <1>3, <1>4, <1>8 DEF CountIn, t

--------------------------------------------------------------------------------
(* Reading on. *)

\* Skipping goes forward and at most one position past the text.
LEMMA SkipOverFacts ==
  ASSUME source \in Seq(STRING), NEW chars, NEW p \in 1 .. Len(source) + 1
  PROVE  SkipOver(chars, p) \in p .. Len(source) + 1
<1> DEFINE S == {q \in p .. Len(source) : source[q] \notin chars} \cup {Len(source) + 1}
<1>1. Len(source) \in Nat
  BY LenProperties
<1>2. S \subseteq p .. Len(source) + 1 /\ S \subseteq Nat /\ S # {}
  BY <1>1
<1>3. Min(S) \in S
  <2> HIDE DEF S
  <2> QED
    BY <1>2, LeastElement
<1> QED
  BY <1>2, <1>3 DEF SkipOver

\* Looking for a character goes forward and at most one position past the text.
LEMMA SkipUntilFacts ==
  ASSUME source \in Seq(STRING), NEW chars, NEW p \in 1 .. Len(source) + 1
  PROVE  /\ SkipUntil(chars, p) \in p .. Len(source) + 1
         /\ p <= Len(source) /\ source[p] \notin chars => SkipUntil(chars, p) > p
<1> DEFINE S == {q \in p .. Len(source) : source[q] \in chars} \cup {Len(source) + 1}
<1>1. Len(source) \in Nat
  BY LenProperties
<1>2. S \subseteq p .. Len(source) + 1 /\ S \subseteq Nat /\ S # {}
  BY <1>1
<1>3. Min(S) \in S
  <2> HIDE DEF S
  <2> QED
    BY <1>2, LeastElement
<1>4. p <= Len(source) /\ source[p] \notin chars => p \notin S
  BY <1>1
<1> QED
  BY <1>1, <1>2, <1>3, <1>4 DEF SkipUntil

(* The inductive invariant. *)
LexerInv ==
  /\ source \in Seq(STRING)
  /\ IsSeq(emitted)
  /\ LexerTypeOK
  /\ BlocksBalance

\* A turn of one of the loops: see Advances.
Turn ==
  \/ pos' > pos
  \/ pos' = pos /\ atLineStart /\ ~atLineStart'
  \/ ~lexed /\ lexed'

\* Where the next line or the next token starts.
LEMMA Positions ==
  ASSUME LexerInv
  PROVE  /\ Len(source) \in Nat
         /\ AfterIndent \in pos .. Len(source) + 1
         /\ LineBody \in pos .. Len(source) + 1
         /\ Here \in pos .. Len(source) + 1
<1>1. source \in Seq(STRING) /\ Len(source) \in Nat /\ pos \in 1 .. Len(source) + 1
  BY LenProperties DEF LexerInv, LexerTypeOK
<1>2. AfterIndent \in pos .. Len(source) + 1 /\ Here \in pos .. Len(source) + 1
  BY <1>1, SkipOverFacts DEF AfterIndent, Here
<1>3. LineBody \in AfterIndent .. Len(source) + 1
  BY <1>1, <1>2, SkipOverFacts DEF LineBody
<1> QED
  BY <1>1, <1>2, <1>3

\* The width of an indentation is a number.
LEMMA WidthIsNat ==
  ASSUME LexerInv
  PROVE  IndentWidth \in Nat
<1>1. ASSUME NEW c PROVE Counted(c) \in Nat
  <2> DEFINE S == {q \in pos .. AfterIndent - 1 : source[q] = c}
  <2>1. pos \in Int /\ AfterIndent - 1 \in Int
    BY Positions DEF LexerInv, LexerTypeOK
  <2>2. S \in SUBSET (pos .. AfterIndent - 1) /\ IsFiniteSet(pos .. AfterIndent - 1)
    BY <2>1, FS_Interval
  <2>3. Cardinality(S) \in Nat
    <3> HIDE DEF S
    <3> QED
      BY <2>2, FS_Subset, FS_CardinalityType
  <2> QED
    BY <2>3 DEF Counted
<1>2. \A m, n \in Nat : m + 4 * n \in Nat
  OBVIOUS
<1> QED
  BY <1>1, <1>2, Zenon DEF IndentWidth

\* A turn that emits nothing and moves on inside the text.
LEMMA SilentTurn ==
  ASSUME LexerInv, pos' \in 1 .. Len(source) + 1, parens' \in Nat, atLineStart' \in BOOLEAN,
         UNCHANGED <<source, indents, emitted, lexed>>
  PROVE  LexerInv'
<1>1. LexerTypeOK'
  BY DEF LexerInv, LexerTypeOK
<1>2. BlocksBalance'
  BY DEF LexerInv, BlocksBalance, Count
<1> QED
  BY <1>1, <1>2 DEF LexerInv

\* A turn that emits a token that opens and closes no block.
LEMMA OrdinaryTurn ==
  ASSUME LexerInv, NEW tok, tok.type \notin Blocks, emitted' = Append(emitted, tok),
         pos' \in 1 .. Len(source) + 1, parens' \in Nat, atLineStart' \in BOOLEAN,
         UNCHANGED <<source, indents, lexed>>
  PROVE  LexerInv'
<1>1. LexerTypeOK'
  BY DEF LexerInv, LexerTypeOK
<1>2. IsSeq(emitted')
  BY CountOrdinary DEF LexerInv
<1>3. /\ CountIn(emitted', "INDENT") = CountIn(emitted, "INDENT")
      /\ CountIn(emitted', "DEDENT") = CountIn(emitted, "DEDENT")
  BY CountOrdinary DEF LexerInv, Blocks
<1>4. BlocksBalance'
  BY <1>3 DEF LexerInv, BlocksBalance, Count, CountIn
<1> QED
  BY <1>1, <1>2, <1>4 DEF LexerInv

\* The levels the line keeps open: the first ones, and at least one.
LEMMA KeptLevels ==
  ASSUME LexerInv,
         NEW k, k = Max({j \in DOMAIN indents : indents[j] <= IndentWidth})
  PROVE  /\ Len(indents) \in Nat /\ k \in 1 .. Len(indents)
         /\ SubSeq(indents, 1, k) \in Seq(Nat) /\ Len(SubSeq(indents, 1, k)) = k
         /\ \A j \in 1 .. k : SubSeq(indents, 1, k)[j] = indents[j]
<1> DEFINE S == {j \in DOMAIN indents : indents[j] <= IndentWidth}
<1>1. indents \in Seq(Nat) /\ indents # <<>> /\ indents[1] = 0
  BY DEF LexerInv, LexerTypeOK
<1>2. /\ Len(indents) \in Nat /\ DOMAIN indents = 1 .. Len(indents) /\ 1 \in 1 .. Len(indents)
      /\ \A j \in 1 .. Len(indents) : indents[j] \in Nat
  BY <1>1, LenProperties, EmptySeq, ElementOfSeq
<1>3. S \subseteq 1 .. Len(indents) /\ 1 \in S
  BY <1>1, <1>2, WidthIsNat
<1>4. k \in S
  <2> HIDE DEF S
  <2>1. Max(S) \in S
    BY <1>2, <1>3, GreatestElement
  <2> QED
    BY <2>1 DEF S
<1>5. k \in 1 .. Len(indents)
  BY <1>3, <1>4
<1>6. \A j \in 1 .. k : indents[j] \in Nat
  BY <1>2, <1>5
<1>7. /\ SubSeq(indents, 1, k) \in Seq(Nat)
      /\ Len(SubSeq(indents, 1, k)) = IF 1 <= k THEN k - 1 + 1 ELSE 0
      /\ \A j \in 1 .. k - 1 + 1 : SubSeq(indents, 1, k)[j] = indents[1 + j - 1]
  <2>1. 1 \in Int /\ k \in Int
    BY <1>2, <1>5
  <2> QED
    BY <1>6, <2>1, SubSeqProperties
<1>8. k \in Nat /\ 1 <= k /\ k - 1 + 1 = k /\ \A j \in 1 .. k : 1 + j - 1 = j
  BY <1>2, <1>5
<1>9. \A j \in 1 .. k : SubSeq(indents, 1, k)[j] = indents[j]
  <2> SUFFICES ASSUME NEW j \in 1 .. k PROVE SubSeq(indents, 1, k)[j] = indents[j]
    OBVIOUS
  <2> QED
    BY <1>7, <1>8
<1> QED
  BY <1>2, <1>5, <1>7, <1>8, <1>9

\* The start of a line of code: levels and tokens change together.
LEMMA IndentTurn ==
  ASSUME LexerInv, IndentLine
  PROVE  LexerInv'
<1> DEFINE k    == Max({j \in DOMAIN indents : indents[j] <= IndentWidth})
           kept == SubSeq(indents, 1, k)
<1>1. /\ indents \in Seq(Nat) /\ indents # <<>> /\ indents[1] = 0 /\ Len(indents) \in Nat
      /\ \A j \in 2 .. Len(indents) : indents[j] > indents[j - 1]
      /\ \A j \in 1 .. Len(indents) : indents[j] \in Nat
      /\ Len(indents) > 0
  BY LenProperties, EmptySeq, ElementOfSeq DEF LexerInv, LexerTypeOK
<1>2. /\ k \in 1 .. Len(indents)
      /\ kept \in Seq(Nat) /\ Len(kept) = k
      /\ \A j \in 1 .. k : kept[j] = indents[j]
  BY KeptLevels
<1>3. /\ AtLineStart
      /\ pos' = LineBody
      /\ atLineStart' = FALSE
      /\ UNCHANGED <<source, parens, lexed>>
      /\ \/ /\ IndentWidth > Last(indents)
            /\ indents' = Append(indents, IndentWidth)
            /\ emitted' = Append(emitted, Mark("INDENT"))
         \/ /\ indents' = kept
            /\ emitted' = emitted \o [j \in 1 .. Len(indents) - k |-> Mark("DEDENT")]
  <2> HIDE DEF k
  <2> QED
    BY <1>2, Zenon DEF IndentLine, EnterLine, k
<1>4. pos' \in 1 .. Len(source) + 1
  BY <1>3, Positions DEF LexerInv, LexerTypeOK
<1>5. IsSeq(emitted) /\ CountIn(emitted, "INDENT") \in Nat /\ CountIn(emitted, "DEDENT") \in Nat
  BY CountType DEF LexerInv
<1>6. CountIn(emitted, "INDENT") - CountIn(emitted, "DEDENT") = Len(indents) - 1
  BY DEF LexerInv, BlocksBalance, Count, CountIn
<1>7. ~lexed'
  BY <1>3 DEF AtLineStart
<1> HIDE DEF k, kept
<1>8. CASE /\ IndentWidth > Last(indents)
           /\ indents' = Append(indents, IndentWidth)
           /\ emitted' = Append(emitted, Mark("INDENT"))
  <2>1. /\ indents' \in Seq(Nat) /\ Len(indents') = Len(indents) + 1
        /\ \A j \in 1 .. Len(indents) : indents'[j] = indents[j]
        /\ indents'[Len(indents) + 1] = IndentWidth
    BY <1>1, <1>8, WidthIsNat, AppendProperties
  <2>2. indents' # <<>> /\ indents'[1] = 0
    BY <1>1, <2>1
  <2>3. \A j \in 2 .. Len(indents') : indents'[j] > indents'[j - 1]
    BY <1>1, <1>8, <2>1 DEF Last
  <2>4. LexerTypeOK'
    BY <1>3, <1>4, <2>1, <2>2, <2>3 DEF LexerInv, LexerTypeOK
  <2>5. Mark("INDENT").type = "INDENT"
    BY DEF Mark, Tok
  <2>6. CountIn(emitted', "INDENT") = CountIn(emitted, "INDENT") + 1
    BY <1>5, <1>8, <2>5, CountAppend
  <2>7. CountIn(emitted', "DEDENT") = CountIn(emitted, "DEDENT")
    BY <1>5, <1>8, <2>5, CountAppend
  <2>8. BlocksBalance'
    <3>1. CountIn(emitted', "INDENT") - CountIn(emitted', "DEDENT") = Len(indents') - 1
      BY <1>1, <1>5, <1>6, <2>1, <2>6, <2>7
    <3> QED
      BY <1>7, <3>1 DEF BlocksBalance, Count, CountIn
  <2>9. IsSeq(emitted')
    BY <1>5, <1>8, AppendIsSeq
  <2> QED
    BY <1>3, <2>4, <2>8, <2>9 DEF LexerInv
<1>9. CASE /\ indents' = kept
           /\ emitted' = emitted \o [j \in 1 .. Len(indents) - k |-> Mark("DEDENT")]
  <2>1. Len(indents') = k /\ indents' \in Seq(Nat) /\ indents' # <<>> /\ indents'[1] = 0
    BY <1>1, <1>2, <1>9, EmptySeq
  <2>2. \A j \in 2 .. Len(indents') : indents'[j] > indents'[j - 1]
    <3> SUFFICES ASSUME NEW j \in 2 .. k PROVE kept[j] > kept[j - 1]
      BY <1>2, <1>9, <2>1
    <3>1. j \in 1 .. k /\ j - 1 \in 1 .. k /\ j \in 2 .. Len(indents)
      BY <1>1, <1>2
    <3> QED
      BY <1>1, <1>2, <3>1
  <2>3. LexerTypeOK'
    BY <1>3, <1>4, <2>1, <2>2 DEF LexerInv, LexerTypeOK
  <2>4. Len(indents) - k \in Nat
    BY <1>1, <1>2
  <2>5. /\ IsSeq(emitted')
        /\ CountIn(emitted', "INDENT") = CountIn(emitted, "INDENT")
        /\ CountIn(emitted', "DEDENT") = CountIn(emitted, "DEDENT") + (Len(indents) - k)
    BY <1>5, <1>9, <2>4, CountDedents
  <2>6. CountIn(emitted', "INDENT") - CountIn(emitted', "DEDENT") = Len(indents') - 1
    BY <1>1, <1>2, <1>5, <1>6, <2>1, <2>5
  <2>7. BlocksBalance'
    BY <1>7, <2>6 DEF BlocksBalance, Count, CountIn
  <2> QED
    BY <1>3, <2>3, <2>5, <2>7 DEF LexerInv
<1> QED
  BY <1>3, <1>8, <1>9

\* The end of the text closes every level.
LEMMA LastTurn ==
  ASSUME LexerInv, EndOfFile
  PROVE  LexerInv'
<1> DEFINE closed == emitted \o [k \in 1 .. Len(indents) - 1 |-> Mark("DEDENT")]
<1>1. indents \in Seq(Nat) /\ indents # <<>> /\ Len(indents) - 1 \in Nat
  BY LenProperties, EmptySeq DEF LexerInv, LexerTypeOK
<1>2. IsSeq(emitted) /\ CountIn(emitted, "INDENT") \in Nat /\ CountIn(emitted, "DEDENT") \in Nat
  BY CountType DEF LexerInv
<1>3. CountIn(emitted, "INDENT") - CountIn(emitted, "DEDENT") = Len(indents) - 1
  BY DEF LexerInv, BlocksBalance, Count, CountIn
<1>4. /\ IsSeq(closed)
      /\ CountIn(closed, "INDENT") = CountIn(emitted, "INDENT")
      /\ CountIn(closed, "DEDENT") = CountIn(emitted, "DEDENT") + (Len(indents) - 1)
  BY <1>1, <1>2, CountDedents
<1>5. emitted' = closed \o <<Mark("ENDOFFILE")>>
  BY DEF EndOfFile
<1> HIDE DEF closed
<1>6. emitted' = Append(closed, Mark("ENDOFFILE"))
  <2>1. PICK S : closed \in Seq(S)
    BY <1>4 DEF IsSeq
  <2>2. closed \in Seq(S \cup {Mark("ENDOFFILE")})
    BY <2>1, SeqMonotonic
  <2> QED
    BY <1>5, <2>2, AppendIsConcat
<1>7. Mark("ENDOFFILE").type \notin Blocks
  BY DEF Mark, Tok, Blocks
<1>8. CountIn(emitted', "INDENT") = CountIn(closed, "INDENT")
  BY <1>4, <1>6, <1>7, CountOrdinary DEF Blocks
<1>9. CountIn(emitted', "DEDENT") = CountIn(closed, "DEDENT")
  BY <1>4, <1>6, <1>7, CountOrdinary DEF Blocks
<1>10. indents' = <<0>> /\ indents' \in Seq(Nat) /\ Len(indents') = 1 /\ indents'[1] = 0
  BY DEF EndOfFile
<1>11. CountIn(emitted', "INDENT") - CountIn(emitted', "DEDENT") = Len(indents') - 1
  BY <1>1, <1>2, <1>3, <1>4, <1>8, <1>9, <1>10
<1>12. BlocksBalance'
  BY <1>10, <1>11 DEF BlocksBalance, Count, CountIn
<1>13. LexerTypeOK'
  BY <1>10 DEF LexerInv, LexerTypeOK, EndOfFile
<1>14. IsSeq(emitted')
  BY <1>4, <1>6, <1>7, CountOrdinary
<1> QED
  BY <1>12, <1>13, <1>14 DEF LexerInv, EndOfFile

\* Every turn of tokenize() preserves the invariant and advances.
LEMMA EveryTurn ==
  ASSUME LexerInv, LexerStep
  PROVE  LexerInv' /\ Turn
<1>1. /\ Len(source) \in Nat /\ pos \in 1 .. Len(source) + 1 /\ parens \in Nat
      /\ atLineStart \in BOOLEAN
      /\ LineBody \in pos .. Len(source) + 1 /\ Here \in pos .. Len(source) + 1
      /\ source \in Seq(STRING)
  BY Positions DEF LexerInv, LexerTypeOK
<1>2. CASE SkipBlankLine
  <2>1. pos' = LineBody + 1 /\ LineBody <= Len(source)
    BY <1>1, <1>2 DEF SkipBlankLine, CharIs, IsAtEnd
  <2>2. LexerInv'
    BY <1>1, <1>2, <2>1, SilentTurn DEF SkipBlankLine
  <2> QED
    BY <1>1, <2>1, <2>2 DEF Turn
<1>3. CASE SkipCommentLine
  <2> DEFINE newline == SkipUntil({"\n"}, LineBody)
  <2>1. LineBody <= Len(source) /\ source[LineBody] \notin {"\n"} /\ LineBody \in 1 .. Len(source) + 1
    BY <1>1, <1>3 DEF SkipCommentLine, CharIs, IsAtEnd
  <2>2. newline \in LineBody .. Len(source) + 1 /\ newline > LineBody
    BY <1>1, <2>1, SkipUntilFacts
  <2>3. pos' = IF newline > Len(source) THEN newline ELSE newline + 1
    BY <1>3 DEF SkipCommentLine, IsAtEnd
  <2> HIDE DEF newline
  <2>4. pos' > pos /\ pos' \in 1 .. Len(source) + 1
    BY <1>1, <2>2, <2>3
  <2>5. LexerInv'
    BY <1>1, <1>3, <2>4, SilentTurn DEF SkipCommentLine
  <2> QED
    BY <2>4, <2>5 DEF Turn
<1>4. CASE SkipLastSpaces
  <2>1. pos' = LineBody /\ pos' > pos
    BY <1>1, <1>4 DEF SkipLastSpaces, AtLineStart, IsAtEnd
  <2>2. LexerInv'
    BY <1>1, <1>4, <2>1, SilentTurn DEF SkipLastSpaces
  <2> QED
    BY <2>1, <2>2 DEF Turn
<1>5. CASE IndentLine
  <2>1. pos' = LineBody /\ atLineStart /\ atLineStart' = FALSE
    BY <1>5, Zenon DEF IndentLine, EnterLine, AtLineStart
  <2> QED
    BY <1>1, <1>5, <2>1, IndentTurn DEF Turn
<1>6. CASE SkipTrailingSpaces
  <2>1. pos' = Here /\ pos' > pos
    BY <1>1, <1>6 DEF SkipTrailingSpaces, IsAtEnd
  <2>2. LexerInv'
    BY <1>1, <1>6, <2>1, SilentTurn DEF SkipTrailingSpaces
  <2> QED
    BY <2>1, <2>2 DEF Turn
<1>7. CASE NewLine
  <2>1. /\ pos' = Here + 1 /\ Here <= Len(source)
        /\ UNCHANGED <<source, indents, parens, lexed>>
        /\ \/ emitted' = Append(emitted, Mark("NEWLINE")) /\ atLineStart' = TRUE
           \/ emitted' = emitted /\ atLineStart' = atLineStart
    BY <1>1, <1>7 DEF NewLine, InLine, IsAtEnd
  <2>2. pos' \in 1 .. Len(source) + 1 /\ pos' > pos
    BY <1>1, <2>1
  <2>3. Mark("NEWLINE").type \notin Blocks
    BY DEF Mark, Tok, Blocks
  <2>4. CASE emitted' = Append(emitted, Mark("NEWLINE")) /\ atLineStart' = TRUE
    BY <1>1, <2>1, <2>2, <2>3, <2>4, OrdinaryTurn DEF Turn
  <2>5. CASE emitted' = emitted /\ atLineStart' = atLineStart
    BY <1>1, <2>1, <2>2, <2>5, SilentTurn DEF Turn
  <2> QED
    BY <2>1, <2>4, <2>5
<1>8. CASE SkipComment
  <2>1. Here <= Len(source) /\ source[Here] \notin {"\n"} /\ Here \in 1 .. Len(source) + 1
    BY <1>1, <1>8 DEF SkipComment, InLine, IsAtEnd
  <2>2. pos' = SkipUntil({"\n"}, Here)
    BY <1>8 DEF SkipComment
  <2>3. pos' > pos /\ pos' \in 1 .. Len(source) + 1
    BY <1>1, <2>1, <2>2, SkipUntilFacts
  <2>4. LexerInv'
    BY <1>1, <1>8, <2>3, SilentTurn DEF SkipComment
  <2> QED
    BY <2>3, <2>4 DEF Turn
\* The turns that emit one token: its type is no block's, and the text goes on.
<1>9. ASSUME NEW tok, tok.type \notin Blocks, NEW next \in pos + 1 .. Len(source) + 1,
             Emit(tok, next), parens' \in Nat
      PROVE  LexerInv' /\ Turn
  <2>1. /\ emitted' = Append(emitted, tok) /\ pos' = next /\ atLineStart' = atLineStart
        /\ UNCHANGED <<source, indents, lexed>>
    BY <1>9 DEF Emit
  <2>2. pos' > pos /\ pos' \in 1 .. Len(source) + 1
    BY <1>1, <2>1
  <2>3. LexerInv'
    BY <1>1, <1>9, <2>1, <2>2, OrdinaryTurn
  <2> QED
    BY <2>2, <2>3 DEF Turn
<1>10. ASSUME NEW ty PROVE \A v : Tok(ty, v).type = ty /\ Mark(ty).type = ty
  BY DEF Tok, Mark
<1>11. CASE Lexeme
  <2>1. Here + 1 \in pos + 1 .. Len(source) + 1
    BY <1>1, <1>11 DEF Lexeme, IsAtEnd
  <2>2. Emit(TokenOf(source[Here]), Here + 1) /\ parens' \in Nat
    BY <1>1, <1>11, Zenon DEF Lexeme
  <2> QED
    BY <1>9, <2>1, <2>2, LexemeTypes
<1>12. CASE ReadOpenString
  <2>0. ~IsAtEnd(Here) /\ source[Here] \notin {"\n"}
    BY <1>12, Zenon DEF ReadOpenString, InLine, OpenQuote
  <2>1. Here <= Len(source) /\ source[Here] \notin {"\n"} /\ Here \in 1 .. Len(source) + 1
    BY <1>1, <2>0 DEF IsAtEnd
  <2>2. SkipUntil({"\n"}, Here) \in pos + 1 .. Len(source) + 1
    BY <1>1, <2>1, SkipUntilFacts
  <2>3. Emit(Mark("ERROR"), SkipUntil({"\n"}, Here)) /\ parens' \in Nat
    BY <1>1, <1>12, Zenon DEF ReadOpenString, EmitError
  <2>4. Mark("ERROR").type \notin Blocks
    BY DEF Mark, Tok, Blocks
  <2> QED
    BY <1>9, <2>2, <2>3, <2>4
<1>13. CASE OpenParen \/ CloseParen
  <2>1. Here + 1 \in pos + 1 .. Len(source) + 1
    BY <1>1, <1>13 DEF OpenParen, CloseParen, InLine, IsAtEnd
  <2>2. PICK tok \in {Tok("LPAREN", "("), Tok("RPAREN", ")")} : Emit(tok, Here + 1)
    BY <1>13, Zenon DEF OpenParen, CloseParen
  <2>3. parens' \in Nat
    BY <1>1, <1>13 DEF OpenParen, CloseParen
  <2>4. tok.type \notin Blocks
    BY <2>2 DEF Tok, Blocks
  <2> QED
    BY <1>9, <2>1, <2>2, <2>3, <2>4
<1>14. CASE Operator
  <2>0. ~IsAtEnd(Here) /\ parens' = parens
    BY <1>14, Zenon DEF Operator, InLine
  <2>1. Here <= Len(source) /\ parens' \in Nat
    BY <1>1, <2>0 DEF IsAtEnd
  <2>2. CASE Pairs
    <3> DEFINE op == source[Here] \o source[Here + 1]
    <3>1. op \in DOMAIN Double /\ Emit(Tok(Double[op], op), Here + 2)
      BY <1>14, <2>2, Zenon DEF Operator, Pairs
    <3>2. Here + 2 \in pos + 1 .. Len(source) + 1
      BY <1>1, <2>2 DEF Pairs, IsAtEnd
    <3> HIDE DEF op
    <3>3. Tok(Double[op], op).type \notin Blocks
      BY <1>10, <3>1, OperatorTypes
    <3> QED
      BY <1>9, <2>1, <3>1, <3>2, <3>3
  <2>3. CASE ~Pairs
    <3>1. source[Here] \in DOMAIN Single /\ Emit(Tok(Single[source[Here]], source[Here]), Here + 1)
      BY <1>14, <2>3, Zenon DEF Operator, InLine
    <3>2. Here + 1 \in pos + 1 .. Len(source) + 1
      BY <1>1, <2>1
    <3>3. Tok(Single[source[Here]], source[Here]).type \notin Blocks
      BY <1>10, <3>1, OperatorTypes
    <3> QED
      BY <1>9, <2>1, <3>1, <3>2, <3>3
  <2> QED
    BY <2>2, <2>3
<1>15. CASE UnexpectedCharacter
  <2>0. ~IsAtEnd(Here)
    BY <1>15, Zenon DEF UnexpectedCharacter, InLine
  <2>1. Here + 1 \in pos + 1 .. Len(source) + 1
    BY <1>1, <2>0 DEF IsAtEnd
  <2>2. Emit(Mark("ERROR"), Here + 1) /\ parens' \in Nat
    BY <1>1, <1>15, Zenon DEF UnexpectedCharacter, EmitError
  <2>3. Mark("ERROR").type \notin Blocks
    BY DEF Mark, Tok, Blocks
  <2> QED
    BY <1>9, <2>1, <2>2, <2>3
<1>16. CASE EndOfFile
  <2>1. ~lexed /\ lexed'
    BY <1>16 DEF EndOfFile
  <2> QED
    BY <1>16, <2>1, LastTurn DEF Turn
<1> QED
  BY <1>2, <1>3, <1>4, <1>5, <1>6, <1>7, <1>8, <1>11, <1>12, <1>13, <1>14, <1>15, <1>16
  DEF LexerStep

\* The invariant holds of a lexer that has read nothing.
LEMMA LexerStart == (\E s \in Seq(STRING) : LexerInit(s)) => LexerInv
<1> SUFFICES ASSUME NEW s \in Seq(STRING), LexerInit(s)
             PROVE  LexerInv
  OBVIOUS
<1>1. /\ source \in Seq(STRING) /\ pos = 1 /\ indents = <<0>> /\ emitted = <<>>
      /\ parens = 0 /\ atLineStart = TRUE /\ lexed = FALSE
  BY DEF LexerInit
<1>2. Len(source) \in Nat
  BY <1>1, LenProperties
<1>3. indents \in Seq(Nat) /\ Len(indents) = 1 /\ indents[1] = 0 /\ indents # <<>>
  BY <1>1
<1>4. LexerTypeOK
  <2>1. pos \in 1 .. Len(source) + 1 /\ 2 .. Len(indents) = {}
    BY <1>1, <1>2, <1>3
  <2>2. parens \in Nat /\ atLineStart \in BOOLEAN /\ lexed \in BOOLEAN
    BY <1>1
  <2> QED
    BY <1>3, <2>1, <2>2 DEF LexerTypeOK
<1>5. IsSeq(emitted)
  BY <1>1, EmptySeq DEF IsSeq
<1>6. \A ty : Count(ty) = 0
  <2>1. DOMAIN emitted = {}
    BY <1>1
  <2>2. \A ty : {k \in DOMAIN emitted : emitted[k].type = ty} = {}
    BY <2>1
  <2> QED
    BY <2>2, FS_EmptySet DEF Count
<1>7. BlocksBalance
  BY <1>1, <1>3, <1>6 DEF BlocksBalance
<1> QED
  BY <1>1, <1>4, <1>5, <1>7 DEF LexerInv

\* The invariant holds at every moment.
LEMMA LexerInductive == LexerSpec => []LexerInv
<1>1. LexerInv /\ UNCHANGED lexVars => LexerInv'
  BY DEF LexerInv, LexerTypeOK, BlocksBalance, Count, IsSeq, lexVars
<1>2. LexerInv /\ [LexerStep]_lexVars => LexerInv'
  BY <1>1, EveryTurn
<1> QED
  BY <1>2, LexerStart, PTL DEF LexerSpec

--------------------------------------------------------------------------------

\* For every text, the lexer's position, indentation stack and depth of
\* parentheses are well formed at every moment.
THEOREM LexerTypes == LexerSpec => []LexerTypeOK
<1>1. LexerInv => LexerTypeOK
  BY DEF LexerInv
<1> QED
  BY <1>1, LexerInductive, PTL

\* For every text, with and without errors, the blocks that INDENT tokens have
\* opened and DEDENT tokens have not closed are the levels of the indentation
\* stack, and none is left at the end.
THEOREM LexerBalances == LexerSpec => []BlocksBalance
<1>1. LexerInv => BlocksBalance
  BY DEF LexerInv
<1> QED
  BY <1>1, LexerInductive, PTL

\* For every text, each turn of the lexer's loops reads on, begins the line it is
\* at or is the last: no input sends tokenize() round in circles.
THEOREM LexerAdvances == LexerSpec => Advances
<1>1. LexerInv /\ [LexerStep]_lexVars => [Turn]_lexVars
  BY EveryTurn
<1> QED
  BY <1>1, LexerInductive, PTL DEF LexerSpec, Advances, Turn
================================================================================
