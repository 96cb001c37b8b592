--------------------------------- MODULE Token ---------------------------------
(****************************************************************************)
(* Tokens (token.h) and the lexemes they are made from.  A source text is a *)
(* sequence of characters in which a number, a closed string or a word is   *)
(* one element: reading it to its end is one step.                          *)
(****************************************************************************)
EXTENDS Naturals, Sequences, TLC

TokenType ==
  {"INTEGER", "FLOAT", "STRING", "TRUE", "FALSE", "NONE", "IDENTIFIER",
   "DEF", "RETURN", "IF", "ELIF", "ELSE", "WHILE", "FOR", "IN", "AND", "OR", "NOT",
   "PRINT", "RANGE", "BREAK", "CONTINUE", "PASS", "IMPORT", "FROM", "AS",
   "PLUS", "MINUS", "STAR", "SLASH", "SLASHSLASH", "PERCENT", "EQ", "NEQ", "LT", "GT", "LTE",
   "GTE", "ASSIGN", "LPAREN", "RPAREN", "COMMA", "COLON",
   "NEWLINE", "INDENT", "DEDENT", "ENDOFFILE", "ERROR"}

Tok(type, value) == [type |-> type, value |-> value]
\* A token whose type says all: the value of NEWLINE is left out with its text.
Mark(type) == Tok(type, "")

Keywords ==
  [def |-> "DEF", return |-> "RETURN", if |-> "IF", elif |-> "ELIF", else |-> "ELSE",
   while |-> "WHILE", for |-> "FOR", in |-> "IN", and |-> "AND", or |-> "OR", not |-> "NOT",
   print |-> "PRINT", range |-> "RANGE", True |-> "TRUE", False |-> "FALSE", None |-> "NONE",
   break |-> "BREAK", continue |-> "CONTINUE", pass |-> "PASS",
   import |-> "IMPORT", from |-> "FROM", as |-> "AS"]

\* The operators of one character and those = makes of two, // apart.
Single ==
  [c \in {"+", "-", "*", "%", ",", ":", "/", "=", "<", ">"} |->
     CASE c = "+" -> "PLUS"  [] c = "-" -> "MINUS" [] c = "*" -> "STAR"  [] c = "%" -> "PERCENT"
       [] c = "," -> "COMMA" [] c = ":" -> "COLON" [] c = "/" -> "SLASH" [] c = "=" -> "ASSIGN"
       [] c = "<" -> "LT"    [] c = ">" -> "GT"]
Double ==
  [c \in {"//", "==", "!=", "<=", ">="} |->
     CASE c = "//" -> "SLASHSLASH" [] c = "==" -> "EQ" [] c = "!=" -> "NEQ"
       [] c = "<=" -> "LTE" [] c = ">=" -> "GTE"]

\* Bound: the numerals that occur in a text.
MaxNumeral == 9
IntegerLexemes == {ToString(n) : n \in 0 .. MaxNumeral}
FloatLexemes   == {ToString(n) \o ".0" : n \in 0 .. MaxNumeral}
StringLexemes  == "'a'" :> "a" @@ "'b'" :> "b"
\* A quote that is not closed before the line ends, and characters no token
\* starts with.
OpenQuote == "'"
Strange   == {"$", "?"}

\* std::stoll and std::stod of a numeral.
Stoll(text) == CHOOSE n \in 0 .. MaxNumeral : ToString(n) = text
Stod(text)  == CHOOSE n \in 0 .. MaxNumeral : ToString(n) \o ".0" = text
\* The characters of a string, as PyValue has them.
Codes == [a |-> <<97>>, b |-> <<98>>]
================================================================================
