------------------------------- MODULE PyValue -------------------------------
(****************************************************************************)
(* Runtime values and the operations the interpreter performs on them       *)
(* (value.h, value.cpp and the arithmetic handlers of vm.cpp).              *)
(*                                                                          *)
(* A value is a tagged record, one field name per tag.  A string is the     *)
(* sequence of its character codes.  A FLOAT is modelled by the integral    *)
(* doubles, which is where int and float arithmetic differ in control; an   *)
(* INT is unbounded (the 64-bit width is not modelled).  A function object  *)
(* is identified by its entry point.  An operation that throws returns an   *)
(* error value, which never reaches the stack.                              *)
(****************************************************************************)
EXTENDS Integers, Sequences

PyInt(n)   == [t |-> "INT", i |-> n]
PyFloat(n) == [t |-> "FLOAT", f |-> n]
PyBool(b)  == [t |-> "BOOL", b |-> b]
PyStr(s)   == [t |-> "STRING", s |-> s]
PyNone     == [t |-> "NONE"]
PyFunction(entry, slots) == [t |-> "FUNCTION", entry |-> entry, slots |-> slots]

Tags == {"INT", "FLOAT", "BOOL", "STRING", "NONE", "FUNCTION"}

TypeError == [t |-> "ERROR", e |-> "TypeError"]
ZeroDivisionError == [t |-> "ERROR", e |-> "ZeroDivisionError"]
IsError(v) == v.t = "ERROR"

------------------------------------------------------------------------------
\* Conversions.

IsNumeric(v)  == v.t \in {"INT", "FLOAT"}
\* The operands of the integer fast paths of the VM.
IsIntegral(v) == v.t \in {"INT", "BOOL"}

\* to_int and to_float: the number a numeric or boolean operand stands for.
Number(v) == CASE v.t = "INT"   -> v.i
               [] v.t = "FLOAT" -> v.f
               [] v.t = "BOOL"  -> IF v.b THEN 1 ELSE 0
               [] OTHER         -> 0

Truthy(v) == CASE v.t = "INT"      -> v.i # 0
               [] v.t = "FLOAT"    -> v.f # 0
               [] v.t = "BOOL"     -> v.b
               [] v.t = "STRING"   -> v.s # <<>>
               [] v.t = "FUNCTION" -> TRUE
               [] OTHER            -> FALSE

\* std::to_string of a natural number, in character codes.
Digits[n \in Nat] == IF n < 10 THEN <<48 + n>>
                     ELSE Append(Digits[n \div 10], 48 + (n % 10))
Decimal(n) == IF n < 0 THEN <<45>> \o Digits[-n] ELSE Digits[n]

\* to_string; the name inside "<function name>" is left out.
Text(v) == CASE v.t = "INT"      -> Decimal(v.i)
             [] v.t = "FLOAT"    -> Decimal(v.f) \o <<46, 48>>
             [] v.t = "BOOL"     -> IF v.b THEN <<84, 114, 117, 101>>
                                           ELSE <<70, 97, 108, 115, 101>>
             [] v.t = "STRING"   -> v.s
             [] v.t = "FUNCTION" -> <<60, 102, 110, 62>>
             [] OTHER            -> <<78, 111, 110, 101>>

------------------------------------------------------------------------------
\* Arithmetic.

Sign(n) == IF n < 0 THEN -1 ELSE 1
Magnitude(n) == IF n < 0 THEN -n ELSE n

\* The / and % of C++ truncate towards zero, as does fmod.
TruncDiv(a, b) == Sign(a) * Sign(b) * (Magnitude(a) \div Magnitude(b))
TruncMod(a, b) == Sign(a) * (Magnitude(a) % Magnitude(b))

\* std::floor(a / b) on doubles.
FloorDiv(a, b) == IF TruncDiv(a, b) * b # a /\ Sign(a) # Sign(b)
                  THEN TruncDiv(a, b) - 1 ELSE TruncDiv(a, b)

\* Two ints or bools give an int, two numbers otherwise a float.  A bool and a
\* float are neither: is_numeric() is false for a bool.
NumericResult(l, r, int, float) ==
  CASE IsIntegral(l) /\ IsIntegral(r) -> PyInt(int)
    [] IsNumeric(l) /\ IsNumeric(r)
       /\ ~(IsIntegral(l) /\ IsIntegral(r)) -> PyFloat(float)
    [] OTHER -> TypeError

BinaryAdd(l, r) ==
  IF "STRING" \in {l.t, r.t} THEN PyStr(Text(l) \o Text(r))
  ELSE NumericResult(l, r, Number(l) + Number(r), Number(l) + Number(r))

BinarySub(l, r) == NumericResult(l, r, Number(l) - Number(r), Number(l) - Number(r))

Product(l, r) == NumericResult(l, r, Number(l) * Number(r), Number(l) * Number(r))

Repeat(s, n) == [i \in 1 .. (IF n < 0 THEN 0 ELSE n * Len(s)) |-> s[((i - 1) % Len(s)) + 1]]

BinaryMul(l, r) ==
  IF l.t = "STRING" /\ r.t = "INT" THEN PyStr(Repeat(l.s, r.i)) ELSE Product(l, r)

IsZeroDivision(l, r) ==
  /\ (IsIntegral(l) /\ IsIntegral(r)) \/ (IsNumeric(l) /\ IsNumeric(r))
  /\ Number(r) = 0

BinaryFloorDiv(l, r) ==
  IF IsZeroDivision(l, r) THEN ZeroDivisionError
  ELSE NumericResult(l, r, TruncDiv(Number(l), Number(r)), FloorDiv(Number(l), Number(r)))

BinaryMod(l, r) ==
  IF IsZeroDivision(l, r) THEN ZeroDivisionError
  ELSE NumericResult(l, r, TruncMod(Number(l), Number(r)), TruncMod(Number(l), Number(r)))

UnaryNeg(v) == CASE v.t = "INT"   -> PyInt(-v.i)
                 [] v.t = "FLOAT" -> PyFloat(-v.f)
                 [] OTHER         -> TypeError

UnaryNot(v) == PyBool(~Truthy(v))

------------------------------------------------------------------------------
\* Comparison.

\* Lexicographic order of std::string.
StringLess(s, u) ==
  \E k \in 0 .. Len(s) :
    /\ k < Len(u)
    /\ \A i \in 1 .. k : s[i] = u[i]
    /\ k = Len(s) \/ s[k + 1] < u[k + 1]

\* operator== : None, numbers, bools and strings each with their own kind.
Equal(l, r) ==
  CASE l.t = "NONE" /\ r.t = "NONE"     -> TRUE
    [] IsNumeric(l) /\ IsNumeric(r)     -> Number(l) = Number(r)
    [] l.t = "BOOL" /\ r.t = "BOOL"     -> l.b = r.b
    [] l.t = "STRING" /\ r.t = "STRING" -> l.s = r.s
    [] OTHER                            -> FALSE

\* operator< , which the other three orderings of value.cpp are made from.
Less(l, r) ==
  CASE IsNumeric(l) /\ IsNumeric(r)     -> PyBool(Number(l) < Number(r))
    [] l.t = "STRING" /\ r.t = "STRING" -> PyBool(StringLess(l.s, r.s))
    [] OTHER                            -> TypeError

NotLess(l, r) == IF IsError(Less(l, r)) THEN TypeError ELSE PyBool(~Less(l, r).b)

CompareEq(l, r) ==
  IF IsIntegral(l) /\ IsIntegral(r) THEN PyBool(Number(l) = Number(r)) ELSE PyBool(Equal(l, r))
\* No integer fast path here: a bool and an int are never equal, always unequal.
CompareNeq(l, r) == PyBool(~Equal(l, r))
CompareLt(l, r) ==
  IF IsIntegral(l) /\ IsIntegral(r) THEN PyBool(Number(l) < Number(r)) ELSE Less(l, r)
CompareGt(l, r) ==
  IF IsIntegral(l) /\ IsIntegral(r) THEN PyBool(Number(l) > Number(r)) ELSE Less(r, l)
CompareLte(l, r) ==
  IF IsIntegral(l) /\ IsIntegral(r) THEN PyBool(Number(l) <= Number(r)) ELSE NotLess(r, l)
\* Nor here: a bool operand throws.
CompareGte(l, r) == NotLess(l, r)
==============================================================================
