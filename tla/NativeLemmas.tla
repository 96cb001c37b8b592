------------------------------ MODULE NativeLemmas ------------------------------
(****************************************************************************)
(* What the proofs about native code need to know of words, of the          *)
(* recurrences, and of where the emitted instructions lie.                  *)
(****************************************************************************)
EXTENDS NativeCalls, WellFoundedInduction, FiniteSetTheorems, SequenceTheorems, TLAPS

(* Recursion on the integers. *)

\* A set of numbers that holds 0 and with each number the next one holds all.
LEMMA Induction ==
  ASSUME NEW S \in SUBSET Nat, 0 \in S, \A n \in S : n + 1 \in S
  PROVE  S = Nat
<1> DEFINE less == {ss \in Nat \X Nat : ss[1] < ss[2]}
           T    == Nat \ S
<1>1. IsWellFoundedOn(less, Nat)
  BY NatLessThanWellFounded DEF OpToRel
<1>2. ASSUME T # {} PROVE FALSE
  <2>1. PICK x \in T : \A y \in T : ~ (<<y, x>> \in less)
    <3> HIDE DEF less
    <3> QED
      BY <1>1, <1>2, WFMin
  <2>2. x \in Nat /\ x # 0 /\ x - 1 \in Nat
    OBVIOUS
  <2>3. x - 1 \in T
    <3>1. CASE x - 1 \in S
      <4>1. (x - 1) + 1 \in S
        BY <3>1
      <4> QED
        BY <2>2, <4>1
    <3> QED
      BY <2>2, <3>1
  <2>4. <<x - 1, x>> \in less
    BY <2>2
  <2> QED
    BY <2>1, <2>3, <2>4
<1> QED
  BY <1>2


\* g satisfies the recurrence up to m: base values to 1, steps behind.
Solves(g, base, step, m) ==
  /\ g \in [Int -> Int]
  /\ \A k \in Int : k <= m =>
       g[k] = IF k <= 1 THEN base[k] ELSE step[<<k, g[k - 1], g[k - 2]>>]

\* There is a solution up to every number.
LEMMA SolutionExists ==
  ASSUME NEW base \in [Int -> Int], NEW step \in [Int \X Int \X Int -> Int], NEW m \in Nat
  PROVE  \E g : Solves(g, base, step, m)
<1> DEFINE S == {n \in Nat : \E g : Solves(g, base, step, n)}
<1>1. 0 \in S
  <2>1. Solves(base, base, step, 0)
    BY DEF Solves
  <2> QED
    BY <2>1
<1>2. ASSUME NEW n \in S PROVE n + 1 \in S
  <2>1. PICK g : Solves(g, base, step, n)
    OBVIOUS
  <2> DEFINE v == IF n + 1 <= 1 THEN base[n + 1] ELSE step[<<n + 1, g[n], g[n - 1]>>]
             h == [g EXCEPT ![n + 1] = v]
  <2>2. v \in Int /\ g \in [Int -> Int] /\ n \in Int /\ n + 1 \in Int
    BY <2>1 DEF Solves
  <2>3. h \in [Int -> Int] /\ h[n + 1] = v
    BY <2>2
  <2>4. \A k \in Int : k # n + 1 => h[k] = g[k]
    BY <2>2
  <2>5. ASSUME NEW k \in Int, k <= n + 1
        PROVE  h[k] = IF k <= 1 THEN base[k] ELSE step[<<k, h[k - 1], h[k - 2]>>]
    <3>1. h[k - 1] = g[k - 1] /\ h[k - 2] = g[k - 2]
      BY <2>2, <2>4, <2>5
    <3>2. CASE k <= n
      <4>1. h[k] = g[k]
        BY <2>2, <2>4, <3>2
      <4>2. g[k] = IF k <= 1 THEN base[k] ELSE step[<<k, g[k - 1], g[k - 2]>>]
        BY <2>1, <3>2 DEF Solves
      <4> QED
        BY <3>1, <4>1, <4>2
    <3>3. CASE k = n + 1
      <4>1. k - 1 = n /\ k - 2 = n - 1
        BY <2>2, <3>3
      <4>2. h[k] = v
        BY <2>3, <3>3
      <4> QED
        BY <3>1, <3>3, <4>1, <4>2
    <3> QED
      BY <2>2, <2>5, <3>2, <3>3
  <2> HIDE DEF h
  <2>6. Solves(h, base, step, n + 1)
    BY <2>3, <2>5 DEF Solves
  <2> QED
    BY <2>6
<1> HIDE DEF S
<1>3. S \in SUBSET Nat
  BY DEF S
<1>4. S = Nat
  BY <1>1, <1>2, <1>3, Induction
<1> QED
  BY <1>4 DEF S

\* Solutions agree as far as they are.
LEMMA SolutionsAgree ==
  ASSUME NEW base \in [Int -> Int], NEW step \in [Int \X Int \X Int -> Int],
         NEW m \in Nat, NEW g, NEW h, Solves(g, base, step, m), Solves(h, base, step, m)
  PROVE  \A k \in Int : k <= m => g[k] = h[k]
<1> DEFINE Same(k) == k <= m => g[k] = h[k]
           S == {n \in Nat : \A k \in Int : k <= n => Same(k)}
<1>1. \A k \in Int : k <= 1 => Same(k)
  <2> SUFFICES ASSUME NEW k \in Int, k <= 1, k <= m PROVE g[k] = h[k]
    OBVIOUS
  <2>1. g[k] = base[k] /\ h[k] = base[k]
    BY DEF Solves
  <2> QED
    BY <2>1
<1>2. 0 \in S
  BY <1>1
<1>3. ASSUME NEW n \in S PROVE n + 1 \in S
  <2>1. ASSUME NEW k \in Int, k <= n + 1, k > 1, k <= m PROVE g[k] = h[k]
    <3>1. n \in Nat /\ k - 1 \in Int /\ k - 2 \in Int /\ k - 1 <= n /\ k - 2 <= n
          /\ k - 1 <= m /\ k - 2 <= m
      BY <2>1
    <3>2. g[k - 1] = h[k - 1] /\ g[k - 2] = h[k - 2]
      BY <3>1
    <3>3. /\ g[k] = step[<<k, g[k - 1], g[k - 2]>>]
          /\ h[k] = step[<<k, h[k - 1], h[k - 2]>>]
      BY <2>1 DEF Solves
    <3> QED
      BY <3>2, <3>3
  <2>2. \A k \in Int : k <= n + 1 => Same(k)
    BY <1>1, <2>1
  <2> QED
    BY <2>2
<1> HIDE DEF S
<1>4. S \in SUBSET Nat
  BY DEF S
<1>5. S = Nat
  BY <1>2, <1>3, <1>4, Induction
<1>6. m \in S
  BY <1>5
<1> QED
  BY <1>6 DEF S

\* The recurrence has a solution on all integers.
LEMMA RecursionExists ==
  ASSUME NEW base \in [Int -> Int], NEW step \in [Int \X Int \X Int -> Int]
  PROVE  \E g \in [Int -> Int] : \A k \in Int :
           g[k] = IF k <= 1 THEN base[k] ELSE step[<<k, g[k - 1], g[k - 2]>>]
<1> DEFINE P(m) == CHOOSE g : Solves(g, base, step, m)
           G    == [k \in Int |-> IF k <= 0 THEN base[k] ELSE P(k)[k]]
<1>1. \A m \in Nat : Solves(P(m), base, step, m)
  BY SolutionExists
<1> HIDE DEF P
<1>2. G \in [Int -> Int]
  BY <1>1 DEF Solves
<1>3. ASSUME NEW m \in Nat, NEW n \in Nat, m <= n PROVE P(m)[m] = P(n)[m]
  <2>1. Solves(P(n), base, step, m)
    BY <1>1, <1>3 DEF Solves
  <2> QED
    BY <1>1, <2>1, SolutionsAgree
<1>4. ASSUME NEW k \in Int
      PROVE  G[k] = IF k <= 1 THEN base[k] ELSE step[<<k, G[k - 1], G[k - 2]>>]
  <2>1. CASE k <= 0
    BY <2>1
  <2>2. CASE k > 0
    <3>1. k \in Nat /\ k <= k /\ G[k] = P(k)[k]
      BY <2>2
    <3> DEFINE g == P(k)
    <3>0. /\ g \in [Int -> Int]
          /\ \A i \in Int : i <= k =>
               g[i] = IF i <= 1 THEN base[i] ELSE step[<<i, g[i - 1], g[i - 2]>>]
      BY <1>1, <3>1 DEF Solves
    <3> HIDE DEF g
    <3>2. P(k)[k] = IF k <= 1 THEN base[k] ELSE step[<<k, P(k)[k - 1], P(k)[k - 2]>>]
      <4>1. g[k] = IF k <= 1 THEN base[k] ELSE step[<<k, g[k - 1], g[k - 2]>>]
        BY <3>0, <3>1
      <4> QED
        BY <4>1 DEF g
    <3>3. CASE k <= 1
      BY <3>1, <3>2, <3>3
    <3>4. CASE k > 1
      <4>1. k - 1 \in Nat /\ k - 1 > 0 /\ k - 2 \in Nat /\ k - 1 <= k /\ k - 2 <= k
        BY <3>1, <3>4
      <4>2. G[k - 1] = P(k)[k - 1]
        BY <1>3, <3>1, <4>1
      <4>3. G[k - 2] = P(k)[k - 2]
        <5>1. CASE k - 2 > 0
          BY <1>3, <3>1, <4>1, <5>1
        <5>2. CASE k - 2 = 0
          <6>1. P(k)[k - 2] = base[k - 2]
            <7>1. k - 2 \in Int /\ k - 2 <= k /\ k - 2 <= 1
              BY <3>1, <5>2
            <7>2. g[k - 2] = base[k - 2]
              BY <3>0, <7>1
            <7> QED
              BY <7>2 DEF g
          <6> QED
            BY <4>1, <5>2, <6>1
        <5> QED
          BY <4>1, <5>1, <5>2
      <4> QED
        BY <3>1, <3>2, <3>4, <4>2, <4>3
    <3> QED
      BY <3>3, <3>4
  <2> QED
    BY <2>1, <2>2
<1> HIDE DEF G
<1> QED
  BY <1>2, <1>4

\* Numbers come from numbers.
LEMMA SolutionIsInt ==
  ASSUME NEW g,
         \A k \in Int : k <= 1 => g[k] \in Int,
         \A k \in Int : k > 1 /\ g[k - 1] \in Int /\ g[k - 2] \in Int => g[k] \in Int
  PROVE  \A k \in Int : g[k] \in Int
<1> DEFINE S == {n \in Nat : \A k \in Int : k <= n => g[k] \in Int}
<1>1. 0 \in S
  <2>1. \A k \in Int : k <= 0 => k <= 1
    OBVIOUS
  <2> QED
    BY <2>1
<1>2. ASSUME NEW n \in S PROVE n + 1 \in S
  <2>1. ASSUME NEW k \in Int, k <= n + 1 PROVE g[k] \in Int
    <3>1. CASE k <= 1
      BY <3>1
    <3>2. CASE k > 1
      <4>1. n \in Nat /\ k - 1 \in Int /\ k - 2 \in Int /\ k - 1 <= n /\ k - 2 <= n
        BY <2>1
      <4>2. g[k - 1] \in Int /\ g[k - 2] \in Int
        BY <4>1
      <4> QED
        BY <3>2, <4>2
    <3> QED
      BY <3>1, <3>2
  <2> QED
    BY <2>1
<1> HIDE DEF S
<1>3. S \in SUBSET Nat
  BY DEF S
<1>4. S = Nat
  BY <1>1, <1>2, <1>3, Induction
<1>5. ASSUME NEW k \in Int PROVE g[k] \in Int
  <2>1. CASE k <= 1
    BY <2>1
  <2>2. CASE k > 1
    <3>1. k \in S /\ k <= k
      BY <1>4, <2>2
    <3> QED
      BY <3>1 DEF S
  <2> QED
    BY <2>1, <2>2
<1> QED
  BY <1>5

\* NativeCall is the recurrence its definition states.
LEMMA NativeCallIsRecursive ==
  ASSUME NEW f, f.pattern \in {"FIB", "FACTORIAL"}, f.base \in Int, NEW n \in Int
  PROVE  /\ NativeCall(f, n) \in Int
         /\ n <= 1 => NativeCall(f, n) = IF f.base = -1 THEN n ELSE f.base
         /\ n > 1 => NativeCall(f, n) =
                       IF f.pattern = "FIB" THEN NativeCall(f, n - 1) + NativeCall(f, n - 2)
                       ELSE n * NativeCall(f, n - 1)
<1> DEFINE base(k)  == IF f.base = -1 THEN k ELSE f.base
           fibs(g)  == g = [k \in Int |-> IF k <= 1 THEN base(k) ELSE g[k - 1] + g[k - 2]]
           facts(g) == g = [k \in Int |-> IF k <= 1 THEN base(k) ELSE k * g[k - 1]]
           values   == [k \in Int |-> base(k)]
           sum      == [t \in Int \X Int \X Int |-> t[2] + t[3]]
           product  == [t \in Int \X Int \X Int |-> t[1] * t[2]]
<1>1. values \in [Int -> Int] /\ sum \in [Int \X Int \X Int -> Int] /\ product \in [Int \X Int \X Int -> Int]
  OBVIOUS
<1>2. \E g \in [Int -> Int] : fibs(g)
  <2>1. PICK g \in [Int -> Int] : \A k \in Int :
          g[k] = IF k <= 1 THEN values[k] ELSE sum[<<k, g[k - 1], g[k - 2]>>]
    <3> HIDE DEF values, sum
    <3> QED
      BY <1>1, RecursionExists
  <2>2. ASSUME NEW k \in Int PROVE g[k] = IF k <= 1 THEN base(k) ELSE g[k - 1] + g[k - 2]
    <3>1. g[k - 1] \in Int /\ g[k - 2] \in Int
      OBVIOUS
    <3>2. sum[<<k, g[k - 1], g[k - 2]>>] = g[k - 1] + g[k - 2] /\ values[k] = base(k)
      BY <3>1
    <3> HIDE DEF sum, values, base
    <3> QED
      BY <2>1, <3>2
  <2> HIDE DEF base
  <2> QED
    BY <2>2
<1>3. \E g \in [Int -> Int] : facts(g)
  <2>1. PICK g \in [Int -> Int] : \A k \in Int :
          g[k] = IF k <= 1 THEN values[k] ELSE product[<<k, g[k - 1], g[k - 2]>>]
    <3> HIDE DEF values, product
    <3> QED
      BY <1>1, RecursionExists
  <2>2. ASSUME NEW k \in Int PROVE g[k] = IF k <= 1 THEN base(k) ELSE k * g[k - 1]
    <3>1. g[k - 1] \in Int /\ g[k - 2] \in Int
      OBVIOUS
    <3>2. product[<<k, g[k - 1], g[k - 2]>>] = k * g[k - 1] /\ values[k] = base(k)
      BY <3>1
    <3> HIDE DEF product, values, base
    <3> QED
      BY <2>1, <3>2
  <2> HIDE DEF base
  <2> QED
    BY <2>2
<1> DEFINE fib  == CHOOSE g : fibs(g)
           fact == CHOOSE g : facts(g)
<1>4. fibs(fib) /\ facts(fact)
  BY <1>2, <1>3
<1>5. \A k : NativeCall(f, k) = IF f.pattern = "FIB" THEN fib[k] ELSE fact[k]
  BY DEF NativeCall
<1>6. /\ \A k \in Int : fib[k] = IF k <= 1 THEN base(k) ELSE fib[k - 1] + fib[k - 2]
      /\ \A k \in Int : fact[k] = IF k <= 1 THEN base(k) ELSE k * fact[k - 1]
  <2> HIDE DEF base, fib, fact
  <2> QED
    BY <1>4
<1>7. \A k \in Int : base(k) \in Int
  OBVIOUS
<1> HIDE DEF fib, fact
<1>8. \A k \in Int : fib[k] \in Int
  <2> HIDE DEF base
  <2>1. \A k \in Int : k <= 1 => fib[k] \in Int
    BY <1>6, <1>7
  <2>2. \A k \in Int : k > 1 /\ fib[k - 1] \in Int /\ fib[k - 2] \in Int => fib[k] \in Int
    BY <1>6
  <2> QED
    BY <2>1, <2>2, SolutionIsInt
<1>9. \A k \in Int : fact[k] \in Int
  <2> HIDE DEF base
  <2>1. \A k \in Int : k <= 1 => fact[k] \in Int
    BY <1>6, <1>7
  <2>2. \A k \in Int : k > 1 /\ fact[k - 1] \in Int /\ fact[k - 2] \in Int => fact[k] \in Int
    BY <1>6
  <2> QED
    BY <2>1, <2>2, SolutionIsInt
<1>10. CASE f.pattern = "FIB"
  <2>1. \A k \in Int : NativeCall(f, k) = fib[k]
    BY <1>5, <1>10
  <2>2. n - 1 \in Int /\ n - 2 \in Int
    OBVIOUS
  <2> QED
    BY <1>6, <1>8, <1>10, <2>1, <2>2
<1>11. CASE f.pattern = "FACTORIAL"
  <2>1. \A k \in Int : NativeCall(f, k) = fact[k]
    BY <1>5, <1>11
  <2>2. n - 1 \in Int
    OBVIOUS
  <2> QED
    BY <1>6, <1>9, <1>11, <2>1, <2>2
<1> QED
  BY <1>10, <1>11

----------------------------------------------------------------------------------
(* Words. *)

\* Half the number of words is positive.
LEMMA HalfIsPositive == HalfWord \in Nat /\ HalfWord > 0
BY NativeAssumption

\* What division leaves.
LEMMA Remainder ==
  ASSUME NEW x \in Int, NEW m \in Nat, m > 0
  PROVE  (x % m) \in 0 .. m - 1 /\ \E q \in Int : x = m * q + (x % m)
<1>1. (x % m) \in Int /\ x \div m \in Int
  OBVIOUS
<1>2. (x % m) \in 0 .. m - 1
  OBVIOUS
<1>3. x = m * (x \div m) + (x % m)
  OBVIOUS
<1> QED
  BY <1>1, <1>2, <1>3

\* A word is a remainder, moved.
LEMMA WordIsRemainder ==
  ASSUME NEW n \in Int
  PROVE  /\ Word(n) \in Words
         /\ \E q \in Int : n = Word(n) + (2 * HalfWord) * q
<1>1. 2 * HalfWord \in Nat /\ 2 * HalfWord > 0 /\ n + HalfWord \in Int
  BY HalfIsPositive
<1> DEFINE m == 2 * HalfWord
           r == (n + HalfWord) % m
<1>2. r \in 0 .. m - 1 /\ \E q \in Int : n + HalfWord = m * q + r
  <2> HIDE DEF m
  <2> QED
    BY <1>1, Remainder DEF m
<1>3. Word(n) = r - HalfWord
  BY DEF Word
<1> HIDE DEF r
<1>4. PICK q \in Int : n + HalfWord = m * q + r
  BY <1>2
<1>5. n = Word(n) + m * q
  <2>1. m * q \in Int /\ r \in Int
    BY <1>1, <1>2
  <2> HIDE DEF m
  <2> QED
    BY <1>3, <1>4, <2>1, HalfIsPositive
<1> QED
  BY <1>2, <1>3, <1>5, HalfIsPositive DEF Words

\* A difference of words is no multiple of their number, but for 0.
LEMMA WordsAreApart ==
  ASSUME NEW m \in Nat, m > 0, NEW a \in Int, NEW b \in Int, a - b < m, b - a < m,
         NEW q \in Int, a = b + m * q
  PROVE  a = b
<1>1. CASE q >= 1
  <2>1. m * q >= m
    BY <1>1
  <2> QED
    BY <2>1
<1>2. CASE q <= -1
  <2>1. m * q <= -m
    BY <1>2
  <2> QED
    BY <2>1
<1>3. CASE q = 0
  BY <1>3
<1> QED
  BY <1>1, <1>2, <1>3

\* The word of a number is the one it differs from by a multiple of their number.
LEMMA WordIsUnique ==
  ASSUME NEW n \in Int, NEW w \in Words, NEW q \in Int, n = w + (2 * HalfWord) * q
  PROVE  Word(n) = w
<1>1. PICK r \in Int : n = Word(n) + (2 * HalfWord) * r
  BY WordIsRemainder
<1> DEFINE m == 2 * HalfWord
           v == Word(n)
<1>2. /\ v \in Int /\ w \in Int /\ m \in Nat /\ m > 0 /\ v - w < m /\ w - v < m
  BY WordIsRemainder, HalfIsPositive DEF Words
<1>3. n = v + m * r /\ n = w + m * q /\ q - r \in Int
  BY <1>1
<1> HIDE DEF m, v
<1>4. v = w + m * (q - r)
  BY <1>2, <1>3
<1>5. v = w
  BY <1>2, <1>3, <1>4, WordsAreApart
<1> QED
  BY <1>5 DEF v

\* A word is its own word.
LEMMA WordOfWord ==
  ASSUME NEW w \in Words
  PROVE  Word(w) = w
<1>1. w \in Int /\ w = w + (2 * HalfWord) * 0
  BY HalfIsPositive DEF Words
<1> QED
  BY <1>1, WordIsUnique

\* Additions may wrap around in between.
LEMMA WordOfSum ==
  ASSUME NEW a \in Int, NEW b \in Int
  PROVE  Word(Word(a) + Word(b)) = Word(a + b)
<1>1. PICK q \in Int : a = Word(a) + (2 * HalfWord) * q
  BY WordIsRemainder
<1>2. PICK r \in Int : b = Word(b) + (2 * HalfWord) * r
  BY WordIsRemainder
<1>3. PICK t \in Int : Word(a) + Word(b) = Word(Word(a) + Word(b)) + (2 * HalfWord) * t
  <2>1. Word(a) + Word(b) \in Int
    BY WordIsRemainder, HalfIsPositive DEF Words
  <2> QED
    BY <2>1, WordIsRemainder
<1> DEFINE m == 2 * HalfWord
           wa == Word(a)
           wb == Word(b)
           w  == Word(wa + wb)
<1>4. wa \in Int /\ wb \in Int /\ m \in Int
  BY WordIsRemainder, HalfIsPositive DEF Words
<1>5. w \in Words /\ w \in Int
  <2>1. wa + wb \in Int
    BY <1>4
  <2>2. w \in Words
    <3> HIDE DEF wa, wb
    <3> QED
      BY <2>1, WordIsRemainder
  <2> HIDE DEF w
  <2> QED
    BY <2>2, HalfIsPositive DEF Words
<1>6. a = wa + m * q /\ b = wb + m * r /\ wa + wb = w + m * t
  BY <1>1, <1>2, <1>3
<1> HIDE DEF m, wa, wb, w
<1>7. a + b = w + m * (q + r + t) /\ q + r + t \in Int /\ a + b \in Int
  BY <1>4, <1>5, <1>6
<1>8. Word(a + b) = w
  BY <1>5, <1>7, WordIsUnique DEF m
<1> QED
  BY <1>8 DEF w, wa, wb

\* And so may products with a word.
LEMMA WordOfProduct ==
  ASSUME NEW a \in Int, NEW b \in Int
  PROVE  Word(Word(a) * b) = Word(b * a)
<1>1. PICK q \in Int : a = Word(a) + (2 * HalfWord) * q
  BY WordIsRemainder
<1> DEFINE m == 2 * HalfWord
           wa == Word(a)
           w  == Word(wa * b)
<1>2. wa \in Int /\ m \in Int /\ wa * b \in Int
  BY WordIsRemainder, HalfIsPositive DEF Words
<1>3. PICK t \in Int : wa * b = w + m * t
  BY <1>2, WordIsRemainder
<1>4. w \in Words /\ w \in Int
  BY <1>2, WordIsRemainder, HalfIsPositive DEF Words
<1>5. a = wa + m * q
  BY <1>1
<1> HIDE DEF m, wa, w
<1>6. b * a = w + m * (t + b * q) /\ t + b * q \in Int /\ b * a \in Int
  <2>1. b * a = b * wa + b * (m * q)
    BY <1>2, <1>5
  <2>2. b * (m * q) = m * (b * q) /\ b * q \in Int /\ b * wa = wa * b
    BY <1>2
  <2>3. m * (t + b * q) = m * t + m * (b * q)
    BY <1>2, <2>2
  <2> QED
    BY <1>2, <1>3, <1>4, <2>1, <2>2, <2>3
<1>7. Word(b * a) = w
  BY <1>4, <1>6, WordIsUnique DEF m
<1> QED
  BY <1>7 DEF w, wa

----------------------------------------------------------------------------------
(* Where the emitted instructions lie. *)

\* The instructions the emitter makes, which load no 0 that would be patched.
Operations == {"push", "pop", "mov", "movimm", "load", "lea", "add", "imul", "addimm", "cmp",
               "jle", "jmp", "call", "ret"}
Instructions86 ==
  {i \in [op : Operations, dst : Registers, src : Registers, imm : Int, size : 1 .. 10] :
     i.op = "movimm" => i.imm # 0}

\* The bytes of the first k - 1 instructions.
BytesBefore(s, k) == UNION {{j} \X (1 .. s[j].size) : j \in 1 .. k - 1}

\* An instruction has from one to ten bytes.
LEMMA SizeOfInstr ==
  ASSUME NEW s \in Seq(Instructions86), NEW j \in 1 .. Len(s)
  PROVE  s[j].size \in 1 .. 10
<1>1. s[j] \in Instructions86
  BY ElementOfSeq
<1> QED
  BY <1>1 DEF Instructions86

\* The bytes of one instruction.
LEMMA BytesOfOne ==
  ASSUME NEW j, NEW n \in 1 .. 10
  PROVE  /\ IsFiniteSet({j} \X (1 .. n)) /\ Cardinality({j} \X (1 .. n)) = n
         /\ 1 .. n \subseteq 1 .. 10
<1>1. IsFiniteSet({j}) /\ Cardinality({j}) = 1
  BY FS_Singleton
<1>2. IsFiniteSet(1 .. n) /\ Cardinality(1 .. n) = n
  <2>1. /\ IsFiniteSet(1 .. n)
        /\ Cardinality(1 .. n) = IF 1 > n THEN 0 ELSE n - 1 + 1
    BY FS_Interval
  <2> QED
    BY <2>1
<1>3. /\ IsFiniteSet({j} \X (1 .. n))
      /\ Cardinality({j} \X (1 .. n)) = Cardinality({j}) * Cardinality(1 .. n)
  BY <1>1, <1>2, FS_Product
<1>4. Cardinality({j}) * Cardinality(1 .. n) = n
  BY <1>1, <1>2
<1> QED
  BY <1>3, <1>4

\* A further instruction moves the position by its size.
LEMMA PositionStep ==
  ASSUME NEW s \in Seq(Instructions86), NEW k \in 1 .. Len(s)
  PROVE  /\ IsFiniteSet(BytesBefore(s, k)) /\ Position(s, k) \in Nat
         /\ Position(s, k + 1) = Position(s, k) + s[k].size
<1> DEFINE new == {k} \X (1 .. s[k].size)
<1>1. \A j \in 1 .. Len(s) : s[j].size \in 1 .. 10
  BY SizeOfInstr
<1>2. IsFiniteSet(BytesBefore(s, k))
  <2>1. BytesBefore(s, k) \subseteq (1 .. k - 1) \X (1 .. 10)
    <3>1. ASSUME NEW j \in 1 .. k - 1
          PROVE  {j} \X (1 .. s[j].size) \subseteq (1 .. k - 1) \X (1 .. 10)
      <4>1. j \in 1 .. Len(s)
        OBVIOUS
      <4>2. 1 .. s[j].size \subseteq 1 .. 10
        BY <1>1, <4>1, BytesOfOne
      <4> QED
        BY <4>2
    <3> QED
      BY <3>1 DEF BytesBefore
  <2>2. IsFiniteSet(1 .. k - 1) /\ IsFiniteSet(1 .. 10)
    <3>1. k - 1 \in Int /\ 1 \in Int /\ 10 \in Int
      OBVIOUS
    <3> QED
      BY <3>1, FS_Interval
  <2>3. IsFiniteSet((1 .. k - 1) \X (1 .. 10))
    BY <2>2, FS_Product
  <2> QED
    BY <2>1, <2>3, FS_Subset
<1>3. IsFiniteSet(new) /\ Cardinality(new) = s[k].size
  BY <1>1, BytesOfOne
<1>4. BytesBefore(s, k + 1) = BytesBefore(s, k) \cup new
  <2>1. 1 .. (k + 1) - 1 = (1 .. k - 1) \cup {k}
    OBVIOUS
  <2> QED
    BY <2>1 DEF BytesBefore
<1>5. BytesBefore(s, k) \cap new = {}
  BY DEF BytesBefore
<1>6. Cardinality(BytesBefore(s, k) \cup new) = Cardinality(BytesBefore(s, k)) + Cardinality(new)
  <2>1. Cardinality({}) = 0
    BY FS_EmptySet
  <2>2. Cardinality(BytesBefore(s, k)) \in Nat /\ Cardinality(new) \in Nat
    BY <1>2, <1>3, FS_CardinalityType
  <2> HIDE DEF new
  <2>3. Cardinality(BytesBefore(s, k) \cup new) = Cardinality(BytesBefore(s, k)) + Cardinality(new) - Cardinality({})
    <3> DEFINE old == BytesBefore(s, k)
    <3>1. IsFiniteSet(old) /\ IsFiniteSet(new) /\ old \cap new = {}
      BY <1>2, <1>3, <1>5 DEF new
    <3> HIDE DEF old
    <3>2. Cardinality(old \cup new) = Cardinality(old) + Cardinality(new) - Cardinality(old \cap new)
      BY <3>1, FS_Union
    <3> QED
      BY <3>1, <3>2 DEF old
  <2> QED
    BY <2>1, <2>2, <2>3
<1> QED
  BY <1>2, <1>3, <1>4, <1>6, FS_CardinalityType DEF Position, BytesBefore

\* The first instruction is at the start.
LEMMA PositionStart ==
  ASSUME NEW s
  PROVE  Position(s, 1) = 0
<1>1. UNION {{j} \X (1 .. s[j].size) : j \in 1 .. 1 - 1} = {}
  OBVIOUS
<1> QED
  BY <1>1, FS_EmptySet DEF Position

\* Positions rise.
LEMMA PositionsRise ==
  ASSUME NEW s \in Seq(Instructions86), NEW j \in 1 .. Len(s), NEW k \in 1 .. Len(s) + 1, j < k
  PROVE  Position(s, j) + s[j].size <= Position(s, k)
<1>1. Position(s, j + 1) = Position(s, j) + s[j].size
  BY PositionStep
<1>2. k - 1 \in 1 .. Len(s) /\ (k - 1) + 1 = k
  OBVIOUS
<1>3. BytesBefore(s, j + 1) \subseteq BytesBefore(s, k)
  <2>1. 1 .. (j + 1) - 1 \subseteq 1 .. k - 1
    OBVIOUS
  <2> QED
    BY <2>1 DEF BytesBefore
<1>4. IsFiniteSet(BytesBefore(s, k))
  <2>1. BytesBefore(s, k) = BytesBefore(s, k - 1) \cup ({k - 1} \X (1 .. s[k - 1].size))
    <3>1. 1 .. k - 1 = (1 .. (k - 1) - 1) \cup {k - 1}
      BY <1>2
    <3> QED
      BY <3>1 DEF BytesBefore
  <2>2. IsFiniteSet(BytesBefore(s, k - 1))
    BY <1>2, PositionStep
  <2>3. IsFiniteSet({k - 1} \X (1 .. s[k - 1].size))
    BY <1>2, SizeOfInstr, BytesOfOne
  <2> DEFINE old == BytesBefore(s, k - 1)
             new == {k - 1} \X (1 .. s[k - 1].size)
  <2> HIDE DEF old, new
  <2>4. IsFiniteSet(old \cup new)
    BY <2>2, <2>3, FS_Union DEF old, new
  <2> QED
    BY <2>1, <2>4 DEF old, new
<1>5. Cardinality(BytesBefore(s, j + 1)) <= Cardinality(BytesBefore(s, k))
  BY <1>3, <1>4, FS_Subset
<1> QED
  BY <1>1, <1>5 DEF Position, BytesBefore

\* What the emitter's methods make.
LEMMA InstrsAreInstrs ==
  ASSUME NEW d \in Registers, NEW r \in Registers, NEW n \in Int
  PROVE  /\ n # 0 => MovRegImm(d, n) \in Instructions86
         /\ PushReg(r) \in Instructions86 /\ PopReg(r) \in Instructions86
         /\ MovRegReg(d, r) \in Instructions86
         /\ MovRegMem(d, r, n) \in Instructions86 /\ Lea(d, r, n) \in Instructions86
         /\ AddRegReg(d, r) \in Instructions86 /\ ImulRegReg(d, r) \in Instructions86
         /\ AddRegImm(d, n) \in Instructions86 /\ CmpRegImm(d, n) \in Instructions86
         /\ Jle(n) \in Instructions86 /\ Jmp(n) \in Instructions86
         /\ CallReg(r) \in Instructions86 /\ RetInstr \in Instructions86
<1>1. ASSUME NEW o \in Operations, NEW i \in Int, NEW z \in 1 .. 10, NEW x \in Registers, NEW y \in Registers,
             o = "movimm" => i # 0
      PROVE  [op |-> o, dst |-> x, src |-> y, imm |-> i, size |-> z] \in Instructions86
  <2> DEFINE made == [op |-> o, dst |-> x, src |-> y, imm |-> i, size |-> z]
  <2>1. made \in [op : Operations, dst : Registers, src : Registers, imm : Int, size : 1 .. 10]
    OBVIOUS
  <2>2. made.op = o /\ made.imm = i
    OBVIOUS
  <2> HIDE DEF made
  <2>3. made \in Instructions86
    BY <1>1, <2>1, <2>2 DEF Instructions86
  <2> QED
    BY <2>3 DEF made
<1>2. /\ "RAX" \in Registers /\ 0 \in Int
      /\ \A z \in {1, 2, 3, 4, 5, 6, 7, 8, 10} : z \in 1 .. 10
      /\ (IF r = "R12" THEN 2 ELSE 1) \in 1 .. 10 /\ (IF r = "R12" THEN 8 ELSE 7) \in 1 .. 10
  BY DEF Registers
<1>3. PushReg(r) \in Instructions86 /\ PopReg(r) \in Instructions86
  BY <1>1, <1>2, Zenon DEF PushReg, PopReg, Operations
<1>4. MovRegReg(d, r) \in Instructions86 /\ (n # 0 => MovRegImm(d, n) \in Instructions86)
  BY <1>1, <1>2, Zenon DEF MovRegReg, MovRegImm, Operations
<1>5. MovRegMem(d, r, n) \in Instructions86 /\ Lea(d, r, n) \in Instructions86
  BY <1>1, <1>2, Zenon DEF MovRegMem, Lea, Operations
<1>6. AddRegReg(d, r) \in Instructions86 /\ ImulRegReg(d, r) \in Instructions86
  BY <1>1, <1>2, Zenon DEF AddRegReg, ImulRegReg, Operations
<1>7. AddRegImm(d, n) \in Instructions86 /\ CmpRegImm(d, n) \in Instructions86
  BY <1>1, <1>2, Zenon DEF AddRegImm, CmpRegImm, Operations
<1>8. /\ Jle(n) \in Instructions86 /\ Jmp(n) \in Instructions86
      /\ CallReg(r) \in Instructions86 /\ RetInstr \in Instructions86
  BY <1>1, <1>2, Zenon DEF Jle, Jmp, CallReg, RetInstr, Operations
<1> QED
  BY <1>3, <1>4, <1>5, <1>6, <1>7, <1>8

\* Sequences of up to six.
LEMMA ShortSeqs ==
  ASSUME NEW S, NEW a \in S, NEW b \in S, NEW c \in S, NEW d \in S, NEW e \in S, NEW f \in S
  PROVE  /\ <<a>> \in Seq(S) /\ <<a, b>> \in Seq(S) /\ <<a, b, c>> \in Seq(S)
         /\ <<a, b, c, d>> \in Seq(S) /\ <<a, b, c, d, e, f>> \in Seq(S)
         /\ Len(<<a>>) = 1 /\ Len(<<a, b>>) = 2 /\ Len(<<a, b, c>>) = 3
         /\ Len(<<a, b, c, d>>) = 4 /\ Len(<<a, b, c, d, e, f>>) = 6
OBVIOUS

\* u is s, of length m, and behind it t, of length n.
Joins(S, u, s, t, m, n) ==
  /\ u \in Seq(S) /\ Len(u) = m + n
  /\ \A i \in 1 .. m : u[i] = s[i]
  /\ \A i \in 1 .. n : u[m + i] = t[i]

\* What lies where in one sequence behind another.
LEMMA Joined ==
  ASSUME NEW S, NEW s \in Seq(S), NEW t \in Seq(S), NEW m \in Nat, NEW n \in Nat,
         Len(s) = m, Len(t) = n
  PROVE  Joins(S, s \o t, s, t, m, n)
<1>1. /\ s \o t \in Seq(S) /\ Len(s \o t) = Len(s) + Len(t)
      /\ \A i \in 1 .. Len(s) + Len(t) : (s \o t)[i] = IF i <= Len(s) THEN s[i] ELSE t[i - Len(s)]
  BY ConcatProperties
<1>2. ASSUME NEW i \in 1 .. m PROVE (s \o t)[i] = s[i]
  BY <1>1
<1>3. ASSUME NEW i \in 1 .. n PROVE (s \o t)[m + i] = t[i]
  <2>1. m + i \in 1 .. m + n /\ ~ (m + i <= m) /\ (m + i) - m = i
    OBVIOUS
  <2> QED
    BY <1>1, <2>1
<1> QED
  BY <1>1, <1>2, <1>3 DEF Joins

\* A function's call of itself.
LEMMA CallSelfIs ==
  /\ CallSelf \in Seq(Instructions86) /\ Len(CallSelf) = 2
  /\ CallSelf[1] = MovRegImm("RAX", CodeAddress) /\ CallSelf[2] = CallReg("RAX")
<1>1. MovRegImm("RAX", CodeAddress) \in Instructions86 /\ CallReg("RAX") \in Instructions86
  BY InstrsAreInstrs, NativeAssumption DEF Registers
<1> QED
  BY <1>1, ShortSeqs DEF CallSelf

\* The body of a factorial.
LEMMA FactorialBodyIs ==
  /\ FactorialBody \in Seq(Instructions86) /\ Len(FactorialBody) = 6
  /\ FactorialBody[1] = PushReg("R12") /\ FactorialBody[2] = Lea("RCX", "R12", -1)
  /\ FactorialBody[3] = MovRegImm("RAX", CodeAddress) /\ FactorialBody[4] = CallReg("RAX")
  /\ FactorialBody[5] = ImulRegReg("RAX", "R12") /\ FactorialBody[6] = AddRegImm("RSP", 8)
<1> DEFINE a == <<PushReg("R12"), Lea("RCX", "R12", -1)>>
           b == <<ImulRegReg("RAX", "R12"), AddRegImm("RSP", 8)>>
           u == a \o CallSelf
           v == u \o b
<1>1. /\ PushReg("R12") \in Instructions86 /\ Lea("RCX", "R12", -1) \in Instructions86
      /\ ImulRegReg("RAX", "R12") \in Instructions86 /\ AddRegImm("RSP", 8) \in Instructions86
  BY InstrsAreInstrs DEF Registers
<1>2. a \in Seq(Instructions86) /\ Len(a) = 2 /\ a[1] = PushReg("R12") /\ a[2] = Lea("RCX", "R12", -1)
  BY <1>1, ShortSeqs
<1>3. b \in Seq(Instructions86) /\ Len(b) = 2 /\ b[1] = ImulRegReg("RAX", "R12") /\ b[2] = AddRegImm("RSP", 8)
  BY <1>1, ShortSeqs
<1>4. FactorialBody = v
  BY DEF FactorialBody
<1> HIDE DEF a, b
<1>5. Joins(Instructions86, u, a, CallSelf, 2, 2)
  BY <1>2, CallSelfIs, Joined
<1> HIDE DEF u
<1>6. /\ u \in Seq(Instructions86) /\ Len(u) = 4
      /\ u[1] = a[1] /\ u[2] = a[2] /\ u[3] = CallSelf[1] /\ u[4] = CallSelf[2]
  BY <1>5 DEF Joins
<1>7. Joins(Instructions86, v, u, b, 4, 2)
  BY <1>3, <1>6, Joined
<1> HIDE DEF v
<1>8. /\ v \in Seq(Instructions86) /\ Len(v) = 6
      /\ v[1] = u[1] /\ v[2] = u[2] /\ v[3] = u[3] /\ v[4] = u[4] /\ v[5] = b[1] /\ v[6] = b[2]
  BY <1>7 DEF Joins
<1> QED
  BY <1>2, <1>3, <1>4, <1>6, <1>8, CallSelfIs

\* The body of a fib.
LEMMA FibBodyIs ==
  /\ FibBody \in Seq(Instructions86) /\ Len(FibBody) = 11
  /\ FibBody[1] = PushReg("R12") /\ FibBody[2] = Lea("RCX", "R12", -1)
  /\ FibBody[3] = MovRegImm("RAX", CodeAddress) /\ FibBody[4] = CallReg("RAX")
  /\ FibBody[5] = MovRegReg("RBX", "RAX") /\ FibBody[6] = MovRegMem("RCX", "RBP", -24)
  /\ FibBody[7] = Lea("RCX", "RCX", -2)
  /\ FibBody[8] = MovRegImm("RAX", CodeAddress) /\ FibBody[9] = CallReg("RAX")
  /\ FibBody[10] = AddRegReg("RAX", "RBX") /\ FibBody[11] = AddRegImm("RSP", 8)
<1> DEFINE a == <<PushReg("R12"), Lea("RCX", "R12", -1)>>
           b == <<MovRegReg("RBX", "RAX"), MovRegMem("RCX", "RBP", -24), Lea("RCX", "RCX", -2)>>
           c == <<AddRegReg("RAX", "RBX"), AddRegImm("RSP", 8)>>
           u == a \o CallSelf
           v == u \o b
           w == v \o CallSelf
           x == w \o c
<1>1. /\ PushReg("R12") \in Instructions86 /\ Lea("RCX", "R12", -1) \in Instructions86
      /\ MovRegReg("RBX", "RAX") \in Instructions86 /\ MovRegMem("RCX", "RBP", -24) \in Instructions86
      /\ Lea("RCX", "RCX", -2) \in Instructions86
      /\ AddRegReg("RAX", "RBX") \in Instructions86 /\ AddRegImm("RSP", 8) \in Instructions86
  BY InstrsAreInstrs DEF Registers
<1>2. a \in Seq(Instructions86) /\ Len(a) = 2 /\ a[1] = PushReg("R12") /\ a[2] = Lea("RCX", "R12", -1)
  BY <1>1, ShortSeqs
<1>3. /\ b \in Seq(Instructions86) /\ Len(b) = 3 /\ b[1] = MovRegReg("RBX", "RAX")
      /\ b[2] = MovRegMem("RCX", "RBP", -24) /\ b[3] = Lea("RCX", "RCX", -2)
  BY <1>1, ShortSeqs
<1>4. c \in Seq(Instructions86) /\ Len(c) = 2 /\ c[1] = AddRegReg("RAX", "RBX") /\ c[2] = AddRegImm("RSP", 8)
  BY <1>1, ShortSeqs
<1>5. FibBody = x
  BY DEF FibBody
<1> HIDE DEF a, b, c
<1>6. Joins(Instructions86, u, a, CallSelf, 2, 2)
  BY <1>2, CallSelfIs, Joined
<1> HIDE DEF u
<1>7. /\ u \in Seq(Instructions86) /\ Len(u) = 4
      /\ u[1] = a[1] /\ u[2] = a[2] /\ u[3] = CallSelf[1] /\ u[4] = CallSelf[2]
  BY <1>6 DEF Joins
<1>8. Joins(Instructions86, v, u, b, 4, 3)
  BY <1>3, <1>7, Joined
<1> HIDE DEF v
<1>9. /\ v \in Seq(Instructions86) /\ Len(v) = 7
      /\ v[1] = u[1] /\ v[2] = u[2] /\ v[3] = u[3] /\ v[4] = u[4]
      /\ v[5] = b[1] /\ v[6] = b[2] /\ v[7] = b[3]
  BY <1>8 DEF Joins
<1>10. Joins(Instructions86, w, v, CallSelf, 7, 2)
  BY <1>9, CallSelfIs, Joined
<1> HIDE DEF w
<1>11. /\ w \in Seq(Instructions86) /\ Len(w) = 9
       /\ w[1] = v[1] /\ w[2] = v[2] /\ w[3] = v[3] /\ w[4] = v[4] /\ w[5] = v[5] /\ w[6] = v[6]
       /\ w[7] = v[7] /\ w[8] = CallSelf[1] /\ w[9] = CallSelf[2]
  BY <1>10 DEF Joins
<1>12. Joins(Instructions86, x, w, c, 9, 2)
  BY <1>4, <1>11, Joined
<1> HIDE DEF x
<1>13. /\ x \in Seq(Instructions86) /\ Len(x) = 11
       /\ x[1] = w[1] /\ x[2] = w[2] /\ x[3] = w[3] /\ x[4] = w[4] /\ x[5] = w[5] /\ x[6] = w[6]
       /\ x[7] = w[7] /\ x[8] = w[8] /\ x[9] = w[9] /\ x[10] = c[1] /\ x[11] = c[2]
  BY <1>12 DEF Joins
<1> QED
  BY <1>2, <1>3, <1>4, <1>5, <1>7, <1>9, <1>11, <1>13, CallSelfIs

\* What is around a body of n instructions.
Framed(c, jle, body, n, jmp, base) ==
  /\ c \in Seq(Instructions86) /\ Len(c) = n + 13
  /\ c[1] = PushReg("RBP") /\ c[2] = MovRegReg("RBP", "RSP") /\ c[3] = PushReg("RBX")
  /\ c[4] = PushReg("R12") /\ c[5] = MovRegReg("R12", "RCX") /\ c[6] = CmpRegImm("R12", 1)
  /\ c[7] = jle
  /\ \A i \in 1 .. n : c[7 + i] = body[i]
  /\ c[n + 8] = jmp /\ c[n + 9] = base
  /\ c[n + 10] = PopReg("R12") /\ c[n + 11] = PopReg("RBX") /\ c[n + 12] = PopReg("RBP")
  /\ c[n + 13] = RetInstr

\* The parts of a function, one behind the other.
LEMMA FunctionIsFramed ==
  ASSUME NEW jle \in Instructions86, NEW jmp \in Instructions86, NEW base \in Instructions86,
         NEW body \in Seq(Instructions86), NEW n \in Nat, Len(body) = n
  PROVE  Framed(Prologue \o <<jle>> \o body \o <<jmp>> \o <<base>> \o Epilogue,
                jle, body, n, jmp, base)
<1> DEFINE u == Prologue \o <<jle>>
           v == u \o body
           w == v \o <<jmp>>
           x == w \o <<base>>
           y == x \o Epilogue
<1>1. /\ PushReg("RBP") \in Instructions86 /\ MovRegReg("RBP", "RSP") \in Instructions86
      /\ PushReg("RBX") \in Instructions86 /\ PushReg("R12") \in Instructions86
      /\ MovRegReg("R12", "RCX") \in Instructions86 /\ CmpRegImm("R12", 1) \in Instructions86
      /\ PopReg("R12") \in Instructions86 /\ PopReg("RBX") \in Instructions86
      /\ PopReg("RBP") \in Instructions86 /\ RetInstr \in Instructions86
  BY InstrsAreInstrs DEF Registers
<1>2. /\ Prologue \in Seq(Instructions86) /\ Len(Prologue) = 6
      /\ Prologue[1] = PushReg("RBP") /\ Prologue[2] = MovRegReg("RBP", "RSP")
      /\ Prologue[3] = PushReg("RBX") /\ Prologue[4] = PushReg("R12")
      /\ Prologue[5] = MovRegReg("R12", "RCX") /\ Prologue[6] = CmpRegImm("R12", 1)
  BY <1>1, ShortSeqs DEF Prologue
<1>3. /\ Epilogue \in Seq(Instructions86) /\ Len(Epilogue) = 4
      /\ Epilogue[1] = PopReg("R12") /\ Epilogue[2] = PopReg("RBX")
      /\ Epilogue[3] = PopReg("RBP") /\ Epilogue[4] = RetInstr
  BY <1>1, ShortSeqs DEF Epilogue
<1>4. /\ <<jle>> \in Seq(Instructions86) /\ Len(<<jle>>) = 1 /\ <<jle>>[1] = jle
      /\ <<jmp>> \in Seq(Instructions86) /\ Len(<<jmp>>) = 1 /\ <<jmp>>[1] = jmp
      /\ <<base>> \in Seq(Instructions86) /\ Len(<<base>>) = 1 /\ <<base>>[1] = base
  BY ShortSeqs
<1>5. Joins(Instructions86, u, Prologue, <<jle>>, 6, 1)
  BY <1>2, <1>4, Joined
<1> HIDE DEF u
<1>6. /\ u \in Seq(Instructions86) /\ Len(u) = 7
      /\ u[1] = Prologue[1] /\ u[2] = Prologue[2] /\ u[3] = Prologue[3]
      /\ u[4] = Prologue[4] /\ u[5] = Prologue[5] /\ u[6] = Prologue[6] /\ u[7] = jle
  BY <1>4, <1>5 DEF Joins
<1>7. Joins(Instructions86, v, u, body, 7, n)
  BY <1>6, Joined
<1> HIDE DEF v
<1>8. /\ v \in Seq(Instructions86) /\ Len(v) = n + 7
      /\ \A i \in 1 .. 7 : v[i] = u[i]
      /\ \A i \in 1 .. n : v[7 + i] = body[i]
  BY <1>7 DEF Joins
<1>9. n + 7 \in Nat /\ n + 8 \in Nat /\ n + 9 \in Nat
  OBVIOUS
<1>10. Joins(Instructions86, w, v, <<jmp>>, n + 7, 1)
  BY <1>4, <1>8, <1>9, Joined
<1> HIDE DEF w
<1>11. /\ w \in Seq(Instructions86) /\ Len(w) = n + 8
       /\ \A i \in 1 .. n + 7 : w[i] = v[i]
       /\ w[n + 8] = jmp
  BY <1>4, <1>10 DEF Joins
<1>12. Joins(Instructions86, x, w, <<base>>, n + 8, 1)
  BY <1>4, <1>9, <1>11, Joined
<1> HIDE DEF x
<1>13. /\ x \in Seq(Instructions86) /\ Len(x) = n + 9
       /\ \A i \in 1 .. n + 8 : x[i] = w[i]
       /\ x[n + 9] = base
  BY <1>4, <1>12 DEF Joins
<1>14. Joins(Instructions86, y, x, Epilogue, n + 9, 4)
  BY <1>3, <1>9, <1>13, Joined
<1> HIDE DEF y
<1>15. /\ y \in Seq(Instructions86) /\ Len(y) = n + 13
       /\ \A i \in 1 .. n + 9 : y[i] = x[i]
       /\ y[n + 10] = Epilogue[1] /\ y[n + 11] = Epilogue[2]
       /\ y[n + 12] = Epilogue[3] /\ y[n + 13] = Epilogue[4]
  BY <1>14 DEF Joins
<1>16. \A i \in 1 .. n + 7 : y[i] = v[i]
  BY <1>11, <1>13, <1>15
<1>17. \A i \in 1 .. 7 : y[i] = u[i]
  BY <1>8, <1>16
<1>18. \A i \in 1 .. n : y[7 + i] = body[i]
  <2> SUFFICES ASSUME NEW i \in 1 .. n PROVE y[7 + i] = body[i]
    OBVIOUS
  <2>1. 7 + i \in 1 .. n + 7
    OBVIOUS
  <2> QED
    BY <1>8, <1>16, <2>1
<1>19. y[n + 8] = jmp /\ y[n + 9] = base
  <2>1. n + 8 \in 1 .. n + 8 /\ n + 8 \in 1 .. n + 9 /\ n + 9 \in 1 .. n + 9
    OBVIOUS
  <2> QED
    BY <1>11, <1>13, <1>15, <2>1
<1>20. /\ y[1] = Prologue[1] /\ y[2] = Prologue[2] /\ y[3] = Prologue[3]
       /\ y[4] = Prologue[4] /\ y[5] = Prologue[5] /\ y[6] = Prologue[6] /\ y[7] = jle
  BY <1>6, <1>17
<1>21. Framed(y, jle, body, n, jmp, base)
  BY <1>2, <1>3, <1>15, <1>18, <1>19, <1>20 DEF Framed
<1> QED
  BY <1>21 DEF y, x, w, v, u

\* The sizes of what the bodies are made of.
LEMMA Sizes ==
  /\ PushReg("R12").size = 2 /\ Lea("RCX", "R12", -1).size = 8 /\ Lea("RCX", "RCX", -2).size = 7
  /\ MovRegImm("RAX", CodeAddress).size = 10 /\ CallReg("RAX").size = 2
  /\ MovRegReg("RBX", "RAX").size = 3 /\ MovRegMem("RCX", "RBP", -24).size = 7
  /\ AddRegReg("RAX", "RBX").size = 3 /\ ImulRegReg("RAX", "R12").size = 4
  /\ AddRegImm("RSP", 8).size = 7
BY DEF PushReg, Lea, MovRegImm, CallReg, MovRegReg, MovRegMem, AddRegReg, ImulRegReg, AddRegImm

\* The positions in a sequence of n instructions, and behind it.
Counts(P, s, n) ==
  /\ P \in [1 .. n + 1 -> Nat] /\ P[1] = 0 /\ P[n + 1] = Bytes(s)
  /\ \A k \in 2 .. n + 1 : P[k] = P[k - 1] + s[k - 1].size

\* Positions count.
LEMMA PositionsCount ==
  ASSUME NEW s \in Seq(Instructions86), NEW n \in Nat, Len(s) = n, n > 0
  PROVE  \E P : Counts(P, s, n)
<1> DEFINE P == [k \in 1 .. n + 1 |-> Position(s, k)]
<1>1. ASSUME NEW k \in 1 .. n
      PROVE  Position(s, k) \in Nat /\ s[k].size \in Nat /\ Position(s, k + 1) = Position(s, k) + s[k].size
  <2>1. k \in 1 .. Len(s)
    OBVIOUS
  <2>2. s[k].size \in 1 .. 10
    BY <2>1, SizeOfInstr
  <2> QED
    BY <2>1, <2>2, PositionStep
<1>2. ASSUME NEW k \in 2 .. n + 1
      PROVE  k - 1 \in 1 .. n /\ Position(s, k) \in Nat /\ Position(s, k) = Position(s, k - 1) + s[k - 1].size
  <2>1. k - 1 \in 1 .. n /\ (k - 1) + 1 = k
    OBVIOUS
  <2>2. /\ Position(s, k - 1) \in Nat /\ s[k - 1].size \in Nat
        /\ Position(s, (k - 1) + 1) = Position(s, k - 1) + s[k - 1].size
    BY <1>1, <2>1
  <2> QED
    BY <2>1, <2>2
<1>3. Position(s, 1) = 0
  BY PositionStart
<1>4. ASSUME NEW k \in 1 .. n + 1 PROVE Position(s, k) \in Nat
  <2>1. CASE k = 1
    BY <1>3, <2>1
  <2>2. CASE k \in 2 .. n + 1
    BY <1>2, <2>2
  <2> QED
    BY <2>1, <2>2
<1>5. P \in [1 .. n + 1 -> Nat] /\ \A k \in 1 .. n + 1 : P[k] = Position(s, k)
  BY <1>4
<1>6. Bytes(s) = Position(s, n + 1)
  BY DEF Bytes
<1> HIDE DEF P
<1>7. \A k \in 2 .. n + 1 : P[k] = P[k - 1] + s[k - 1].size
  <2> SUFFICES ASSUME NEW k \in 2 .. n + 1 PROVE P[k] = P[k - 1] + s[k - 1].size
    OBVIOUS
  <2>1. k \in 1 .. n + 1 /\ k - 1 \in 1 .. n + 1
    OBVIOUS
  <2> QED
    BY <1>2, <1>5, <2>1
<1>8. P[1] = 0 /\ P[n + 1] = Bytes(s)
  <2>1. 1 \in 1 .. n + 1 /\ n + 1 \in 1 .. n + 1
    OBVIOUS
  <2> QED
    BY <1>3, <1>5, <1>6, <2>1
<1>9. Counts(P, s, n)
  BY <1>5, <1>7, <1>8 DEF Counts
<1> QED
  BY <1>9

\* The bytes of the bodies, which the jumps over them count.
LEMMA BytesOfBodies ==
  Bytes(FibBody) = 61 /\ Bytes(FactorialBody) = 33
<1>1. Bytes(FibBody) = 61
  <2>1. PICK P : Counts(P, FibBody, 11)
    <3>1. FibBody \in Seq(Instructions86) /\ Len(FibBody) = 11 /\ 11 \in Nat /\ 11 > 0
      BY FibBodyIs
    <3> QED
      BY <3>1, PositionsCount, Zenon
  <2>2. /\ P \in [1 .. 12 -> Nat] /\ P[1] = 0 /\ P[12] = Bytes(FibBody)
        /\ \A k \in 2 .. 12 : P[k] = P[k - 1] + FibBody[k - 1].size
    BY <2>1 DEF Counts
  <2>3. /\ FibBody[1].size = 2 /\ FibBody[2].size = 8 /\ FibBody[3].size = 10 /\ FibBody[4].size = 2
        /\ FibBody[5].size = 3 /\ FibBody[6].size = 7 /\ FibBody[7].size = 7 /\ FibBody[8].size = 10
        /\ FibBody[9].size = 2 /\ FibBody[10].size = 3 /\ FibBody[11].size = 7
    BY FibBodyIs, Sizes
  <2>4. P[2] = P[1] + 2 /\ P[3] = P[2] + 8 /\ P[4] = P[3] + 10 /\ P[5] = P[4] + 2
    BY <2>2, <2>3
  <2>5. P[6] = P[5] + 3 /\ P[7] = P[6] + 7 /\ P[8] = P[7] + 7 /\ P[9] = P[8] + 10
    BY <2>2, <2>3
  <2>6. P[10] = P[9] + 2 /\ P[11] = P[10] + 3 /\ P[12] = P[11] + 7
    BY <2>2, <2>3
  <2> QED
    BY <2>2, <2>4, <2>5, <2>6
<1>2. Bytes(FactorialBody) = 33
  <2>1. PICK P : Counts(P, FactorialBody, 6)
    <3>1. FactorialBody \in Seq(Instructions86) /\ Len(FactorialBody) = 6 /\ 6 \in Nat /\ 6 > 0
      BY FactorialBodyIs
    <3> QED
      BY <3>1, PositionsCount, Zenon
  <2>2. /\ P \in [1 .. 7 -> Nat] /\ P[1] = 0 /\ P[7] = Bytes(FactorialBody)
        /\ \A k \in 2 .. 7 : P[k] = P[k - 1] + FactorialBody[k - 1].size
    BY <2>1 DEF Counts
  <2>3. /\ FactorialBody[1].size = 2 /\ FactorialBody[2].size = 8 /\ FactorialBody[3].size = 10
        /\ FactorialBody[4].size = 2 /\ FactorialBody[5].size = 4 /\ FactorialBody[6].size = 7
    BY FactorialBodyIs, Sizes
  <2>4. P[2] = P[1] + 2 /\ P[3] = P[2] + 8 /\ P[4] = P[3] + 10 /\ P[5] = P[4] + 2
    BY <2>2, <2>3
  <2>5. P[6] = P[5] + 4 /\ P[7] = P[6] + 7
    BY <2>2, <2>3
  <2> QED
    BY <2>2, <2>4, <2>5
<1> QED
  BY <1>1, <1>2

\* Patching finds nothing: no 0 is loaded.
LEMMA PatchedIs ==
  ASSUME NEW c \in Seq(Instructions86)
  PROVE  Patched(c) = c
<1>1. \A k \in DOMAIN c : ~ (c[k].op = "movimm" /\ c[k].imm = 0)
  <2> SUFFICES ASSUME NEW k \in DOMAIN c PROVE ~ (c[k].op = "movimm" /\ c[k].imm = 0)
    OBVIOUS
  <2>1. c[k] \in Instructions86
    BY ElementOfSeq
  <2> QED
    BY <2>1 DEF Instructions86
<1>2. Patched(c) = [k \in DOMAIN c |-> c[k]]
  BY <1>1 DEF Patched
<1>3. c = [k \in DOMAIN c |-> c[k]]
  OBVIOUS
<1> QED
  BY <1>2, <1>3

\* The instruction of the base case.
BaseInstr(f) == IF f.base = -1 THEN MovRegReg("RAX", "R12") ELSE MovRegImm("RAX", f.base)

\* What is emitted for a function.
LEMMA EmittedIs ==
  ASSUME NEW f \in Natives
  PROVE  /\ f.pattern = "FIB" =>
              Framed(Emitted[f], Jle(66), FibBody, 11, Jmp(BaseInstr(f).size), BaseInstr(f))
         /\ f.pattern = "FACTORIAL" =>
              Framed(Emitted[f], Jle(38), FactorialBody, 6, Jmp(BaseInstr(f).size), BaseInstr(f))
<1> DEFINE b == BaseCase(f.base)
           i == BaseInstr(f)
<1>1. f.base \in Int /\ f.base # 0 /\ f.pattern \in {"FIB", "FACTORIAL"}
  BY NativeAssumption
<1>2. b = <<i>> /\ i \in Instructions86
  <2>1. b = <<i>>
    BY DEF BaseCase, BaseInstr
  <2>2. "RAX" \in Registers /\ "R12" \in Registers
    BY DEF Registers
  <2>3. i \in Instructions86
    BY <1>1, <2>2, InstrsAreInstrs DEF BaseInstr
  <2> QED
    BY <2>1, <2>3
<1> HIDE DEF i
<1>3. Bytes(b) = i.size /\ i.size \in 1 .. 10
  <2> DEFINE s == <<i>>
  <2>1. s \in Seq(Instructions86) /\ Len(s) = 1 /\ s[1] = i
    BY <1>2, ShortSeqs
  <2> HIDE DEF s
  <2>2. Position(s, 1) = 0 /\ Position(s, 1 + 1) = Position(s, 1) + s[1].size /\ s[1].size \in 1 .. 10
    <3>1. 1 \in 1 .. Len(s)
      BY <2>1
    <3> QED
      BY <2>1, <3>1, PositionStart, PositionStep, SizeOfInstr
  <2>3. Bytes(s) = i.size
    BY <2>1, <2>2 DEF Bytes
  <2> QED
    BY <1>2, <2>1, <2>2, <2>3 DEF s
<1>4. Bytes(Prologue) \in Int
  <2>1. Bytes(Prologue) \in Nat
    <3>1. Prologue \in Seq(Instructions86) /\ Len(Prologue) = 6
      <4>1. /\ PushReg("RBP") \in Instructions86 /\ MovRegReg("RBP", "RSP") \in Instructions86
            /\ PushReg("RBX") \in Instructions86 /\ PushReg("R12") \in Instructions86
            /\ MovRegReg("R12", "RCX") \in Instructions86 /\ CmpRegImm("R12", 1) \in Instructions86
        BY InstrsAreInstrs DEF Registers
      <4> QED
        BY <4>1, ShortSeqs DEF Prologue
    <3>2. /\ Position(Prologue, 6) \in Nat /\ Prologue[6].size \in 1 .. 10
          /\ Position(Prologue, 6 + 1) = Position(Prologue, 6) + Prologue[6].size
      <4>1. 6 \in 1 .. Len(Prologue)
        BY <3>1
      <4> QED
        BY <3>1, <4>1, PositionStep, SizeOfInstr
    <3> QED
      BY <3>1, <3>2 DEF Bytes
  <2> QED
    BY <2>1
<1> DEFINE p == Bytes(Prologue)
<1>5. ASSUME NEW n \in Int
      PROVE  /\ JumpOffset(p + 6 + n + 5, p, 6) = n + 5
             /\ JumpOffset(p + 6 + n + 5 + i.size, p + 6 + n, 5) = i.size
  <2> HIDE DEF p
  <2> QED
    BY <1>3, <1>4 DEF JumpOffset, p
<1> DEFINE c(body, n) == Prologue \o <<Jle(n + 5)>> \o body \o <<Jmp(i.size)>> \o <<i>> \o Epilogue
<1>6. CASE f.pattern = "FIB"
  <2>1. CompileFunction(f) = c(FibBody, 61)
    <3>1. /\ JumpOffset(p + 6 + 61 + 5, p, 6) = 61 + 5
          /\ JumpOffset(p + 6 + 61 + 5 + i.size, p + 6 + 61, 5) = i.size
      BY <1>5
    <3> QED
      BY <1>2, <1>3, <1>6, <3>1, BytesOfBodies, Zenon DEF CompileFunction
  <2>2. Framed(c(FibBody, 61), Jle(61 + 5), FibBody, 11, Jmp(i.size), i)
    <3>1. Jle(61 + 5) \in Instructions86 /\ Jmp(i.size) \in Instructions86
      BY <1>3, InstrsAreInstrs DEF Registers
    <3> QED
      BY <1>2, <3>1, FibBodyIs, FunctionIsFramed
  <2> DEFINE e == c(FibBody, 61)
  <2> HIDE DEF e
  <2>3. Framed(e, Jle(66), FibBody, 11, Jmp(i.size), i)
    <3>1. 61 + 5 = 66
      OBVIOUS
    <3> QED
      BY <2>2, <3>1 DEF e
  <2>4. e \in Seq(Instructions86)
    BY <2>3 DEF Framed
  <2>5. Emitted[f] = Patched(CompileFunction(f))
    BY DEF Emitted
  <2>6. Emitted[f] = e
    BY <2>1, <2>4, <2>5, PatchedIs DEF e
  <2> QED
    BY <1>6, <2>3, <2>6 DEF i
<1>7. CASE f.pattern = "FACTORIAL"
  <2>1. CompileFunction(f) = c(FactorialBody, 33)
    <3>1. /\ JumpOffset(p + 6 + 33 + 5, p, 6) = 33 + 5
          /\ JumpOffset(p + 6 + 33 + 5 + i.size, p + 6 + 33, 5) = i.size
      BY <1>5
    <3>2. f.pattern # "FIB"
      BY <1>7
    <3> QED
      BY <1>2, <1>3, <3>1, <3>2, BytesOfBodies, Zenon DEF CompileFunction
  <2>2. Framed(c(FactorialBody, 33), Jle(33 + 5), FactorialBody, 6, Jmp(i.size), i)
    <3>1. Jle(33 + 5) \in Instructions86 /\ Jmp(i.size) \in Instructions86
      BY <1>3, InstrsAreInstrs DEF Registers
    <3> QED
      BY <1>2, <3>1, FactorialBodyIs, FunctionIsFramed
  <2> DEFINE e == c(FactorialBody, 33)
  <2> HIDE DEF e
  <2>3. Framed(e, Jle(38), FactorialBody, 6, Jmp(i.size), i)
    <3>1. 33 + 5 = 38
      OBVIOUS
    <3> QED
      BY <2>2, <3>1 DEF e
  <2>4. e \in Seq(Instructions86)
    BY <2>3 DEF Framed
  <2>5. Emitted[f] = Patched(CompileFunction(f))
    BY DEF Emitted
  <2>6. Emitted[f] = e
    BY <2>1, <2>4, <2>5, PatchedIs DEF e
  <2> QED
    BY <1>7, <2>3, <2>6 DEF i
<1> QED
  BY <1>1, <1>6, <1>7 DEF i

--------------------------------------------------------------------------------
(* The code of a function in memory. *)

\* The number of instructions of a function.
LengthOf(f) == IF f.pattern = "FIB" THEN 24 ELSE 19

\* The instructions, as a sequence.
LEMMA EmittedIsSeq ==
  ASSUME NEW f \in Natives
  PROVE  Emitted[f] \in Seq(Instructions86) /\ Len(Emitted[f]) = LengthOf(f) /\ LengthOf(f) \in {19, 24}
<1>1. f.pattern \in {"FIB", "FACTORIAL"}
  BY NativeAssumption
<1>2. CASE f.pattern = "FIB"
  BY <1>2, EmittedIs DEF Framed, LengthOf
<1>3. CASE f.pattern = "FACTORIAL"
  <2>1. f.pattern # "FIB"
    BY <1>3
  <2> QED
    BY <1>3, <2>1, EmittedIs DEF Framed, LengthOf
<1> QED
  BY <1>1, <1>2, <1>3

\* Every instruction has an address of its own, behind that of the one before
\* it, behind the VM's, and small enough for a register.
LEMMA AddressesAre ==
  ASSUME NEW f \in Natives
  PROVE  /\ Address[f] \in [1 .. LengthOf(f) -> Words]
         /\ Address[f][1] = CodeAddress
         /\ \A k \in 2 .. LengthOf(f) : Address[f][k] = Address[f][k - 1] + Emitted[f][k - 1].size
         /\ \A k \in 1 .. LengthOf(f) : Address[f][k] > ReturnTo
         /\ \A j, k \in 1 .. LengthOf(f) : j < k => Address[f][j] < Address[f][k]
<1> DEFINE e == Emitted[f]
           n == LengthOf(f)
           A == Address[f]
<1>1. e \in Seq(Instructions86) /\ Len(e) = n /\ n \in {19, 24}
  BY EmittedIsSeq
<1>2. A = [k \in 1 .. n |-> CodeAddress + Position(e, k)]
  <2>1. DOMAIN e = 1 .. n
    BY <1>1
  <2>2. A = [k \in DOMAIN e |-> CodeAddress + Position(e, k)]
    BY DEF Address
  <2> QED
    BY <2>1, <2>2
<1>3. CodeAddress \in Nat /\ CodeAddress > ReturnTo /\ ReturnTo \in Words /\ CodeAddress + Bytes(e) \in Words
  BY NativeAssumption, CodeAssumption
<1> HIDE DEF e, n, A
<1>4. ASSUME NEW k \in 1 .. n
      PROVE  /\ Position(e, k) \in Nat /\ e[k].size \in 1 .. 10
             /\ Position(e, k + 1) = Position(e, k) + e[k].size
  <2>1. k \in 1 .. Len(e)
    BY <1>1
  <2> QED
    BY <1>1, <2>1, SizeOfInstr, PositionStep
<1>5. ASSUME NEW j \in 1 .. n, NEW k \in 1 .. n + 1, j < k
      PROVE  Position(e, j) + e[j].size <= Position(e, k)
  <2>1. j \in 1 .. Len(e) /\ k \in 1 .. Len(e) + 1
    BY <1>1
  <2> QED
    BY <1>1, <1>5, <2>1, PositionsRise
<1>6. ASSUME NEW k \in 1 .. n PROVE A[k] \in Words /\ A[k] > ReturnTo
  <2>1. k < n + 1 /\ n + 1 \in 1 .. n + 1 /\ Bytes(e) = Position(e, n + 1)
    BY <1>1 DEF Bytes
  <2>2. Position(e, k) + e[k].size <= Bytes(e)
    BY <1>5, <2>1
  <2>3. Bytes(e) \in Nat
    <3>1. n \in 1 .. n /\ n \in Int
      BY <1>1
    <3>2. Position(e, n) \in Nat /\ e[n].size \in 1 .. 10 /\ Position(e, n + 1) = Position(e, n) + e[n].size
      BY <1>4, <3>1
    <3> QED
      BY <2>1, <3>2
  <2>4. A[k] = CodeAddress + Position(e, k)
    BY <1>2
  <2> DEFINE b == Bytes(e)
             x == Position(e, k)
             z == e[k].size
  <2>5. b \in Nat /\ x \in Nat /\ z \in 1 .. 10 /\ x + z <= b /\ A[k] = CodeAddress + x /\ CodeAddress + b \in Words
    BY <1>3, <1>4, <2>2, <2>3, <2>4
  <2> HIDE DEF b, x, z
  <2> QED
    BY <1>3, <2>5, HalfIsPositive DEF Words
<1>7. A \in [1 .. n -> Words]
  <2>1. \A k \in 1 .. n : CodeAddress + Position(e, k) \in Words
    BY <1>2, <1>6
  <2> QED
    BY <1>2, <2>1
<1>8. A[1] = CodeAddress
  <2>1. 1 \in 1 .. n
    BY <1>1
  <2> QED
    BY <1>2, <1>3, <2>1, PositionStart
<1>9. ASSUME NEW k \in 2 .. n PROVE A[k] = A[k - 1] + e[k - 1].size
  <2>1. k - 1 \in 1 .. n /\ k \in 1 .. n /\ (k - 1) + 1 = k
    BY <1>1
  <2>2. /\ Position(e, k - 1) \in Nat /\ e[k - 1].size \in 1 .. 10
        /\ Position(e, (k - 1) + 1) = Position(e, k - 1) + e[k - 1].size
    BY <1>4, <2>1
  <2>3. A[k] = CodeAddress + Position(e, k) /\ A[k - 1] = CodeAddress + Position(e, k - 1)
    BY <1>2, <2>1
  <2> QED
    BY <1>3, <2>1, <2>2, <2>3
<1>10. ASSUME NEW j \in 1 .. n, NEW k \in 1 .. n, j < k PROVE A[j] < A[k]
  <2>1. k \in 1 .. n + 1
    BY <1>1
  <2>2. Position(e, j) + e[j].size <= Position(e, k) /\ Position(e, j) \in Nat /\ Position(e, k) \in Nat
        /\ e[j].size \in 1 .. 10
    BY <1>4, <1>5, <1>10, <2>1
  <2>3. A[j] = CodeAddress + Position(e, j) /\ A[k] = CodeAddress + Position(e, k)
    BY <1>2
  <2> QED
    BY <1>3, <2>2, <2>3
<1> QED
  BY <1>6, <1>7, <1>8, <1>9, <1>10 DEF e, n, A

\* What is at an address.
LEMMA BlocksAre ==
  ASSUME NEW f \in Natives, NEW k \in 1 .. LengthOf(f)
  PROVE  Address[f][k] \in DOMAIN Blocks[f] /\ Blocks[f][Address[f][k]] = Emitted[f][k]
<1> DEFINE e == Emitted[f]
           n == LengthOf(f)
           A == Address[f]
           B == {A[j] : j \in DOMAIN e}
<1>1. DOMAIN e = 1 .. n /\ n \in {19, 24}
  BY EmittedIsSeq
<1>2. Blocks[f] = [a \in B |-> e[CHOOSE j \in DOMAIN e : A[j] = a]]
  BY DEF Blocks
<1>3. A[k] \in B
  BY <1>1
<1>4. \A j \in 1 .. n : A[j] = A[k] => j = k
  <2>1. A \in [1 .. n -> Words] /\ \A i, j \in 1 .. n : i < j => A[i] < A[j]
    BY AddressesAre
  <2> HIDE DEF A
  <2> QED
    BY <1>1, <2>1, HalfIsPositive DEF Words
<1> HIDE DEF A, n, B
<1>5. (CHOOSE j \in DOMAIN e : A[j] = A[k]) = k
  BY <1>1, <1>4 DEF n
<1>6. Blocks[f][A[k]] = e[k] /\ A[k] \in DOMAIN Blocks[f]
  BY <1>2, <1>3, <1>5
<1> QED
  BY <1>6 DEF A

\* The instructions of a function, counted from the first and from the last.
LEMMA CodeIs ==
  ASSUME NEW f \in Natives, NEW e, NEW n, e = Emitted[f], n = LengthOf(f)
  PROVE  /\ n \in {19, 24} /\ (n = 24 <=> f.pattern = "FIB") /\ (n = 19 <=> f.pattern = "FACTORIAL")
         /\ e[1] = PushReg("RBP") /\ e[2] = MovRegReg("RBP", "RSP") /\ e[3] = PushReg("RBX")
         /\ e[4] = PushReg("R12") /\ e[5] = MovRegReg("R12", "RCX") /\ e[6] = CmpRegImm("R12", 1)
         /\ e[7] = Jle(IF n = 24 THEN 66 ELSE 38)
         /\ e[8] = PushReg("R12") /\ e[9] = Lea("RCX", "R12", -1)
         /\ e[10] = MovRegImm("RAX", CodeAddress) /\ e[11] = CallReg("RAX")
         /\ n = 24 => /\ e[12] = MovRegReg("RBX", "RAX") /\ e[13] = MovRegMem("RCX", "RBP", -24)
                      /\ e[14] = Lea("RCX", "RCX", -2) /\ e[15] = MovRegImm("RAX", CodeAddress)
                      /\ e[16] = CallReg("RAX") /\ e[17] = AddRegReg("RAX", "RBX")
         /\ n = 19 => e[12] = ImulRegReg("RAX", "R12")
         /\ e[n - 6] = AddRegImm("RSP", 8) /\ e[n - 5] = Jmp(BaseInstr(f).size)
         /\ e[n - 4] = BaseInstr(f) /\ e[n - 3] = PopReg("R12") /\ e[n - 2] = PopReg("RBX")
         /\ e[n - 1] = PopReg("RBP") /\ e[n] = RetInstr
<1>1. f.pattern \in {"FIB", "FACTORIAL"} /\ "FIB" # "FACTORIAL"
  BY NativeAssumption
<1>2. CASE f.pattern = "FIB"
  <2>1. n = 24
    BY <1>2 DEF LengthOf
  <2>2. Framed(e, Jle(66), FibBody, 11, Jmp(BaseInstr(f).size), BaseInstr(f))
    BY <1>2, EmittedIs
  <2>3. /\ \A i \in 1 .. 11 : e[7 + i] = FibBody[i]
        /\ e[11 + 8] = Jmp(BaseInstr(f).size) /\ e[11 + 9] = BaseInstr(f)
        /\ e[11 + 10] = PopReg("R12") /\ e[11 + 11] = PopReg("RBX") /\ e[11 + 12] = PopReg("RBP")
        /\ e[11 + 13] = RetInstr
    BY <2>2 DEF Framed
  <2>4. /\ e[8] = FibBody[1] /\ e[9] = FibBody[2] /\ e[10] = FibBody[3] /\ e[11] = FibBody[4]
        /\ e[12] = FibBody[5] /\ e[13] = FibBody[6] /\ e[14] = FibBody[7] /\ e[15] = FibBody[8]
        /\ e[16] = FibBody[9] /\ e[17] = FibBody[10] /\ e[18] = FibBody[11]
    BY <2>3
  <2>5. /\ e[18] = AddRegImm("RSP", 8) /\ e[19] = Jmp(BaseInstr(f).size) /\ e[20] = BaseInstr(f)
        /\ e[21] = PopReg("R12") /\ e[22] = PopReg("RBX") /\ e[23] = PopReg("RBP") /\ e[24] = RetInstr
    BY <2>3, <2>4, FibBodyIs
  <2>6. n - 6 = 18 /\ n - 5 = 19 /\ n - 4 = 20 /\ n - 3 = 21 /\ n - 2 = 22 /\ n - 1 = 23
    BY <2>1
  <2>7. /\ e[n - 6] = AddRegImm("RSP", 8) /\ e[n - 5] = Jmp(BaseInstr(f).size)
        /\ e[n - 4] = BaseInstr(f) /\ e[n - 3] = PopReg("R12") /\ e[n - 2] = PopReg("RBX")
        /\ e[n - 1] = PopReg("RBP") /\ e[n] = RetInstr
    BY <2>1, <2>5, <2>6
  <2>8. /\ e[8] = PushReg("R12") /\ e[9] = Lea("RCX", "R12", -1)
        /\ e[10] = MovRegImm("RAX", CodeAddress) /\ e[11] = CallReg("RAX")
        /\ e[12] = MovRegReg("RBX", "RAX") /\ e[13] = MovRegMem("RCX", "RBP", -24)
        /\ e[14] = Lea("RCX", "RCX", -2) /\ e[15] = MovRegImm("RAX", CodeAddress)
        /\ e[16] = CallReg("RAX") /\ e[17] = AddRegReg("RAX", "RBX")
    BY <2>4, FibBodyIs
  <2>9. /\ e[1] = PushReg("RBP") /\ e[2] = MovRegReg("RBP", "RSP") /\ e[3] = PushReg("RBX")
        /\ e[4] = PushReg("R12") /\ e[5] = MovRegReg("R12", "RCX") /\ e[6] = CmpRegImm("R12", 1)
        /\ e[7] = Jle(66)
    BY <2>2 DEF Framed
  <2> QED
    BY <1>1, <1>2, <2>1, <2>7, <2>8, <2>9
<1>3. CASE f.pattern = "FACTORIAL"
  <2>1. n = 19
    BY <1>1, <1>3 DEF LengthOf
  <2>2. Framed(e, Jle(38), FactorialBody, 6, Jmp(BaseInstr(f).size), BaseInstr(f))
    BY <1>3, EmittedIs
  <2>3. /\ \A i \in 1 .. 6 : e[7 + i] = FactorialBody[i]
        /\ e[6 + 8] = Jmp(BaseInstr(f).size) /\ e[6 + 9] = BaseInstr(f)
        /\ e[6 + 10] = PopReg("R12") /\ e[6 + 11] = PopReg("RBX") /\ e[6 + 12] = PopReg("RBP")
        /\ e[6 + 13] = RetInstr
    BY <2>2 DEF Framed
  <2>4. /\ e[8] = FactorialBody[1] /\ e[9] = FactorialBody[2] /\ e[10] = FactorialBody[3]
        /\ e[11] = FactorialBody[4] /\ e[12] = FactorialBody[5] /\ e[13] = FactorialBody[6]
    BY <2>3
  <2>5. /\ e[13] = AddRegImm("RSP", 8) /\ e[14] = Jmp(BaseInstr(f).size) /\ e[15] = BaseInstr(f)
        /\ e[16] = PopReg("R12") /\ e[17] = PopReg("RBX") /\ e[18] = PopReg("RBP") /\ e[19] = RetInstr
    BY <2>3, <2>4, FactorialBodyIs
  <2>6. n - 6 = 13 /\ n - 5 = 14 /\ n - 4 = 15 /\ n - 3 = 16 /\ n - 2 = 17 /\ n - 1 = 18
    BY <2>1
  <2>7. /\ e[n - 6] = AddRegImm("RSP", 8) /\ e[n - 5] = Jmp(BaseInstr(f).size)
        /\ e[n - 4] = BaseInstr(f) /\ e[n - 3] = PopReg("R12") /\ e[n - 2] = PopReg("RBX")
        /\ e[n - 1] = PopReg("RBP") /\ e[n] = RetInstr
    BY <2>1, <2>5, <2>6
  <2>8. /\ e[8] = PushReg("R12") /\ e[9] = Lea("RCX", "R12", -1)
        /\ e[10] = MovRegImm("RAX", CodeAddress) /\ e[11] = CallReg("RAX")
        /\ e[12] = ImulRegReg("RAX", "R12")
    BY <2>4, FactorialBodyIs
  <2>9. /\ e[1] = PushReg("RBP") /\ e[2] = MovRegReg("RBP", "RSP") /\ e[3] = PushReg("RBX")
        /\ e[4] = PushReg("R12") /\ e[5] = MovRegReg("R12", "RCX") /\ e[6] = CmpRegImm("R12", 1)
        /\ e[7] = Jle(38)
    BY <2>2 DEF Framed
  <2> QED
    BY <1>1, <1>3, <2>1, <2>7, <2>8, <2>9
<1> QED
  BY <1>1, <1>2, <1>3

\* Where the jumps go: over the body to the base case, over that to the epilogue.
LEMMA JumpsLand ==
  ASSUME NEW f \in Natives, NEW n, n = LengthOf(f), NEW A, A = Address[f]
  PROVE  /\ A[7] + 6 + (IF n = 24 THEN 66 ELSE 38) = A[n - 4]
         /\ A[n - 5] + 5 + BaseInstr(f).size = A[n - 3]
<1> DEFINE e == Emitted[f]
<1>1. /\ A \in [1 .. n -> Words] /\ n \in {19, 24}
      /\ \A k \in 2 .. n : A[k] = A[k - 1] + e[k - 1].size
  BY AddressesAre, EmittedIsSeq
<1> DEFINE z == BaseInstr(f).size
<1>2. z \in 1 .. 10
  <2>1. n - 4 \in 1 .. n
    BY <1>1
  <2>2. e \in Seq(Instructions86) /\ Len(e) = n
    BY EmittedIsSeq
  <2>3. e[n - 4].size \in 1 .. 10
    BY <2>1, <2>2, SizeOfInstr
  <2>4. e[n - 4] = BaseInstr(f)
    BY CodeIs
  <2> QED
    BY <2>3, <2>4
<1>3. e[7].size = 6 /\ e[n - 5].size = 5 /\ e[n - 4].size = z
  <2>1. /\ e[7] = Jle(IF n = 24 THEN 66 ELSE 38) /\ e[n - 5] = Jmp(BaseInstr(f).size)
        /\ e[n - 4] = BaseInstr(f)
    BY CodeIs
  <2> QED
    BY <2>1 DEF Jle, Jmp
<1>4. e[8].size = 2 /\ e[9].size = 8 /\ e[10].size = 10 /\ e[11].size = 2
  <2>1. /\ e[8] = PushReg("R12") /\ e[9] = Lea("RCX", "R12", -1)
        /\ e[10] = MovRegImm("RAX", CodeAddress) /\ e[11] = CallReg("RAX")
    BY CodeIs
  <2> QED
    BY <2>1, Sizes
<1> DEFINE fib  == /\ e[12] = MovRegReg("RBX", "RAX") /\ e[13] = MovRegMem("RCX", "RBP", -24)
                   /\ e[14] = Lea("RCX", "RCX", -2) /\ e[15] = MovRegImm("RAX", CodeAddress)
                   /\ e[16] = CallReg("RAX") /\ e[17] = AddRegReg("RAX", "RBX")
           fact == e[12] = ImulRegReg("RAX", "R12")
<1>5. (n = 24 => fib) /\ (n = 19 => fact) /\ e[n - 6] = AddRegImm("RSP", 8)
  BY CodeIs
<1>6. CASE n = 24
  <2>1. /\ e[12].size = 3 /\ e[13].size = 7 /\ e[14].size = 7 /\ e[15].size = 10
        /\ e[16].size = 2 /\ e[17].size = 3 /\ e[18].size = 7 /\ e[19].size = 5 /\ e[20].size = z
    <3>1. fib /\ e[n - 6] = AddRegImm("RSP", 8)
      BY <1>6, <1>5
    <3>2. n - 6 = 18 /\ n - 5 = 19 /\ n - 4 = 20
      BY <1>6
    <3> QED
      BY <1>3, <3>1, <3>2, Sizes
  <2> HIDE DEF e, z
  <2>2. \A k \in 2 .. 24 : A[k] = A[k - 1] + e[k - 1].size
    BY <1>1, <1>6
  <2>3. A[8] = A[7] + 6 /\ A[9] = A[8] + 2 /\ A[10] = A[9] + 8 /\ A[11] = A[10] + 10 /\ A[12] = A[11] + 2
    BY <1>3, <1>4, <2>2
  <2>4. A[13] = A[12] + 3 /\ A[14] = A[13] + 7 /\ A[15] = A[14] + 7 /\ A[16] = A[15] + 10
    BY <2>1, <2>2
  <2>5. A[17] = A[16] + 2 /\ A[18] = A[17] + 3 /\ A[19] = A[18] + 7 /\ A[20] = A[19] + 5
    BY <2>1, <2>2
  <2>6. A[21] = A[20] + z
    BY <2>1, <2>2
  <2>7. \A k \in 1 .. 24 : A[k] \in Int
    BY <1>1, <1>6, HalfIsPositive DEF Words
  <2>8. A[7] + 6 + 66 = A[20]
    <3>1. A[7] \in Int /\ A[8] \in Int
      BY <2>7
    <3> QED
      BY <3>1, <2>3, <2>4, <2>5
  <2>9. A[19] + 5 + z = A[21]
    <3>1. A[19] \in Int
      BY <2>7
    <3> QED
      BY <1>2, <2>5, <2>6, <3>1
  <2>10. n - 5 = 19 /\ n - 4 = 20 /\ n - 3 = 21
    BY <1>6
  <2> QED
    BY <1>6, <2>8, <2>9, <2>10 DEF z
<1>7. CASE n = 19
  <2>1. e[12].size = 4 /\ e[13].size = 7 /\ e[14].size = 5 /\ e[15].size = z
    <3>1. fact /\ e[n - 6] = AddRegImm("RSP", 8)
      BY <1>7, <1>5
    <3>2. n - 6 = 13 /\ n - 5 = 14 /\ n - 4 = 15
      BY <1>7
    <3> QED
      BY <1>3, <3>1, <3>2, Sizes
  <2> HIDE DEF e, z
  <2>2. \A k \in 2 .. 19 : A[k] = A[k - 1] + e[k - 1].size
    BY <1>1, <1>7
  <2>3. A[8] = A[7] + 6 /\ A[9] = A[8] + 2 /\ A[10] = A[9] + 8 /\ A[11] = A[10] + 10 /\ A[12] = A[11] + 2
    BY <1>3, <1>4, <2>2
  <2>4. A[13] = A[12] + 4 /\ A[14] = A[13] + 7 /\ A[15] = A[14] + 5 /\ A[16] = A[15] + z
    BY <2>1, <2>2
  <2>5. \A k \in 1 .. 19 : A[k] \in Int
    BY <1>1, <1>7, HalfIsPositive DEF Words
  <2>6. A[7] + 6 + 38 = A[15]
    <3>1. A[7] \in Int /\ A[8] \in Int
      BY <2>5
    <3> QED
      BY <3>1, <2>3, <2>4
  <2>7. A[14] + 5 + z = A[16]
    <3>1. A[14] \in Int
      BY <2>5
    <3> QED
      BY <1>2, <2>4, <3>1
  <2>8. n - 5 = 14 /\ n - 4 = 15 /\ n - 3 = 16
    BY <1>7
  <2> QED
    BY <1>7, <2>6, <2>7, <2>8 DEF z
<1> QED
  BY <1>1, <1>6, <1>7

=================================================================================
