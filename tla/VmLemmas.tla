-------------------------------- MODULE VmLemmas ---------------------------------
(****************************************************************************)
(* What the proofs about the virtual machine keep needing: sequences,       *)
(* finite sets of indices, the results of the operators, what linking makes *)
(* of the code, and the fusion of updates.                                  *)
(****************************************************************************)
EXTENDS Vm, Peephole, SequenceTheorems, FunctionTheorems, FiniteSetTheorems, WellFoundedInduction,
        TLAPS

(* Sequences whose elements are in no given set. *)

\* A sequence belongs to the sequences over its own elements.
LEMMA SeqOfElements ==
  ASSUME NEW s, IsSeq(s)
  PROVE  s \in Seq({s[i] : i \in 1 .. Len(s)})
<1>1. s \in [1 .. Len(s) -> {s[i] : i \in 1 .. Len(s)}]
  BY DEF IsSeq
<1> QED
  BY <1>1 DEF IsSeq

\* A sequence over any set is one by its elements.
LEMMA SeqIsSeq ==
  ASSUME NEW S, NEW s \in Seq(S)
  PROVE  IsSeq(s)
BY LenProperties DEF IsSeq

\* A function over 1 .. n is a sequence of length n.
LEMMA SeqFromFunction ==
  ASSUME NEW n \in Nat, NEW s, s = [i \in 1 .. n |-> s[i]]
  PROVE  IsSeq(s) /\ Len(s) = n
<1>1. s \in Seq({s[i] : i \in 1 .. n})
  BY SMT
<1>2. Len(s) = n
  BY <1>1, LenProperties, SMT
<1> QED
  BY <1>2 DEF IsSeq

\* The empty sequence.
LEMMA EmptyIsSeq == IsSeq(<<>>) /\ Len(<<>>) = 0
  BY DEF IsSeq

\* Append adds one element at the end.
LEMMA AppendIsSeq ==
  ASSUME NEW s, IsSeq(s), NEW x
  PROVE  /\ IsSeq(Append(s, x))
         /\ Len(Append(s, x)) = Len(s) + 1
         /\ Append(s, x)[Len(s) + 1] = x
         /\ \A i \in 1 .. Len(s) : Append(s, x)[i] = s[i]
<1> DEFINE T == {s[i] : i \in 1 .. Len(s)}
           S == T \cup {x}
<1>1. s \in Seq(S)
  <2>1. s \in Seq(T)
    BY SeqOfElements
  <2> HIDE DEF T
  <2>2. T \subseteq S
    OBVIOUS
  <2> HIDE DEF S
  <2> QED
    BY <2>1, <2>2, SeqMonotonic
<1>2. Append(s, x) \in Seq(S)
  BY <1>1
<1>3. Len(Append(s, x)) = Len(s) + 1 /\ Append(s, x)[Len(s) + 1] = x
      /\ \A i \in 1 .. Len(s) : Append(s, x)[i] = s[i]
  BY <1>1, SMT
<1>4. IsSeq(Append(s, x))
  BY <1>2, SeqIsSeq
<1> QED
  BY <1>3, <1>4

\* A prefix of a sequence.
LEMMA PrefixIsSeq ==
  ASSUME NEW s, IsSeq(s), NEW n \in 0 .. Len(s)
  PROVE  /\ IsSeq(SubSeq(s, 1, n))
         /\ Len(SubSeq(s, 1, n)) = n
         /\ \A i \in 1 .. n : SubSeq(s, 1, n)[i] = s[i]
<1> DEFINE S == {s[i] : i \in 1 .. Len(s)}
<1>1. n \in Int /\ \A i \in 1 .. n : s[i] \in S
  BY DEF IsSeq
<1>2. /\ SubSeq(s, 1, n) \in Seq(S)
      /\ Len(SubSeq(s, 1, n)) = n
      /\ \A i \in 1 .. n : SubSeq(s, 1, n)[i] = s[i]
  BY <1>1, SubSeqProperties, SMT DEF IsSeq
<1> QED
  BY <1>2, SeqIsSeq

\* Sequences with the same length and elements are equal.
LEMMA SeqExtensional ==
  ASSUME NEW s, IsSeq(s), NEW u, IsSeq(u), Len(s) = Len(u), \A i \in 1 .. Len(s) : s[i] = u[i]
  PROVE  s = u
  BY SMT DEF IsSeq

----------------------------------------------------------------------------------
(* The operators of the language return a value that is no function, or one *)
(* of the errors.                                                           *)

Plainly(v) == v.t \in {"INT", "FLOAT", "BOOL", "STRING"} \/ (v.t = "ERROR" /\ v.e \in Errors)

\* The numeric cases of an operator return a number or a TypeError.
LEMMA NumericResultIsPlain ==
  ASSUME NEW l, NEW r, NEW i, NEW f
  PROVE  Plainly(NumericResult(l, r, i, f))
BY DEF Plainly, NumericResult, PyInt, PyFloat, TypeError, Errors

\* The arithmetic operators never return a function or None.
LEMMA ArithmeticIsPlain ==
  ASSUME NEW l, NEW r
  PROVE  /\ Plainly(BinaryAdd(l, r)) /\ Plainly(BinarySub(l, r)) /\ Plainly(BinaryMul(l, r))
         /\ Plainly(BinaryFloorDiv(l, r)) /\ Plainly(BinaryMod(l, r)) /\ Plainly(Product(l, r))
<1>1. \A s : Plainly(PyStr(s))
  BY DEF Plainly, PyStr
<1>2. Plainly(ZeroDivisionError)
  BY DEF Plainly, ZeroDivisionError, Errors
<1>3. Plainly(BinaryAdd(l, r))
  BY <1>1, NumericResultIsPlain DEF BinaryAdd
<1>4. Plainly(BinarySub(l, r))
  BY NumericResultIsPlain DEF BinarySub
<1>5. Plainly(Product(l, r))
  BY NumericResultIsPlain DEF Product
<1>6. Plainly(BinaryMul(l, r))
  BY <1>1, <1>5 DEF BinaryMul
<1>7. Plainly(BinaryFloorDiv(l, r))
  BY <1>2, NumericResultIsPlain DEF BinaryFloorDiv
<1>8. Plainly(BinaryMod(l, r))
  BY <1>2, NumericResultIsPlain DEF BinaryMod
<1> QED
  BY <1>3, <1>4, <1>5, <1>6, <1>7, <1>8

\* The comparisons return a bool or a TypeError.
LEMMA ComparisonIsPlain ==
  ASSUME NEW l, NEW r
  PROVE  /\ Plainly(CompareEq(l, r)) /\ Plainly(CompareNeq(l, r)) /\ Plainly(CompareLt(l, r))
         /\ Plainly(CompareGt(l, r)) /\ Plainly(CompareLte(l, r)) /\ Plainly(CompareGte(l, r))
<1>1. \A b : Plainly(PyBool(b))
  BY DEF Plainly, PyBool
<1>2. Plainly(TypeError)
  BY DEF Plainly, TypeError, Errors
<1>3. Plainly(Less(l, r)) /\ Plainly(Less(r, l))
  BY <1>1, <1>2 DEF Less
<1>4. Plainly(NotLess(l, r)) /\ Plainly(NotLess(r, l))
  BY <1>1, <1>2 DEF NotLess
<1> QED
  BY <1>1, <1>3, <1>4 DEF CompareEq, CompareNeq, CompareLt, CompareGt, CompareLte, CompareGte

\* So do all operator instructions, by opcode.
LEMMA ResultsArePlain ==
  ASSUME NEW l, NEW r
  PROVE  /\ \A op \in Binary : Plainly(BinaryResult(op, l, r))
         /\ \A op \in Unary : Plainly(UnaryResult(op, l))
         /\ \A op \in InplaceName : Plainly(InplaceResult(op, l, r))
<1>1. ASSUME NEW op \in Binary PROVE Plainly(BinaryResult(op, l, r))
  BY ArithmeticIsPlain, ComparisonIsPlain DEF Binary, BinaryArith, Comparison, BinaryResult
<1>2. ASSUME NEW op \in Unary PROVE Plainly(UnaryResult(op, l))
  BY DEF Unary, UnaryResult, UnaryNeg, UnaryNot, PyInt, PyFloat, PyBool, TypeError, Plainly, Errors
<1>3. ASSUME NEW op \in InplaceName PROVE Plainly(InplaceResult(op, l, r))
  BY ArithmeticIsPlain DEF InplaceName, InplaceResult
<1> QED
  BY <1>1, <1>2, <1>3


----------------------------------------------------------------------------------
(* The names pool after linking. *)

\* Two sequences in a row.
LEMMA ConcatIsSeq ==
  ASSUME NEW s, IsSeq(s), NEW u, IsSeq(u)
  PROVE  /\ IsSeq(s \o u)
         /\ Len(s \o u) = Len(s) + Len(u)
         /\ \A i \in 1 .. Len(s) : (s \o u)[i] = s[i]
         /\ \A i \in 1 .. Len(u) : (s \o u)[Len(s) + i] = u[i]
<1> DEFINE S == {s[i] : i \in 1 .. Len(s)}
           U == {u[i] : i \in 1 .. Len(u)}
           T == S \cup U
<1>1. s \in Seq(S) /\ u \in Seq(U)
  BY SeqOfElements
<1>2. S \subseteq T /\ U \subseteq T
  OBVIOUS
<1> HIDE DEF S, U, T
<1>3. s \in Seq(T) /\ u \in Seq(T)
  BY <1>1, <1>2, SeqMonotonic
<1>4. /\ s \o u \in Seq(T) /\ Len(s \o u) = Len(s) + Len(u)
      /\ \A i \in 1 .. Len(s) + Len(u) :
           (s \o u)[i] = IF i <= Len(s) THEN s[i] ELSE u[i - Len(s)]
  BY <1>3, ConcatProperties
<1>5. Len(s) \in Nat /\ Len(u) \in Nat
  BY DEF IsSeq
<1>6. \A i \in 1 .. Len(s) : (s \o u)[i] = s[i]
  BY <1>4, <1>5
<1>7. ASSUME NEW i \in 1 .. Len(u) PROVE (s \o u)[Len(s) + i] = u[i]
  <2>1. Len(s) + i \in 1 .. Len(s) + Len(u) /\ ~(Len(s) + i <= Len(s)) /\ Len(s) + i - Len(s) = i
    BY <1>5
  <2> QED
    BY <1>4, <2>1
<1>8. IsSeq(s \o u)
  BY <1>4, SeqIsSeq
<1> QED
  BY <1>4, <1>6, <1>7, <1>8

\* The missing names have numbers, and there are finitely many.
LEMMA MissingIsFinite ==
  ASSUME NEW names, NEW added, NEW n \in Nat
  PROVE  /\ Missing(names, added, n) \subseteq 1 .. n
         /\ IsFiniteSet(Missing(names, added, n))
         /\ Cardinality(Missing(names, added, n)) \in Nat
<1>1. Missing(names, added, n) \subseteq 1 .. n
  BY DEF Missing
<1>2. IsFiniteSet(1 .. n)
  BY FS_Interval
<1>3. IsFiniteSet(Missing(names, added, n))
  BY <1>1, <1>2, FS_Subset
<1> QED
  BY <1>1, <1>3, FS_CardinalityType

\* Every place in the appended part of the pool is some missing name's: the
\* number of missing names up to each of them is a different one.
LEMMA RanksAreOnto ==
  ASSUME NEW names, NEW added, NEW n \in Nat,
         NEW r \in 1 .. Cardinality(Missing(names, added, n))
  PROVE  \E k \in Missing(names, added, n) : Cardinality(Missing(names, added, k)) = r
<1> DEFINE M(k)    == Missing(names, added, k)
           missing == M(n)
           size    == Cardinality(missing)
           rank    == [k \in missing |-> Cardinality(M(k))]
<1>1. missing \subseteq 1 .. n /\ IsFiniteSet(missing) /\ size \in Nat
  BY MissingIsFinite
<1>2. ASSUME NEW k \in missing
      PROVE  /\ k \in M(k) /\ k \in Nat /\ IsFiniteSet(M(k)) /\ Cardinality(M(k)) \in 1 .. size
  <2>1. k \in 1 .. n /\ k \in Nat
    BY <1>1
  <2>2. k \in M(k) /\ M(k) \in SUBSET missing
    BY <2>1 DEF Missing
  <2>3. IsFiniteSet(M(k)) /\ Cardinality(M(k)) \in Nat
    BY <2>1, MissingIsFinite
  <2>4. Cardinality(M(k)) <= size
    BY <1>1, <2>2, FS_Subset
  <2>5. Cardinality(M(k)) # 0
    BY <2>2, <2>3, FS_EmptySet
  <2> QED
    BY <1>1, <2>1, <2>2, <2>3, <2>4, <2>5
<1>3. ASSUME NEW k \in missing, NEW l \in missing, k < l
      PROVE  Cardinality(M(k)) # Cardinality(M(l))
  <2>1. M(k) \in SUBSET M(l) /\ l \notin M(k) /\ l \in M(l)
    BY <1>2, <1>3 DEF Missing
  <2> QED
    BY <1>2, <2>1, FS_Subset
<1>4. rank \in [missing -> 1 .. size]
  BY <1>2
<1>5. ASSUME NEW k \in missing, NEW l \in missing, rank[k] = rank[l] PROVE k = l
  <2>1. k \in Nat /\ l \in Nat /\ Cardinality(M(k)) = Cardinality(M(l))
    BY <1>2, <1>5
  <2>2. k < l \/ l < k \/ k = l
    BY <2>1
  <2> QED
    BY <1>3, <2>1, <2>2
<1>6. rank \in Injection(missing, 1 .. size)
  BY <1>4, <1>5, Fun_IsInj
<1>7. IsFiniteSet(1 .. size) /\ Cardinality(1 .. size) = size
  BY <1>1, FS_Interval
<1>8. rank \in Surjection(missing, 1 .. size)
  <2>1. Cardinality(missing) = Cardinality(1 .. size)
    BY <1>7
  <2> HIDE DEF size, rank, missing
  <2> QED
    BY <1>6, <1>7, <2>1, FS_Injection
<1> HIDE DEF size, rank, missing
<1>9. \E k \in missing : rank[k] = r
  <2>1. \A t \in 1 .. size : \E k \in missing : rank[k] = t
    BY <1>8, Fun_SurjectionProperties
  <2> QED
    BY <2>1 DEF size, missing
<1> QED
  BY <1>9 DEF rank, missing

\* The merged pool: names first, then names of added, and no name is left out.
LEMMA MergedNamesAreBoth ==
  ASSUME NEW names, IsSeq(names), NEW added, IsSeq(added)
  PROVE  /\ IsSeq(MergedNames(names, added)) /\ Len(MergedNames(names, added)) >= Len(names)
         /\ \A i \in 1 .. Len(names) : MergedNames(names, added)[i] = names[i]
         /\ \A i \in 1 .. Len(MergedNames(names, added)) :
              i > Len(names) => \E k \in 1 .. Len(added) : MergedNames(names, added)[i] = added[k]
         /\ \A k \in 1 .. Len(added) :
              \E i \in 1 .. Len(MergedNames(names, added)) : MergedNames(names, added)[i] = added[k]
<1> DEFINE missing == Missing(names, added, Len(added))
           size    == Cardinality(missing)
           Rank(k) == Cardinality(Missing(names, added, k))
           pick    == [r \in 1 .. size |-> CHOOSE k \in missing : Rank(k) = r]
           fresh   == [r \in 1 .. size |-> added[CHOOSE k \in missing : Rank(k) = r]]
           merged  == names \o fresh
<1>1. Len(added) \in Nat /\ Len(names) \in Nat
  BY DEF IsSeq
<1>2. missing \subseteq 1 .. Len(added) /\ IsFiniteSet(missing) /\ size \in Nat
  BY <1>1, MissingIsFinite
<1>3. ASSUME NEW r \in 1 .. size
      PROVE  pick[r] \in missing /\ Rank(pick[r]) = r /\ fresh[r] = added[pick[r]]
  <2>1. \E k \in missing : Rank(k) = r
    BY <1>1, RanksAreOnto
  <2> QED
    BY <2>1
<1>4. IsSeq(fresh) /\ Len(fresh) = size
  <2>1. fresh = [r \in 1 .. size |-> fresh[r]]
    OBVIOUS
  <2> HIDE DEF fresh
  <2> QED
    BY <1>2, <2>1, SeqFromFunction
<1>5. merged = MergedNames(names, added)
  BY DEF MergedNames
<1>6. /\ IsSeq(merged) /\ Len(merged) = Len(names) + size
      /\ \A i \in 1 .. Len(names) : merged[i] = names[i]
      /\ \A i \in 1 .. size : merged[Len(names) + i] = fresh[i]
  <2> HIDE DEF fresh, size
  <2>1. /\ IsSeq(names \o fresh) /\ Len(names \o fresh) = Len(names) + Len(fresh)
        /\ \A i \in 1 .. Len(names) : (names \o fresh)[i] = names[i]
        /\ \A i \in 1 .. Len(fresh) : (names \o fresh)[Len(names) + i] = fresh[i]
    <3>1. IsSeq(fresh)
      BY <1>4
    <3> QED
      BY <3>1, ConcatIsSeq
  <2> QED
    BY <1>4, <2>1
<1>7. ASSUME NEW k \in 1 .. Len(added) PROVE \E i \in 1 .. Len(merged) : merged[i] = added[k]
  <2>1. CASE k \notin missing
    <3>1. PICK i \in 1 .. Len(names) : names[i] = added[k]
      BY <2>1 DEF Missing
    <3>2. i \in 1 .. Len(merged)
      BY <1>1, <1>2, <1>6
    <3> QED
      BY <1>6, <3>1, <3>2
  <2>2. CASE k \in missing
    <3> DEFINE r == Rank(k)
    <3>1. k \in Nat /\ k \in Missing(names, added, k) /\ Missing(names, added, k) \in SUBSET missing
      BY <2>2, <1>1 DEF Missing
    <3>2. IsFiniteSet(Missing(names, added, k)) /\ r \in Nat
      BY <3>1, MissingIsFinite
    <3>3. r <= size /\ r # 0
      BY <1>2, <3>1, <3>2, FS_Subset, FS_EmptySet
    <3>4. r \in 1 .. size
      BY <1>2, <3>2, <3>3
    <3>5. pick[r] \in missing /\ Rank(pick[r]) = Rank(k)
      BY <1>3, <3>4
    <3>6. pick[r] = k
      <4>1. pick[r] \in Nat /\ pick[r] \in 1 .. Len(added) /\ k \in 1 .. Len(added)
        BY <1>1, <1>2, <3>5
      <4> DEFINE j == pick[r]
      <4> HIDE DEF pick, r
      <4>2. ASSUME NEW a \in missing, NEW b \in missing, a < b, Rank(a) = Rank(b) PROVE FALSE
        <5>1. a \in Nat /\ b \in Nat
          BY <1>1, <1>2
        <5>2. /\ Missing(names, added, a) \in SUBSET Missing(names, added, b)
              /\ b \notin Missing(names, added, a) /\ b \in Missing(names, added, b)
          BY <4>2, <5>1 DEF Missing
        <5>3. IsFiniteSet(Missing(names, added, b))
          BY <5>1, MissingIsFinite
        <5> QED
          BY <4>2, <5>2, <5>3, FS_Subset
      <4>3. ~(j < k) /\ ~(k < j)
        BY <2>2, <3>5, <4>2
      <4> QED
        BY <4>1, <4>3, <1>1
    <3>7. fresh[r] = added[k]
      BY <1>3, <3>4, <3>6
    <3>8. Len(names) + r \in 1 .. Len(merged)
      BY <1>1, <1>2, <1>6, <3>4
    <3> HIDE DEF r, fresh, merged
    <3> QED
      BY <1>6, <3>4, <3>7, <3>8
  <2> QED
    BY <2>1, <2>2
<1> HIDE DEF pick, fresh, merged
<1>8. ASSUME NEW i \in 1 .. Len(merged), i > Len(names)
      PROVE  \E k \in 1 .. Len(added) : merged[i] = added[k]
  <2>1. i - Len(names) \in 1 .. size /\ Len(names) + (i - Len(names)) = i
    BY <1>1, <1>2, <1>6, <1>8
  <2>2. merged[i] = fresh[i - Len(names)]
    BY <1>6, <2>1
  <2> QED
    BY <1>2, <1>3, <2>1, <2>2
<1>9. Len(merged) >= Len(names)
  BY <1>1, <1>2, <1>6
<1> QED
  BY <1>5, <1>6, <1>7, <1>8, <1>9

\* The names of the module have indices in the merged pool.
LEMMA NameMapInPool ==
  ASSUME NEW names, IsSeq(names), NEW added, IsSeq(added), NEW k \in 1 .. Len(added)
  PROVE  /\ NameMap(names, added)[k] \in Nat
         /\ NameMap(names, added)[k] < Len(MergedNames(names, added))
         /\ MergedNames(names, added)[NameMap(names, added)[k] + 1] = added[k]
<1> DEFINE merged == MergedNames(names, added)
           found  == CHOOSE i \in 1 .. Len(merged) : merged[i] = added[k]
<1>1. IsSeq(merged) /\ \E i \in 1 .. Len(merged) : merged[i] = added[k]
  BY MergedNamesAreBoth
<1>2. NameMap(names, added)[k] = found - 1
  BY DEF NameMap, NameIndex
<1> HIDE DEF merged
<1>3. found \in 1 .. Len(merged) /\ merged[found] = added[k] /\ Len(merged) \in Nat
  BY <1>1 DEF IsSeq
<1> HIDE DEF found
<1>4. found - 1 \in Nat /\ found - 1 < Len(merged) /\ (found - 1) + 1 = found
  BY <1>3
<1> QED
  BY <1>2, <1>3, <1>4 DEF merged

----------------------------------------------------------------------------------
(* The code after linking. *)

\* Relocation keeps the opcode and changes the operand as the opcode says.
LEMMA RelocatedParts ==
  ASSUME NEW ins \in Instruction, NEW i \in Nat, NEW c \in Nat, NEW map,
         ins.op \in Renumbered => map[ins.arg + 1] \in Nat
  PROVE  /\ RelocatedInstr(ins, i, c, map) \in Instruction
         /\ RelocatedInstr(ins, i, c, map).op = ins.op
         /\ ins.op \in Jump => RelocatedInstr(ins, i, c, map).arg = ins.arg + i
         /\ ins.op = "LOAD_CONST" => RelocatedInstr(ins, i, c, map).arg = ins.arg + c
         /\ ins.op \in Renumbered => RelocatedInstr(ins, i, c, map).arg = map[ins.arg + 1]
         /\ ins.op \notin Jump \cup Renumbered \cup {"LOAD_CONST", "IMPORT_NAME"} =>
              RelocatedInstr(ins, i, c, map) = ins
<1> DEFINE r == RelocatedInstr(ins, i, c, map)
<1>1. ASSUME NEW n \in Nat
      PROVE  /\ [ins EXCEPT !.arg = n] \in Instruction
             /\ [ins EXCEPT !.arg = n].op = ins.op /\ [ins EXCEPT !.arg = n].arg = n
  BY DEF Instruction
<1>2. CASE ins.op \in {"LOAD_CONST", "IMPORT_NAME"}
  <2>1. r = [ins EXCEPT !.arg = ins.arg + c] /\ ins.arg + c \in Nat
    BY <1>2 DEF RelocatedInstr, Instruction, Renumbered, Jump, CondJump
  <2> HIDE DEF r
  <2>2. ins.op \notin Jump /\ ins.op \notin Renumbered
    BY <1>2 DEF Jump, CondJump, Renumbered
  <2> QED
    BY <1>1, <1>2, <2>1, <2>2 DEF r
<1>3. CASE ins.op \in Renumbered
  <2>1. r = [ins EXCEPT !.arg = map[ins.arg + 1]]
    BY <1>3 DEF RelocatedInstr, Renumbered, Jump, CondJump
  <2> HIDE DEF r
  <2>2. ins.op \notin Jump /\ ins.op # "LOAD_CONST"
    BY <1>3 DEF Jump, CondJump, Renumbered
  <2> QED
    BY <1>1, <1>3, <2>1, <2>2 DEF r
<1>4. CASE ins.op \in Jump
  <2>1. r = [ins EXCEPT !.arg = ins.arg + i] /\ ins.arg + i \in Nat
    BY <1>4 DEF RelocatedInstr, Instruction, Renumbered, Jump, CondJump
  <2> HIDE DEF r
  <2>2. ins.op \notin Renumbered /\ ins.op # "LOAD_CONST"
    BY <1>4 DEF Jump, CondJump, Renumbered
  <2> QED
    BY <1>1, <1>4, <2>1, <2>2 DEF r
<1>5. CASE ins.op \notin Jump \cup Renumbered \cup {"LOAD_CONST", "IMPORT_NAME"}
  BY <1>5 DEF RelocatedInstr
<1> QED
  BY <1>2, <1>3, <1>4, <1>5

\* Linking appends a sequence to the instructions.
LEMMA LinkAppendsCode ==
  ASSUME NEW c, IsCompiledCode(c), NEW m, IsCompiledCode(m), NEW ret
  PROVE  \E s : /\ IsSeq(s) /\ Len(s) = Len(m.instructions)
                /\ Link(c, m, ret).instructions = c.instructions \o s
<1> DEFINE map    == NameMap(c.names, m.names)
           instrs == [a \in 1 .. Len(m.instructions) |->
                        IF a = Len(m.instructions) THEN Instr("JUMP_ABSOLUTE", ret)
                        ELSE RelocatedInstr(m.instructions[a], Len(c.instructions), Len(c.constants), map)]
<1>1. Link(c, m, ret).instructions = c.instructions \o instrs
  BY DEF Link
<1>2. Len(m.instructions) \in Nat
  BY SeqIsSeq DEF IsCompiledCode, IsSeq
<1>3. instrs = [a \in 1 .. Len(m.instructions) |-> instrs[a]]
  OBVIOUS
<1> HIDE DEF instrs, map
<1>4. IsSeq(instrs) /\ Len(instrs) = Len(m.instructions)
  BY <1>2, <1>3, SeqFromFunction
<1> QED
  BY <1>1, <1>4, Zenon

\* It appends one to the constants.
LEMMA LinkAppendsConstants ==
  ASSUME NEW c, IsCompiledCode(c), NEW m, IsCompiledCode(m), NEW ret
  PROVE  \E s : /\ IsSeq(s) /\ Len(s) = Len(m.constants)
                /\ Link(c, m, ret).constants = c.constants \o s
<1> DEFINE consts == [i \in 1 .. Len(m.constants) |->
                        RelocatedConstant(m.constants[i], Len(c.instructions))]
<1>1. Link(c, m, ret).constants = c.constants \o consts
  BY DEF Link
<1>2. Len(m.constants) \in Nat
  BY DEF IsCompiledCode, IsSeq
<1>3. consts = [i \in 1 .. Len(m.constants) |-> consts[i]]
  OBVIOUS
<1> HIDE DEF consts
<1>4. IsSeq(consts) /\ Len(consts) = Len(m.constants)
  BY <1>2, <1>3, SeqFromFunction
<1> QED
  BY <1>1, <1>4, Zenon

\* The linked code is as long as its two parts.
LEMMA LinkedPrefix ==
  ASSUME NEW c, IsCompiledCode(c), NEW m, IsCompiledCode(m), NEW ret
  PROVE  /\ IsSeq(Link(c, m, ret).instructions)
         /\ Len(Link(c, m, ret).instructions) = Len(c.instructions) + Len(m.instructions)
         /\ IsSeq(Link(c, m, ret).constants)
         /\ Len(Link(c, m, ret).constants) = Len(c.constants) + Len(m.constants)
<1>1. IsSeq(c.instructions) /\ IsSeq(c.constants)
  BY SeqIsSeq DEF IsCompiledCode
<1>2. /\ IsSeq(Link(c, m, ret).instructions)
      /\ Len(Link(c, m, ret).instructions) = Len(c.instructions) + Len(m.instructions)
  <2>1. PICK s : /\ IsSeq(s) /\ Len(s) = Len(m.instructions)
                 /\ Link(c, m, ret).instructions = c.instructions \o s
    BY LinkAppendsCode
  <2>2. IsSeq(c.instructions \o s) /\ Len(c.instructions \o s) = Len(c.instructions) + Len(s)
    BY <1>1, <2>1, ConcatIsSeq
  <2> QED
    BY <2>1, <2>2
<1>3. /\ IsSeq(Link(c, m, ret).constants)
      /\ Len(Link(c, m, ret).constants) = Len(c.constants) + Len(m.constants)
  <2>1. PICK s : /\ IsSeq(s) /\ Len(s) = Len(m.constants)
                 /\ Link(c, m, ret).constants = c.constants \o s
    BY LinkAppendsConstants
  <2>2. IsSeq(c.constants \o s) /\ Len(c.constants \o s) = Len(c.constants) + Len(s)
    BY <1>1, <2>1, ConcatIsSeq
  <2> QED
    BY <2>1, <2>2
<1> QED
  BY <1>2, <1>3

\* The old instructions and constants are found where they were.
LEMMA LinkedKeeps ==
  ASSUME NEW c, IsCompiledCode(c), NEW m, IsCompiledCode(m), NEW ret
  PROVE  /\ \A a \in 1 .. Len(c.instructions) :
              Link(c, m, ret).instructions[a] = c.instructions[a]
         /\ \A i \in 1 .. Len(c.constants) : Link(c, m, ret).constants[i] = c.constants[i]
<1>1. IsSeq(c.instructions) /\ IsSeq(c.constants)
  BY SeqIsSeq DEF IsCompiledCode
<1>2. \A a \in 1 .. Len(c.instructions) : Link(c, m, ret).instructions[a] = c.instructions[a]
  <2>1. PICK s : /\ IsSeq(s) /\ Len(s) = Len(m.instructions)
                 /\ Link(c, m, ret).instructions = c.instructions \o s
    BY LinkAppendsCode
  <2>2. \A a \in 1 .. Len(c.instructions) : (c.instructions \o s)[a] = c.instructions[a]
    BY <1>1, <2>1, ConcatIsSeq
  <2> QED
    BY <2>1, <2>2
<1>3. \A i \in 1 .. Len(c.constants) : Link(c, m, ret).constants[i] = c.constants[i]
  <2>1. PICK s : /\ IsSeq(s) /\ Len(s) = Len(m.constants)
                 /\ Link(c, m, ret).constants = c.constants \o s
    BY LinkAppendsConstants
  <2>2. \A i \in 1 .. Len(c.constants) : (c.constants \o s)[i] = c.constants[i]
    BY <1>1, <2>1, ConcatIsSeq
  <2> QED
    BY <2>1, <2>2
<1> QED
  BY <1>2, <1>3

\* Its names are the merged ones.
LEMMA LinkedNames ==
  ASSUME NEW c, NEW m, NEW ret
  PROVE  /\ DOMAIN Link(c, m, ret) = {"instructions", "constants", "names"}
         /\ Link(c, m, ret).names = MergedNames(c.names, m.names)
BY DEF Link

\* Behind the prefix are the module's instructions and constants, relocated.
LEMMA LinkedSuffix ==
  ASSUME NEW c, IsCompiledCode(c), NEW m, IsCompiledCode(m), NEW ret
  PROVE  /\ \A a \in 1 .. Len(m.instructions) :
              Link(c, m, ret).instructions[Len(c.instructions) + a] =
                IF a = Len(m.instructions) THEN Instr("JUMP_ABSOLUTE", ret)
                ELSE RelocatedInstr(m.instructions[a], Len(c.instructions), Len(c.constants),
                                    NameMap(c.names, m.names))
         /\ \A i \in 1 .. Len(m.constants) :
              Link(c, m, ret).constants[Len(c.constants) + i] =
                RelocatedConstant(m.constants[i], Len(c.instructions))
<1> DEFINE map    == NameMap(c.names, m.names)
           instrs == [a \in 1 .. Len(m.instructions) |->
                        IF a = Len(m.instructions) THEN Instr("JUMP_ABSOLUTE", ret)
                        ELSE RelocatedInstr(m.instructions[a], Len(c.instructions), Len(c.constants), map)]
           consts == [i \in 1 .. Len(m.constants) |->
                        RelocatedConstant(m.constants[i], Len(c.instructions))]
<1>1. Link(c, m, ret) = [instructions |-> c.instructions \o instrs, constants |-> c.constants \o consts,
                         names |-> MergedNames(c.names, m.names)]
  BY DEF Link
<1>2. /\ IsSeq(c.instructions) /\ IsSeq(c.constants)
      /\ Len(m.instructions) \in Nat /\ Len(m.constants) \in Nat
  BY SeqIsSeq DEF IsCompiledCode, IsSeq
<1>3. instrs = [a \in 1 .. Len(m.instructions) |-> instrs[a]]
      /\ consts = [i \in 1 .. Len(m.constants) |-> consts[i]]
  OBVIOUS
<1>4. /\ \A a \in 1 .. Len(m.instructions) : instrs[a] =
           IF a = Len(m.instructions) THEN Instr("JUMP_ABSOLUTE", ret)
           ELSE RelocatedInstr(m.instructions[a], Len(c.instructions), Len(c.constants), map)
      /\ \A i \in 1 .. Len(m.constants) :
           consts[i] = RelocatedConstant(m.constants[i], Len(c.instructions))
  OBVIOUS
<1> HIDE DEF instrs, consts, map
<1>5. /\ IsSeq(instrs) /\ Len(instrs) = Len(m.instructions)
      /\ IsSeq(consts) /\ Len(consts) = Len(m.constants)
  BY <1>2, <1>3, SeqFromFunction
<1>6. \A a \in 1 .. Len(instrs) : (c.instructions \o instrs)[Len(c.instructions) + a] = instrs[a]
  BY <1>2, <1>5, ConcatIsSeq
<1>7. \A i \in 1 .. Len(consts) : (c.constants \o consts)[Len(c.constants) + i] = consts[i]
  BY <1>2, <1>5, ConcatIsSeq
<1> QED
  BY <1>1, <1>4, <1>5, <1>6, <1>7 DEF map

----------------------------------------------------------------------------------
(* What the JIT makes of the code. *)

\* The JIT reads nothing behind the end of a function: it makes the same of it
\* when code is appended.
LEMMA JitReadsNoFurther ==
  ASSUME NEW c, Len(c) \in Nat, NEW d, Len(d) \in Nat, Len(d) >= Len(c),
         \A a \in 1 .. Len(c) : d[a] = c[a],
         NEW e, Delimited(c, e)
  PROVE  Delimited(d, e) /\ JitCompile(d, e) = JitCompile(c, e)
         /\ (HasBaseCase(d, e) <=> HasBaseCase(c, e))
         /\ (HasBaseCase(d, e) => BaseValue(d, e) = BaseValue(c, e))
<1> DEFINE f == c[e].arg
<1>1. e \in Nat /\ e > 0 /\ e \in 1 .. Len(c) /\ f \in Int /\ e + 2 <= f /\ f <= Len(c)
      /\ c[e].op = "JUMP_ABSOLUTE" /\ c[f].op = "RETURN_VALUE"
  BY DEF Delimited
<1>2. d[e] = c[e] /\ d[f] = c[f]
  BY <1>1
<1>3. FuncEnd(c, e) = f /\ FuncEnd(d, e) = f
  BY <1>1, <1>2 DEF FuncEnd
<1>4. Delimited(d, e)
  BY <1>1, <1>2 DEF Delimited
<1> HIDE DEF f
<1>5. \A a \in Int : e <= a /\ a < f => d[a + 1] = c[a + 1]
  BY <1>1
<1>6. ValidateBytecode(d, e) <=> ValidateBytecode(c, e)
  <2>1. e \in Int /\ f \in Int
    BY <1>1
  <2>2. \A a \in e .. f - 1 : d[a + 1] = c[a + 1]
    BY <2>1, <1>5
  <2> QED
    BY <1>3, <2>2 DEF ValidateBytecode
<1>7. \A op : AfterBase(d, e, op) = AfterBase(c, e, op)
  BY <1>1, <1>3, <1>5 DEF AfterBase
<1>8. ASSUME e + 6 < f
      PROVE  d[e + 1] = c[e + 1] /\ d[e + 2] = c[e + 2] /\ d[e + 3] = c[e + 3]
             /\ d[e + 4] = c[e + 4] /\ d[e + 5] = c[e + 5] /\ d[e + 6] = c[e + 6]
  <2>1. \A k \in 1 .. Len(c) : d[k] = c[k]
    OBVIOUS
  <2>2. /\ e + 1 \in 1 .. Len(c) /\ e + 2 \in 1 .. Len(c) /\ e + 3 \in 1 .. Len(c)
        /\ e + 4 \in 1 .. Len(c) /\ e + 5 \in 1 .. Len(c) /\ e + 6 \in 1 .. Len(c)
    BY <1>1, <1>8
  <2> QED
    BY <2>1, <2>2, Zenon
<1>9. HasBaseCase(d, e) <=> HasBaseCase(c, e)
  <2>1. CASE e + 6 < f
    BY <1>3, <1>8, <2>1 DEF HasBaseCase
  <2>2. CASE ~(e + 6 < f)
    BY <1>3, <2>2 DEF HasBaseCase
  <2> QED
    BY <2>1, <2>2
<1>10. HasBaseCase(c, e) => BaseValue(d, e) = BaseValue(c, e)
  BY <1>3, <1>8 DEF HasBaseCase, BaseValue
<1>11. DetectPattern(d, e) = DetectPattern(c, e)
  BY <1>7, <1>9 DEF DetectPattern
<1>12. DetectPattern(c, e) # "UNKNOWN" => HasBaseCase(c, e)
  BY DEF DetectPattern
<1>13. JitCompile(d, e) = JitCompile(c, e)
  BY <1>6, <1>10, <1>11, <1>12 DEF JitCompile
<1> QED
  BY <1>4, <1>9, <1>10, <1>13

\* Entry point 0, that of range: the code is taken for one function, and the
\* JIT rejects it because of its HALT.
LEMMA HaltIsNotNative ==
  ASSUME NEW c, Len(c) \in Nat, NEW h \in 1 .. Len(c), c[h].op = "HALT"
  PROVE  JitCompile(c, 0) = NotNative
<1>1. FuncEnd(c, 0) = Len(c)
  BY DEF FuncEnd
<1>2. h - 1 \in 0 .. FuncEnd(c, 0) - 1 /\ (h - 1) + 1 = h
  BY <1>1
<1>3. "HALT" \notin Supported
  BY DEF Supported
<1>4. ~ValidateBytecode(c, 0)
  BY <1>2, <1>3 DEF ValidateBytecode
<1> QED
  BY <1>4 DEF JitCompile

\* A function that is compiled has a base case, whose value goes into the code.
LEMMA NativeHasBase ==
  ASSUME NEW c, NEW e, JitCompile(c, e) # NotNative
  PROVE  HasBaseCase(c, e) /\ JitCompile(c, e).base = BaseValue(c, e)
<1>1. DetectPattern(c, e) # "UNKNOWN"
      /\ JitCompile(c, e) = [pattern |-> DetectPattern(c, e), base |-> BaseValue(c, e)]
  BY DEF JitCompile
<1> QED
  BY <1>1 DEF DetectPattern

--------------------------------------------------------------------------------
(* The fusion of updates. *)

\* A window that starts at position i.
IsWindow(instrs, i) == i \in 1 .. Len(instrs) - 3 /\ Matches(instrs, i)

\* Two windows have no instruction in common.
LEMMA WindowsApart ==
  ASSUME NEW instrs, Len(instrs) \in Nat, NEW s \in Int, NEW i \in Int,
         IsWindow(instrs, s), IsWindow(instrs, i), s < i
  PROVE  i >= s + 4
<1>1. instrs[i].op = "LOAD_NAME" /\ instrs[i + 3].op = "STORE_NAME" /\ instrs[i + 2].op \in Fusible
  BY DEF IsWindow, Matches
<1>2. instrs[s + 2].op \in Fusible /\ instrs[s + 3].op = "STORE_NAME"
  BY DEF IsWindow, Matches
<1>3. "LOAD_NAME" \notin Fusible /\ "STORE_NAME" \notin Fusible
  BY DEF Fusible
<1>4. i # s + 1
  <2>1. i = s + 1 => i + 2 = s + 3
    OBVIOUS
  <2> QED
    BY <1>1, <1>2, <1>3, <2>1
<1>5. i # s + 2 /\ i # s + 3
  BY <1>1, <1>2, <1>3
<1> QED
  BY <1>4, <1>5

\* What a window becomes.
LEMMA WindowFused ==
  ASSUME NEW instrs, Len(instrs) \in Nat, NEW i \in Int, IsWindow(instrs, i)
  PROVE  /\ i \in 1 .. Len(instrs) /\ i + 1 \in 1 .. Len(instrs)
         /\ i + 2 \in 1 .. Len(instrs) /\ i + 3 \in 1 .. Len(instrs)
         /\ PeepholeOptimize(instrs)[i] = instrs[i + 1]
         /\ PeepholeOptimize(instrs)[i + 1] = Instr(InplaceOf(instrs[i + 2].op), instrs[i].arg)
         /\ PeepholeOptimize(instrs)[i + 2] = Plain("NOP")
         /\ PeepholeOptimize(instrs)[i + 3] = Plain("NOP")
<1> DEFINE n == Len(instrs)
<1>1. i \in 1 .. n - 3 /\ i \in 1 .. n /\ i + 1 \in 1 .. n /\ i + 2 \in 1 .. n /\ i + 3 \in 1 .. n
  BY DEF IsWindow
<1>2. ~IsWindow(instrs, i + 1) /\ ~IsWindow(instrs, i + 2) /\ ~IsWindow(instrs, i + 3)
  <2>1. \A k \in 1 .. 3 : ~IsWindow(instrs, i + k)
    <3> SUFFICES ASSUME NEW k \in 1 .. 3, IsWindow(instrs, i + k) PROVE FALSE
      OBVIOUS
    <3> QED
      BY WindowsApart
  <2> QED
    BY <2>1
<1>3. \A j \in 1 .. n : PeepholeOptimize(instrs)[j] =
        CASE IsWindow(instrs, j)     -> instrs[j + 1]
          [] IsWindow(instrs, j - 1) -> Instr(InplaceOf(instrs[j + 1].op), instrs[j - 1].arg)
          [] IsWindow(instrs, j - 2) \/ IsWindow(instrs, j - 3) -> Plain("NOP")
          [] OTHER                   -> instrs[j]
  BY DEF PeepholeOptimize, IsWindow
<1>4. ASSUME NEW d \in 1 .. 3 PROVE ~IsWindow(instrs, i - d)
  <2> SUFFICES ASSUME IsWindow(instrs, i - d) PROVE FALSE
    OBVIOUS
  <2> QED
    BY WindowsApart
<1>5. PeepholeOptimize(instrs)[i] = instrs[i + 1]
  <2>1. ~IsWindow(instrs, i - 1) /\ ~IsWindow(instrs, i - 2) /\ ~IsWindow(instrs, i - 3)
    BY <1>4
  <2> QED
    BY <1>1, <1>3, <2>1
<1>6. ASSUME NEW k \in 1 .. 3
      PROVE  /\ i + k \in 1 .. n /\ ~IsWindow(instrs, i + k)
             /\ \A d \in 1 .. 3 : d < k => ~IsWindow(instrs, (i + k) - d)
             /\ IsWindow(instrs, (i + k) - k)
  <2>1. \A d \in 1 .. 3 : d < k => ~IsWindow(instrs, (i + k) - d)
    <3> SUFFICES ASSUME NEW d \in 1 .. 3, d < k PROVE ~IsWindow(instrs, (i + k) - d)
      OBVIOUS
    <3>1. \E e \in 1 .. 3 : (i + k) - d = i + e
      OBVIOUS
    <3>2. \A e \in 1 .. 3 : ~IsWindow(instrs, i + e)
      BY <1>2
    <3> QED
      BY <3>1, <3>2
  <2>2. (i + k) - k = i
    OBVIOUS
  <2>3. ~IsWindow(instrs, i + k)
    BY <1>2
  <2> QED
    BY <1>1, <2>1, <2>2, <2>3
<1>7. PeepholeOptimize(instrs)[i + 1] = Instr(InplaceOf(instrs[i + 2].op), instrs[i].arg)
  <2>1. (i + 1) + 1 = i + 2 /\ (i + 1) - 1 = i
    OBVIOUS
  <2>2. IsWindow(instrs, (i + 1) - 1) /\ ~IsWindow(instrs, i + 1)
    BY <1>6
  <2>3. (i + 1) - 2 = i - 1 /\ (i + 1) - 3 = i - 2
    OBVIOUS
  <2>4. ~IsWindow(instrs, (i + 1) - 2) /\ ~IsWindow(instrs, (i + 1) - 3)
    BY <1>4, <2>3
  <2> QED
    BY <1>1, <1>3, <2>1, <2>2, <2>4
<1>8. PeepholeOptimize(instrs)[i + 2] = Plain("NOP")
  <2>1. IsWindow(instrs, (i + 2) - 2) /\ ~IsWindow(instrs, i + 2) /\ ~IsWindow(instrs, (i + 2) - 1)
    BY <1>6
  <2> QED
    BY <1>1, <1>3, <2>1
<1>9. PeepholeOptimize(instrs)[i + 3] = Plain("NOP")
  <2>1. /\ IsWindow(instrs, (i + 3) - 3) /\ ~IsWindow(instrs, i + 3)
        /\ ~IsWindow(instrs, (i + 3) - 1)
    BY <1>6
  <2> QED
    BY <1>1, <1>3, <2>1
<1> QED
  BY <1>1, <1>5, <1>7, <1>8, <1>9

\* Outside of windows nothing changes.
LEMMA OthersStay ==
  ASSUME NEW instrs, Len(instrs) \in Nat, NEW j \in 1 .. Len(instrs),
         \A d \in 0 .. 3 : ~IsWindow(instrs, j - d)
  PROVE  PeepholeOptimize(instrs)[j] = instrs[j]
<1>1. j - 0 = j
  OBVIOUS
<1>2. /\ ~IsWindow(instrs, j) /\ ~IsWindow(instrs, j - 1)
      /\ ~IsWindow(instrs, j - 2) /\ ~IsWindow(instrs, j - 3)
  BY <1>1
<1> QED
  BY <1>2 DEF PeepholeOptimize, IsWindow

\* The code when the loop has been at the positions up to k: the windows that
\* start there are fused, the others as they were.
FusedUpTo(instrs, k) ==
  [j \in 1 .. Len(instrs) |->
     IF \E d \in 0 .. 3 : j - d <= k /\ IsWindow(instrs, j - d)
     THEN PeepholeOptimize(instrs)[j] ELSE instrs[j]]

LEMMA FusedLength ==
  ASSUME NEW instrs, Len(instrs) \in Nat, NEW k
  PROVE  Len(FusedUpTo(instrs, k)) = Len(instrs)
<1>1. FusedUpTo(instrs, k) = [j \in 1 .. Len(instrs) |-> FusedUpTo(instrs, k)[j]]
  BY DEF FusedUpTo
<1> QED
  BY <1>1, SeqFromFunction

\* A turn of the loop finds a window where the code has had one from the start,
\* as yet unchanged, and nowhere else: what it has written starts no window.
LEMMA TurnFuses ==
  ASSUME NEW instrs, Len(instrs) \in Nat, NEW i \in 1 .. Len(instrs)
  PROVE  RewriteAt(FusedUpTo(instrs, i - 1), i) = FusedUpTo(instrs, i)
<1> DEFINE n   == Len(instrs)
           old == FusedUpTo(instrs, i - 1)
           new == FusedUpTo(instrs, i)
           opt == PeepholeOptimize(instrs)
<1>1. /\ Len(old) = n
      /\ old = [j \in 1 .. n |-> old[j]]
      /\ \A j \in 1 .. n : old[j] = IF \E d \in 0 .. 3 : j - d <= i - 1 /\ IsWindow(instrs, j - d)
                                  THEN opt[j] ELSE instrs[j]
      /\ new = [j \in 1 .. n |-> new[j]]
      /\ \A j \in 1 .. n : new[j] = IF \E d \in 0 .. 3 : j - d <= i /\ IsWindow(instrs, j - d)
                                  THEN opt[j] ELSE instrs[j]
  BY FusedLength DEF FusedUpTo
<1>2. ASSUME NEW d \in 1 .. 3, IsWindow(instrs, i - d)
      PROVE  ~Matches(old, i)
  <2>1. opt[i].op # "LOAD_NAME"
    <3>1. i = (i - d) + d /\ i - d \in Int
      OBVIOUS
    <3>2. CASE d = 1
      <4>1. opt[(i - d) + 1] = Instr(InplaceOf(instrs[(i - d) + 2].op), instrs[i - d].arg)
        BY <1>2, <3>1, WindowFused
      <4>2. instrs[(i - d) + 2].op \in Fusible
        BY <1>2 DEF IsWindow, Matches
      <4>3. InplaceOf(instrs[(i - d) + 2].op) # "LOAD_NAME"
        BY <4>2 DEF Fusible, InplaceOf
      <4> QED
        BY <3>1, <3>2, <4>1, <4>3 DEF Instr
    <3>3. CASE d = 2
      <4>1. opt[(i - d) + 2] = Plain("NOP")
        BY <1>2, <3>1, WindowFused
      <4> QED
        BY <3>1, <3>3, <4>1 DEF Plain, Instr
    <3>4. CASE d = 3
      <4>1. opt[(i - d) + 3] = Plain("NOP")
        BY <1>2, <3>1, WindowFused
      <4> QED
        BY <3>1, <3>4, <4>1 DEF Plain, Instr
    <3> QED
      BY <3>2, <3>3, <3>4
  <2>2. i - d <= i - 1
    OBVIOUS
  <2>3. old[i] = opt[i]
    BY <1>1, <1>2, <2>2
  <2> QED
    BY <2>1, <2>3 DEF Matches
<1>3. ASSUME \A d \in 1 .. 3 : ~IsWindow(instrs, i - d), NEW k \in 0 .. 3, i + k \in 1 .. n
      PROVE  old[i + k] = instrs[i + k]
  <2>1. ASSUME NEW e \in 0 .. 3, (i + k) - e <= i - 1 PROVE ~IsWindow(instrs, (i + k) - e)
    <3>1. e - k \in 1 .. 3 /\ (i + k) - e = i - (e - k)
      BY <2>1
    <3> QED
      BY <1>3, <3>1
  <2> QED
    BY <1>1, <1>3, <2>1
<1>4. IsWindow(instrs, i) => \A d \in 1 .. 3 : ~IsWindow(instrs, i - d)
  <2> SUFFICES ASSUME IsWindow(instrs, i), NEW d \in 1 .. 3, IsWindow(instrs, i - d) PROVE FALSE
    OBVIOUS
  <2> QED
    BY WindowsApart
<1>5. ASSUME i \in 1 .. n - 3, \A d \in 1 .. 3 : ~IsWindow(instrs, i - d)
      PROVE  /\ old[i] = instrs[i] /\ old[i + 1] = instrs[i + 1]
             /\ old[i + 2] = instrs[i + 2] /\ old[i + 3] = instrs[i + 3]
             /\ Matches(old, i) <=> IsWindow(instrs, i)
  <2>1. i + 0 = i /\ \A k \in 0 .. 3 : i + k \in 1 .. n
    BY <1>5
  <2>2. \A k \in 0 .. 3 : old[i + k] = instrs[i + k]
    BY <1>3, <1>5, <2>1
  <2>3. /\ old[i] = instrs[i] /\ old[i + 1] = instrs[i + 1]
        /\ old[i + 2] = instrs[i + 2] /\ old[i + 3] = instrs[i + 3]
    BY <2>1, <2>2
  <2> QED
    BY <1>5, <2>3 DEF Matches, IsWindow
<1>6. IsWindow(instrs, i) <=> i \in 1 .. n - 3 /\ Matches(old, i)
  BY <1>2, <1>4, <1>5 DEF IsWindow
<1>7. ASSUME NEW j \in 1 .. n, ~IsWindow(instrs, i) \/ j \notin i .. i + 3
      PROVE  new[j] = old[j]
  <2>1. ASSUME NEW d \in 0 .. 3, IsWindow(instrs, j - d) PROVE j - d <= i <=> j - d <= i - 1
    <3>1. j - d # i
      BY <1>7, <2>1
    <3> QED
      BY <3>1
  <2> QED
    BY <1>1, <2>1
<1>8. CASE ~IsWindow(instrs, i)
  <2>1. new = old
    BY <1>1, <1>7, <1>8
  <2>2. RewriteAt(old, i) = old
    BY <1>1, <1>6, <1>8 DEF RewriteAt
  <2> QED
    BY <2>1, <2>2
<1>9. CASE IsWindow(instrs, i)
  <2> DEFINE fused == Instr(InplaceOf(instrs[i + 2].op), instrs[i].arg)
             turn  == RewriteAt(old, i)
  <2>1. i \in 1 .. n - 3 /\ i \in 1 .. n /\ i + 1 \in 1 .. n /\ i + 2 \in 1 .. n /\ i + 3 \in 1 .. n
    BY <1>9 DEF IsWindow
  <2>2. turn = [old EXCEPT ![i] = instrs[i + 1], ![i + 1] = fused,
                           ![i + 2] = Plain("NOP"), ![i + 3] = Plain("NOP")]
    BY <1>1, <1>4, <1>5, <1>6, <1>9, <2>1 DEF RewriteAt
  <2> DEFINE written(j) == IF j = i + 3 \/ j = i + 2 THEN Plain("NOP")
                           ELSE IF j = i + 1 THEN fused
                           ELSE IF j = i THEN instrs[i + 1] ELSE old[j]
  <2>3. turn = [j \in 1 .. n |-> written(j)]
    <3> HIDE DEF old, fused, turn
    <3>1. DOMAIN old = 1 .. n
      BY <1>1
    <3> QED
      BY <2>1, <2>2, <3>1
  <2>4. opt[i] = instrs[i + 1] /\ opt[i + 1] = fused /\ opt[i + 2] = Plain("NOP") /\ opt[i + 3] = Plain("NOP")
    BY <1>9, WindowFused
  <2>5. ASSUME NEW d \in 0 .. 3 PROVE new[i + d] = opt[i + d]
    <3>1. i + d \in 1 .. n /\ (i + d) - d = i /\ i <= i
      BY <2>1
    <3> QED
      BY <1>1, <1>9, <3>1
  <2>6. i + 0 = i
    OBVIOUS
  <2>7. ASSUME NEW j \in 1 .. n PROVE new[j] = written(j)
    <3>1. CASE j \notin i .. i + 3
      BY <1>7, <3>1
    <3>2. CASE j = i
      BY <2>4, <2>5, <2>6, <3>2
    <3>3. CASE j = i + 1
      BY <2>4, <2>5, <3>3
    <3>4. CASE j = i + 2
      BY <2>4, <2>5, <3>4
    <3>5. CASE j = i + 3
      BY <2>4, <2>5, <3>5
    <3> QED
      BY <3>1, <3>2, <3>3, <3>4, <3>5
  <2>8. new = [j \in 1 .. n |-> written(j)]
    <3> HIDE DEF new, written
    <3> QED
      BY <1>1, <2>7
  <2> QED
    BY <2>3, <2>8
<1> QED
  BY <1>8, <1>9

\* A set of numbers that holds 0 and with each number the next one holds all.
LEMMA NumbersInduction ==
  ASSUME NEW S \in SUBSET Nat, 0 \in S, \A n \in S : n + 1 \in S
  PROVE  S = Nat
<1> DEFINE less == {ss \in Nat \X Nat : ss[1] < ss[2]}
           T    == Nat \ S
<1>1. IsWellFoundedOn(less, Nat)
  BY NatLessThanWellFounded DEF OpToRel
<1>2. ASSUME T # {} PROVE FALSE
  <2>1. PICK x \in T : \A y \in T : ~ (<<y, x>> \in less)
    <3> HIDE DEF less
    <3> QED
      BY <1>1, <1>2, WFMin
  <2>2. x # 0 /\ x - 1 \in Nat /\ (x - 1) + 1 = x
    OBVIOUS
  <2>3. x - 1 \in T
    BY <2>2
  <2>4. <<x - 1, x>> \in less
    BY <2>2
  <2> QED
    BY <2>1, <2>3, <2>4
<1> QED
  BY <1>2

\* The loop of peephole_optimize, which rewrites the code in place while it goes
\* through it, makes of any code what PeepholeOptimize makes of it at once.
THEOREM PeepholeInPlace ==
  ASSUME NEW instrs \in Seq(Instruction), NEW turns, turns[0] = instrs,
         \A i \in 1 .. Len(instrs) : turns[i] = RewriteAt(turns[i - 1], i)
  PROVE  turns[Len(instrs)] = PeepholeOptimize(instrs)
<1> DEFINE n == Len(instrs)
           opt == PeepholeOptimize(instrs)
           S == {k \in Nat : k <= n => turns[k] = FusedUpTo(instrs, k)}
<1>1. n \in Nat /\ instrs = [j \in 1 .. n |-> instrs[j]]
  BY LenProperties
<1>2. 0 \in S
  <2>1. ASSUME NEW j \in 1 .. n, NEW d \in 0 .. 3, IsWindow(instrs, j - d) PROVE ~(j - d <= 0)
    BY <1>1, <2>1 DEF IsWindow
  <2>2. FusedUpTo(instrs, 0) = [j \in 1 .. n |-> instrs[j]]
    BY <2>1 DEF FusedUpTo
  <2> QED
    BY <1>1, <2>2
<1>3. ASSUME NEW k \in S PROVE k + 1 \in S
  <2> SUFFICES ASSUME k + 1 <= n PROVE turns[k + 1] = FusedUpTo(instrs, k + 1)
    OBVIOUS
  <2>1. k + 1 \in 1 .. n /\ (k + 1) - 1 = k /\ k <= n
    BY <1>1
  <2>2. turns[k + 1] = RewriteAt(turns[k], k + 1) /\ turns[k] = FusedUpTo(instrs, k)
    BY <2>1
  <2>3. RewriteAt(FusedUpTo(instrs, (k + 1) - 1), k + 1) = FusedUpTo(instrs, k + 1)
    BY <1>1, <2>1, TurnFuses
  <2> QED
    BY <2>1, <2>2, <2>3
<1>4. S = Nat
  <2> HIDE DEF S
  <2>1. S \in SUBSET Nat
    BY DEF S
  <2> QED
    BY <1>2, <1>3, <2>1, NumbersInduction
<1>5. turns[n] = FusedUpTo(instrs, n)
  BY <1>1, <1>4
<1>6. FusedUpTo(instrs, n) = [j \in 1 .. n |-> opt[j]]
  <2>1. ASSUME NEW j \in 1 .. n, \A d \in 0 .. 3 : ~(j - d <= n /\ IsWindow(instrs, j - d))
        PROVE  instrs[j] = opt[j]
    <3>1. \A d \in 0 .. 3 : ~IsWindow(instrs, j - d)
      BY <1>1, <2>1
    <3> QED
      BY <1>1, <3>1, OthersStay
  <2> HIDE DEF opt
  <2> QED
    BY <2>1 DEF FusedUpTo, opt
<1>7. opt = [j \in 1 .. n |-> opt[j]]
  BY DEF PeepholeOptimize
<1> QED
  BY <1>5, <1>6, <1>7

\* The fused instruction does to the global what the arithmetic instruction and
\* the STORE_NAME it stands for do, with the same errors, for values of every
\* type but in the one case it lacks: a string times an integer.  The globals are
\* a sequence in every state, by TInv.
THEOREM FusedUpdate ==
  ASSUME IsSeq(globals), InplaceOp, NEW op \in Fusible, Here.op = InplaceOf(op),
         ~(op = "BINARY_MUL" /\ globals[Here.arg + 1].t = "STRING" /\ Peek(1).t = "INT"),
         Here.arg \in Nat
  PROVE  LET result == BinaryResult(op, globals[Here.arg + 1], Peek(1))
         IN  IF IsError(result) THEN Throw(result.e)
             ELSE /\ globals' = StoreGlobal(Here.arg, result)
                  /\ stack' = Drop(1) /\ pc' = pc + 1
                  /\ UNCHANGED <<loaded, code, frames, output, jit, status>>
<1> DEFINE l == globals[Here.arg + 1]
           r == Peek(1)
<1>1. BinaryResult(op, l, r) = InplaceResult(Here.op, l, r)
  <2> HIDE DEF l, r
  <2>1. CASE op = "BINARY_ADD"
    BY <2>1 DEF BinaryResult, InplaceResult, InplaceOf
  <2>2. CASE op = "BINARY_SUB"
    BY <2>2 DEF BinaryResult, InplaceResult, InplaceOf
  <2>3. CASE op = "BINARY_MUL"
    <3>1. BinaryMul(l, r) = Product(l, r)
      BY <2>3 DEF BinaryMul, l, r
    <3> QED
      BY <2>3, <3>1 DEF BinaryResult, InplaceResult, InplaceOf
  <2>4. CASE op = "BINARY_MOD"
    BY <2>4 DEF BinaryResult, InplaceResult, InplaceOf
  <2> QED
    BY <2>1, <2>2, <2>3, <2>4 DEF Fusible
<1>2. Here.arg < Len(globals) /\ Len(globals) \in Nat /\ globals = [i \in 1 .. Len(globals) |-> globals[i]]
  BY DEF InplaceOp, IsSeq
<1>3. ASSUME NEW v PROVE [globals EXCEPT ![Here.arg + 1] = v] = StoreGlobal(Here.arg, v)
  <2>1. PICK a : a = Here.arg
    OBVIOUS
  <2>2. DOMAIN globals = 1 .. Len(globals) /\ a \in Nat /\ a < Len(globals)
    BY <1>2, <2>1
  <2>3. [globals EXCEPT ![a + 1] = v] = [i \in 1 .. Len(globals) |-> IF i = a + 1 THEN v ELSE globals[i]]
    BY <2>2
  <2>4. (IF a < Len(globals) THEN Len(globals) ELSE a + 1) = Len(globals)
    BY <2>2
  <2>5. StoreGlobal(a, v) = [i \in 1 .. Len(globals) |-> IF i = a + 1 THEN v ELSE globals[i]]
    BY <1>2, <2>4 DEF StoreGlobal
  <2> QED
    BY <2>1, <2>3, <2>5
<1> DEFINE result == InplaceResult(Here.op, l, r)
<1>4. IF IsError(result) THEN Throw(result.e)
      ELSE /\ globals' = [globals EXCEPT ![Here.arg + 1] = result]
           /\ stack' = Drop(1) /\ pc' = pc + 1
           /\ UNCHANGED <<loaded, code, frames, output, jit, status>>
  BY DEF InplaceOp
<1> HIDE DEF result
<1>5. CASE IsError(result)
  BY <1>1, <1>4, <1>5 DEF result
<1>6. CASE ~IsError(result)
  BY <1>1, <1>3, <1>4, <1>6 DEF result
<1> QED
  BY <1>5, <1>6
================================================================================
