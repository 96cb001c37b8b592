------------------------------ MODULE NativeCalls_proofs ------------------------------
(****************************************************************************)
(* Native code comes back with the right result: NInv holds at every step   *)
(* of every function the JIT emits, for words of every size.                *)
(****************************************************************************)
EXTENDS NativeLemmas

(* The stack by slots, and the code by its instructions. *)

Code(k) == Emitted[native][k]

\* Slots are apart, below the word the VM has at the top.
LEMMA SlotsAreApart ==
  /\ \A m \in Int, i \in Int : Pointer(m) = Pointer(i) => m = i
  /\ \A m \in Nat : Pointer(m) # StackTop + 8
  /\ \A m \in Int : Pointer(m) - 8 = Pointer(m + 1) /\ Pointer(m) + 8 = Pointer(m - 1)
  /\ Pointer(0) = StackTop
<1>1. StackTop \in Int
  BY NativeAssumption, HalfIsPositive DEF Words
<1> QED
  BY <1>1 DEF Pointer

\* The slots there are.
LEMMA SlotsThereAre ==
  ASSUME NEW m \in Int, m >= -1
  PROVE  /\ Pointer(m) \in Addresses8 <=> m <= StackBytes \div 8
         /\ Pointer(m) \in Addresses8 => Pointer(m) \in Words /\ m \in -1 .. StackBytes
<1> DEFINE q == StackBytes \div 8
<1>1. /\ StackTop \in Int /\ StackBytes \in Nat
      /\ StackTop + 8 \in Words /\ StackTop - StackBytes \in Words
  BY NativeAssumption, HalfIsPositive DEF Words
<1>2. q \in Nat /\ 8 * q <= StackBytes
  BY <1>1
<1> HIDE DEF q
<1>3. Pointer(m) \in Addresses8 <=> m <= q
  <2>1. Addresses8 = {StackTop - 8 * k : k \in 0 .. q} \cup {StackTop + 8}
    BY DEF Addresses8, q
  <2>2. CASE m = -1
    BY <1>1, <1>2, <2>1, <2>2 DEF Pointer
  <2>3. CASE m >= 0
    BY <1>1, <1>2, <2>1, <2>3 DEF Pointer
  <2> QED
    BY <2>2, <2>3
<1>4. ASSUME m <= q PROVE Pointer(m) \in Words /\ m \in -1 .. StackBytes
  BY <1>1, <1>2, <1>4, HalfIsPositive DEF Words, Pointer
<1> QED
  BY <1>3, <1>4 DEF q

\* The word above the stack.
LEMMA TopIsThere == StackTop + 8 \in Addresses8 /\ StackTop + 8 \in Words
BY NativeAssumption DEF Addresses8

\* What is known of the code, in terms of the function that runs.
LEMMA CodeHere ==
  ASSUME native \in Natives, NEW k \in 1 .. Last
  PROVE  /\ Last \in {19, 24} /\ Last = LengthOf(native) /\ (IsFib <=> Last = 24)
         /\ At(k) \in Words /\ At(k) # ReturnTo
         /\ At(k) \in DOMAIN Blocks[native] /\ Blocks[native][At(k)] = Code(k)
         /\ k < Last => At(k) + Code(k).size = At(k + 1)
<1>1. Last = LengthOf(native) /\ Last \in {19, 24} /\ (IsFib <=> Last = 24)
  BY EmittedIsSeq DEF Last, IsFib, LengthOf
<1>2. At(k) \in DOMAIN Blocks[native] /\ Blocks[native][At(k)] = Code(k)
  BY <1>1, BlocksAre DEF At, Code
<1> DEFINE A == Address[native]
           n == Last
<1>3. /\ A \in [1 .. n -> Words]
      /\ \A i \in 2 .. n : A[i] = A[i - 1] + Emitted[native][i - 1].size
      /\ \A i \in 1 .. n : A[i] > ReturnTo
  BY <1>1, AddressesAre
<1> HIDE DEF A, n
<1>4. A[k] \in Words /\ A[k] # ReturnTo
  <2>1. A[k] \in Words /\ A[k] > ReturnTo
    BY <1>3 DEF n
  <2> QED
    BY <2>1, NativeAssumption, HalfIsPositive DEF Words
<1>5. k < n => A[k] + Emitted[native][k].size = A[k + 1]
  <2> SUFFICES ASSUME k < n PROVE A[k] + Emitted[native][k].size = A[k + 1]
    OBVIOUS
  <2>1. n \in {19, 24}
    BY <1>1 DEF n
  <2>2. k + 1 \in 2 .. n /\ (k + 1) - 1 = k
    BY <2>1
  <2> QED
    BY <1>3, <2>2
<1> QED
  BY <1>1, <1>2, <1>4, <1>5 DEF At, Code, A, n

\* An instruction decides which action there is.
LEMMA OneAction ==
  ASSUME native \in Natives, NEW k \in 1 .. Last, rip = At(k), Next
  PROVE  /\ Now = Code(k)
         /\ Code(k).op = "push" => Push
         /\ Code(k).op = "pop" => Pop
         /\ Code(k).op = "mov" => Mov
         /\ Code(k).op = "movimm" => MovImmediate
         /\ Code(k).op = "lea" => LoadAddress
         /\ Code(k).op = "addimm" => AddImmediate
         /\ Code(k).op = "add" => AddRegister
         /\ Code(k).op = "imul" => Multiply
         /\ Code(k).op = "load" => Load
         /\ Code(k).op = "cmp" => Cmp
         /\ Code(k).op \in {"jmp", "jle"} => TakeJump
         /\ Code(k).op = "call" => Call
         /\ Code(k).op = "ret" => Return
<1>1. Now = Code(k) /\ ~ Returned
  BY CodeHere DEF Now, Returned
<1>2. ~ Done
  BY <1>1 DEF Done
<1>3. /\ Push => Code(k).op = "push"
      /\ Pop => Code(k).op = "pop"
      /\ Mov => Code(k).op = "mov"
      /\ MovImmediate => Code(k).op = "movimm"
      /\ LoadAddress => Code(k).op = "lea"
      /\ AddImmediate => Code(k).op = "addimm"
      /\ AddRegister => Code(k).op = "add"
      /\ Multiply => Code(k).op = "imul"
      /\ Load => Code(k).op = "load"
      /\ Cmp => Code(k).op = "cmp"
      /\ TakeJump => Code(k).op \in {"jmp", "jle"}
      /\ Call => Code(k).op = "call"
      /\ Return => Code(k).op = "ret"
  BY <1>1 DEF Push, Pop, Mov, MovImmediate, LoadAddress, AddImmediate, AddRegister, Multiply, Load,
              Cmp, TakeJump, Call, Return, Fetch
<1> QED
  BY <1>1, <1>2, <1>3 DEF Next

--------------------------------------------------------------------------------
(* What the instructions do. *)

\* Registers other than one are as they were.
Others(q) == \A x \in Registers \ {q} : regs'[x] = regs[x]

\* The function that runs and its argument stay.
Stays == UNCHANGED <<native, argument>>

\* An instruction that computes a word.
LEMMA ComputeAt ==
  ASSUME NTypes, NEW k \in 1 .. Last, k < Last, rip = At(k), Now = Code(k), NEW v \in Int,
         NEW q \in Registers, Code(k).dst = q, q = "RSP" => Word(v) \in Addresses8, Compute(v)
  PROVE  /\ NTypes' /\ Stays /\ mem' = mem /\ rip' = At(k + 1) /\ lessEqual' = lessEqual
         /\ regs'[q] = Word(v) /\ Others(q)
<1>1. At(k) + Code(k).size = At(k + 1)
  BY CodeHere DEF NTypes
<1>2. /\ Stays /\ mem' = mem /\ rip' = At(k + 1) /\ lessEqual' = lessEqual
      /\ regs' = [regs EXCEPT ![q] = Word(v)]
  BY <1>1 DEF Compute, Stays
<1>3. Word(v) \in Words /\ regs \in [Registers -> Words]
  BY WordIsRemainder DEF NTypes
<1>4. regs' \in [Registers -> Words] /\ regs'[q] = Word(v) /\ Others(q)
  BY <1>2, <1>3 DEF Others
<1>5. regs'["RSP"] \in Addresses8
  <2>1. "RSP" \in Registers
    BY DEF Registers
  <2>2. CASE q = "RSP"
    BY <1>4, <2>2
  <2>3. CASE q # "RSP"
    <3>1. regs'["RSP"] = regs["RSP"]
      BY <1>4, <2>1, <2>3 DEF Others
    <3> QED
      BY <3>1 DEF NTypes
  <2> QED
    BY <2>2, <2>3
<1> QED
  BY <1>2, <1>4, <1>5 DEF NTypes, Stays

\* A word is put into the next slot.
LEMMA SlotIsFilled ==
  ASSUME NTypes, NEW m \in Nat, Pointer(m + 1) \in DOMAIN mem,
         NEW w \in Words, mem' = [mem EXCEPT ![Pointer(m + 1)] = w]
  PROVE  /\ mem' \in [Addresses8 -> Words] /\ mem'[StackTop + 8] = 7
         /\ Pointer(m + 1) \in Addresses8 /\ Pointer(m + 1) \in Words /\ m + 1 \in 0 .. StackBytes
         /\ Slot(m + 1)' = w /\ \A i \in 0 .. m : Slot(i)' = Slot(i)
<1>1. mem \in [Addresses8 -> Words] /\ mem[StackTop + 8] = 7 /\ m + 1 \in Int /\ m + 1 >= -1
  BY DEF NTypes
<1>2. Pointer(m + 1) \in Addresses8 /\ Pointer(m + 1) \in Words /\ m + 1 \in 0 .. StackBytes
  <2>1. Pointer(m + 1) \in Addresses8
    BY <1>1
  <2>2. Pointer(m + 1) \in Words /\ m + 1 \in -1 .. StackBytes
    BY <1>1, <2>1, SlotsThereAre
  <2> QED
    BY <2>1, <2>2, NativeAssumption
<1>3. mem' \in [Addresses8 -> Words] /\ Slot(m + 1)' = w
  BY <1>1, <1>2 DEF Slot, Pointer
<1>4. ASSUME NEW i \in 0 .. m PROVE Slot(i)' = Slot(i)
  <2> DEFINE p == Pointer(i)
             t == Pointer(m + 1)
             q == StackBytes \div 8
  <2>1. p # t
    BY SlotsAreApart
  <2>2. p \in Addresses8
    <3>1. m + 1 <= q /\ q \in Int
      BY <1>1, <1>2, NativeAssumption, SlotsThereAre
    <3> HIDE DEF q
    <3>2. i <= q /\ i \in Int /\ i >= -1
      BY <3>1
    <3> QED
      BY <3>2, SlotsThereAre DEF q
  <2> HIDE DEF p, t
  <2>3. mem'[p] = mem[p]
    BY <1>1, <2>1, <2>2 DEF t
  <2> QED
    BY <2>3 DEF Slot, Pointer, p
<1>5. mem'[StackTop + 8] = 7
  <2>1. StackTop + 8 \in Addresses8 /\ Pointer(m + 1) # StackTop + 8
    BY TopIsThere, SlotsAreApart
  <2> QED
    BY <1>1, <2>1
<1> QED
  BY <1>2, <1>3, <1>4, <1>5

\* The slot before a slot, or the word above the stack.
LEMMA SlotBefore ==
  ASSUME NEW m \in Nat, Pointer(m) \in Addresses8
  PROVE  Pointer(m - 1) \in Addresses8 /\ Pointer(m - 1) \in Words
<1> DEFINE q == StackBytes \div 8
<1>1. m - 1 \in Int /\ m - 1 >= -1 /\ m \in Int /\ m >= -1 /\ q \in Int
  BY NativeAssumption
<1>2. m <= q
  BY <1>1, SlotsThereAre
<1> HIDE DEF q
<1>3. m - 1 <= q
  BY <1>1, <1>2
<1> QED
  BY <1>1, <1>3, SlotsThereAre DEF q

\* Push fills the next slot.
LEMMA PushAt ==
  ASSUME NTypes, NEW k \in 1 .. Last, k < Last, rip = At(k), Next,
         NEW r \in Registers, Code(k) = PushReg(r), NEW m \in Nat, regs["RSP"] = Pointer(m)
  PROVE  /\ NTypes' /\ Stays /\ rip' = At(k + 1) /\ lessEqual' = lessEqual
         /\ regs'["RSP"] = Pointer(m + 1) /\ Others("RSP")
         /\ Slot(m + 1)' = regs[r] /\ \A i \in 0 .. m : Slot(i)' = Slot(i)
<1>1. At(k) + Code(k).size = At(k + 1)
  BY CodeHere DEF NTypes
<1>2. Now = Code(k) /\ Push
  <2>1. Code(k).op = "push"
    BY DEF PushReg
  <2> QED
    BY <2>1, OneAction DEF NTypes
<1>3. Below = Pointer(m + 1)
  BY SlotsAreApart DEF Below
<1>4. /\ Stays /\ rip' = At(k + 1) /\ lessEqual' = lessEqual
      /\ Pointer(m + 1) \in DOMAIN mem
      /\ mem' = [mem EXCEPT ![Pointer(m + 1)] = regs[r]]
      /\ regs' = [regs EXCEPT !["RSP"] = Pointer(m + 1)]
  <2>1. Code(k).src = r
    BY DEF PushReg
  <2> QED
    BY <1>1, <1>2, <1>3, <2>1 DEF Push, Stays
<1>5. /\ regs \in [Registers -> Words] /\ mem \in [Addresses8 -> Words] /\ mem[StackTop + 8] = 7
      /\ "RSP" \in Registers
  BY DEF NTypes, Registers
<1>6. /\ mem' \in [Addresses8 -> Words] /\ mem'[StackTop + 8] = 7
      /\ Pointer(m + 1) \in Addresses8 /\ Pointer(m + 1) \in Words /\ m + 1 \in 0 .. StackBytes
      /\ Slot(m + 1)' = regs[r] /\ \A i \in 0 .. m : Slot(i)' = Slot(i)
  BY <1>4, <1>5, SlotIsFilled
<1>7. regs' \in [Registers -> Words] /\ regs'["RSP"] = Pointer(m + 1) /\ Others("RSP")
  BY <1>4, <1>5, <1>6 DEF Others
<1> QED
  BY <1>4, <1>6, <1>7 DEF NTypes, Stays

\* Pop empties the last one.
LEMMA PopAt ==
  ASSUME NTypes, NEW k \in 1 .. Last, k < Last, rip = At(k), Next,
         NEW r \in Registers \ {"RSP"}, Code(k) = PopReg(r), NEW m \in Nat, regs["RSP"] = Pointer(m)
  PROVE  /\ NTypes' /\ Stays /\ mem' = mem /\ rip' = At(k + 1) /\ lessEqual' = lessEqual
         /\ regs'["RSP"] = Pointer(m - 1) /\ regs'[r] = Slot(m)
         /\ \A x \in Registers \ {"RSP", r} : regs'[x] = regs[x]
<1>1. At(k) + Code(k).size = At(k + 1)
  BY CodeHere DEF NTypes
<1>2. Now = Code(k) /\ Pop
  <2>1. Code(k).op = "pop"
    BY DEF PopReg
  <2> QED
    BY <2>1, OneAction DEF NTypes
<1>3. Pointer(m) + 8 = Pointer(m - 1)
  BY SlotsAreApart
<1>4. /\ Stays /\ mem' = mem /\ rip' = At(k + 1) /\ lessEqual' = lessEqual
      /\ regs' = [regs EXCEPT !["RSP"] = @ + 8, ![r] = mem[Pointer(m)]]
  <2>1. Code(k).dst = r
    BY DEF PopReg
  <2> QED
    BY <1>1, <1>2, <2>1 DEF Pop, Stays
<1>5. /\ regs \in [Registers -> Words] /\ mem \in [Addresses8 -> Words] /\ Pointer(m) \in Addresses8
      /\ "RSP" \in Registers
  BY DEF NTypes, Registers
<1>6. Pointer(m - 1) \in Addresses8 /\ Pointer(m - 1) \in Words
  BY <1>5, SlotBefore
<1>7. /\ regs' \in [Registers -> Words] /\ regs'["RSP"] = Pointer(m - 1) /\ regs'[r] = mem[Pointer(m)]
      /\ \A x \in Registers \ {"RSP", r} : regs'[x] = regs[x]
  <2>1. mem[Pointer(m)] \in Words
    BY <1>5
  <2>2. regs["RSP"] + 8 = Pointer(m - 1)
    BY <1>3
  <2> DEFINE w == mem[Pointer(m)]
             p == Pointer(m - 1)
  <2>3. regs' = [regs EXCEPT !["RSP"] = p, ![r] = w]
    BY <1>4, <2>2
  <2>4. w \in Words /\ p \in Words
    BY <1>6, <2>1
  <2> HIDE DEF w, p
  <2>5. /\ regs' \in [Registers -> Words] /\ regs'["RSP"] = p /\ regs'[r] = w
        /\ \A x \in Registers \ {"RSP", r} : regs'[x] = regs[x]
    BY <1>5, <2>3, <2>4
  <2> QED
    BY <2>5 DEF w, p
<1> QED
  BY <1>4, <1>6, <1>7 DEF NTypes, Stays, Slot

\* Call leaves the address behind it.
LEMMA CallAt ==
  ASSUME NTypes, NEW k \in 1 .. Last, k < Last, rip = At(k), Next,
         Code(k) = CallReg("RAX"), NEW m \in Nat, regs["RSP"] = Pointer(m)
  PROVE  /\ NTypes' /\ Stays /\ rip' = regs["RAX"] /\ lessEqual' = lessEqual
         /\ m + 1 \in 0 .. StackBytes
         /\ regs'["RSP"] = Pointer(m + 1) /\ Others("RSP")
         /\ Slot(m + 1)' = At(k + 1) /\ \A i \in 0 .. m : Slot(i)' = Slot(i)
<1>1. At(k) + Code(k).size = At(k + 1) /\ At(k + 1) \in Words
  <2>1. k + 1 \in 1 .. Last
    BY CodeHere DEF NTypes
  <2> QED
    BY <2>1, CodeHere DEF NTypes
<1>2. Now = Code(k) /\ Call
  <2>1. Code(k).op = "call"
    BY DEF CallReg
  <2> QED
    BY <2>1, OneAction DEF NTypes
<1>3. Below = Pointer(m + 1)
  BY SlotsAreApart DEF Below
<1>4. /\ Stays /\ rip' = regs["RAX"] /\ lessEqual' = lessEqual
      /\ Pointer(m + 1) \in DOMAIN mem
      /\ mem' = [mem EXCEPT ![Pointer(m + 1)] = At(k + 1)]
      /\ regs' = [regs EXCEPT !["RSP"] = Pointer(m + 1)]
  <2>1. Code(k).src = "RAX"
    BY DEF CallReg
  <2> QED
    BY <1>1, <1>2, <1>3, <2>1 DEF Call, Stays
<1>5. /\ regs \in [Registers -> Words] /\ mem \in [Addresses8 -> Words] /\ mem[StackTop + 8] = 7
      /\ "RSP" \in Registers
  BY DEF NTypes, Registers
<1>6. /\ mem' \in [Addresses8 -> Words] /\ mem'[StackTop + 8] = 7
      /\ Pointer(m + 1) \in Addresses8 /\ Pointer(m + 1) \in Words /\ m + 1 \in 0 .. StackBytes
      /\ Slot(m + 1)' = At(k + 1) /\ \A i \in 0 .. m : Slot(i)' = Slot(i)
  BY <1>1, <1>4, <1>5, SlotIsFilled
<1>7. regs' \in [Registers -> Words] /\ regs'["RSP"] = Pointer(m + 1) /\ Others("RSP")
  BY <1>4, <1>5, <1>6 DEF Others
<1> QED
  BY <1>4, <1>6, <1>7 DEF NTypes, Stays

\* Ret goes where the last slot says.
LEMMA RetAt ==
  ASSUME NTypes, NEW k \in 1 .. Last, rip = At(k), Next,
         Code(k) = RetInstr, NEW m \in Nat, regs["RSP"] = Pointer(m)
  PROVE  /\ NTypes' /\ Stays /\ mem' = mem /\ rip' = Slot(m) /\ lessEqual' = lessEqual
         /\ regs'["RSP"] = Pointer(m - 1) /\ Others("RSP")
<1>1. Now = Code(k) /\ Return
  <2>1. Code(k).op = "ret"
    BY DEF RetInstr
  <2> QED
    BY <2>1, OneAction DEF NTypes
<1>2. /\ Stays /\ mem' = mem /\ rip' = Slot(m) /\ lessEqual' = lessEqual
      /\ regs' = [regs EXCEPT !["RSP"] = Pointer(m - 1)]
  <2>1. Pointer(m) + 8 = Pointer(m - 1)
    BY SlotsAreApart
  <2> QED
    BY <1>1, <2>1 DEF Return, Stays, Slot
<1>3. regs \in [Registers -> Words] /\ Pointer(m) \in Addresses8 /\ "RSP" \in Registers
  BY DEF NTypes, Registers
<1>4. Pointer(m - 1) \in Addresses8 /\ Pointer(m - 1) \in Words
  BY <1>3, SlotBefore
<1>5. regs' \in [Registers -> Words] /\ regs'["RSP"] = Pointer(m - 1) /\ Others("RSP")
  BY <1>2, <1>3, <1>4 DEF Others
<1> QED
  BY <1>2, <1>4, <1>5 DEF NTypes, Stays

\* Cmp sets the flags.
LEMMA CmpAt ==
  ASSUME NTypes, NEW k \in 1 .. Last, k < Last, rip = At(k), Next,
         NEW r \in Registers, NEW n \in Int, Code(k) = CmpRegImm(r, n)
  PROVE  /\ NTypes' /\ Stays /\ mem' = mem /\ regs' = regs /\ rip' = At(k + 1)
         /\ lessEqual' = (regs[r] <= n)
<1>1. At(k) + Code(k).size = At(k + 1)
  BY CodeHere DEF NTypes
<1>2. Code(k).op = "cmp" /\ Code(k).dst = r /\ Code(k).imm = n
  BY DEF CmpRegImm
<1>3. Now = Code(k) /\ Cmp
  BY <1>2, OneAction DEF NTypes
<1>4. /\ Stays /\ mem' = mem /\ regs' = regs /\ rip' = At(k + 1)
      /\ lessEqual' = (regs[r] <= n)
  BY <1>1, <1>2, <1>3 DEF Cmp, Stays
<1> QED
  BY <1>4 DEF NTypes, Stays

\* A jump goes on behind it or from there on by its offset.
LEMMA JumpAt ==
  ASSUME NTypes, NEW k \in 1 .. Last, k < Last, rip = At(k), Next, Code(k).op \in {"jmp", "jle"}
  PROVE  /\ NTypes' /\ Stays /\ mem' = mem /\ regs' = regs /\ lessEqual' = lessEqual
         /\ Code(k).op = "jmp" \/ lessEqual => rip' = At(k) + Code(k).size + Code(k).imm
         /\ ~ (Code(k).op = "jmp" \/ lessEqual) => rip' = At(k) + Code(k).size + 0
<1>1. Now = Code(k) /\ TakeJump
  BY OneAction DEF NTypes
<1>2. /\ Stays /\ mem' = mem /\ regs' = regs /\ lessEqual' = lessEqual
      /\ rip' = At(k) + Code(k).size + IF Code(k).op = "jmp" \/ lessEqual THEN Code(k).imm ELSE 0
  BY <1>1 DEF TakeJump, Stays
<1>3. NTypes'
  BY <1>2 DEF NTypes, Stays
<1>4. CASE Code(k).op = "jmp" \/ lessEqual
  BY <1>2, <1>3, <1>4
<1>5. CASE ~ (Code(k).op = "jmp" \/ lessEqual)
  BY <1>2, <1>3, <1>5
<1> QED
  BY <1>4, <1>5

--------------------------------------------------------------------------------
(* The calls that are under way. *)

\* What depends on the function and its argument alone.
LEMMA FunctionStays ==
  ASSUME Stays
  PROVE  /\ Last' = Last /\ IsFib' = IsFib /\ Given' = Given /\ BehindCalls' = BehindCalls
         /\ \A k : At(k)' = At(k) /\ Code(k)' = Code(k)
         /\ \A n : Rec(n)' = Rec(n)
BY DEF Stays, Last, IsFib, Given, CallRegisters, BehindCalls, At, Code, Rec, NativeCall

\* The calls up to a depth are made of the slots below theirs.
LEMMA ChainStays ==
  ASSUME NTypes, Stays, NEW d \in Nat, \A i \in 0 .. 5 * d : Slot(i)' = Slot(i)
  PROVE  /\ \A j \in 0 .. d : /\ Arg(j)' = Arg(j) /\ FoundRbp(j)' = FoundRbp(j)
                              /\ FoundR12(j)' = FoundR12(j) /\ FoundRbx(j)' = FoundRbx(j)
         /\ Chain(d) => Chain(d)'
<1>1. /\ Given' = Given /\ BehindCalls' = BehindCalls
      /\ \A k : At(k)' = At(k) /\ \A n : Rec(n)' = Rec(n)
  BY FunctionStays
<1>2. ASSUME NEW j \in 0 .. d PROVE Arg(j)' = Arg(j)
  <2>1. CASE j = 0
    BY <1>1, <2>1 DEF Arg
  <2>2. CASE j # 0
    <3>1. Slot(5 * (j - 1) + 4)' = Slot(5 * (j - 1) + 4) /\ Slot(5 * j)' = Slot(5 * j)
      <4>1. 5 * (j - 1) + 4 \in 0 .. 5 * d /\ 5 * j \in 0 .. 5 * d
        BY <2>2
      <4> QED
        BY <4>1
    <3> QED
      BY <1>1, <2>2, <3>1 DEF Arg
  <2> QED
    BY <2>1, <2>2
<1>3. ASSUME NEW j \in 0 .. d
      PROVE  FoundRbp(j)' = FoundRbp(j) /\ FoundR12(j)' = FoundR12(j) /\ FoundRbx(j)' = FoundRbx(j)
  <2>1. CASE j = 0
    BY <1>1, <2>1 DEF FoundRbp, FoundR12, FoundRbx
  <2>2. CASE j # 0
    <3>1. j - 1 \in 0 .. d /\ 5 * j \in 0 .. 5 * d
      BY <2>2
    <3>2. Arg(j - 1)' = Arg(j - 1) /\ Slot(5 * j)' = Slot(5 * j)
      BY <1>2, <3>1
    <3>3. FoundRbx(j)' = FoundRbx(j)
      <4>1. Rec(Arg(j - 1) - 1)' = Rec(Arg(j - 1) - 1)
        BY <1>1, <3>2 DEF Rec
      <4> QED
        BY <1>1, <2>2, <3>2, <4>1 DEF FoundRbx, Word
    <3>4. FoundRbp(j)' = FoundRbp(j)
      BY <2>2 DEF FoundRbp, Pointer
    <3> QED
      BY <1>1, <2>2, <3>2, <3>3, <3>4 DEF FoundR12
  <2> QED
    BY <2>1, <2>2
<1>4. ASSUME Chain(d) PROVE Chain(d)'
  <2>1. Slot(0)' = ReturnTo
    <3>1. 0 \in 0 .. 5 * d
      OBVIOUS
    <3> QED
      BY <1>4, <3>1 DEF Chain
  <2>2. ASSUME NEW j \in 1 .. d
        PROVE  Arg(j - 1)' > 1 /\ (\E k \in BehindCalls' : Slot(5 * j)' = At(k)')
    <3>1. j - 1 \in 0 .. d /\ 5 * j \in 0 .. 5 * d
      OBVIOUS
    <3>2. Arg(j - 1)' = Arg(j - 1) /\ Slot(5 * j)' = Slot(5 * j)
      BY <1>2, <3>1
    <3>3. Arg(j - 1) > 1 /\ \E k \in BehindCalls : Slot(5 * j) = At(k)
      BY <1>4 DEF Chain
    <3> QED
      BY <1>1, <3>2, <3>3
  <2>3. ASSUME NEW j \in 0 .. d - 1
        PROVE  /\ Slot(5 * j + 1)' = FoundRbp(j)'
               /\ Slot(5 * j + 2)' \in FoundRbx(j)'
               /\ Slot(5 * j + 3)' = FoundR12(j)'
               /\ Slot(5 * j + 4)' = Arg(j)'
    <3>1. /\ j \in 0 .. d /\ 5 * j + 1 \in 0 .. 5 * d /\ 5 * j + 2 \in 0 .. 5 * d
          /\ 5 * j + 3 \in 0 .. 5 * d /\ 5 * j + 4 \in 0 .. 5 * d
      OBVIOUS
    <3>2. /\ Slot(5 * j + 1)' = Slot(5 * j + 1) /\ Slot(5 * j + 2)' = Slot(5 * j + 2)
          /\ Slot(5 * j + 3)' = Slot(5 * j + 3) /\ Slot(5 * j + 4)' = Slot(5 * j + 4)
      BY <3>1
    <3>3. /\ Slot(5 * j + 1) = FoundRbp(j) /\ Slot(5 * j + 2) \in FoundRbx(j)
          /\ Slot(5 * j + 3) = FoundR12(j) /\ Slot(5 * j + 4) = Arg(j)
      BY <1>4 DEF Chain
    <3> QED
      BY <1>2, <1>3, <3>1, <3>2, <3>3
  <2> QED
    BY <2>1, <2>2, <2>3 DEF Chain
<1> QED
  BY <1>2, <1>3, <1>4

\* The slots before each instruction.
LEMMA PushedIs ==
  ASSUME native \in Natives
  PROVE  /\ Pushed(1) = 0 /\ Pushed(2) = 1 /\ Pushed(3) = 1 /\ Pushed(4) = 2
         /\ Pushed(5) = 3 /\ Pushed(6) = 3 /\ Pushed(7) = 3 /\ Pushed(8) = 3
         /\ \A k \in 9 .. Last - 6 : Pushed(k) = 4
         /\ Pushed(Last - 5) = 3 /\ Pushed(Last - 4) = 3 /\ Pushed(Last - 3) = 3
         /\ Pushed(Last - 2) = 2 /\ Pushed(Last - 1) = 1 /\ Pushed(Last) = 0
<1>1. Last \in {19, 24}
  BY EmittedIsSeq DEF Last, IsFib, LengthOf
<1> QED
  BY <1>1 DEF Pushed

\* The instructions of the function that runs.
LEMMA CodeListed ==
  ASSUME native \in Natives
  PROVE  /\ Last \in {19, 24} /\ (IsFib <=> Last = 24)
         /\ Code(1) = PushReg("RBP") /\ Code(2) = MovRegReg("RBP", "RSP") /\ Code(3) = PushReg("RBX")
         /\ Code(4) = PushReg("R12") /\ Code(5) = MovRegReg("R12", "RCX") /\ Code(6) = CmpRegImm("R12", 1)
         /\ Code(7) = Jle(IF Last = 24 THEN 66 ELSE 38)
         /\ Code(8) = PushReg("R12") /\ Code(9) = Lea("RCX", "R12", -1)
         /\ Code(10) = MovRegImm("RAX", CodeAddress) /\ Code(11) = CallReg("RAX")
         /\ Last = 24 => /\ Code(12) = MovRegReg("RBX", "RAX") /\ Code(13) = MovRegMem("RCX", "RBP", -24)
                         /\ Code(14) = Lea("RCX", "RCX", -2) /\ Code(15) = MovRegImm("RAX", CodeAddress)
                         /\ Code(16) = CallReg("RAX") /\ Code(17) = AddRegReg("RAX", "RBX")
         /\ Last = 19 => Code(12) = ImulRegReg("RAX", "R12")
         /\ Code(Last - 6) = AddRegImm("RSP", 8) /\ Code(Last - 5) = Jmp(BaseInstr(native).size)
         /\ Code(Last - 4) = BaseInstr(native) /\ Code(Last - 3) = PopReg("R12")
         /\ Code(Last - 2) = PopReg("RBX") /\ Code(Last - 1) = PopReg("RBP") /\ Code(Last) = RetInstr
<1> DEFINE e == Emitted[native]
           n == LengthOf(native)
<1>1. Last = n /\ (IsFib <=> native.pattern = "FIB") /\ \A k : Code(k) = e[k]
  BY DEF Last, IsFib, LengthOf, Code
<1> HIDE DEF e, n
<1>2. e = Emitted[native] /\ n = LengthOf(native)
  BY DEF e, n
<1> DEFINE fib == /\ e[12] = MovRegReg("RBX", "RAX") /\ e[13] = MovRegMem("RCX", "RBP", -24)
                  /\ e[14] = Lea("RCX", "RCX", -2) /\ e[15] = MovRegImm("RAX", CodeAddress)
                  /\ e[16] = CallReg("RAX") /\ e[17] = AddRegReg("RAX", "RBX")
<1>3. /\ n \in {19, 24} /\ (n = 24 <=> native.pattern = "FIB")
      /\ n = 24 => fib
      /\ n = 19 => e[12] = ImulRegReg("RAX", "R12")
  BY <1>2, CodeIs
<1>4. /\ e[1] = PushReg("RBP") /\ e[2] = MovRegReg("RBP", "RSP") /\ e[3] = PushReg("RBX")
      /\ e[4] = PushReg("R12") /\ e[5] = MovRegReg("R12", "RCX") /\ e[6] = CmpRegImm("R12", 1)
      /\ e[7] = Jle(IF n = 24 THEN 66 ELSE 38)
      /\ e[8] = PushReg("R12") /\ e[9] = Lea("RCX", "R12", -1)
      /\ e[10] = MovRegImm("RAX", CodeAddress) /\ e[11] = CallReg("RAX")
  BY <1>2, CodeIs
<1>5. /\ e[n - 6] = AddRegImm("RSP", 8) /\ e[n - 5] = Jmp(BaseInstr(native).size)
      /\ e[n - 4] = BaseInstr(native) /\ e[n - 3] = PopReg("R12") /\ e[n - 2] = PopReg("RBX")
      /\ e[n - 1] = PopReg("RBP") /\ e[n] = RetInstr
  BY <1>2, CodeIs
<1> QED
  BY <1>1, <1>3, <1>4, <1>5

\* The first instruction is where a call enters.
LEMMA FirstIsCode ==
  ASSUME native \in Natives
  PROVE  At(1) = CodeAddress
BY AddressesAre DEF At

\* One step of the recurrence.
LEMMA RecOfCall ==
  ASSUME native \in Natives, NEW n \in Int
  PROVE  /\ Rec(n) \in Int /\ Rec(n - 1) \in Int /\ Rec(n - 2) \in Int
         /\ n <= 1 => Rec(n) = IF native.base = -1 THEN n ELSE native.base
         /\ n > 1 /\ Last = 24 => Rec(n) = Rec(n - 1) + Rec(n - 2)
         /\ n > 1 /\ Last = 19 => Rec(n) = n * Rec(n - 1)
<1>1. native.pattern \in {"FIB", "FACTORIAL"} /\ native.base \in Int
  BY NativeAssumption
<1>2. (Last = 24 => native.pattern = "FIB") /\ (Last = 19 => native.pattern # "FIB")
  BY DEF Last, IsFib
<1>3. n - 1 \in Int /\ n - 2 \in Int
  OBVIOUS
<1>4. /\ NativeCall(native, n) \in Int /\ NativeCall(native, n - 1) \in Int /\ NativeCall(native, n - 2) \in Int
  BY <1>1, <1>3, NativeCallIsRecursive
<1>5. n <= 1 => NativeCall(native, n) = IF native.base = -1 THEN n ELSE native.base
  BY <1>1, NativeCallIsRecursive
<1>6. n > 1 => NativeCall(native, n) =
                 IF native.pattern = "FIB" THEN NativeCall(native, n - 1) + NativeCall(native, n - 2)
                 ELSE n * NativeCall(native, n - 1)
  BY <1>1, NativeCallIsRecursive
<1> QED
  BY <1>2, <1>4, <1>5, <1>6 DEF Rec

--------------------------------------------------------------------------------
(* From each instruction to the next. *)

\* What a step that leaves its slots alone leaves of the current call.
LEMMA CallStays ==
  ASSUME NTypes, Stays, NEW d \in Nat, Chain(d), \A i \in 0 .. 5 * d : Slot(i)' = Slot(i)
  PROVE  /\ Arg(d)' = Arg(d) /\ FoundRbp(d)' = FoundRbp(d)
         /\ FoundR12(d)' = FoundR12(d) /\ FoundRbx(d)' = FoundRbx(d)
         /\ Chain(d)' /\ Last' = Last /\ (IsFib' <=> IsFib)
         /\ \A k : Pushed(k)' = Pushed(k) /\ At(k)' = At(k)
         /\ Rec(Arg(d))' = Rec(Arg(d)) /\ Rec(Arg(d) - 1)' = Rec(Arg(d) - 1)
         /\ Rec(Arg(d) - 2)' = Rec(Arg(d) - 2)
<1>1. d \in 0 .. d
  OBVIOUS
<1>2. /\ Arg(d)' = Arg(d) /\ FoundRbp(d)' = FoundRbp(d)
      /\ FoundR12(d)' = FoundR12(d) /\ FoundRbx(d)' = FoundRbx(d) /\ Chain(d)'
  BY <1>1, ChainStays
<1>3. Last' = Last /\ (IsFib' <=> IsFib)
  BY DEF Stays, Last, IsFib
<1>4. \A k : Pushed(k)' = Pushed(k) /\ At(k)' = At(k)
  BY <1>3 DEF Stays, Pushed, At
<1>5. /\ Rec(Arg(d))' = Rec(Arg(d)) /\ Rec(Arg(d) - 1)' = Rec(Arg(d) - 1)
      /\ Rec(Arg(d) - 2)' = Rec(Arg(d) - 2)
  BY <1>2 DEF Stays, Rec
<1> QED
  BY <1>2, <1>3, <1>4, <1>5

\* The prologue: rbp is pushed.
LEMMA PushRbp ==
  ASSUME NTypes, NEW d \in 0 .. StackBytes, Point(d, 1), Next
  PROVE  NTypes' /\ Point(d, 2)'
<1>1. native \in Natives /\ d \in Nat
  BY NativeAssumption DEF NTypes
<1>2. /\ Last \in {19, 24} /\ 1 \in 1 .. Last /\ 1 < Last
      /\ Code(1) = PushReg("RBP") /\ "RBP" \in Registers
  BY <1>1, CodeListed DEF Registers
<1> DEFINE m == 5 * d
<1>3. rip = At(1) /\ regs["RSP"] = Pointer(m) /\ m \in Nat
  BY <1>1, PushedIs DEF Point, Kept
<1> HIDE DEF m
<1>4. /\ NTypes' /\ Stays /\ rip' = At(1 + 1) /\ lessEqual' = lessEqual
      /\ regs'["RSP"] = Pointer(m + 1) /\ Others("RSP")
      /\ Slot(m + 1)' = regs["RBP"] /\ \A i \in 0 .. m : Slot(i)' = Slot(i)
  BY <1>1, <1>2, <1>3, PushAt
<1> USE DEF m
<1>5. \A i \in 0 .. 5 * d : Slot(i)' = Slot(i)
  BY <1>1, <1>4
<1>6. /\ Arg(d)' = Arg(d) /\ FoundRbp(d)' = FoundRbp(d)
      /\ FoundR12(d)' = FoundR12(d) /\ FoundRbx(d)' = FoundRbx(d)
      /\ Chain(d)' /\ Last' = Last /\ (IsFib' <=> IsFib)
      /\ Rec(Arg(d))' = Rec(Arg(d)) /\ Rec(Arg(d) - 1)' = Rec(Arg(d) - 1)
      /\ Rec(Arg(d) - 2)' = Rec(Arg(d) - 2)
      /\ Pushed(2)' = 1 /\ rip' = At(2)'
  BY <1>1, <1>2, <1>4, <1>5, CallStays, PushedIs DEF Point
<1>7. Saved(d, 2)'
  BY <1>1, <1>2, <1>4, <1>6 DEF Point, Saved, Kept, Computed
<1>8. Kept(d, 2)'
  BY <1>2, <1>3, <1>4, <1>6 DEF Point, Kept, Others, Registers
<1>9. Computed(Arg(d), 2)'
  BY <1>2, <1>4, <1>6 DEF Point, Computed, Others, Registers
<1> QED
  BY <1>4, <1>6, <1>7, <1>8, <1>9 DEF Point

\* rbp becomes the frame.
LEMMA MovRbp ==
  ASSUME NTypes, NEW d \in 0 .. StackBytes, Point(d, 2), Next
  PROVE  NTypes' /\ Point(d, 3)'
<1>1. native \in Natives /\ d \in Nat
  BY NativeAssumption DEF NTypes
<1>2. /\ Last \in {19, 24} /\ (IsFib <=> Last = 24) /\ 2 \in 1 .. Last /\ 2 < Last
      /\ Code(2).op = "mov" /\ Code(2).dst = "RBP" /\ Code(2).src = "RSP"
  BY <1>1, CodeListed DEF MovRegReg
<1>3. rip = At(2) /\ regs["RSP"] = Pointer(5 * d + 1)
  BY <1>1, <1>2, PushedIs DEF Point, Kept, Saved, Computed
<1> DEFINE v == regs["RSP"]
<1>4. v \in Int /\ Word(v) = Pointer(5 * d + 1)
  <2>1. v \in Int /\ Word(v) = v
    BY WordOfWord, HalfIsPositive DEF NTypes, Registers, Words
  <2> QED
    BY <1>3, <2>1
<1>5. Now = Code(2) /\ Compute(v)
  <2>1. Now = Code(2) /\ Mov
    BY <1>1, <1>2, <1>3, OneAction
  <2> QED
    BY <1>2, <1>3, <2>1 DEF Mov
<1> HIDE DEF v
<1>6. /\ NTypes' /\ Stays /\ mem' = mem /\ rip' = At(2 + 1) /\ lessEqual' = lessEqual
      /\ regs'["RBP"] = Word(v) /\ Others("RBP")
  <2>1. "RBP" \in Registers /\ "RBP" # "RSP"
    BY DEF Registers
  <2> QED
    BY <1>2, <1>3, <1>4, <1>5, <2>1, ComputeAt
<1>7. \A i : Slot(i)' = Slot(i)
  BY <1>6 DEF Slot, Pointer
<1>8. /\ Arg(d)' = Arg(d) /\ FoundRbp(d)' = FoundRbp(d)
      /\ FoundR12(d)' = FoundR12(d) /\ FoundRbx(d)' = FoundRbx(d)
      /\ Chain(d)' /\ Last' = Last /\ (IsFib' <=> IsFib)
      /\ Rec(Arg(d))' = Rec(Arg(d)) /\ Rec(Arg(d) - 1)' = Rec(Arg(d) - 1)
      /\ Rec(Arg(d) - 2)' = Rec(Arg(d) - 2)
      /\ Pushed(3)' = 1 /\ rip' = At(3)'
  BY <1>1, <1>2, <1>6, <1>7, CallStays, PushedIs DEF Point
<1>9. Saved(d, 3)'
  BY <1>2, <1>7, <1>8 DEF Point, Saved
<1>10. Kept(d, 3)'
  BY <1>2, <1>3, <1>4, <1>6, <1>8 DEF Point, Kept, Others, Registers
<1>11. Computed(Arg(d), 3)'
  BY <1>2, <1>3, <1>4, <1>6, <1>8 DEF Point, Computed, Others, Registers
<1> QED
  BY <1>6, <1>8, <1>9, <1>10, <1>11 DEF Point

\* rbx is pushed.
LEMMA PushRbx ==
  ASSUME NTypes, NEW d \in 0 .. StackBytes, Point(d, 3), Next
  PROVE  NTypes' /\ Point(d, 4)'
<1>1. native \in Natives /\ d \in Nat
  BY NativeAssumption DEF NTypes
<1>2. /\ Last \in {19, 24} /\ 3 \in 1 .. Last /\ 3 < Last
      /\ Code(3) = PushReg("RBX") /\ "RBX" \in Registers
  BY <1>1, CodeListed DEF Registers
<1> DEFINE m == 5 * d + 1
<1>3. rip = At(3) /\ regs["RSP"] = Pointer(m) /\ m \in Nat
  BY <1>1, PushedIs DEF Point, Kept
<1> HIDE DEF m
<1>4. /\ NTypes' /\ Stays /\ rip' = At(3 + 1) /\ lessEqual' = lessEqual
      /\ regs'["RSP"] = Pointer(m + 1) /\ Others("RSP")
      /\ Slot(m + 1)' = regs["RBX"] /\ \A i \in 0 .. m : Slot(i)' = Slot(i)
  BY <1>1, <1>2, <1>3, PushAt
<1> USE DEF m
<1>5. \A i \in 0 .. 5 * d : Slot(i)' = Slot(i)
  BY <1>1, <1>4
<1>6. /\ Arg(d)' = Arg(d) /\ FoundRbp(d)' = FoundRbp(d)
      /\ FoundR12(d)' = FoundR12(d) /\ FoundRbx(d)' = FoundRbx(d)
      /\ Chain(d)' /\ Last' = Last /\ (IsFib' <=> IsFib)
      /\ Rec(Arg(d))' = Rec(Arg(d)) /\ Rec(Arg(d) - 1)' = Rec(Arg(d) - 1)
      /\ Rec(Arg(d) - 2)' = Rec(Arg(d) - 2)
      /\ Pushed(4)' = 2 /\ rip' = At(4)'
  BY <1>1, <1>2, <1>4, <1>5, CallStays, PushedIs DEF Point
<1>7. Saved(d, 4)'
  BY <1>1, <1>2, <1>4, <1>6 DEF Point, Saved, Kept, Computed
<1>8. Kept(d, 4)'
  BY <1>2, <1>3, <1>4, <1>6 DEF Point, Kept, Others, Registers
<1>9. Computed(Arg(d), 4)'
  BY <1>2, <1>4, <1>6 DEF Point, Computed, Others, Registers
<1> QED
  BY <1>4, <1>6, <1>7, <1>8, <1>9 DEF Point

\* r12 is pushed.
LEMMA PushR12 ==
  ASSUME NTypes, NEW d \in 0 .. StackBytes, Point(d, 4), Next
  PROVE  NTypes' /\ Point(d, 5)'
<1>1. native \in Natives /\ d \in Nat
  BY NativeAssumption DEF NTypes
<1>2. /\ Last \in {19, 24} /\ 4 \in 1 .. Last /\ 4 < Last
      /\ Code(4) = PushReg("R12") /\ "R12" \in Registers
  BY <1>1, CodeListed DEF Registers
<1> DEFINE m == 5 * d + 2
<1>3. rip = At(4) /\ regs["RSP"] = Pointer(m) /\ m \in Nat
  BY <1>1, PushedIs DEF Point, Kept
<1> HIDE DEF m
<1>4. /\ NTypes' /\ Stays /\ rip' = At(4 + 1) /\ lessEqual' = lessEqual
      /\ regs'["RSP"] = Pointer(m + 1) /\ Others("RSP")
      /\ Slot(m + 1)' = regs["R12"] /\ \A i \in 0 .. m : Slot(i)' = Slot(i)
  BY <1>1, <1>2, <1>3, PushAt
<1> USE DEF m
<1>5. \A i \in 0 .. 5 * d : Slot(i)' = Slot(i)
  BY <1>1, <1>4
<1>6. /\ Arg(d)' = Arg(d) /\ FoundRbp(d)' = FoundRbp(d)
      /\ FoundR12(d)' = FoundR12(d) /\ FoundRbx(d)' = FoundRbx(d)
      /\ Chain(d)' /\ Last' = Last /\ (IsFib' <=> IsFib)
      /\ Rec(Arg(d))' = Rec(Arg(d)) /\ Rec(Arg(d) - 1)' = Rec(Arg(d) - 1)
      /\ Rec(Arg(d) - 2)' = Rec(Arg(d) - 2)
      /\ Pushed(5)' = 3 /\ rip' = At(5)'
  BY <1>1, <1>2, <1>4, <1>5, CallStays, PushedIs DEF Point
<1>7. Saved(d, 5)'
  BY <1>1, <1>2, <1>4, <1>6 DEF Point, Saved, Kept, Computed
<1>8. Kept(d, 5)'
  BY <1>2, <1>3, <1>4, <1>6 DEF Point, Kept, Others, Registers
<1>9. Computed(Arg(d), 5)'
  BY <1>2, <1>4, <1>6 DEF Point, Computed, Others, Registers
<1> QED
  BY <1>4, <1>6, <1>7, <1>8, <1>9 DEF Point

\* r12 becomes n.
LEMMA MovR12 ==
  ASSUME NTypes, NEW d \in 0 .. StackBytes, Point(d, 5), Next
  PROVE  NTypes' /\ Point(d, 6)'
<1>1. native \in Natives /\ d \in Nat
  BY NativeAssumption DEF NTypes
<1>2. /\ Last \in {19, 24} /\ (IsFib <=> Last = 24) /\ 5 \in 1 .. Last /\ 5 < Last
      /\ Code(5).op = "mov" /\ Code(5).dst = "R12" /\ Code(5).src = "RCX"
  BY <1>1, CodeListed DEF MovRegReg
<1>3. rip = At(5) /\ regs["RCX"] = Arg(d) /\ regs["RSP"] = Pointer(5 * d + 3) /\ regs["RBP"] = Pointer(5 * d + 1)
  BY <1>1, <1>2, PushedIs DEF Point, Kept, Saved, Computed
<1> DEFINE v == regs["RCX"]
<1>4. v \in Int /\ Word(v) = Arg(d)
  <2>1. v \in Int /\ Word(v) = v
    BY WordOfWord, HalfIsPositive DEF NTypes, Registers, Words
  <2> QED
    BY <1>3, <2>1
<1>5. Now = Code(5) /\ Compute(v)
  <2>1. Now = Code(5) /\ Mov
    BY <1>1, <1>2, <1>3, OneAction
  <2> QED
    BY <1>2, <1>3, <2>1 DEF Mov
<1> HIDE DEF v
<1>6. /\ NTypes' /\ Stays /\ mem' = mem /\ rip' = At(5 + 1) /\ lessEqual' = lessEqual
      /\ regs'["R12"] = Word(v) /\ Others("R12")
  <2>1. "R12" \in Registers /\ "R12" # "RSP"
    BY DEF Registers
  <2> QED
    BY <1>2, <1>3, <1>4, <1>5, <2>1, ComputeAt
<1>7. \A i : Slot(i)' = Slot(i)
  BY <1>6 DEF Slot, Pointer
<1>8. /\ Arg(d)' = Arg(d) /\ FoundRbp(d)' = FoundRbp(d)
      /\ FoundR12(d)' = FoundR12(d) /\ FoundRbx(d)' = FoundRbx(d)
      /\ Chain(d)' /\ Last' = Last /\ (IsFib' <=> IsFib)
      /\ Rec(Arg(d))' = Rec(Arg(d)) /\ Rec(Arg(d) - 1)' = Rec(Arg(d) - 1)
      /\ Rec(Arg(d) - 2)' = Rec(Arg(d) - 2)
      /\ Pushed(6)' = 3 /\ rip' = At(6)'
  BY <1>1, <1>2, <1>6, <1>7, CallStays, PushedIs DEF Point
<1>9. Saved(d, 6)'
  BY <1>2, <1>7, <1>8 DEF Point, Saved
<1>10. Kept(d, 6)'
  BY <1>2, <1>3, <1>4, <1>6, <1>8 DEF Point, Kept, Others, Registers
<1>11. Computed(Arg(d), 6)'
  BY <1>2, <1>3, <1>4, <1>6, <1>8 DEF Point, Computed, Others, Registers
<1> QED
  BY <1>6, <1>8, <1>9, <1>10, <1>11 DEF Point

\* n is pushed.
LEMMA PushN ==
  ASSUME NTypes, NEW d \in 0 .. StackBytes, Point(d, 8), Next
  PROVE  NTypes' /\ Point(d, 9)'
<1>1. native \in Natives /\ d \in Nat
  BY NativeAssumption DEF NTypes
<1>2. /\ Last \in {19, 24} /\ 8 \in 1 .. Last /\ 8 < Last
      /\ Code(8) = PushReg("R12") /\ "R12" \in Registers
  BY <1>1, CodeListed DEF Registers
<1> DEFINE m == 5 * d + 3
<1>3. rip = At(8) /\ regs["RSP"] = Pointer(m) /\ m \in Nat
  BY <1>1, PushedIs DEF Point, Kept
<1> HIDE DEF m
<1>4. /\ NTypes' /\ Stays /\ rip' = At(8 + 1) /\ lessEqual' = lessEqual
      /\ regs'["RSP"] = Pointer(m + 1) /\ Others("RSP")
      /\ Slot(m + 1)' = regs["R12"] /\ \A i \in 0 .. m : Slot(i)' = Slot(i)
  BY <1>1, <1>2, <1>3, PushAt
<1> USE DEF m
<1>5. \A i \in 0 .. 5 * d : Slot(i)' = Slot(i)
  BY <1>1, <1>4
<1>6. /\ Arg(d)' = Arg(d) /\ FoundRbp(d)' = FoundRbp(d)
      /\ FoundR12(d)' = FoundR12(d) /\ FoundRbx(d)' = FoundRbx(d)
      /\ Chain(d)' /\ Last' = Last /\ (IsFib' <=> IsFib)
      /\ Rec(Arg(d))' = Rec(Arg(d)) /\ Rec(Arg(d) - 1)' = Rec(Arg(d) - 1)
      /\ Rec(Arg(d) - 2)' = Rec(Arg(d) - 2)
      /\ Pushed(9)' = 4 /\ rip' = At(9)'
  BY <1>1, <1>2, <1>4, <1>5, CallStays, PushedIs DEF Point
<1>7. Saved(d, 9)'
  BY <1>1, <1>2, <1>4, <1>6 DEF Point, Saved, Kept, Computed
<1>8. Kept(d, 9)'
  BY <1>2, <1>3, <1>4, <1>6 DEF Point, Kept, Others, Registers
<1>9. Computed(Arg(d), 9)'
  BY <1>2, <1>4, <1>6 DEF Point, Computed, Others, Registers
<1> QED
  BY <1>4, <1>6, <1>7, <1>8, <1>9 DEF Point

\* The argument of the first call is n - 1.
LEMMA LeaFirst ==
  ASSUME NTypes, NEW d \in 0 .. StackBytes, Point(d, 9), Next
  PROVE  NTypes' /\ Point(d, 10)'
<1>1. native \in Natives /\ d \in Nat
  BY NativeAssumption DEF NTypes
<1>2. /\ Last \in {19, 24} /\ (IsFib <=> Last = 24) /\ 9 \in 1 .. Last /\ 9 < Last
      /\ Code(9).op = "lea" /\ Code(9).dst = "RCX" /\ Code(9).src = "R12" /\ Code(9).imm = -1
  BY <1>1, CodeListed DEF Lea
<1>3. /\ rip = At(9) /\ Arg(d) > 1
      /\ regs["RSP"] = Pointer(5 * d + 4) /\ regs["RBP"] = Pointer(5 * d + 1)
      /\ regs["R12"] = Arg(d)
  BY <1>1, <1>2, PushedIs DEF Point, Kept, Saved, Computed
<1> DEFINE v == regs["R12"] + (-1)
<1>4. v \in Int /\ Word(v) = Arg(d) - 1
  <2>1. regs["R12"] \in Words
    BY DEF NTypes, Registers
  <2>2. v \in Words /\ v = Arg(d) - 1
    BY <1>3, <2>1, HalfIsPositive, NativeAssumption DEF Words
  <2> QED
    BY <2>2, WordOfWord, HalfIsPositive DEF Words
<1>5. Now = Code(9) /\ Compute(v)
  <2>1. Now = Code(9) /\ LoadAddress
    BY <1>1, <1>2, <1>3, OneAction
  <2> QED
    BY <1>2, <1>3, <2>1 DEF LoadAddress
<1> HIDE DEF v
<1>6. /\ NTypes' /\ Stays /\ mem' = mem /\ rip' = At(9 + 1) /\ lessEqual' = lessEqual
      /\ regs'["RCX"] = Word(v) /\ Others("RCX")
  <2>1. "RCX" \in Registers /\ "RCX" # "RSP"
    BY DEF Registers
  <2> QED
    BY <1>2, <1>3, <1>4, <1>5, <2>1, ComputeAt
<1>7. \A i : Slot(i)' = Slot(i)
  BY <1>6 DEF Slot, Pointer
<1>8. /\ Arg(d)' = Arg(d) /\ FoundRbp(d)' = FoundRbp(d)
      /\ FoundR12(d)' = FoundR12(d) /\ FoundRbx(d)' = FoundRbx(d)
      /\ Chain(d)' /\ Last' = Last /\ (IsFib' <=> IsFib)
      /\ Rec(Arg(d))' = Rec(Arg(d)) /\ Rec(Arg(d) - 1)' = Rec(Arg(d) - 1)
      /\ Rec(Arg(d) - 2)' = Rec(Arg(d) - 2)
      /\ Pushed(10)' = 4 /\ rip' = At(10)'
  BY <1>1, <1>2, <1>6, <1>7, CallStays, PushedIs DEF Point
<1>9. /\ regs'["RSP"] = Pointer(5 * d + 4) /\ regs'["RBP"] = Pointer(5 * d + 1)
      /\ regs'["RCX"] = Arg(d) - 1 /\ regs'["R12"] = Arg(d)
  BY <1>3, <1>4, <1>6 DEF Others, Registers
<1>10. Saved(d, 10)'
  BY <1>2, <1>7, <1>8 DEF Point, Saved
<1>11. Kept(d, 10)'
  BY <1>2, <1>8, <1>9 DEF Kept
<1>12. Computed(Arg(d), 10)'
  BY <1>2, <1>3, <1>8, <1>9 DEF Computed
<1> QED
  BY <1>6, <1>8, <1>10, <1>11, <1>12 DEF Point

\* The function's own address is loaded.
LEMMA MovSelf ==
  ASSUME NTypes, NEW d \in 0 .. StackBytes, Point(d, 10), Next
  PROVE  NTypes' /\ Point(d, 11)'
<1>1. native \in Natives /\ d \in Nat
  BY NativeAssumption DEF NTypes
<1>2. /\ Last \in {19, 24} /\ (IsFib <=> Last = 24) /\ 10 \in 1 .. Last /\ 10 < Last
      /\ Code(10).op = "movimm" /\ Code(10).dst = "RAX" /\ Code(10).imm = CodeAddress
  BY <1>1, CodeListed DEF MovRegImm
<1>3. /\ rip = At(10) /\ Arg(d) > 1
      /\ regs["RSP"] = Pointer(5 * d + 4) /\ regs["RBP"] = Pointer(5 * d + 1)
      /\ regs["R12"] = Arg(d) /\ regs["RCX"] = Arg(d) - 1
  BY <1>1, <1>2, PushedIs DEF Point, Kept, Saved, Computed
<1> DEFINE v == CodeAddress
<1>4. v \in Int /\ Word(v) = CodeAddress
  <2>1. CodeAddress \in Words
    <3>1. 1 \in 1 .. Last
      BY <1>2
    <3> QED
      BY <1>1, <3>1, CodeHere, FirstIsCode
  <2> QED
    BY <2>1, WordOfWord, HalfIsPositive DEF Words
<1>5. Now = Code(10) /\ Compute(v)
  <2>1. Now = Code(10) /\ MovImmediate
    BY <1>1, <1>2, <1>3, OneAction
  <2> QED
    BY <1>2, <1>3, <2>1 DEF MovImmediate
<1> HIDE DEF v
<1>6. /\ NTypes' /\ Stays /\ mem' = mem /\ rip' = At(10 + 1) /\ lessEqual' = lessEqual
      /\ regs'["RAX"] = Word(v) /\ Others("RAX")
  <2>1. "RAX" \in Registers /\ "RAX" # "RSP"
    BY DEF Registers
  <2> QED
    BY <1>2, <1>3, <1>4, <1>5, <2>1, ComputeAt
<1>7. \A i : Slot(i)' = Slot(i)
  BY <1>6 DEF Slot, Pointer
<1>8. /\ Arg(d)' = Arg(d) /\ FoundRbp(d)' = FoundRbp(d)
      /\ FoundR12(d)' = FoundR12(d) /\ FoundRbx(d)' = FoundRbx(d)
      /\ Chain(d)' /\ Last' = Last /\ (IsFib' <=> IsFib)
      /\ Rec(Arg(d))' = Rec(Arg(d)) /\ Rec(Arg(d) - 1)' = Rec(Arg(d) - 1)
      /\ Rec(Arg(d) - 2)' = Rec(Arg(d) - 2)
      /\ Pushed(11)' = 4 /\ rip' = At(11)'
  BY <1>1, <1>2, <1>6, <1>7, CallStays, PushedIs DEF Point
<1>9. /\ regs'["RSP"] = Pointer(5 * d + 4) /\ regs'["RBP"] = Pointer(5 * d + 1)
      /\ regs'["RAX"] = CodeAddress /\ regs'["R12"] = Arg(d) /\ regs'["RCX"] = Arg(d) - 1
  BY <1>3, <1>4, <1>6 DEF Others, Registers
<1>10. Saved(d, 11)'
  BY <1>2, <1>7, <1>8 DEF Point, Saved
<1>11. Kept(d, 11)'
  BY <1>2, <1>8, <1>9 DEF Kept
<1>12. Computed(Arg(d), 11)'
  BY <1>2, <1>3, <1>8, <1>9 DEF Computed
<1> QED
  BY <1>6, <1>8, <1>10, <1>11, <1>12 DEF Point

\* The result of the first call is kept.
LEMMA MovRbx ==
  ASSUME NTypes, NEW d \in 0 .. StackBytes, Last = 24, Point(d, 12), Next
  PROVE  NTypes' /\ Point(d, 13)'
<1>1. native \in Natives /\ d \in Nat
  BY NativeAssumption DEF NTypes
<1>2. /\ Last \in {19, 24} /\ (IsFib <=> Last = 24) /\ 12 \in 1 .. Last /\ 12 < Last
      /\ Code(12).op = "mov" /\ Code(12).dst = "RBX" /\ Code(12).src = "RAX"
  BY <1>1, CodeListed DEF MovRegReg
<1>3. /\ rip = At(12) /\ Arg(d) > 1
      /\ regs["RSP"] = Pointer(5 * d + 4) /\ regs["RBP"] = Pointer(5 * d + 1)
      /\ regs["R12"] = Arg(d) /\ regs["RAX"] = Word(Rec(Arg(d) - 1))
  BY <1>1, <1>2, PushedIs DEF Point, Kept, Saved, Computed
<1> DEFINE v == regs["RAX"]
<1>4. v \in Int /\ Word(v) = Word(Rec(Arg(d) - 1))
  <2>1. v \in Int /\ Word(v) = v
    BY WordOfWord, HalfIsPositive DEF NTypes, Registers, Words
  <2> QED
    BY <1>3, <2>1
<1>5. Now = Code(12) /\ Compute(v)
  <2>1. Now = Code(12) /\ Mov
    BY <1>1, <1>2, <1>3, OneAction
  <2> QED
    BY <1>2, <1>3, <2>1 DEF Mov
<1> HIDE DEF v
<1>6. /\ NTypes' /\ Stays /\ mem' = mem /\ rip' = At(12 + 1) /\ lessEqual' = lessEqual
      /\ regs'["RBX"] = Word(v) /\ Others("RBX")
  <2>1. "RBX" \in Registers /\ "RBX" # "RSP"
    BY DEF Registers
  <2> QED
    BY <1>2, <1>3, <1>4, <1>5, <2>1, ComputeAt
<1>7. \A i : Slot(i)' = Slot(i)
  BY <1>6 DEF Slot, Pointer
<1>8. /\ Arg(d)' = Arg(d) /\ FoundRbp(d)' = FoundRbp(d)
      /\ FoundR12(d)' = FoundR12(d) /\ FoundRbx(d)' = FoundRbx(d)
      /\ Chain(d)' /\ Last' = Last /\ (IsFib' <=> IsFib)
      /\ Rec(Arg(d))' = Rec(Arg(d)) /\ Rec(Arg(d) - 1)' = Rec(Arg(d) - 1)
      /\ Rec(Arg(d) - 2)' = Rec(Arg(d) - 2)
      /\ Pushed(13)' = 4 /\ rip' = At(13)'
  BY <1>1, <1>2, <1>6, <1>7, CallStays, PushedIs DEF Point
<1>9. /\ regs'["RSP"] = Pointer(5 * d + 4) /\ regs'["RBP"] = Pointer(5 * d + 1)
      /\ regs'["RBX"] = Word(Rec(Arg(d) - 1)) /\ regs'["R12"] = Arg(d) /\ regs'["RAX"] = Word(Rec(Arg(d) - 1))
  BY <1>3, <1>4, <1>6 DEF Others, Registers
<1>10. Saved(d, 13)'
  BY <1>2, <1>7, <1>8 DEF Point, Saved
<1>11. Kept(d, 13)'
  BY <1>2, <1>8, <1>9 DEF Kept
<1>12. Computed(Arg(d), 13)'
  BY <1>2, <1>3, <1>8, <1>9 DEF Computed
<1> QED
  BY <1>6, <1>8, <1>10, <1>11, <1>12 DEF Point

\* n is read from the stack.
LEMMA LoadN ==
  ASSUME NTypes, NEW d \in 0 .. StackBytes, Last = 24, Point(d, 13), Next
  PROVE  NTypes' /\ Point(d, 14)'
<1>1. native \in Natives /\ d \in Nat
  BY NativeAssumption DEF NTypes
<1>2. /\ Last \in {19, 24} /\ (IsFib <=> Last = 24) /\ 13 \in 1 .. Last /\ 13 < Last
      /\ Code(13).op = "load" /\ Code(13).dst = "RCX" /\ Code(13).src = "RBP" /\ Code(13).imm = -24
  BY <1>1, CodeListed DEF MovRegMem
<1>3. /\ rip = At(13) /\ Arg(d) > 1
      /\ regs["RSP"] = Pointer(5 * d + 4) /\ regs["RBP"] = Pointer(5 * d + 1)
      /\ regs["R12"] = Arg(d) /\ regs["RBX"] = Word(Rec(Arg(d) - 1))
      /\ Slot(5 * d + 4) = Arg(d)
  BY <1>1, <1>2, PushedIs DEF Point, Kept, Saved, Computed
<1> DEFINE v == mem[regs["RBP"] + (-24)]
<1>4. v \in Int /\ Word(v) = Arg(d)
  <2>1. regs["RBP"] + (-24) = Pointer(5 * d + 4)
    <3>1. StackTop \in Int /\ d \in Int
      BY NativeAssumption, HalfIsPositive DEF Words
    <3>2. Pointer(5 * d + 1) + (-24) = Pointer(5 * d + 4)
      BY <3>1 DEF Pointer
    <3> QED
      BY <1>3, <3>2
  <2>2. v = Arg(d)
    BY <1>3, <2>1 DEF Slot
  <2>3. v \in Words
    <3>1. Pointer(5 * d + 4) \in Addresses8
      BY <1>3 DEF NTypes
    <3> QED
      BY <2>1, <3>1 DEF NTypes
  <2> QED
    BY <2>2, <2>3, WordOfWord, HalfIsPositive DEF Words
<1>5. Now = Code(13) /\ Compute(v)
  <2>1. Now = Code(13) /\ Load
    BY <1>1, <1>2, <1>3, OneAction
  <2> QED
    BY <1>2, <1>3, <2>1 DEF Load
<1> HIDE DEF v
<1>6. /\ NTypes' /\ Stays /\ mem' = mem /\ rip' = At(13 + 1) /\ lessEqual' = lessEqual
      /\ regs'["RCX"] = Word(v) /\ Others("RCX")
  <2>1. "RCX" \in Registers /\ "RCX" # "RSP"
    BY DEF Registers
  <2> QED
    BY <1>2, <1>3, <1>4, <1>5, <2>1, ComputeAt
<1>7. \A i : Slot(i)' = Slot(i)
  BY <1>6 DEF Slot, Pointer
<1>8. /\ Arg(d)' = Arg(d) /\ FoundRbp(d)' = FoundRbp(d)
      /\ FoundR12(d)' = FoundR12(d) /\ FoundRbx(d)' = FoundRbx(d)
      /\ Chain(d)' /\ Last' = Last /\ (IsFib' <=> IsFib)
      /\ Rec(Arg(d))' = Rec(Arg(d)) /\ Rec(Arg(d) - 1)' = Rec(Arg(d) - 1)
      /\ Rec(Arg(d) - 2)' = Rec(Arg(d) - 2)
      /\ Pushed(14)' = 4 /\ rip' = At(14)'
  BY <1>1, <1>2, <1>6, <1>7, CallStays, PushedIs DEF Point
<1>9. /\ regs'["RSP"] = Pointer(5 * d + 4) /\ regs'["RBP"] = Pointer(5 * d + 1)
      /\ regs'["RCX"] = Arg(d) /\ regs'["R12"] = Arg(d) /\ regs'["RBX"] = Word(Rec(Arg(d) - 1))
  BY <1>3, <1>4, <1>6 DEF Others, Registers
<1>10. Saved(d, 14)'
  BY <1>2, <1>7, <1>8 DEF Point, Saved
<1>11. Kept(d, 14)'
  BY <1>2, <1>8, <1>9 DEF Kept
<1>12. Computed(Arg(d), 14)'
  BY <1>2, <1>3, <1>8, <1>9 DEF Computed
<1> QED
  BY <1>6, <1>8, <1>10, <1>11, <1>12 DEF Point

\* The argument of the second call is n - 2.
LEMMA LeaSecond ==
  ASSUME NTypes, NEW d \in 0 .. StackBytes, Last = 24, Point(d, 14), Next
  PROVE  NTypes' /\ Point(d, 15)'
<1>1. native \in Natives /\ d \in Nat
  BY NativeAssumption DEF NTypes
<1>2. /\ Last \in {19, 24} /\ (IsFib <=> Last = 24) /\ 14 \in 1 .. Last /\ 14 < Last
      /\ Code(14).op = "lea" /\ Code(14).dst = "RCX" /\ Code(14).src = "RCX" /\ Code(14).imm = -2
  BY <1>1, CodeListed DEF Lea
<1>3. /\ rip = At(14) /\ Arg(d) > 1
      /\ regs["RSP"] = Pointer(5 * d + 4) /\ regs["RBP"] = Pointer(5 * d + 1)
      /\ regs["R12"] = Arg(d) /\ regs["RBX"] = Word(Rec(Arg(d) - 1)) /\ regs["RCX"] = Arg(d)
  BY <1>1, <1>2, PushedIs DEF Point, Kept, Saved, Computed
<1> DEFINE v == regs["RCX"] + (-2)
<1>4. v \in Int /\ Word(v) = Arg(d) - 2
  <2>1. regs["RCX"] \in Words
    BY DEF NTypes, Registers
  <2>2. v \in Words /\ v = Arg(d) - 2
    BY <1>3, <2>1, HalfIsPositive, NativeAssumption DEF Words
  <2> QED
    BY <2>2, WordOfWord, HalfIsPositive DEF Words
<1>5. Now = Code(14) /\ Compute(v)
  <2>1. Now = Code(14) /\ LoadAddress
    BY <1>1, <1>2, <1>3, OneAction
  <2> QED
    BY <1>2, <1>3, <2>1 DEF LoadAddress
<1> HIDE DEF v
<1>6. /\ NTypes' /\ Stays /\ mem' = mem /\ rip' = At(14 + 1) /\ lessEqual' = lessEqual
      /\ regs'["RCX"] = Word(v) /\ Others("RCX")
  <2>1. "RCX" \in Registers /\ "RCX" # "RSP"
    BY DEF Registers
  <2> QED
    BY <1>2, <1>3, <1>4, <1>5, <2>1, ComputeAt
<1>7. \A i : Slot(i)' = Slot(i)
  BY <1>6 DEF Slot, Pointer
<1>8. /\ Arg(d)' = Arg(d) /\ FoundRbp(d)' = FoundRbp(d)
      /\ FoundR12(d)' = FoundR12(d) /\ FoundRbx(d)' = FoundRbx(d)
      /\ Chain(d)' /\ Last' = Last /\ (IsFib' <=> IsFib)
      /\ Rec(Arg(d))' = Rec(Arg(d)) /\ Rec(Arg(d) - 1)' = Rec(Arg(d) - 1)
      /\ Rec(Arg(d) - 2)' = Rec(Arg(d) - 2)
      /\ Pushed(15)' = 4 /\ rip' = At(15)'
  BY <1>1, <1>2, <1>6, <1>7, CallStays, PushedIs DEF Point
<1>9. /\ regs'["RSP"] = Pointer(5 * d + 4) /\ regs'["RBP"] = Pointer(5 * d + 1)
      /\ regs'["RCX"] = Arg(d) - 2 /\ regs'["R12"] = Arg(d) /\ regs'["RBX"] = Word(Rec(Arg(d) - 1))
  BY <1>3, <1>4, <1>6 DEF Others, Registers
<1>10. Saved(d, 15)'
  BY <1>2, <1>7, <1>8 DEF Point, Saved
<1>11. Kept(d, 15)'
  BY <1>2, <1>8, <1>9 DEF Kept
<1>12. Computed(Arg(d), 15)'
  BY <1>2, <1>3, <1>8, <1>9 DEF Computed
<1> QED
  BY <1>6, <1>8, <1>10, <1>11, <1>12 DEF Point

\* And once more.
LEMMA MovSelfAgain ==
  ASSUME NTypes, NEW d \in 0 .. StackBytes, Last = 24, Point(d, 15), Next
  PROVE  NTypes' /\ Point(d, 16)'
<1>1. native \in Natives /\ d \in Nat
  BY NativeAssumption DEF NTypes
<1>2. /\ Last \in {19, 24} /\ (IsFib <=> Last = 24) /\ 15 \in 1 .. Last /\ 15 < Last
      /\ Code(15).op = "movimm" /\ Code(15).dst = "RAX" /\ Code(15).imm = CodeAddress
  BY <1>1, CodeListed DEF MovRegImm
<1>3. /\ rip = At(15) /\ Arg(d) > 1
      /\ regs["RSP"] = Pointer(5 * d + 4) /\ regs["RBP"] = Pointer(5 * d + 1)
      /\ regs["R12"] = Arg(d) /\ regs["RBX"] = Word(Rec(Arg(d) - 1)) /\ regs["RCX"] = Arg(d) - 2
  BY <1>1, <1>2, PushedIs DEF Point, Kept, Saved, Computed
<1> DEFINE v == CodeAddress
<1>4. v \in Int /\ Word(v) = CodeAddress
  <2>1. CodeAddress \in Words
    <3>1. 1 \in 1 .. Last
      BY <1>2
    <3> QED
      BY <1>1, <3>1, CodeHere, FirstIsCode
  <2> QED
    BY <2>1, WordOfWord, HalfIsPositive DEF Words
<1>5. Now = Code(15) /\ Compute(v)
  <2>1. Now = Code(15) /\ MovImmediate
    BY <1>1, <1>2, <1>3, OneAction
  <2> QED
    BY <1>2, <1>3, <2>1 DEF MovImmediate
<1> HIDE DEF v
<1>6. /\ NTypes' /\ Stays /\ mem' = mem /\ rip' = At(15 + 1) /\ lessEqual' = lessEqual
      /\ regs'["RAX"] = Word(v) /\ Others("RAX")
  <2>1. "RAX" \in Registers /\ "RAX" # "RSP"
    BY DEF Registers
  <2> QED
    BY <1>2, <1>3, <1>4, <1>5, <2>1, ComputeAt
<1>7. \A i : Slot(i)' = Slot(i)
  BY <1>6 DEF Slot, Pointer
<1>8. /\ Arg(d)' = Arg(d) /\ FoundRbp(d)' = FoundRbp(d)
      /\ FoundR12(d)' = FoundR12(d) /\ FoundRbx(d)' = FoundRbx(d)
      /\ Chain(d)' /\ Last' = Last /\ (IsFib' <=> IsFib)
      /\ Rec(Arg(d))' = Rec(Arg(d)) /\ Rec(Arg(d) - 1)' = Rec(Arg(d) - 1)
      /\ Rec(Arg(d) - 2)' = Rec(Arg(d) - 2)
      /\ Pushed(16)' = 4 /\ rip' = At(16)'
  BY <1>1, <1>2, <1>6, <1>7, CallStays, PushedIs DEF Point
<1>9. /\ regs'["RSP"] = Pointer(5 * d + 4) /\ regs'["RBP"] = Pointer(5 * d + 1)
      /\ regs'["RAX"] = CodeAddress /\ regs'["R12"] = Arg(d) /\ regs'["RBX"] = Word(Rec(Arg(d) - 1)) /\ regs'["RCX"] = Arg(d) - 2
  BY <1>3, <1>4, <1>6 DEF Others, Registers
<1>10. Saved(d, 16)'
  BY <1>2, <1>7, <1>8 DEF Point, Saved
<1>11. Kept(d, 16)'
  BY <1>2, <1>8, <1>9 DEF Kept
<1>12. Computed(Arg(d), 16)'
  BY <1>2, <1>3, <1>8, <1>9 DEF Computed
<1> QED
  BY <1>6, <1>8, <1>10, <1>11, <1>12 DEF Point

\* The results are added.
LEMMA AddResults ==
  ASSUME NTypes, NEW d \in 0 .. StackBytes, Last = 24, Point(d, 17), Next
  PROVE  NTypes' /\ Point(d, Last - 6)'
<1>1. native \in Natives /\ d \in Nat
  BY NativeAssumption DEF NTypes
<1>2. /\ Last \in {19, 24} /\ (IsFib <=> Last = 24) /\ 17 \in 1 .. Last /\ 17 < Last
      /\ Code(17).op = "add" /\ Code(17).dst = "RAX" /\ Code(17).src = "RBX"
  BY <1>1, CodeListed DEF AddRegReg
<1>3. /\ rip = At(17) /\ Arg(d) > 1
      /\ regs["RSP"] = Pointer(5 * d + 4) /\ regs["RBP"] = Pointer(5 * d + 1)
      /\ regs["R12"] = Arg(d) /\ regs["RBX"] = Word(Rec(Arg(d) - 1)) /\ regs["RAX"] = Word(Rec(Arg(d) - 2))
  BY <1>1, <1>2, PushedIs DEF Point, Kept, Saved, Computed
<1> DEFINE v == regs["RAX"] + regs["RBX"]
<1>4. v \in Int /\ Word(v) = Word(Rec(Arg(d)))
  <2>1. Arg(d) \in Int /\ v \in Int
    BY <1>3, HalfIsPositive DEF NTypes, Registers, Words
  <2>2. v = Word(Rec(Arg(d) - 2)) + Word(Rec(Arg(d) - 1))
    BY <1>3
  <2>3. /\ Rec(Arg(d) - 1) \in Int /\ Rec(Arg(d) - 2) \in Int
        /\ Rec(Arg(d)) = Rec(Arg(d) - 1) + Rec(Arg(d) - 2)
    BY <1>1, <1>2, <1>3, <2>1, RecOfCall
  <2>4. Word(v) = Word(Rec(Arg(d) - 2) + Rec(Arg(d) - 1))
    BY <2>2, <2>3, WordOfSum
  <2> QED
    BY <2>1, <2>3, <2>4
<1>5. Now = Code(17) /\ Compute(v)
  <2>1. Now = Code(17) /\ AddRegister
    BY <1>1, <1>2, <1>3, OneAction
  <2> QED
    BY <1>2, <1>3, <2>1 DEF AddRegister
<1> HIDE DEF v
<1>6. /\ NTypes' /\ Stays /\ mem' = mem /\ rip' = At(17 + 1) /\ lessEqual' = lessEqual
      /\ regs'["RAX"] = Word(v) /\ Others("RAX")
  <2>1. "RAX" \in Registers /\ "RAX" # "RSP"
    BY DEF Registers
  <2> QED
    BY <1>2, <1>3, <1>4, <1>5, <2>1, ComputeAt
<1>7. \A i : Slot(i)' = Slot(i)
  BY <1>6 DEF Slot, Pointer
<1>8. /\ Arg(d)' = Arg(d) /\ FoundRbp(d)' = FoundRbp(d)
      /\ FoundR12(d)' = FoundR12(d) /\ FoundRbx(d)' = FoundRbx(d)
      /\ Chain(d)' /\ Last' = Last /\ (IsFib' <=> IsFib)
      /\ Rec(Arg(d))' = Rec(Arg(d)) /\ Rec(Arg(d) - 1)' = Rec(Arg(d) - 1)
      /\ Rec(Arg(d) - 2)' = Rec(Arg(d) - 2)
      /\ Pushed(Last - 6)' = 4 /\ rip' = At(Last - 6)'
  BY <1>1, <1>2, <1>6, <1>7, CallStays, PushedIs DEF Point
<1>9. /\ regs'["RSP"] = Pointer(5 * d + 4) /\ regs'["RBP"] = Pointer(5 * d + 1)
      /\ regs'["RAX"] = Word(Rec(Arg(d))) /\ regs'["R12"] = Arg(d) /\ regs'["RBX"] = Word(Rec(Arg(d) - 1))
  BY <1>3, <1>4, <1>6 DEF Others, Registers
<1>10. Saved(d, Last - 6)'
  BY <1>2, <1>7, <1>8 DEF Point, Saved
<1>11. Kept(d, Last - 6)'
  BY <1>2, <1>8, <1>9 DEF Kept
<1>12. Computed(Arg(d), Last - 6)'
  BY <1>2, <1>3, <1>8, <1>9 DEF Computed
<1> QED
  BY <1>6, <1>8, <1>10, <1>11, <1>12 DEF Point

\* The result is multiplied by n.
LEMMA MultiplyResult ==
  ASSUME NTypes, NEW d \in 0 .. StackBytes, Last = 19, Point(d, 12), Next
  PROVE  NTypes' /\ Point(d, Last - 6)'
<1>1. native \in Natives /\ d \in Nat
  BY NativeAssumption DEF NTypes
<1>2. /\ Last \in {19, 24} /\ (IsFib <=> Last = 24) /\ 12 \in 1 .. Last /\ 12 < Last
      /\ Code(12).op = "imul" /\ Code(12).dst = "RAX" /\ Code(12).src = "R12"
  BY <1>1, CodeListed DEF ImulRegReg
<1>3. /\ rip = At(12) /\ Arg(d) > 1
      /\ regs["RSP"] = Pointer(5 * d + 4) /\ regs["RBP"] = Pointer(5 * d + 1)
      /\ regs["R12"] = Arg(d) /\ regs["RAX"] = Word(Rec(Arg(d) - 1))
  BY <1>1, <1>2, PushedIs DEF Point, Kept, Saved, Computed
<1> DEFINE v == regs["RAX"] * regs["R12"]
<1>4. v \in Int /\ Word(v) = Word(Rec(Arg(d)))
  <2>1. Arg(d) \in Int /\ v \in Int
    BY <1>3, HalfIsPositive DEF NTypes, Registers, Words
  <2>2. v = Word(Rec(Arg(d) - 1)) * Arg(d)
    BY <1>3
  <2>3. Rec(Arg(d) - 1) \in Int /\ Rec(Arg(d)) = Arg(d) * Rec(Arg(d) - 1)
    BY <1>1, <1>2, <1>3, <2>1, RecOfCall
  <2>4. Word(v) = Word(Arg(d) * Rec(Arg(d) - 1))
    BY <2>1, <2>2, <2>3, WordOfProduct
  <2> QED
    BY <2>1, <2>3, <2>4
<1>5. Now = Code(12) /\ Compute(v)
  <2>1. Now = Code(12) /\ Multiply
    BY <1>1, <1>2, <1>3, OneAction
  <2> QED
    BY <1>2, <1>3, <2>1 DEF Multiply
<1> HIDE DEF v
<1>6. /\ NTypes' /\ Stays /\ mem' = mem /\ rip' = At(12 + 1) /\ lessEqual' = lessEqual
      /\ regs'["RAX"] = Word(v) /\ Others("RAX")
  <2>1. "RAX" \in Registers /\ "RAX" # "RSP"
    BY DEF Registers
  <2> QED
    BY <1>2, <1>3, <1>4, <1>5, <2>1, ComputeAt
<1>7. \A i : Slot(i)' = Slot(i)
  BY <1>6 DEF Slot, Pointer
<1>8. /\ Arg(d)' = Arg(d) /\ FoundRbp(d)' = FoundRbp(d)
      /\ FoundR12(d)' = FoundR12(d) /\ FoundRbx(d)' = FoundRbx(d)
      /\ Chain(d)' /\ Last' = Last /\ (IsFib' <=> IsFib)
      /\ Rec(Arg(d))' = Rec(Arg(d)) /\ Rec(Arg(d) - 1)' = Rec(Arg(d) - 1)
      /\ Rec(Arg(d) - 2)' = Rec(Arg(d) - 2)
      /\ Pushed(Last - 6)' = 4 /\ rip' = At(Last - 6)'
  BY <1>1, <1>2, <1>6, <1>7, CallStays, PushedIs DEF Point
<1>9. /\ regs'["RSP"] = Pointer(5 * d + 4) /\ regs'["RBP"] = Pointer(5 * d + 1)
      /\ regs'["RAX"] = Word(Rec(Arg(d))) /\ regs'["R12"] = Arg(d)
  BY <1>3, <1>4, <1>6 DEF Others, Registers
<1>10. Saved(d, Last - 6)'
  BY <1>2, <1>7, <1>8 DEF Point, Saved
<1>11. Kept(d, Last - 6)'
  BY <1>2, <1>8, <1>9 DEF Kept
<1>12. Computed(Arg(d), Last - 6)'
  BY <1>2, <1>3, <1>8, <1>9 DEF Computed
<1> QED
  BY <1>6, <1>8, <1>10, <1>11, <1>12 DEF Point

\* n is compared with the threshold.
LEMMA CmpN ==
  ASSUME NTypes, NEW d \in 0 .. StackBytes, Point(d, 6), Next
  PROVE  NTypes' /\ Point(d, 7)'
<1>1. native \in Natives /\ d \in Nat
  BY NativeAssumption DEF NTypes
<1>2. /\ Last \in {19, 24} /\ (IsFib <=> Last = 24) /\ 6 \in 1 .. Last /\ 6 < Last
      /\ Code(6) = CmpRegImm("R12", 1) /\ "R12" \in Registers
  BY <1>1, CodeListed DEF Registers
<1>3. /\ rip = At(6) /\ regs["R12"] = Arg(d)
      /\ regs["RSP"] = Pointer(5 * d + 3) /\ regs["RBP"] = Pointer(5 * d + 1)
  BY <1>1, <1>2, PushedIs DEF Point, Kept, Computed
<1>4. /\ NTypes' /\ Stays /\ mem' = mem /\ regs' = regs /\ rip' = At(6 + 1)
      /\ lessEqual' = (regs["R12"] <= 1)
  BY <1>2, <1>3, CmpAt
<1>5. \A i : Slot(i)' = Slot(i)
  BY <1>4 DEF Slot, Pointer
<1>6. /\ Arg(d)' = Arg(d) /\ FoundRbp(d)' = FoundRbp(d)
      /\ FoundR12(d)' = FoundR12(d) /\ FoundRbx(d)' = FoundRbx(d)
      /\ Chain(d)' /\ Last' = Last /\ (IsFib' <=> IsFib)
      /\ Rec(Arg(d))' = Rec(Arg(d)) /\ Rec(Arg(d) - 1)' = Rec(Arg(d) - 1)
      /\ Rec(Arg(d) - 2)' = Rec(Arg(d) - 2)
      /\ Pushed(7)' = 3 /\ rip' = At(7)'
  BY <1>1, <1>2, <1>4, <1>5, CallStays, PushedIs DEF Point
<1>7. Saved(d, 7)'
  BY <1>2, <1>5, <1>6 DEF Point, Saved
<1>8. Kept(d, 7)'
  BY <1>2, <1>3, <1>4, <1>6 DEF Kept
<1>9. Computed(Arg(d), 7)'
  <2>1. regs'["R12"] = Arg(d) /\ lessEqual' = (Arg(d) <= 1)
    BY <1>3, <1>4
  <2> QED
    BY <1>2, <1>6, <2>1 DEF Computed
<1> QED
  BY <1>4, <1>6, <1>7, <1>8, <1>9 DEF Point

\* Over the body to the base case, or into the body.
LEMMA JumpIfBase ==
  ASSUME NTypes, NEW d \in 0 .. StackBytes, Point(d, 7), Next
  PROVE  NTypes' /\ (Point(d, 8)' \/ Point(d, Last - 4)')
<1>1. native \in Natives /\ d \in Nat
  BY NativeAssumption DEF NTypes
<1>2. /\ Last \in {19, 24} /\ (IsFib <=> Last = 24) /\ 7 \in 1 .. Last /\ 7 < Last
      /\ Code(7).op = "jle" /\ Code(7).size = 6 /\ Code(7).imm = (IF Last = 24 THEN 66 ELSE 38)
  BY <1>1, CodeListed DEF Jle
<1>3. /\ rip = At(7) /\ regs["R12"] = Arg(d) /\ lessEqual = (Arg(d) <= 1)
      /\ regs["RSP"] = Pointer(5 * d + 3) /\ regs["RBP"] = Pointer(5 * d + 1)
  BY <1>1, <1>2, PushedIs DEF Point, Kept, Computed
<1>4. /\ NTypes' /\ Stays /\ mem' = mem /\ regs' = regs /\ lessEqual' = lessEqual
      /\ lessEqual => rip' = At(Last - 4)
      /\ ~ lessEqual => rip' = At(8)
  <2>1. /\ NTypes' /\ Stays /\ mem' = mem /\ regs' = regs /\ lessEqual' = lessEqual
        /\ lessEqual => rip' = At(7) + Code(7).size + Code(7).imm
        /\ ~ lessEqual => rip' = At(7) + Code(7).size + 0
    <3>1. Code(7).op \in {"jmp", "jle"} /\ ~ (Code(7).op = "jmp")
      BY <1>2
    <3> QED
      BY <1>2, <1>3, <3>1, JumpAt
  <2>2. At(7) + 6 = At(8) /\ At(7) \in Int
    <3>1. At(7) + Code(7).size = At(7 + 1) /\ At(7) \in Words
      BY <1>1, <1>2, CodeHere
    <3> QED
      BY <1>2, <3>1, HalfIsPositive DEF Words
  <2>3. At(7) + 6 + (IF Last = 24 THEN 66 ELSE 38) = At(Last - 4)
    <3>1. Last = LengthOf(native)
      BY <1>1, <1>2, CodeHere
    <3> QED
      BY <1>1, <3>1, JumpsLand DEF At
  <2> QED
    BY <1>2, <2>1, <2>2, <2>3
<1>5. \A i : Slot(i)' = Slot(i)
  BY <1>4 DEF Slot, Pointer
<1>6. /\ Arg(d)' = Arg(d) /\ FoundRbp(d)' = FoundRbp(d)
      /\ FoundR12(d)' = FoundR12(d) /\ FoundRbx(d)' = FoundRbx(d)
      /\ Chain(d)' /\ Last' = Last /\ (IsFib' <=> IsFib)
      /\ \A k : Pushed(k)' = Pushed(k) /\ At(k)' = At(k)
  BY <1>1, <1>4, <1>5, CallStays DEF Point
<1>7. CASE lessEqual
  <2>1. Pushed(Last - 4)' = 3 /\ rip' = At(Last - 4)'
    <3>1. Pushed(Last - 4)' = Pushed(Last - 4) /\ At(Last - 4)' = At(Last - 4)
      BY <1>6 DEF Pushed, At, Stays
    <3> QED
      BY <1>1, <1>4, <1>7, <3>1, PushedIs
  <2>2. Saved(d, Last - 4)'
    BY <1>2, <1>5, <1>6 DEF Point, Saved
  <2>3. Kept(d, Last - 4)'
    BY <1>2, <1>3, <1>4, <1>6, <2>1 DEF Kept
  <2>4. Computed(Arg(d), Last - 4)'
    <3>1. regs'["R12"] = Arg(d) /\ Arg(d) <= 1
      BY <1>3, <1>4, <1>7
    <3> QED
      BY <1>2, <1>6, <3>1 DEF Computed
  <2> QED
    BY <1>4, <1>6, <2>1, <2>2, <2>3, <2>4 DEF Point
<1>8. CASE ~ lessEqual
  <2>1. Pushed(8)' = 3 /\ rip' = At(8)'
    BY <1>1, <1>4, <1>6, <1>8, PushedIs
  <2>2. Saved(d, 8)'
    BY <1>2, <1>5, <1>6 DEF Point, Saved
  <2>3. Kept(d, 8)'
    BY <1>2, <1>3, <1>4, <1>6, <2>1 DEF Kept
  <2>4. Computed(Arg(d), 8)'
    <3>1. regs'["R12"] = Arg(d) /\ Arg(d) > 1
      <4>1. Arg(d) \in Int
        BY <1>3, HalfIsPositive DEF NTypes, Registers, Words
      <4>2. ~ (Arg(d) <= 1)
        BY <1>3, <1>8
      <4>3. Arg(d) > 1
        BY <4>1, <4>2
      <4> QED
        BY <1>3, <1>4, <4>3
    <3> QED
      BY <1>2, <1>6, <3>1 DEF Computed
  <2> QED
    BY <1>4, <1>6, <2>1, <2>2, <2>3, <2>4 DEF Point
<1> QED
  BY <1>4, <1>7, <1>8 DEF NTypes

\* n is dropped from the stack.
LEMMA DropN ==
  ASSUME NTypes, NEW d \in 0 .. StackBytes, Point(d, Last - 6), Next
  PROVE  NTypes' /\ Point(d, Last - 5)'
<1>1. native \in Natives /\ d \in Nat
  BY NativeAssumption DEF NTypes
<1>2. /\ Last \in {19, 24} /\ (IsFib <=> Last = 24) /\ Last - 6 \in 1 .. Last /\ Last - 6 < Last
      /\ Last - 6 \in 9 .. Last - 6 /\ (Last - 6) + 1 = Last - 5
      /\ Code(Last - 6).op = "addimm" /\ Code(Last - 6).dst = "RSP" /\ Code(Last - 6).imm = 8
  BY <1>1, CodeListed DEF AddRegImm
<1>3. /\ rip = At(Last - 6) /\ Arg(d) > 1
      /\ regs["RSP"] = Pointer(5 * d + 4) /\ regs["RBP"] = Pointer(5 * d + 1)
      /\ regs["R12"] = Arg(d) /\ regs["RAX"] = Word(Rec(Arg(d)))
  BY <1>1, <1>2, PushedIs DEF Point, Kept, Computed
<1> DEFINE v == regs["RSP"] + 8
<1>4. v \in Int /\ v = Pointer(5 * d + 3) /\ Word(v) = Pointer(5 * d + 3) /\ Word(v) \in Addresses8
  <2> DEFINE m == 5 * d + 4
  <2>1. m \in Nat /\ m - 1 = 5 * d + 3
    BY <1>1
  <2>2. Pointer(m) + 8 = Pointer(m - 1)
    BY <2>1, SlotsAreApart
  <2>3. Pointer(m) \in Addresses8
    BY <1>3 DEF NTypes
  <2>4. Pointer(m - 1) \in Addresses8 /\ Pointer(m - 1) \in Words
    BY <2>1, <2>3, SlotBefore
  <2>5. v = Pointer(m - 1) /\ Word(Pointer(m - 1)) = Pointer(m - 1)
    BY <1>3, <2>2, <2>4, WordOfWord
  <2>6. Pointer(m - 1) \in Int
    BY <2>4, HalfIsPositive DEF Words
  <2> QED
    BY <2>1, <2>4, <2>5, <2>6
<1>5. Now = Code(Last - 6) /\ Compute(v)
  <2>1. Now = Code(Last - 6) /\ AddImmediate
    BY <1>1, <1>2, <1>3, OneAction
  <2> QED
    BY <1>2, <2>1 DEF AddImmediate
<1> HIDE DEF v
<1>6. /\ NTypes' /\ Stays /\ mem' = mem /\ rip' = At((Last - 6) + 1) /\ lessEqual' = lessEqual
      /\ regs'["RSP"] = Word(v) /\ Others("RSP")
  <2>1. "RSP" \in Registers
    BY DEF Registers
  <2> QED
    BY <1>2, <1>3, <1>4, <1>5, <2>1, ComputeAt
<1>7. \A i : Slot(i)' = Slot(i)
  BY <1>6 DEF Slot, Pointer
<1>8. /\ Arg(d)' = Arg(d) /\ FoundRbp(d)' = FoundRbp(d)
      /\ FoundR12(d)' = FoundR12(d) /\ FoundRbx(d)' = FoundRbx(d)
      /\ Chain(d)' /\ Last' = Last /\ (IsFib' <=> IsFib)
      /\ Rec(Arg(d))' = Rec(Arg(d)) /\ Rec(Arg(d) - 1)' = Rec(Arg(d) - 1)
      /\ Rec(Arg(d) - 2)' = Rec(Arg(d) - 2)
      /\ Pushed(Last - 5)' = 3 /\ rip' = At(Last - 5)'
  BY <1>1, <1>2, <1>6, <1>7, CallStays, PushedIs DEF Point
<1>9. /\ regs'["RSP"] = Pointer(5 * d + 3) /\ regs'["RBP"] = Pointer(5 * d + 1)
      /\ regs'["R12"] = Arg(d) /\ regs'["RAX"] = Word(Rec(Arg(d)))
  BY <1>3, <1>4, <1>6 DEF Others, Registers
<1>10. Saved(d, Last - 5)'
  BY <1>2, <1>7, <1>8 DEF Point, Saved
<1>11. Kept(d, Last - 5)'
  BY <1>2, <1>8, <1>9 DEF Kept
<1>12. Computed(Arg(d), Last - 5)'
  BY <1>2, <1>3, <1>8, <1>9 DEF Computed
<1> QED
  BY <1>6, <1>8, <1>10, <1>11, <1>12 DEF Point

\* The base case is jumped over.
LEMMA SkipBase ==
  ASSUME NTypes, NEW d \in 0 .. StackBytes, Point(d, Last - 5), Next
  PROVE  NTypes' /\ Point(d, Last - 3)'
<1>1. native \in Natives /\ d \in Nat
  BY NativeAssumption DEF NTypes
<1>2. /\ Last \in {19, 24} /\ (IsFib <=> Last = 24) /\ Last - 5 \in 1 .. Last /\ Last - 5 < Last
      /\ Code(Last - 5).op = "jmp" /\ Code(Last - 5).size = 5
      /\ Code(Last - 5).imm = BaseInstr(native).size
  BY <1>1, CodeListed DEF Jmp
<1>3. /\ rip = At(Last - 5)
      /\ regs["RSP"] = Pointer(5 * d + 3) /\ regs["RBP"] = Pointer(5 * d + 1)
      /\ regs["R12"] = Arg(d) /\ regs["RAX"] = Word(Rec(Arg(d)))
  BY <1>1, <1>2, PushedIs DEF Point, Kept, Computed
<1>4. /\ NTypes' /\ Stays /\ mem' = mem /\ regs' = regs /\ lessEqual' = lessEqual
      /\ rip' = At(Last - 3)
  <2>1. /\ NTypes' /\ Stays /\ mem' = mem /\ regs' = regs /\ lessEqual' = lessEqual
        /\ rip' = At(Last - 5) + Code(Last - 5).size + Code(Last - 5).imm
    <3>1. Code(Last - 5).op \in {"jmp", "jle"}
      BY <1>2
    <3> QED
      BY <1>2, <1>3, <3>1, JumpAt
  <2>2. At(Last - 5) + 5 + BaseInstr(native).size = At(Last - 3)
    <3>1. Last = LengthOf(native)
      BY <1>1, <1>2, CodeHere
    <3> QED
      BY <1>1, <3>1, JumpsLand DEF At
  <2> QED
    BY <1>2, <2>1, <2>2
<1>5. \A i : Slot(i)' = Slot(i)
  BY <1>4 DEF Slot, Pointer
<1>6. /\ Arg(d)' = Arg(d) /\ FoundRbp(d)' = FoundRbp(d)
      /\ FoundR12(d)' = FoundR12(d) /\ FoundRbx(d)' = FoundRbx(d)
      /\ Chain(d)' /\ Last' = Last /\ (IsFib' <=> IsFib)
      /\ Rec(Arg(d))' = Rec(Arg(d)) /\ Rec(Arg(d) - 1)' = Rec(Arg(d) - 1)
      /\ Rec(Arg(d) - 2)' = Rec(Arg(d) - 2)
      /\ Pushed(Last - 3)' = 3 /\ rip' = At(Last - 3)'
  BY <1>1, <1>2, <1>4, <1>5, CallStays, PushedIs DEF Point
<1>7. Saved(d, Last - 3)'
  BY <1>2, <1>5, <1>6 DEF Point, Saved
<1>8. Kept(d, Last - 3)'
  BY <1>2, <1>3, <1>4, <1>6 DEF Kept
<1>9. Computed(Arg(d), Last - 3)'
  <2>1. regs'["R12"] = Arg(d) /\ regs'["RAX"] = Word(Rec(Arg(d)))
    BY <1>3, <1>4
  <2> QED
    BY <1>2, <1>6, <2>1 DEF Computed
<1> QED
  BY <1>4, <1>6, <1>7, <1>8, <1>9 DEF Point

\* The base value is the result.
LEMMA BaseValueIsResult ==
  ASSUME NTypes, NEW d \in 0 .. StackBytes, Point(d, Last - 4), Next
  PROVE  NTypes' /\ Point(d, Last - 3)'
<1>1. native \in Natives /\ d \in Nat
  BY NativeAssumption DEF NTypes
<1>2. /\ Last \in {19, 24} /\ (IsFib <=> Last = 24) /\ Last - 4 \in 1 .. Last /\ Last - 4 < Last
      /\ (Last - 4) + 1 = Last - 3 /\ Code(Last - 4) = BaseInstr(native)
  BY <1>1, CodeListed
<1>3. /\ rip = At(Last - 4) /\ Arg(d) <= 1
      /\ regs["RSP"] = Pointer(5 * d + 3) /\ regs["RBP"] = Pointer(5 * d + 1)
      /\ regs["R12"] = Arg(d)
  BY <1>1, <1>2, PushedIs DEF Point, Kept, Computed
<1> DEFINE v == IF native.base = -1 THEN regs["R12"] ELSE native.base
<1>4. v \in Int /\ v = Rec(Arg(d))
  <2>1. regs["R12"] \in Int /\ native.base \in Int
    BY <1>1, NativeAssumption, HalfIsPositive DEF NTypes, Registers, Words
  <2>2. Rec(Arg(d)) = IF native.base = -1 THEN Arg(d) ELSE native.base
    BY <1>1, <1>3, <2>1, RecOfCall
  <2> QED
    BY <1>3, <2>1, <2>2
<1>5. Now = Code(Last - 4) /\ Code(Last - 4).dst = "RAX" /\ Compute(v)
  <2>1. CASE native.base = -1
    <3>1. Code(Last - 4).op = "mov" /\ Code(Last - 4).dst = "RAX" /\ Code(Last - 4).src = "R12"
      BY <1>2, <2>1 DEF BaseInstr, MovRegReg
    <3>2. Now = Code(Last - 4) /\ Mov
      BY <1>1, <1>2, <1>3, <3>1, OneAction
    <3> QED
      BY <2>1, <3>1, <3>2 DEF Mov
  <2>2. CASE native.base # -1
    <3>1. Code(Last - 4).op = "movimm" /\ Code(Last - 4).dst = "RAX" /\ Code(Last - 4).imm = native.base
      BY <1>2, <2>2 DEF BaseInstr, MovRegImm
    <3>2. Now = Code(Last - 4) /\ MovImmediate
      BY <1>1, <1>2, <1>3, <3>1, OneAction
    <3> QED
      BY <2>2, <3>1, <3>2 DEF MovImmediate
  <2> QED
    BY <2>1, <2>2
<1> HIDE DEF v
<1>6. /\ NTypes' /\ Stays /\ mem' = mem /\ rip' = At((Last - 4) + 1) /\ lessEqual' = lessEqual
      /\ regs'["RAX"] = Word(v) /\ Others("RAX")
  <2>1. "RAX" \in Registers /\ "RAX" # "RSP"
    BY DEF Registers
  <2> QED
    BY <1>2, <1>3, <1>4, <1>5, <2>1, ComputeAt
<1>7. \A i : Slot(i)' = Slot(i)
  BY <1>6 DEF Slot, Pointer
<1>8. /\ Arg(d)' = Arg(d) /\ FoundRbp(d)' = FoundRbp(d)
      /\ FoundR12(d)' = FoundR12(d) /\ FoundRbx(d)' = FoundRbx(d)
      /\ Chain(d)' /\ Last' = Last /\ (IsFib' <=> IsFib)
      /\ Rec(Arg(d))' = Rec(Arg(d)) /\ Rec(Arg(d) - 1)' = Rec(Arg(d) - 1)
      /\ Rec(Arg(d) - 2)' = Rec(Arg(d) - 2)
      /\ Pushed(Last - 3)' = 3 /\ rip' = At(Last - 3)'
  BY <1>1, <1>2, <1>6, <1>7, CallStays, PushedIs DEF Point
<1>9. /\ regs'["RSP"] = Pointer(5 * d + 3) /\ regs'["RBP"] = Pointer(5 * d + 1)
      /\ regs'["R12"] = Arg(d) /\ regs'["RAX"] = Word(Rec(Arg(d)))
  BY <1>3, <1>4, <1>6 DEF Others, Registers
<1>10. Saved(d, Last - 3)'
  BY <1>2, <1>7, <1>8 DEF Point, Saved
<1>11. Kept(d, Last - 3)'
  BY <1>2, <1>8, <1>9 DEF Kept
<1>12. Computed(Arg(d), Last - 3)'
  BY <1>2, <1>8, <1>9 DEF Computed
<1> QED
  BY <1>6, <1>8, <1>10, <1>11, <1>12 DEF Point

\* r12 is given back.
LEMMA PopR12 ==
  ASSUME NTypes, NEW d \in 0 .. StackBytes, Point(d, Last - 3), Next
  PROVE  NTypes' /\ Point(d, Last - 2)'
<1>1. native \in Natives /\ d \in Nat
  BY NativeAssumption DEF NTypes
<1>2. /\ Last \in {19, 24} /\ (IsFib <=> Last = 24) /\ Last - 3 \in 1 .. Last /\ Last - 3 < Last
      /\ (Last - 3) + 1 = Last - 2
      /\ Code(Last - 3) = PopReg("R12") /\ "R12" \in Registers \ {"RSP"}
  BY <1>1, CodeListed DEF Registers
<1> DEFINE m == 5 * d + 3
<1>3. rip = At(Last - 3) /\ regs["RSP"] = Pointer(m) /\ m \in Nat /\ m - 1 = 5 * d + 2
  BY <1>1, PushedIs DEF Point, Kept
<1>4. /\ regs["RBP"] = Pointer(5 * d + 1) /\ regs["RAX"] = Word(Rec(Arg(d)))
      /\ Slot(m) = FoundR12(d)
  BY <1>2 DEF Point, Kept, Saved, Computed
<1> HIDE DEF m
<1>5. /\ NTypes' /\ Stays /\ mem' = mem /\ rip' = At((Last - 3) + 1)
      /\ regs'["RSP"] = Pointer(m - 1) /\ regs'["R12"] = Slot(m)
      /\ \A x \in Registers \ {"RSP", "R12"} : regs'[x] = regs[x]
  BY <1>2, <1>3, PopAt
<1>6. \A i : Slot(i)' = Slot(i)
  BY <1>5 DEF Slot, Pointer
<1>7. /\ Arg(d)' = Arg(d) /\ FoundRbp(d)' = FoundRbp(d)
      /\ FoundR12(d)' = FoundR12(d) /\ FoundRbx(d)' = FoundRbx(d)
      /\ Chain(d)' /\ Last' = Last /\ (IsFib' <=> IsFib)
      /\ Rec(Arg(d))' = Rec(Arg(d)) /\ Rec(Arg(d) - 1)' = Rec(Arg(d) - 1)
      /\ Rec(Arg(d) - 2)' = Rec(Arg(d) - 2)
      /\ Pushed(Last - 2)' = 2 /\ rip' = At(Last - 2)'
  BY <1>1, <1>2, <1>5, <1>6, CallStays, PushedIs DEF Point
<1>8. /\ regs'["RBP"] = Pointer(5 * d + 1) /\ regs'["R12"] = FoundR12(d)
      /\ regs'["RAX"] = Word(Rec(Arg(d))) /\ regs'["RSP"] = Pointer(5 * d + 2)
  BY <1>3, <1>4, <1>5 DEF Registers
<1>9. Saved(d, Last - 2)'
  BY <1>2, <1>6, <1>7 DEF Point, Saved
<1>10. Kept(d, Last - 2)'
  BY <1>1, <1>2, <1>7, <1>8 DEF Kept
<1>11. Computed(Arg(d), Last - 2)'
  BY <1>2, <1>7, <1>8 DEF Computed
<1> QED
  BY <1>5, <1>7, <1>9, <1>10, <1>11 DEF Point

\* rbx is given back.
LEMMA PopRbx ==
  ASSUME NTypes, NEW d \in 0 .. StackBytes, Point(d, Last - 2), Next
  PROVE  NTypes' /\ Point(d, Last - 1)'
<1>1. native \in Natives /\ d \in Nat
  BY NativeAssumption DEF NTypes
<1>2. /\ Last \in {19, 24} /\ (IsFib <=> Last = 24) /\ Last - 2 \in 1 .. Last /\ Last - 2 < Last
      /\ (Last - 2) + 1 = Last - 1
      /\ Code(Last - 2) = PopReg("RBX") /\ "RBX" \in Registers \ {"RSP"}
  BY <1>1, CodeListed DEF Registers
<1> DEFINE m == 5 * d + 2
<1>3. rip = At(Last - 2) /\ regs["RSP"] = Pointer(m) /\ m \in Nat /\ m - 1 = 5 * d + 1
  BY <1>1, PushedIs DEF Point, Kept
<1>4. /\ regs["RBP"] = Pointer(5 * d + 1) /\ regs["R12"] = FoundR12(d) /\ regs["RAX"] = Word(Rec(Arg(d)))
      /\ Slot(m) \in FoundRbx(d)
  BY <1>2 DEF Point, Kept, Saved, Computed
<1> HIDE DEF m
<1>5. /\ NTypes' /\ Stays /\ mem' = mem /\ rip' = At((Last - 2) + 1)
      /\ regs'["RSP"] = Pointer(m - 1) /\ regs'["RBX"] = Slot(m)
      /\ \A x \in Registers \ {"RSP", "RBX"} : regs'[x] = regs[x]
  BY <1>2, <1>3, PopAt
<1>6. \A i : Slot(i)' = Slot(i)
  BY <1>5 DEF Slot, Pointer
<1>7. /\ Arg(d)' = Arg(d) /\ FoundRbp(d)' = FoundRbp(d)
      /\ FoundR12(d)' = FoundR12(d) /\ FoundRbx(d)' = FoundRbx(d)
      /\ Chain(d)' /\ Last' = Last /\ (IsFib' <=> IsFib)
      /\ Rec(Arg(d))' = Rec(Arg(d)) /\ Rec(Arg(d) - 1)' = Rec(Arg(d) - 1)
      /\ Rec(Arg(d) - 2)' = Rec(Arg(d) - 2)
      /\ Pushed(Last - 1)' = 1 /\ rip' = At(Last - 1)'
  BY <1>1, <1>2, <1>5, <1>6, CallStays, PushedIs DEF Point
<1>8. /\ regs'["RBP"] = Pointer(5 * d + 1) /\ regs'["R12"] = FoundR12(d) /\ regs'["RBX"] \in FoundRbx(d)
      /\ regs'["RAX"] = Word(Rec(Arg(d))) /\ regs'["RSP"] = Pointer(5 * d + 1)
  BY <1>3, <1>4, <1>5 DEF Registers
<1>9. Saved(d, Last - 1)'
  BY <1>2, <1>6, <1>7 DEF Point, Saved
<1>10. Kept(d, Last - 1)'
  BY <1>1, <1>2, <1>7, <1>8 DEF Kept
<1>11. Computed(Arg(d), Last - 1)'
  BY <1>2, <1>7, <1>8 DEF Computed
<1> QED
  BY <1>5, <1>7, <1>9, <1>10, <1>11 DEF Point

\* rbp is given back.
LEMMA PopRbp ==
  ASSUME NTypes, NEW d \in 0 .. StackBytes, Point(d, Last - 1), Next
  PROVE  NTypes' /\ Point(d, Last)'
<1>1. native \in Natives /\ d \in Nat
  BY NativeAssumption DEF NTypes
<1>2. /\ Last \in {19, 24} /\ (IsFib <=> Last = 24) /\ Last - 1 \in 1 .. Last /\ Last - 1 < Last
      /\ (Last - 1) + 1 = Last
      /\ Code(Last - 1) = PopReg("RBP") /\ "RBP" \in Registers \ {"RSP"}
  BY <1>1, CodeListed DEF Registers
<1> DEFINE m == 5 * d + 1
<1>3. rip = At(Last - 1) /\ regs["RSP"] = Pointer(m) /\ m \in Nat /\ m - 1 = 5 * d
  BY <1>1, PushedIs DEF Point, Kept
<1>4. /\ regs["RBX"] \in FoundRbx(d) /\ regs["R12"] = FoundR12(d) /\ regs["RAX"] = Word(Rec(Arg(d)))
      /\ Slot(m) = FoundRbp(d)
  BY <1>2 DEF Point, Kept, Saved, Computed
<1> HIDE DEF m
<1>5. /\ NTypes' /\ Stays /\ mem' = mem /\ rip' = At((Last - 1) + 1)
      /\ regs'["RSP"] = Pointer(m - 1) /\ regs'["RBP"] = Slot(m)
      /\ \A x \in Registers \ {"RSP", "RBP"} : regs'[x] = regs[x]
  BY <1>2, <1>3, PopAt
<1>6. \A i : Slot(i)' = Slot(i)
  BY <1>5 DEF Slot, Pointer
<1>7. /\ Arg(d)' = Arg(d) /\ FoundRbp(d)' = FoundRbp(d)
      /\ FoundR12(d)' = FoundR12(d) /\ FoundRbx(d)' = FoundRbx(d)
      /\ Chain(d)' /\ Last' = Last /\ (IsFib' <=> IsFib)
      /\ Rec(Arg(d))' = Rec(Arg(d)) /\ Rec(Arg(d) - 1)' = Rec(Arg(d) - 1)
      /\ Rec(Arg(d) - 2)' = Rec(Arg(d) - 2)
      /\ Pushed(Last)' = 0 /\ rip' = At(Last)'
  BY <1>1, <1>2, <1>5, <1>6, CallStays, PushedIs DEF Point
<1>8. /\ regs'["RBX"] \in FoundRbx(d) /\ regs'["R12"] = FoundR12(d) /\ regs'["RBP"] = FoundRbp(d)
      /\ regs'["RAX"] = Word(Rec(Arg(d))) /\ regs'["RSP"] = Pointer(5 * d)
  BY <1>3, <1>4, <1>5 DEF Registers
<1>9. Saved(d, Last)'
  BY <1>2, <1>6, <1>7 DEF Point, Saved
<1>10. Kept(d, Last)'
  BY <1>1, <1>2, <1>7, <1>8 DEF Kept
<1>11. Computed(Arg(d), Last)'
  BY <1>2, <1>7, <1>8 DEF Computed
<1> QED
  BY <1>5, <1>7, <1>9, <1>10, <1>11 DEF Point

\* Return addresses tell the two calls of fib apart.
LEMMA CallsAreApart ==
  ASSUME native \in Natives, IsFib
  PROVE  At(12) # At(17)
<1> DEFINE n == LengthOf(native)
           A == Address[native]
<1>1. n = 24
  BY DEF IsFib, LengthOf
<1>2. A \in [1 .. n -> Words] /\ \A j, k \in 1 .. n : j < k => A[j] < A[k]
  BY AddressesAre
<1> HIDE DEF n, A
<1>3. A[12] < A[17] /\ A[12] \in Int /\ A[17] \in Int
  BY <1>1, <1>2, HalfIsPositive DEF Words
<1> QED
  BY <1>3 DEF At, A

\* A call of the function by itself, which goes on at s when it is back.
LEMMA CallEnters ==
  ASSUME NTypes, NTypes', Stays, NEW d \in Nat, Chain(d), NEW s \in BehindCalls,
         Slot(5 * d + 1) = FoundRbp(d), Slot(5 * d + 2) \in FoundRbx(d),
         Slot(5 * d + 3) = FoundR12(d), Slot(5 * d + 4) = Arg(d), Arg(d) > 1,
         regs["RBP"] = Pointer(5 * d + 1), regs["R12"] = Arg(d),
         s = 17 => regs["RBX"] = Word(Rec(Arg(d) - 1)),
         regs["RCX"] = Arg(d) - (IF s = 12 THEN 1 ELSE 2),
         rip' = CodeAddress, regs'["RSP"] = Pointer(5 * d + 5), Others("RSP"),
         Slot(5 * d + 5)' = At(s), \A i \in 0 .. 5 * d + 4 : Slot(i)' = Slot(i)
  PROVE  Point(d + 1, 1)'
<1>1. native \in Natives /\ native' \in Natives /\ Last' = Last /\ (IsFib' <=> IsFib)
  BY DEF NTypes, Stays, Last, IsFib
<1>2. /\ \A k : At(k)' = At(k) /\ BehindCalls' = BehindCalls
      /\ s \in {12, 17} /\ (At(s) = At(12) <=> s = 12)
  BY <1>1, FunctionStays, CallsAreApart DEF BehindCalls
<1>3. \A i \in 0 .. 5 * d : Slot(i)' = Slot(i)
  OBVIOUS
<1>4. /\ Arg(d)' = Arg(d) /\ FoundRbp(d)' = FoundRbp(d) /\ FoundR12(d)' = FoundR12(d)
      /\ FoundRbx(d)' = FoundRbx(d) /\ Chain(d)' /\ Rec(Arg(d) - 1)' = Rec(Arg(d) - 1)
  BY <1>3, CallStays
<1>5. /\ Slot(5 * d + 1)' = FoundRbp(d)' /\ Slot(5 * d + 2)' \in FoundRbx(d)'
      /\ Slot(5 * d + 3)' = FoundR12(d)' /\ Slot(5 * d + 4)' = Arg(d)'
  <2>1. /\ 5 * d + 1 \in 0 .. 5 * d + 4 /\ 5 * d + 2 \in 0 .. 5 * d + 4
        /\ 5 * d + 3 \in 0 .. 5 * d + 4 /\ 5 * d + 4 \in 0 .. 5 * d + 4
    OBVIOUS
  <2>2. /\ Slot(5 * d + 1)' = Slot(5 * d + 1) /\ Slot(5 * d + 2)' = Slot(5 * d + 2)
        /\ Slot(5 * d + 3)' = Slot(5 * d + 3) /\ Slot(5 * d + 4)' = Slot(5 * d + 4)
    BY <2>1
  <2> QED
    BY <1>4, <2>2
<1>6. d + 1 # 0 /\ (d + 1) - 1 = d /\ 5 * (d + 1) = 5 * d + 5 /\ 5 * (d + 1) + 0 = 5 * d + 5
  OBVIOUS
<1>7. Chain(d + 1)'
  <2>1. Slot(0)' = ReturnTo
    BY <1>4 DEF Chain
  <2>2. ASSUME NEW j \in 1 .. d + 1
        PROVE  Arg(j - 1)' > 1 /\ \E k \in BehindCalls' : Slot(5 * j)' = At(k)'
    <3>1. CASE j = d + 1
      BY <1>2, <1>4, <1>6, <3>1
    <3>2. CASE j \in 1 .. d
      BY <1>4, <3>2 DEF Chain
    <3> QED
      BY <3>1, <3>2
  <2>3. ASSUME NEW j \in 0 .. (d + 1) - 1
        PROVE  /\ Slot(5 * j + 1)' = FoundRbp(j)'
               /\ Slot(5 * j + 2)' \in FoundRbx(j)'
               /\ Slot(5 * j + 3)' = FoundR12(j)'
               /\ Slot(5 * j + 4)' = Arg(j)'
    <3>1. CASE j = d
      BY <1>5, <3>1
    <3>2. CASE j \in 0 .. d - 1
      BY <1>4, <3>2 DEF Chain
    <3> QED
      BY <3>1, <3>2
  <2> QED
    BY <2>1, <2>2, <2>3 DEF Chain
<1>8. Arg(d + 1)' = Arg(d) - (IF s = 12 THEN 1 ELSE 2)
  <2>1. Arg(d + 1)' = Slot(5 * d + 4)' - (IF Slot(5 * d + 5)' = At(12)' THEN 1 ELSE 2)
    BY <1>6 DEF Arg
  <2> QED
    BY <1>2, <1>4, <1>5, <2>1
<1>9. FoundRbp(d + 1)' = Pointer(5 * d + 1) /\ FoundR12(d + 1)' = Arg(d)
  BY <1>4, <1>6 DEF FoundRbp, FoundR12, Pointer
<1>10. regs'["RBX"] \in FoundRbx(d + 1)'
  <2>1. "RBX" \in Registers /\ regs'["RBX"] = regs["RBX"] /\ regs'["RBX"] \in Words
    BY DEF Registers, Others, NTypes
  <2>2. FoundRbx(d + 1)' = IF Slot(5 * d + 5)' = At(12)' THEN Words ELSE {Word(Rec(Arg(d) - 1)')}
    BY <1>4, <1>6 DEF FoundRbx, Word, Words, Rec
  <2> QED
    BY <1>2, <1>4, <2>1, <2>2
<1>11. rip' = At(1)'
  BY <1>1, <1>2, FirstIsCode
<1>12. Pushed(1)' = 0 /\ Last \in {19, 24}
  BY <1>1, CodeListed DEF Pushed
<1>13. Saved(d + 1, 1)'
  BY <1>1, <1>12 DEF Saved
<1>14. Kept(d + 1, 1)'
  <2>1. /\ regs'["RBP"] = Pointer(5 * d + 1) /\ regs'["R12"] = Arg(d)
        /\ regs'["RSP"] = Pointer(5 * (d + 1) + Pushed(1)')
    BY <1>6, <1>12 DEF Registers, Others
  <2> QED
    BY <1>9, <1>10, <2>1, <1>12, <1>1 DEF Kept, Pointer
<1>15. Computed(Arg(d + 1), 1)'
  <2>1. regs'["RCX"] = Arg(d + 1)'
    BY <1>8 DEF Registers, Others
  <2> QED
    BY <1>1, <1>12, <2>1 DEF Computed
<1> QED
  BY <1>7, <1>11, <1>13, <1>14, <1>15 DEF Point

\* The first call, for n - 1.
LEMMA FirstCall ==
  ASSUME NTypes, NEW d \in 0 .. StackBytes, Point(d, 11), Next
  PROVE  NTypes' /\ d + 1 \in 0 .. StackBytes /\ Point(d + 1, 1)'
<1>1. native \in Natives /\ d \in Nat
  BY NativeAssumption DEF NTypes
<1>2. /\ Last \in {19, 24} /\ (IsFib <=> Last = 24) /\ 11 \in 1 .. Last /\ 11 < Last
      /\ Code(11) = CallReg("RAX")
  BY <1>1, CodeListed
<1> DEFINE m == 5 * d + 4
<1>3. /\ rip = At(11) /\ regs["RSP"] = Pointer(m) /\ m \in Nat /\ Chain(d)
      /\ regs["RBP"] = Pointer(5 * d + 1) /\ regs["R12"] = Arg(d) /\ Arg(d) > 1
      /\ regs["RCX"] = Arg(d) - 1 /\ regs["RAX"] = CodeAddress
  BY <1>1, <1>2, PushedIs DEF Point, Kept, Computed
<1>4. /\ Slot(5 * d + 1) = FoundRbp(d) /\ Slot(5 * d + 2) \in FoundRbx(d)
      /\ Slot(5 * d + 3) = FoundR12(d) /\ Slot(5 * d + 4) = Arg(d)
  BY <1>2 DEF Point, Saved
<1> HIDE DEF m
<1>5. /\ NTypes' /\ Stays /\ rip' = CodeAddress /\ m + 1 \in 0 .. StackBytes
      /\ regs'["RSP"] = Pointer(m + 1) /\ Others("RSP")
      /\ Slot(m + 1)' = At(11 + 1) /\ \A i \in 0 .. m : Slot(i)' = Slot(i)
  BY <1>2, <1>3, CallAt
<1>6. m = 5 * d + 4 /\ m + 1 = 5 * d + 5 /\ d + 1 \in 0 .. StackBytes
  BY <1>1, <1>5, NativeAssumption DEF m
<1>7. 12 \in BehindCalls
  BY DEF BehindCalls
<1>8. Slot(5 * d + 5)' = At(12) /\ regs'["RSP"] = Pointer(5 * d + 5)
  BY <1>5, <1>6
<1>9. Point(d + 1, 1)'
  BY <1>1, <1>3, <1>4, <1>5, <1>6, <1>7, <1>8, CallEnters
<1> QED
  BY <1>5, <1>6, <1>9

\* The second call of fib, for n - 2.
LEMMA SecondCall ==
  ASSUME NTypes, NEW d \in 0 .. StackBytes, Point(d, 16), Last = 24, Next
  PROVE  NTypes' /\ d + 1 \in 0 .. StackBytes /\ Point(d + 1, 1)'
<1>1. native \in Natives /\ d \in Nat
  BY NativeAssumption DEF NTypes
<1>2. IsFib /\ 16 \in 1 .. Last /\ 16 < Last /\ Code(16) = CallReg("RAX")
  BY <1>1, CodeListed
<1> DEFINE m == 5 * d + 4
<1>3. /\ rip = At(16) /\ regs["RSP"] = Pointer(m) /\ m \in Nat /\ Chain(d)
      /\ regs["RBP"] = Pointer(5 * d + 1) /\ regs["R12"] = Arg(d) /\ Arg(d) > 1
      /\ regs["RCX"] = Arg(d) - 2 /\ regs["RAX"] = CodeAddress
      /\ regs["RBX"] = Word(Rec(Arg(d) - 1))
  BY <1>1, <1>2, PushedIs DEF Point, Kept, Computed
<1>4. /\ Slot(5 * d + 1) = FoundRbp(d) /\ Slot(5 * d + 2) \in FoundRbx(d)
      /\ Slot(5 * d + 3) = FoundR12(d) /\ Slot(5 * d + 4) = Arg(d)
  BY <1>2 DEF Point, Saved
<1> HIDE DEF m
<1>5. /\ NTypes' /\ Stays /\ rip' = CodeAddress /\ m + 1 \in 0 .. StackBytes
      /\ regs'["RSP"] = Pointer(m + 1) /\ Others("RSP")
      /\ Slot(m + 1)' = At(16 + 1) /\ \A i \in 0 .. m : Slot(i)' = Slot(i)
  BY <1>2, <1>3, CallAt
<1>6. m = 5 * d + 4 /\ m + 1 = 5 * d + 5 /\ d + 1 \in 0 .. StackBytes
  BY <1>1, <1>5, NativeAssumption DEF m
<1>7. 17 \in BehindCalls
  BY <1>2 DEF BehindCalls
<1>8. Slot(5 * d + 5)' = At(17) /\ regs'["RSP"] = Pointer(5 * d + 5)
  BY <1>5, <1>6
<1>9. Point(d + 1, 1)'
  BY <1>1, <1>3, <1>4, <1>5, <1>6, <1>7, <1>8, CallEnters
<1> QED
  BY <1>5, <1>6, <1>9

\* A call is back in its caller.
LEMMA CallReturns ==
  ASSUME NTypes, NEW d \in 1 .. StackBytes, Point(d, Last), Stays, mem' = mem,
         rip' = Slot(5 * d), regs'["RSP"] = Pointer(5 * d - 1), Others("RSP")
  PROVE  \E k \in BehindCalls : Point(d - 1, k)'
<1> DEFINE c == d - 1
<1>1. /\ native \in Natives /\ c \in Nat /\ d = c + 1 /\ d # 0 /\ d \in Nat
      /\ 5 * d = 5 * c + 5 /\ 5 * d - 1 = 5 * c + 4 /\ 5 * (d - 1) + 1 = 5 * c + 1
      /\ 5 * (d - 1) + 4 = 5 * c + 4
  BY NativeAssumption DEF NTypes
<1>2. Last \in {19, 24} /\ (IsFib <=> Last = 24)
  BY <1>1, CodeListed
<1>3. /\ Chain(d) /\ regs["RBP"] = FoundRbp(d) /\ regs["RBX"] \in FoundRbx(d)
      /\ regs["R12"] = FoundR12(d) /\ regs["RAX"] = Word(Rec(Arg(d)))
  BY <1>2 DEF Point, Kept, Computed
<1>4. /\ FoundRbp(d) = Pointer(5 * c + 1) /\ FoundR12(d) = Arg(c)
      /\ FoundRbx(d) = IF Slot(5 * d) = At(12) THEN Words ELSE {Word(Rec(Arg(c) - 1))}
      /\ Arg(d) = Slot(5 * c + 4) - (IF Slot(5 * d) = At(12) THEN 1 ELSE 2)
  BY <1>1 DEF FoundRbp, FoundR12, FoundRbx, Arg
<1>5. c \in 0 .. d - 1 /\ d \in 1 .. d
  BY <1>1
<1>6. /\ Slot(5 * c + 1) = FoundRbp(c) /\ Slot(5 * c + 2) \in FoundRbx(c)
      /\ Slot(5 * c + 3) = FoundR12(c) /\ Slot(5 * c + 4) = Arg(c)
      /\ Arg(c) > 1 /\ \E k \in BehindCalls : Slot(5 * d) = At(k)
  BY <1>3, <1>5 DEF Chain
<1>7. Chain(c)
  <2>1. \A j \in 1 .. c : j \in 1 .. d
    BY <1>1
  <2>2. \A j \in 0 .. c - 1 : j \in 0 .. d - 1
    BY <1>1
  <2> QED
    BY <1>3, <2>1, <2>2 DEF Chain
<1> HIDE DEF c
<1>8. \A i : Slot(i)' = Slot(i)
  BY DEF Slot, Pointer
<1>9. /\ Arg(c)' = Arg(c) /\ FoundRbp(c)' = FoundRbp(c)
      /\ FoundR12(c)' = FoundR12(c) /\ FoundRbx(c)' = FoundRbx(c)
      /\ Chain(c)' /\ Last' = Last /\ (IsFib' <=> IsFib)
      /\ Rec(Arg(c))' = Rec(Arg(c)) /\ Rec(Arg(c) - 1)' = Rec(Arg(c) - 1)
      /\ Rec(Arg(c) - 2)' = Rec(Arg(c) - 2)
      /\ \A k : Pushed(k)' = Pushed(k) /\ At(k)' = At(k)
  BY <1>1, <1>7, <1>8, CallStays
<1>10. /\ regs'["RSP"] = Pointer(5 * c + 4) /\ regs'["RBP"] = Pointer(5 * c + 1)
       /\ regs'["R12"] = Arg(c) /\ regs'["RAX"] = Word(Rec(Arg(d)))
       /\ regs'["RBX"] = regs["RBX"]
  BY <1>1, <1>3, <1>4 DEF Others, Registers
<1>11. PICK k \in BehindCalls : Slot(5 * d) = At(k)
  BY <1>6
<1>12. k \in {12, 17} /\ (k = 17 => IsFib) /\ k \in 9 .. Last - 6 /\ Pushed(k) = 4
  <2>1. k \in {12, 17} /\ (k = 17 => IsFib)
    BY <1>11 DEF BehindCalls
  <2>2. k \in 9 .. Last - 6
    BY <1>2, <2>1
  <2> QED
    BY <1>1, <2>1, <2>2, PushedIs
<1>13. rip' = At(k)'
  BY <1>9, <1>11
<1>14. Saved(c, k)'
  BY <1>2, <1>6, <1>8, <1>9, <1>12 DEF Saved
<1>15. Kept(c, k)'
  BY <1>2, <1>9, <1>10, <1>12 DEF Kept, Pointer
<1>16. Computed(Arg(c), k)'
  <2>1. CASE k = 12
    <3>1. Slot(5 * d) = At(12)
      BY <1>11, <2>1
    <3>2. regs'["RAX"] = Word(Rec(Arg(c) - 1))
      BY <1>4, <1>6, <1>10, <3>1
    <3> QED
      BY <1>2, <1>6, <1>9, <1>10, <2>1, <3>2 DEF Computed, Word
  <2>2. CASE k = 17
    <3>1. Slot(5 * d) # At(12)
      BY <1>1, <1>11, <1>12, <2>2, CallsAreApart
    <3>2. regs'["RAX"] = Word(Rec(Arg(c) - 2)) /\ regs'["RBX"] = Word(Rec(Arg(c) - 1))
      BY <1>3, <1>4, <1>6, <1>10, <3>1
    <3> QED
      BY <1>2, <1>6, <1>9, <1>10, <1>12, <2>2, <3>2 DEF Computed, Word
  <2> QED
    BY <1>12, <2>1, <2>2
<1>17. Point(c, k)'
  BY <1>9, <1>13, <1>14, <1>15, <1>16 DEF Point
<1> QED
  BY <1>11, <1>17 DEF c

\* The last instruction goes back to the caller or to the VM.
LEMMA RetFromCall ==
  ASSUME NTypes, NEW d \in 0 .. StackBytes, Point(d, Last), Next
  PROVE  NTypes' /\ ((\E k \in BehindCalls : d - 1 \in 0 .. StackBytes /\ Point(d - 1, k)') \/ Back')
<1>1. native \in Natives /\ d \in Nat
  BY NativeAssumption DEF NTypes
<1>2. Last \in {19, 24} /\ Last \in 1 .. Last /\ Code(Last) = RetInstr
  BY <1>1, CodeListed
<1> DEFINE m == 5 * d
<1>3. rip = At(Last) /\ regs["RSP"] = Pointer(m) /\ m \in Nat
  BY <1>1, PushedIs DEF Point, Kept
<1> HIDE DEF m
<1>4. /\ NTypes' /\ Stays /\ mem' = mem /\ rip' = Slot(m)
      /\ regs'["RSP"] = Pointer(m - 1) /\ Others("RSP")
  BY <1>2, <1>3, RetAt
<1>5. CASE d # 0
  <2>1. d \in 1 .. StackBytes /\ d - 1 \in 0 .. StackBytes
    BY <1>1, <1>5, NativeAssumption
  <2>2. rip' = Slot(5 * d) /\ regs'["RSP"] = Pointer(5 * d - 1)
    BY <1>4 DEF m
  <2> QED
    BY <1>4, <2>1, <2>2, CallReturns
<1>6. CASE d = 0
  <2>1. /\ Chain(0) /\ regs["RBP"] = FoundRbp(0) /\ regs["RBX"] \in FoundRbx(0)
        /\ regs["R12"] = FoundR12(0) /\ regs["RAX"] = Word(Rec(Arg(0)))
    BY <1>2, <1>6 DEF Point, Kept, Computed
  <2>2. /\ regs["RBP"] = Given["RBP"] /\ regs["RBX"] = Given["RBX"] /\ regs["R12"] = Given["R12"]
        /\ regs["RAX"] = Word(Rec(Given["RCX"]))
    BY <2>1 DEF FoundRbp, FoundRbx, FoundR12, Arg
  <2>3. Slot(0) = ReturnTo /\ m = 0 /\ m - 1 = -1 /\ Pointer(-1) = StackTop + 8
    <3>1. StackTop \in Int
      BY NativeAssumption, HalfIsPositive DEF Words
    <3> QED
      BY <1>6, <2>1, <3>1 DEF Chain, m, Pointer
  <2>4. Given' = Given /\ Rec(Given["RCX"])' = Rec(Given["RCX"])
    BY <1>4 DEF Stays, Given, CallRegisters, Rec
  <2>5. Returned' /\ regs'["RSP"] = StackTop + 8 /\ Slot(0)' = ReturnTo
    BY <1>4, <2>3 DEF Returned, Slot, Pointer
  <2>6. /\ regs'["RBP"] = Given["RBP"] /\ regs'["RBX"] = Given["RBX"] /\ regs'["R12"] = Given["R12"]
        /\ regs'["RAX"] = Word(Rec(Given["RCX"]))
    BY <1>4, <2>2 DEF Others, Registers
  <2>7. Back'
    BY <2>4, <2>5, <2>6 DEF Back, Word
  <2> QED
    BY <1>4, <2>7
<1> QED
  BY <1>5, <1>6

--------------------------------------------------------------------------------
(* The theorems. *)

\* A step that leaves nothing as it was is one of Next, and keeps the function.
LEMMA StepsStay ==
  ASSUME Next
  PROVE  Stays /\ Last' = Last
<1>1. Stays
  BY DEF Next, Push, Pop, Mov, MovImmediate, LoadAddress, AddImmediate, AddRegister, Multiply, Load,
         Cmp, TakeJump, Call, Return, Done, Compute, Stays, vars
<1> QED
  BY <1>1 DEF Stays, Last, IsFib

\* A call that is under way goes on to another instruction, into another call,
\* back to its caller or back to the VM.
LEMMA CallsGoOn ==
  ASSUME NTypes, NEW d \in 0 .. StackBytes, NEW k \in 1 .. Last, Point(d, k), Next
  PROVE  NInv'
<1>1. native \in Natives /\ StackBytes \in Nat
  BY NativeAssumption DEF NTypes
<1>2. Last \in {19, 24} /\ Last' = Last /\ d \in 0 .. StackBytes
  BY <1>1, CodeListed, StepsStay
<1>3. ASSUME NEW e \in 0 .. StackBytes, NEW i \in 1 .. Last, NTypes', Point(e, i)' PROVE NInv'
  BY <1>2, <1>3 DEF NInv
<1>4. CASE k \in 1 .. 6
  <2>1. \E i \in 1 .. 7 : NTypes' /\ Point(d, i)'
    BY <1>4, PushRbp, MovRbp, PushRbx, PushR12, MovR12, CmpN
  <2> QED
    BY <1>2, <1>3, <2>1
<1>5. CASE k = 7
  <2>1. NTypes' /\ (Point(d, 8)' \/ Point(d, Last - 4)')
    BY <1>5, JumpIfBase
  <2>2. CASE Point(d, 8)'
    <3>1. 8 \in 1 .. Last
      BY <1>2
    <3> QED
      BY <1>3, <2>1, <2>2, <3>1
  <2>3. CASE Point(d, Last - 4)'
    <3>1. NTypes' /\ \E i \in 1 .. Last' : Point(d, i)'
      BY <1>2, <2>1, <2>3
    <3> QED
      BY <3>1 DEF NInv
  <2> QED
    BY <2>1, <2>2, <2>3
<1>6. CASE k \in 8 .. 10
  <2>1. \E i \in 9 .. 11 : NTypes' /\ Point(d, i)'
    BY <1>6, PushN, LeaFirst, MovSelf
  <2> QED
    BY <1>2, <1>3, <2>1
<1>7. CASE k = 11
  <2>1. NTypes' /\ d + 1 \in 0 .. StackBytes /\ Point(d + 1, 1)'
    BY <1>7, FirstCall
  <2>2. 1 \in 1 .. Last
    BY <1>2
  <2> QED
    BY <1>3, <2>1, <2>2
<1>8. CASE Last = 24 /\ k \in 12 .. 15
  <2>1. \E i \in 13 .. 16 : NTypes' /\ Point(d, i)'
    BY <1>8, MovRbx, LoadN, LeaSecond, MovSelfAgain
  <2> QED
    BY <1>3, <1>8, <2>1
<1>9. CASE Last = 24 /\ k = 16
  <2>1. NTypes' /\ d + 1 \in 0 .. StackBytes /\ Point(d + 1, 1)'
    BY <1>9, SecondCall
  <2>2. 1 \in 1 .. Last
    BY <1>2
  <2> QED
    BY <1>3, <2>1, <2>2
<1>10. CASE (Last = 24 /\ k = 17) \/ (Last = 19 /\ k = 12)
  <2>1. NTypes' /\ Point(d, Last - 6)'
    BY <1>10, AddResults, MultiplyResult
  <2>2. NTypes' /\ \E i \in 1 .. Last' : Point(d, i)'
    BY <1>2, <2>1
  <2> QED
    BY <2>2 DEF NInv
<1>11. CASE k \in Last - 6 .. Last - 1
  <2>1. k \in {Last - 6, Last - 5, Last - 4, Last - 3, Last - 2, Last - 1}
    BY <1>2, <1>11
  <2>2. /\ NTypes'
        /\ \/ Point(d, Last - 5)' \/ Point(d, Last - 3)' \/ Point(d, Last - 2)'
           \/ Point(d, Last - 1)' \/ Point(d, Last)'
    BY <2>1, DropN, SkipBase, BaseValueIsResult, PopR12, PopRbx, PopRbp
  <2>3. \E i \in 1 .. Last' : Point(d, i)'
    BY <1>2, <2>2
  <2> QED
    BY <2>2, <2>3 DEF NInv
<1>12. CASE k = Last
  <2>1. NTypes' /\ ((\E i \in BehindCalls : d - 1 \in 0 .. StackBytes /\ Point(d - 1, i)') \/ Back')
    BY <1>12, RetFromCall
  <2>2. CASE Back'
    BY <2>1, <2>2 DEF NInv
  <2>3. CASE ~ Back'
    <3>1. PICK i \in BehindCalls : d - 1 \in 0 .. StackBytes /\ Point(d - 1, i)'
      BY <2>1, <2>3
    <3>2. i \in 1 .. Last
      BY <1>1, <1>2, CodeListed DEF BehindCalls
    <3> QED
      BY <1>3, <2>1, <3>1, <3>2
  <2> QED
    BY <2>2, <2>3
<1> QED
  BY <1>2, <1>4, <1>5, <1>6, <1>7, <1>8, <1>9, <1>10, <1>11, <1>12

\* The VM calls the function from the top of its stack.
LEMMA InitN == Init => NInv
<1> SUFFICES ASSUME Init PROVE NInv
  OBVIOUS
<1>1. /\ native \in Natives /\ argument \in Arguments /\ argument \in Words
      /\ lessEqual \in BOOLEAN /\ rip = CodeAddress /\ regs = Given
      /\ mem = [a \in Addresses8 |-> IF a = StackTop THEN ReturnTo ELSE 7]
  BY NativeAssumption DEF Init, Given
<1>2. HalfWord \in Nat /\ HalfWord >= 8 /\ StackBytes \in Nat /\ ReturnTo \in Words /\ StackTop \in Words
  BY NativeAssumption
<1>3. Given \in [Registers -> Words] /\ Given["RSP"] = StackTop
  <2>1. {-3, -4, -5, 2, 7} \subseteq Words
    BY <1>2 DEF Words
  <2>2. ArgumentRegister \in {"RCX", "RDI"}
    BY NativeAssumption
  <2> QED
    BY <1>1, <1>2, <2>1, <2>2 DEF Given, CallRegisters, Registers
<1>4. StackTop \in Addresses8 /\ Pointer(0) = StackTop
  <2>1. Pointer(0) = StackTop
    BY SlotsAreApart
  <2>2. 0 <= StackBytes \div 8
    BY <1>2
  <2>3. 0 \in Int /\ 0 >= -1
    OBVIOUS
  <2> QED
    BY <2>1, <2>2, <2>3, SlotsThereAre
<1>5. mem \in [Addresses8 -> Words] /\ mem[StackTop] = ReturnTo /\ mem[StackTop + 8] = 7
  <2>1. 7 \in Words /\ StackTop + 8 # StackTop /\ StackTop + 8 \in Addresses8
    BY <1>2, TopIsThere DEF Words
  <2> QED
    BY <1>1, <1>2, <1>4, <2>1
<1>6. NTypes
  BY <1>1, <1>3, <1>4, <1>5 DEF NTypes
<1>7. Last \in {19, 24} /\ Pushed(1) = 0 /\ At(1) = CodeAddress
  BY <1>1, CodeListed, PushedIs, FirstIsCode
<1>8. Chain(0)
  BY <1>4, <1>5 DEF Chain, Slot
<1>9. Saved(0, 1) /\ Kept(0, 1) /\ Computed(Arg(0), 1)
  BY <1>1, <1>3, <1>4, <1>7 DEF Saved, Kept, Computed, FoundRbp, FoundRbx, FoundR12, Arg
<1>10. Point(0, 1) /\ 0 \in 0 .. StackBytes /\ 1 \in 1 .. Last
  BY <1>1, <1>2, <1>7, <1>8, <1>9 DEF Point
<1> QED
  BY <1>6, <1>10 DEF NInv

\* Every step leaves the slots and the registers as NInv says.
LEMMA NextN == NInv /\ [Next]_vars => NInv'
<1> SUFFICES ASSUME NInv, [Next]_vars PROVE NInv'
  OBVIOUS
<1>1. CASE UNCHANGED vars
  <2>1. /\ native' = native /\ argument' = argument /\ regs' = regs /\ mem' = mem /\ rip' = rip
        /\ lessEqual' = lessEqual
    BY <1>1 DEF vars
  <2>2. NTypes'
    BY <2>1 DEF NInv, NTypes
  <2>3. ASSUME Back PROVE Back'
    BY <2>1, <2>3 DEF Back, Returned, Slot, Given, CallRegisters, Rec, Word, Pointer
  <2>4. ASSUME NEW d \in 0 .. StackBytes, NEW k \in 1 .. Last, Point(d, k)
        PROVE  Last' = Last /\ Point(d, k)'
    <3>1. /\ Stays /\ d \in Nat /\ Chain(d) /\ (\A i : Slot(i)' = Slot(i)) /\ NTypes
          /\ Saved(d, k) /\ Kept(d, k) /\ Computed(Arg(d), k) /\ rip = At(k)
      BY <2>1, <2>4, NativeAssumption DEF Stays, Slot, Pointer, NInv, Point
    <3>2. /\ Arg(d)' = Arg(d) /\ FoundRbp(d)' = FoundRbp(d)
          /\ FoundR12(d)' = FoundR12(d) /\ FoundRbx(d)' = FoundRbx(d)
          /\ Chain(d)' /\ Last' = Last /\ (IsFib' <=> IsFib)
          /\ \A i : Pushed(i)' = Pushed(i) /\ At(i)' = At(i)
          /\ Rec(Arg(d))' = Rec(Arg(d)) /\ Rec(Arg(d) - 1)' = Rec(Arg(d) - 1)
          /\ Rec(Arg(d) - 2)' = Rec(Arg(d) - 2)
      BY <3>1, CallStays
    <3>3. Saved(d, k)'
      BY <3>1, <3>2 DEF Saved
    <3>4. Kept(d, k)'
      BY <2>1, <3>1, <3>2 DEF Kept, Pointer
    <3>5. Computed(Arg(d), k)'
      BY <2>1, <3>1, <3>2 DEF Computed, Word
    <3> QED
      BY <2>1, <3>1, <3>2, <3>3, <3>4, <3>5 DEF Point
  <2> QED
    BY <2>2, <2>3, <2>4 DEF NInv
<1>2. CASE Next
  <2>1. CASE Back
    <3>1. ~ Fetch("push") /\ ~ Fetch("pop") /\ ~ Fetch("mov") /\ ~ Fetch("movimm") /\ ~ Fetch("lea")
      BY <2>1 DEF Back, Fetch
    <3>2. ~ Fetch("addimm") /\ ~ Fetch("add") /\ ~ Fetch("imul") /\ ~ Fetch("load") /\ ~ Fetch("cmp")
      BY <2>1 DEF Back, Fetch
    <3>3. ~ Fetch("jmp") /\ ~ Fetch("jle") /\ ~ Fetch("call") /\ ~ Fetch("ret")
      BY <2>1 DEF Back, Fetch
    <3>4. UNCHANGED vars
      BY <1>2, <3>1, <3>2, <3>3 DEF Next, Push, Pop, Mov, MovImmediate, LoadAddress, AddImmediate,
         AddRegister, Multiply, Load, Cmp, TakeJump, Call, Return, Done
    <3> QED
      BY <1>1, <3>4
  <2>2. CASE ~ Back
    <3>1. PICK d \in 0 .. StackBytes, k \in 1 .. Last : Point(d, k)
      BY <2>2 DEF NInv
    <3> QED
      BY <1>2, <3>1, CallsGoOn DEF NInv
  <2> QED
    BY <2>1, <2>2
<1> QED
  BY <1>1, <1>2

\* The calls of the emitted function keep to their frames: at every instruction
\* the slots hold the return addresses, the registers of the callers and n.
THEOREM NativeCallsAreFramed == Spec => []NInv
<1>1. Init => NInv
  BY InitN
<1>2. NInv /\ [Next]_vars => NInv'
  BY NextN
<1> QED
  BY <1>1, <1>2, PTL DEF Spec

\* The offsets and addresses that compile_function works out hit instructions:
\* of every call, every jump and every return.
THEOREM JumpsHitInstructions == Spec => []RunsEmitted
<1>1. ASSUME NInv PROVE RunsEmitted
  <2>1. CASE Back
    BY <2>1 DEF Back, RunsEmitted
  <2>2. CASE ~ Back
    <3>1. NTypes /\ native \in Natives
      BY <1>1 DEF NInv, NTypes
    <3>2. PICK d \in 0 .. StackBytes, k \in 1 .. Last : Point(d, k)
      BY <1>1, <2>2 DEF NInv
    <3> QED
      BY <3>1, <3>2, CodeHere DEF Point, RunsEmitted
  <2> QED
    BY <2>1, <2>2
<1> QED
  BY <1>1, NativeCallsAreFramed, PTL

\* What NInv says when the VM has the control back, and of its own stack.
LEMMA VmIsBack == NInv => /\ CallerPreserved
                          /\ Returned => regs["RAX"] = Word(Rec(Given["RCX"]))
<1> SUFFICES ASSUME NInv PROVE /\ CallerPreserved
                               /\ Returned => regs["RAX"] = Word(Rec(Given["RCX"]))
  OBVIOUS
<1>1. NTypes /\ native \in Natives /\ mem[StackTop + 8] = 7 /\ Pointer(0) = StackTop
  BY SlotsAreApart DEF NInv, NTypes
<1>2. Slot(0) = ReturnTo
  BY DEF NInv, Point, Chain, Back
<1>3. mem[StackTop] = ReturnTo
  BY <1>1, <1>2 DEF Slot
<1>4. Returned => Back
  <2>1. ASSUME NEW d \in 0 .. StackBytes, NEW k \in 1 .. Last, Point(d, k) PROVE ~ Returned
    BY <1>1, <2>1, CodeHere DEF Point, Returned
  <2> QED
    BY <2>1 DEF NInv
<1> QED
  BY <1>1, <1>3, <1>4 DEF Back, CallerPreserved, Given

\* The VM finds its stack and its registers as it left them, whichever register
\* it passes the argument in.
THEOREM CallersAreRestored == Spec => []CallerPreserved
<1>1. NInv => CallerPreserved
  BY VmIsBack
<1> QED
  BY <1>1, NativeCallsAreFramed, PTL

\* With the argument in the register the code reads, which is the convention of
\* Windows, the result is the recurrence in words, for every base and argument.
THEOREM NativeResults == ArgumentRegister = "RCX" => (Spec => []ResultCorrect)
<1> SUFFICES ASSUME ArgumentRegister = "RCX" PROVE Spec => []ResultCorrect
  OBVIOUS
<1>1. Given["RCX"] = argument
  BY DEF Given, CallRegisters, Registers
<1>2. NInv => ResultCorrect
  BY <1>1, VmIsBack DEF ResultCorrect, Rec
<1> QED
  BY <1>2, NativeCallsAreFramed, PTL

================================================================================
