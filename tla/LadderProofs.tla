---------------------------- MODULE LadderProofs ----------------------------
(***************************************************************************)
(* The Montgomery ladder computes k mod N times its base, for every order, *)
(* every number of bits and every representation of points whose addition  *)
(* and doubling are the group's; and it implements ScalarMult.             *)
(***************************************************************************)
EXTENDS Ladder, TLAPS

-----------------------------------------------------------------------------
(* Division with remainder *)

\* Multiplication distributes over addition.
LEMMA Distribute ==
  ASSUME NEW a \in Int, NEW b \in Int, NEW c \in Int
  PROVE  /\ a * (b + c) = a * b + a * c
         /\ a * (b - c) = a * b - a * c
         /\ a * b \in Int
         /\ a * b = b * a
OBVIOUS

\* Division with remainder, by its quotient and remainder.
LEMMA DivMod ==
  ASSUME NEW a \in Nat, NEW m \in Nat \ {0}
  PROVE  \E d \in Nat, r \in 0..m - 1 :
           a = m * d + r /\ a \div m = d /\ a % m = r
<1>1. /\ a = m * (a \div m) + (a % m)
      /\ a \div m \in Nat
      /\ a % m \in 0..m - 1
  OBVIOUS
<1>2. QED  BY <1>1

\* Quotient and remainder are unique.
LEMMA DivModUnique ==
  ASSUME NEW m \in Nat \ {0}, NEW q \in Int, NEW u \in 0..m - 1,
         NEW a \in Nat, a = m * q + u
  PROVE  a % m = u /\ a \div m = q
<1>1. PICK d \in Nat, s \in 0..m - 1 : a = m * d + s /\ a \div m = d /\ a % m = s
  BY DivMod
<1> DEFINE c == q - d
<1>2. c \in Int /\ m * c = s - u
  BY <1>1
<1>3. ~(c >= 1)
  <2>1. SUFFICES ASSUME c >= 1 PROVE FALSE
    OBVIOUS
  <2>2. m * c = m + m * (c - 1) /\ c - 1 \in Nat /\ m * (c - 1) \in Nat
    BY <1>2, <2>1
  <2>3. QED  BY <1>1, <1>2, <2>2
<1>4. ~(c <= 0 - 1)
  <2>1. SUFFICES ASSUME c <= 0 - 1 PROVE FALSE
    OBVIOUS
  <2> DEFINE n == 0 - c - 1
  <2>2. n \in Nat /\ c = 0 - n - 1 /\ m * n \in Nat
    BY <1>2, <2>1
  <2>3. m * c = (0 - m * n) - m
    BY <2>2
  <2> HIDE DEF n, c
  <2>4. QED  BY <1>1, <1>2, <2>2, <2>3
<1>5. c = 0
  BY <1>2, <1>3, <1>4
<1>6. QED  BY <1>1, <1>2, <1>5

\* Numbers that differ by a multiple of m have the same remainder.
LEMMA ModShift ==
  ASSUME NEW m \in Nat \ {0}, NEW a \in Nat, NEW b \in Nat, NEW q \in Int,
         a = b + m * q
  PROVE  a % m = b % m
<1>0. \A x \in Nat, y \in Int, v \in 0..m - 1 : x = m * y + v => x % m = v
  BY DivModUnique
<1>1. PICK d \in Nat, u \in 0..m - 1 : b = m * d + u /\ b % m = u
  BY DivMod
<1> DEFINE e == q + d
<1>2. e \in Int /\ a = m * e + u
  <2>1. m * (q + d) = m * q + m * d
    OBVIOUS
  <2>2. QED  BY <1>1, <2>1
<1> HIDE DEF e
<1>3. a % m = u
  BY ONLY <1>0, <1>2, a \in Nat, u \in 0..m - 1
<1>4. QED  BY <1>1, <1>3

\* Remainders may be taken before adding.
LEMMA ModAdd ==
  ASSUME NEW m \in Nat \ {0}, NEW a \in Nat, NEW b \in Nat
  PROVE  ((a % m) + b) % m = (a + b) % m
<1>1. PICK d \in Nat, r \in 0..m - 1 : a = m * d + r /\ a % m = r
  BY DivMod
<1>2. a + b = (r + b) + m * d
  BY <1>1, Distribute
<1>3. r + b \in Nat /\ a + b \in Nat /\ d \in Int
  BY <1>1
<1>4. \A x, y \in Nat, e \in Int : x = y + m * e => x % m = y % m
  BY ModShift
<1>5. (a + b) % m = (r + b) % m
  BY <1>1, <1>2, <1>3, <1>4
<1>6. QED  BY <1>1, <1>5

\* Remainders may be taken before doubling.
LEMMA ModDouble ==
  ASSUME NEW m \in Nat \ {0}, NEW a \in Nat
  PROVE  (2 * (a % m)) % m = (2 * a) % m
<1>1. PICK d \in Nat, r \in 0..m - 1 : a = m * d + r /\ a % m = r
  BY DivMod
<1>2. m * (d + d) = m * d + m * d /\ m * d \in Int
  BY Distribute
<1>3. 2 * a = 2 * r + m * (d + d)
  BY <1>1, <1>2
<1>4. 2 * r \in Nat /\ 2 * a \in Nat /\ d + d \in Int
  OBVIOUS
<1>5. QED  BY <1>1, <1>3, <1>4, ModShift

\* Shifting by one bit less appends that bit.
LEMMA Halving ==
  ASSUME NEW a \in Nat, NEW w \in Nat \ {0}
  PROVE  a \div w = 2 * (a \div (2 * w)) + ((a \div w) % 2)
<1>1. PICK q \in Nat, r \in 0..w - 1 : a = w * q + r /\ a \div w = q
  BY DivMod
<1>2. PICK h \in Nat, b \in 0..1 : q = 2 * h + b /\ q % 2 = b
  <2>1. 2 - 1 = 1
    OBVIOUS
  <2>2. QED  BY <2>1, DivMod
<1>3. w * q = w * (h + h) + w * b
  <2>1. q = (h + h) + b
    BY <1>2
  <2>2. QED  BY <2>1, Distribute
<1>4. w * (h + h) = (2 * w) * h
  <2>1. w * (h + h) = w * h + w * h
    BY Distribute
  <2>2. (2 * w) * h = h * (w + w)
    BY Distribute
  <2>3. h * (w + w) = h * w + h * w /\ h * w = w * h
    BY Distribute
  <2>4. QED  BY <2>1, <2>2, <2>3
<1>5. w * b + r \in 0..2 * w - 1
  <2>1. CASE b = 0
    BY <2>1
  <2>2. CASE b = 1
    BY <2>2
  <2>3. QED  BY <1>2, <2>1, <2>2
<1>6. a = (2 * w) * h + (w * b + r)
  BY <1>1, <1>3, <1>4, Distribute
<1>7. a \div (2 * w) = h
  BY <1>5, <1>6, DivModUnique
<1>8. QED  BY <1>1, <1>2, <1>7

-----------------------------------------------------------------------------
(* The loop *)

\* A bit is 0 or 1, and the prefix with one bit more is twice the prefix plus
\* that bit.
LEMMA PrefixStep ==
  ASSUME NEW n \in 1..Bits, k \in Nat
  PROVE  /\ Bit(n - 1) \in {0, 1}
         /\ k \div Weight[n] \in Nat /\ k \div Weight[n - 1] \in Nat
         /\ k \div Weight[n - 1] = 2 * (k \div Weight[n]) + Bit(n - 1)
<1> DEFINE w == Weight[n - 1]
<1>1. n \in 0..Bits /\ n - 1 \in 0..Bits
  BY BitsAssumption
<1>2. w \in Nat \ {0} /\ Weight[n] \in Nat \ {0} /\ Weight[n] = 2 * w
  BY <1>1, WeightAssumption
<1> HIDE DEF w
<1>3. k \div w = 2 * (k \div (2 * w)) + ((k \div w) % 2)
  BY <1>2, Halving
<1>4. k \div w \in Nat /\ k \div Weight[n] \in Nat
  BY <1>2, DivMod
<1>5. (k \div w) % 2 \in {0, 1}
  BY <1>4
<1>6. QED  BY <1>2, <1>3, <1>4, <1>5 DEF Bit, w

\* The bits of a scalar are all it has.
LEMMA WholeScalar ==
  ASSUME k \in Scalars
  PROVE  k \in Nat /\ k \div Weight[Bits] = 0 /\ k \div Weight[0] = k
<1>1. Weight[Bits] \in Nat \ {0} /\ Weight[0] = 1
  BY BitsAssumption, WeightAssumption
<1>2. k \in Nat /\ k < Weight[Bits]
  BY <1>1 DEF Scalars
<1>3. k = Weight[Bits] * 0 + k
  BY <1>1, <1>2
<1>4. k \div Weight[Bits] = 0
  BY <1>1, <1>2, <1>3, DivModUnique
<1>5. QED  BY <1>1, <1>2, <1>4

\* The remainder modulo the order, kept as one symbol in what follows.
Residue(a) == a % N

\* Remainders may be taken before adding and before doubling.
LEMMA ResidueFacts ==
  /\ \A a \in Nat : Residue(a) \in Nat
  /\ \A a, b \in Nat : Residue(Residue(a) + b) = Residue(a + b)
  /\ \A a \in Nat : Residue(2 * Residue(a)) = Residue(2 * a)
<1>1. N \in Nat \ {0}
  BY OrderAssumption
<1>2. \A a, b \in Nat : ((a % N) + b) % N = (a + b) % N
  BY <1>1, ModAdd
<1>3. \A a \in Nat : (2 * (a % N)) % N = (2 * a) % N
  BY <1>1, ModDouble
<1>4. \A a \in Nat : a % N \in Nat
  BY <1>1
<1>5. QED  BY <1>2, <1>3, <1>4 DEF Residue

\* One iteration's arithmetic: from the residues of p and p + 1 to those of the
\* prefix 2p or 2p + 1 and its successor.
LEMMA LogStep ==
  ASSUME NEW p \in Nat, NEW x, NEW y, x = Residue(p), y = Residue(x + 1)
  PROVE  /\ Residue(2 * x) = Residue(2 * p)
         /\ Residue(x + y) = Residue(2 * p + 1)
         /\ Residue(2 * y) = Residue(2 * p + 2)
         /\ Residue(Residue(2 * p) + 1) = Residue(2 * p + 1)
         /\ Residue(Residue(2 * p + 1) + 1) = Residue(2 * p + 2)
<1>1. x \in Nat /\ y \in Nat /\ y = Residue(p + 1)
  BY ResidueFacts
<1>2. Residue(2 * y) = Residue(2 * p + 2)
  <2>1. Residue(2 * y) = Residue(2 * (p + 1))
    BY <1>1, ResidueFacts
  <2>2. 2 * (p + 1) = 2 * p + 2
    OBVIOUS
  <2>3. QED  BY <2>1, <2>2
<1>3. Residue(x + y) = Residue(2 * p + 1)
  <2>1. Residue(x + y) = Residue(p + y)
    BY <1>1, ResidueFacts
  <2>2. Residue(y + p) = Residue((p + 1) + p)
    BY <1>1, ResidueFacts
  <2>3. p + y = y + p /\ (p + 1) + p = 2 * p + 1
    BY <1>1
  <2>4. QED  BY <2>1, <2>2, <2>3
<1>4. Residue(Residue(2 * p + 1) + 1) = Residue(2 * p + 2)
  <2>1. Residue(Residue(2 * p + 1) + 1) = Residue((2 * p + 1) + 1)
    BY ResidueFacts
  <2>2. (2 * p + 1) + 1 = 2 * p + 2
    OBVIOUS
  <2>3. QED  BY <2>1, <2>2
<1>5. QED  BY <1>1, <1>2, <1>3, <1>4, ResidueFacts

-----------------------------------------------------------------------------
\* What the loop leaves in r0.
ResultCorrect == pc = "done" => Log(r0) = k % N

\* The registers are those of the empty prefix before the loop, differ by the
\* base in it, and the result is right after it.
IInv ==
  /\ TypeOK
  /\ pc = "start" => i = Bits
  /\ PrefixComputed
  /\ RegistersDifferByBase
  /\ ResultCorrect

\* What the code's comment promises of the registers at every iteration, and
\* that the result is the multiple asked for, by induction over the loop.
THEOREM LadderInvariant == SafeSpec => []IInv
<1> USE OrderAssumption, BitsAssumption, GroupAssumption
<1>1. Init => IInv
  BY DEF Init, IInv, TypeOK, PrefixComputed, RegistersDifferByBase, ResultCorrect
<1>2. IInv /\ [Next]_vars => IInv'
  <2> SUFFICES ASSUME IInv, [Next]_vars PROVE IInv'
    OBVIOUS
  <2> USE DEF IInv, TypeOK, PrefixComputed, RegistersDifferByBase, ResultCorrect
  <2>1. CASE UNCHANGED vars
    BY <2>1 DEF vars
  <2>2. CASE ZeroScalar
    <3>1. 0 % N = 0
      BY DivModUnique
    <3>2. QED  BY <2>2, <3>1 DEF ZeroScalar
  <2>3. CASE Enter
    <3>1. 0 % N = 0 /\ (0 + 1) % N = 1
      <4>1. 0 = N * 0 + 0 /\ 0 + 1 = N * 0 + 1 /\ 0 \in 0..N - 1 /\ 1 \in 0..N - 1
        OBVIOUS
      <4>2. QED  BY <4>1, DivModUnique
    <3>2. k \div Weight[Bits] = 0
      BY WholeScalar
    <3>3. QED  BY <2>3, <3>1, <3>2 DEF Enter
  <2>4. CASE IterateZero
    <3> DEFINE p == k \div Weight[i]
    <3>1. i \in 1..Bits /\ k \in Nat
      BY <2>4, WholeScalar DEF IterateZero
    <3>2. p \in Nat /\ k \div Weight[i - 1] = 2 * p
      BY <2>4, <3>1, PrefixStep DEF IterateZero
    <3>3. Log(r0) = Residue(p) /\ Log(r1) = Residue(Log(r0) + 1)
      BY <2>4 DEF IterateZero, Residue
    <3>4. /\ r0' \in Points /\ Log(r0') = Residue(2 * Log(r0))
          /\ r1' \in Points /\ Log(r1') = Residue(Log(r0) + Log(r1))
      BY <2>4 DEF IterateZero, Residue
    <3> HIDE DEF p
    <3>5. Log(r0') = Residue(2 * p) /\ Log(r1') = Residue(Log(r0') + 1)
      BY <3>2, <3>3, <3>4, LogStep
    <3>6. i' = i - 1 /\ i' \in 0..Bits /\ k' = k /\ pc' = "loop"
      BY <2>4, <3>1 DEF IterateZero
    <3>7. QED  BY <3>2, <3>4, <3>5, <3>6 DEF Residue
  <2>5. CASE IterateOne
    <3> DEFINE p == k \div Weight[i]
    <3>1. i \in 1..Bits /\ k \in Nat
      BY <2>5, WholeScalar DEF IterateOne
    <3>2. p \in Nat /\ k \div Weight[i - 1] = 2 * p + 1
      BY <2>5, <3>1, PrefixStep DEF IterateOne
    <3>3. Log(r0) = Residue(p) /\ Log(r1) = Residue(Log(r0) + 1)
      BY <2>5 DEF IterateOne, Residue
    <3>4. /\ r0' \in Points /\ Log(r0') = Residue(Log(r0) + Log(r1))
          /\ r1' \in Points /\ Log(r1') = Residue(2 * Log(r1))
      BY <2>5 DEF IterateOne, Residue
    <3> HIDE DEF p
    <3>5. Log(r0') = Residue(2 * p + 1) /\ Log(r1') = Residue(Log(r0') + 1)
      BY <3>2, <3>3, <3>4, LogStep
    <3>6. i' = i - 1 /\ i' \in 0..Bits /\ k' = k /\ pc' = "loop"
      BY <2>5, <3>1 DEF IterateOne
    <3>7. QED  BY <3>2, <3>4, <3>5, <3>6 DEF Residue
  <2>6. CASE Return
    <3>1. k \div Weight[0] = k
      BY WholeScalar
    <3>2. QED  BY <2>6, <3>1 DEF Return
  <2>7. QED  BY <2>1, <2>2, <2>3, <2>4, <2>5, <2>6 DEF Next
<1>3. QED  BY <1>1, <1>2, PTL DEF SafeSpec

\* Every scalar gets its multiple of the base, k >= N included.
LEMMA LadderCorrect == SafeSpec => []ResultCorrect
<1>1. IInv => ResultCorrect
  BY DEF IInv
<1>2. QED  BY <1>1, LadderInvariant, PTL

\* The registers hold representations of points and the bit index stays in
\* range, whatever the group operations are.
THEOREM LadderTyping == SafeSpec => []TypeOK
<1>1. IInv => TypeOK
  BY DEF IInv
<1>2. QED  BY <1>1, LadderInvariant, PTL

\* The two registers differ by the base at every iteration.
THEOREM LadderRegisters == SafeSpec => []RegistersDifferByBase
<1>1. IInv => RegistersDifferByBase
  BY DEF IInv
<1>2. QED  BY <1>1, LadderInvariant, PTL

\* Every step of the ladder is a step of ScalarMult or invisible to it.
THEOREM LadderImplements == SafeSpec => Promise!SafeSpec
<1>1. Init => Promise!Init
  BY DEF Init, Promise!Init
<1>2. IInv /\ IInv' /\ [Next]_vars
        => [Promise!Answer]_<<k, IF pc = "done" THEN Log(r0) ELSE Pending>>
  <2> SUFFICES ASSUME IInv, IInv', [Next]_vars
               PROVE  [Promise!Answer]_<<k, IF pc = "done" THEN Log(r0) ELSE Pending>>
    OBVIOUS
  <2>1. CASE UNCHANGED vars
    BY <2>1 DEF vars
  <2>2. CASE ZeroScalar \/ Return
    <3>1. pc # "done" /\ pc' = "done" /\ k' = k
      BY <2>2 DEF ZeroScalar, Return
    <3>2. Log(r0') = k % N
      BY <3>1 DEF IInv, ResultCorrect
    <3>3. QED  BY <3>1, <3>2 DEF Promise!Answer
  <2>3. CASE Enter \/ IterateZero \/ IterateOne
    BY <2>3 DEF Enter, IterateZero, IterateOne
  <2>4. QED  BY <2>1, <2>2, <2>3 DEF Next
<1>3. QED  BY <1>1, <1>2, LadderInvariant, PTL DEF SafeSpec, Promise!SafeSpec

=============================================================================
