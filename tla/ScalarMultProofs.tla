-------------------------- MODULE ScalarMultProofs --------------------------
(***************************************************************************)
(* The two algorithms of scalar multiplication that work on triples, for   *)
(* every cyclic curve and every number of bits.                            *)
(*                                                                         *)
(* The ladder of jacobian.c loses nothing to the aliasing of its in-place  *)
(* addition; it takes the steps of the Ruby ladder, swap by swap and write *)
(* by write, and so multiplies.  The wNAF call of lib/secp256k1.rb, in the *)
(* last part, multiplies too, for every window and in every mixture of the *)
(* two backends; its digits are exact, sparse and few.                     *)
(***************************************************************************)
EXTENDS NativeLadder, JacobianProofs, Sequences, TLAPS

-----------------------------------------------------------------------------
(* The buffers *)

\* What jp_add_internal has written to its output after each selection.
AfterDbl(p, q) ==
  Select(AddFormula(p, q), jp_double_internal(p), H(p, q) = 0 /\ Rval(p, q) = 0)
AfterInf(p, q) ==
  Select(AfterDbl(p, q), JP_INFINITY, H(p, q) = 0 /\ Rval(p, q) # 0)
AfterP(p, q) == Select(AfterInf(p, q), p, q.z = 0)

LEMMA LastSelection ==
  ASSUME NEW p, NEW q
  PROVE  Select(AfterP(p, q), q, p.z = 0) = jp_add_internal(p, q)
BY DEF AfterP, AfterInf, AfterDbl, jp_add_internal

Loop == {"swapIn", "compute"} \cup InAddition

Buffers == mem = [r0 |-> mem.r0, r1 |-> mem.r1]

\* From the copies on, the locals hold what they were computed from r0 and r1
\* as they were, and r1 holds what has been written so far.
AdditionInv ==
  pc \in InAddition =>
    LET p == loc.p_copy
        q == loc.q_copy
    IN  /\ loc.sum = AddFormula(p, q) /\ loc.dbl = jp_double_internal(p)
        /\ loc.pz = (p.z = 0) /\ loc.qz = (q.z = 0)
        /\ loc.h = (H(p, q) = 0) /\ loc.r = (Rval(p, q) = 0)
        /\ mem.r0 = IF pc = "swapOut" THEN jp_double_internal(p) ELSE p
        /\ pc = "selectDbl" => mem.r1 = AddFormula(p, q)
        /\ pc = "selectInf" => mem.r1 = AfterDbl(p, q)
        /\ pc = "selectP" => mem.r1 = AfterInf(p, q)
        /\ pc = "selectQ" => mem.r1 = AfterP(p, q)
        /\ pc \in {"double", "swapOut"} => mem.r1 = jp_add_internal(p, q)

MemInv ==
  /\ pc \in {"start", "rejected", "done"} \cup Loop
  /\ Buffers
  /\ AdditionInv

LEMMA MemStep == MemInv /\ [Next]_vars => MemInv'
<1> SUFFICES ASSUME MemInv, [Next]_vars PROVE MemInv'
  OBVIOUS
<1> USE DEF MemInv, Buffers, Loop, InAddition
<1>1. CASE UNCHANGED vars
  BY <1>1 DEF vars, AdditionInv
<1>2. CASE Reject \/ ZeroScalar \/ Enter \/ SwapIn \/ SwapOut \/ Return
  BY <1>2 DEF Reject, ZeroScalar, Enter, SwapIn, SwapOut, Return, CSwap, AdditionInv
<1>3. CASE Compute
  BY <1>3 DEF Compute, AdditionInv
<1> DEFINE p == loc.p_copy
           q == loc.q_copy
\* A write changes r1 alone.
<1>4. ASSUME NEW j, NEW next \in InAddition, Write(j, next), pc \in InAddition,
             pc # "swapOut", next # "swapOut"
      PROVE  /\ pc' = next /\ mem'.r1 = j /\ mem'.r0 = mem.r0
             /\ loc' = loc /\ Buffers'
  BY <1>4 DEF Write
<1>5. CASE WriteSum
  <2>1. loc.sum = AddFormula(p, q)
    BY <1>5 DEF WriteSum, AdditionInv
  <2>2. QED  BY <1>4, <1>5, <2>1 DEF WriteSum, AdditionInv
<1>6. CASE SelectDbl
  <2>0. /\ mem.r1 = AddFormula(p, q) /\ loc.dbl = jp_double_internal(p)
        /\ loc.h = (H(p, q) = 0) /\ loc.r = (Rval(p, q) = 0)
    BY <1>6 DEF SelectDbl, AdditionInv
  <2>1. Select(mem.r1, loc.dbl, loc.h /\ loc.r) = AfterDbl(p, q)
    BY ONLY <2>0, Zenon DEF AfterDbl, Select
  <2>2. QED  BY <1>4, <1>6, <2>1 DEF SelectDbl, AdditionInv
<1>7. CASE SelectInf
  <2>0. /\ mem.r1 = AfterDbl(p, q)
        /\ loc.h = (H(p, q) = 0) /\ loc.r = (Rval(p, q) = 0)
    BY <1>7 DEF SelectInf, AdditionInv
  <2>1. Select(mem.r1, JP_INFINITY, loc.h /\ ~loc.r) = AfterInf(p, q)
    BY ONLY <2>0, Zenon DEF AfterInf, Select
  <2>2. QED  BY <1>4, <1>7, <2>1 DEF SelectInf, AdditionInv
<1>8. CASE SelectP
  <2>0. mem.r1 = AfterInf(p, q) /\ loc.qz = (q.z = 0)
    BY <1>8 DEF SelectP, AdditionInv
  <2>1. Select(mem.r1, loc.p_copy, loc.qz) = AfterP(p, q)
    BY ONLY <2>0, Zenon DEF AfterP, Select
  <2>2. QED  BY <1>4, <1>8, <2>1 DEF SelectP, AdditionInv
<1>9. CASE SelectQ
  <2>0. mem.r1 = AfterP(p, q) /\ loc.pz = (p.z = 0)
    BY <1>9 DEF SelectQ, AdditionInv
  <2>1. Select(mem.r1, loc.q_copy, loc.pz) = Select(AfterP(p, q), q, p.z = 0)
    BY ONLY <2>0, Zenon DEF Select
  <2>2. Select(mem.r1, loc.q_copy, loc.pz) = jp_add_internal(p, q)
    BY <2>1, LastSelection
  <2>3. QED  BY <1>4, <1>9, <2>2 DEF SelectQ, AdditionInv
<1>10. CASE DoubleR0
  BY <1>10 DEF DoubleR0, AdditionInv
<1>11. QED
  BY <1>1, <1>2, <1>3, <1>5, <1>6, <1>7, <1>8, <1>9, <1>10 DEF Next

LEMMA MemoryInvariant == Spec => []MemInv
<1>1. Init => MemInv
  BY DEF Init, MemInv, Buffers, AdditionInv, InAddition
<1>2. QED  BY <1>1, MemStep, PTL DEF Spec

\* jp_add_internal(r1, r0, r1) writes its output while its second input is the
\* same memory; what it leaves there is what it would have returned for buffers
\* apart, on any curve and for any operands.
THEOREM AliasingHarmless == Spec => []AliasingIsHarmless
<1>1. MemInv => AliasingIsHarmless
  BY DEF MemInv, AdditionInv, InAddition, AliasingIsHarmless
<1>2. QED  BY <1>1, MemoryInvariant, PTL

-----------------------------------------------------------------------------
(* The points *)

\* On a curve's triples the two functions add logarithms.
LEMMA LogFacts ==
  ASSUME base \in FinitePoints, NEW j \in CurveTriples, NEW l \in CurveTriples
  PROVE  /\ Log(j) \in 0..N - 1
         /\ jp_add_internal(j, l) \in CurveTriples
         /\ Log(jp_add_internal(j, l)) = (Log(j) + Log(l)) % N
         /\ jp_double_internal(j) \in CurveTriples
         /\ Log(jp_double_internal(j)) = (2 * Log(j)) % N
<1>1. /\ jp_to_affine(j) \in AffinePoints /\ jp_to_affine(l) \in AffinePoints
      /\ jp_add_internal(j, l) \in CurveTriples /\ jp_double_internal(j) \in CurveTriples
      /\ jp_to_affine(jp_add_internal(j, l))
           = ChordTangent(jp_to_affine(j), jp_to_affine(l))
      /\ jp_to_affine(jp_double_internal(j))
           = ChordTangent(jp_to_affine(j), jp_to_affine(j))
  BY FormulasAreTheGroupLaw
<1> DEFINE log == LogOf[base]
<1>2. /\ log \in [AffinePoints -> 0..N - 1]
      /\ \A qt, rt \in AffinePoints : log[ChordTangent(qt, rt)] = (log[qt] + log[rt]) % N
  BY CyclicAssumption
<1>3. Log(j) = log[jp_to_affine(j)] /\ Log(l) = log[jp_to_affine(l)]
  BY DEF Log
<1>4. /\ Log(jp_add_internal(j, l)) = (Log(j) + Log(l)) % N
      /\ Log(jp_double_internal(j)) = (Log(j) + Log(j)) % N
  BY <1>1, <1>2, <1>3 DEF Log
<1>5. Log(j) \in 0..N - 1
  BY <1>1, <1>2, <1>3
<1>6. Log(j) + Log(j) = 2 * Log(j)
  BY <1>5
<1>7. QED  BY <1>1, <1>4, <1>5, <1>6

\* The registers start as infinity, the multiple 0, and the base, 1.
LEMMA StartFacts ==
  ASSUME base \in FinitePoints
  PROVE  /\ JP_INFINITY \in CurveTriples /\ Log(JP_INFINITY) = 0
         /\ Jac(base.ax, base.ay, 1) \in CurveTriples
         /\ Log(Jac(base.ax, base.ay, 1)) = 1
<1> USE PAssumption
<1>1. 1 \in Field \ {0} /\ \A a \in Field : a \in Int /\ a % P = a /\ a * 1 = a /\ 1 * a = a
  BY DEF Field
<1>2. JP_INFINITY \in CurveTriples
  BY <1>1 DEF JP_INFINITY, CurveTriples
<1>3. Log(JP_INFINITY) = 0
  <2>1. jp_to_affine(JP_INFINITY) = None
    BY DEF jp_to_affine, JP_INFINITY, Jac
  <2>2. QED  BY <2>1, CyclicAssumption DEF Log
<1>4. PICK x \in Field, y \in Field : base = Affine(x, y)
  BY DEF FinitePoints, AffinePoints
<1>5. base.ax = x /\ base.ay = y
  BY <1>4 DEF Affine
<1>6. fsqr(1) = 1 /\ fmul(1, 1) = 1 /\ fmul(x, 1) = x /\ fmul(y, 1) = y
  BY <1>1 DEF fsqr, fmul
<1>7. Jac(x, y, 1) \in CurveTriples
  <2>1. Jac(x, y, 1) = Jac(fmul(base.ax, fsqr(1)), fmul(base.ay, fmul(fsqr(1), 1)), 1)
    BY <1>5, <1>6
  <2>2. QED  BY <1>1, <2>1 DEF CurveTriples
<1>8. Inverses[1] = 1
  <2>1. Inverses[1] = CHOOSE c \in Field : fmul(1, c) = 1
    BY <1>1 DEF Inverses
  <2>2. \A c \in Field : fmul(1, c) = c
    BY <1>1 DEF fmul
  <2>3. QED  BY <1>1, <2>1, <2>2
<1>9. jp_to_affine(Jac(x, y, 1)) = base
  <2>1. Jac(x, y, 1).x = x /\ Jac(x, y, 1).y = y /\ Jac(x, y, 1).z = 1
    BY DEF Jac
  <2>2. jp_to_affine(Jac(x, y, 1)) = Affine(fmul(x, fsqr(1)), fmul(y, fmul(fsqr(1), 1)))
    BY <1>8, <2>1 DEF jp_to_affine
  <2>3. QED  BY <1>4, <1>6, <2>2
<1>10. Log(Jac(x, y, 1)) = 1
  BY <1>9, CyclicAssumption DEF Log
<1>11. QED  BY <1>2, <1>3, <1>5, <1>7, <1>10

-----------------------------------------------------------------------------
(* The loop *)

\* The scalars, the index and the triples are in range where they are used, and
\* what the early return leaves is infinity.
PointsInv ==
  /\ k \in Scalars
  /\ base \in FinitePoints
  /\ i \in 0..Bits
  /\ pc = "start" => i = Bits
  /\ pc \in Loop => k \in 1..N - 1
  /\ pc \in {"compute"} \cup InAddition => i > 0
  /\ pc \in {"swapIn", "compute"} => mem.r0 \in CurveTriples /\ mem.r1 \in CurveTriples
  /\ pc \in InAddition => loc.p_copy \in CurveTriples /\ loc.q_copy \in CurveTriples
  /\ pc = "done" /\ k = 0 => result = JP_INFINITY

\* What a step does to the index, the copies and the registers.
LEMMA PointsStep == MemInv /\ PointsInv /\ [Next]_vars => PointsInv'
<1> SUFFICES ASSUME MemInv, PointsInv, [Next]_vars PROVE PointsInv'
  OBVIOUS
<1> USE DEF PointsInv, Loop, InAddition
<1>1. CASE UNCHANGED vars
  BY <1>1 DEF vars
<1>2. CASE Reject \/ ZeroScalar \/ Return
  BY <1>2 DEF Reject, ZeroScalar, Return
<1>3. CASE Enter
  BY <1>3, StartFacts DEF Enter
<1>4. CASE SwapIn
  BY <1>4 DEF SwapIn, CSwap
<1>5. CASE Compute
  BY <1>5 DEF Compute
<1>6. CASE WriteSum \/ SelectDbl \/ SelectInf \/ SelectP \/ SelectQ
  BY <1>6 DEF WriteSum, SelectDbl, SelectInf, SelectP, SelectQ, Write
<1>7. CASE DoubleR0
  BY <1>7 DEF DoubleR0
<1>8. CASE SwapOut
  <2>1. mem.r0 \in CurveTriples /\ mem.r1 \in CurveTriples
    BY <1>8, LogFacts DEF SwapOut, MemInv, AdditionInv
  <2>2. QED  BY <1>8, <2>1, WeightAssumption DEF SwapOut, CSwap
<1>9. QED  BY <1>1, <1>2, <1>3, <1>4, <1>5, <1>6, <1>7, <1>8 DEF Next

LEMMA PointsInvariant == Spec => []PointsInv
<1>1. Init => PointsInv
  BY WeightAssumption DEF Init, PointsInv, FinitePoints, Loop, InAddition
<1>2. QED  BY <1>1, PointsStep, MemoryInvariant, PTL DEF Spec

-----------------------------------------------------------------------------
(* The Ruby ladder *)

\* Only the last step of an iteration changes the registers as they were when
\* it began: swaps undo each other, and writes go to memory that has been copied.
LEMMA RegistersHold ==
  ASSUME MemInv,
         SwapIn \/ Compute \/ WriteSum \/ SelectDbl \/ SelectInf \/ SelectP \/ SelectQ
           \/ DoubleR0
  PROVE  Registers' = Registers /\ UNCHANGED <<k, base, i, result>>
         /\ pc \in Loop /\ pc' \in Loop
<1> USE DEF Loop, InAddition, Registers, uint256_bit
<1>1. CASE SwapIn
  BY <1>1 DEF SwapIn, CSwap
<1>2. CASE Compute
  BY <1>2 DEF Compute
<1>3. CASE WriteSum \/ SelectDbl \/ SelectInf \/ SelectP \/ SelectQ
  BY <1>3 DEF WriteSum, SelectDbl, SelectInf, SelectP, SelectQ, Write
<1>4. CASE DoubleR0
  BY <1>4 DEF DoubleR0
<1>5. QED  BY <1>1, <1>2, <1>3, <1>4

\* A whole iteration leaves the sum in one register and the double of the other
\* in that other one; the bit says which.
LEMMA IterationFacts ==
  ASSUME MemInv, PointsInv, SwapOut
  PROVE  LET a == Registers[1]
             c == Registers[2]
         IN  /\ a \in CurveTriples /\ c \in CurveTriples
             /\ uint256_bit(i - 1) \in {0, 1}
             /\ uint256_bit(i - 1) = 0 =>
                  /\ Registers'[1] = jp_double_internal(a)
                  /\ Registers'[2] = jp_add_internal(a, c)
             /\ uint256_bit(i - 1) = 1 =>
                  /\ Registers'[1] = jp_add_internal(c, a)
                  /\ Registers'[2] = jp_double_internal(c)
<1> DEFINE p == loc.p_copy
           q == loc.q_copy
           bit == uint256_bit(i - 1)
<1>1. /\ p \in CurveTriples /\ q \in CurveTriples /\ i > 0
      /\ mem.r0 = jp_double_internal(p) /\ mem.r1 = jp_add_internal(p, q)
      /\ pc = "swapOut" /\ pc' = "swapIn" /\ mem' = CSwap(bit)
  BY DEF MemInv, AdditionInv, PointsInv, InAddition, SwapOut
<1>2. bit \in {0, 1}
  <2>1. i - 1 \in 0..Bits /\ k \in Nat
    BY <1>1, WeightAssumption DEF PointsInv, Scalars
  <2>2. k \div Weight[i - 1] \in Nat
    BY <2>1, WeightAssumption, DivMod
  <2>3. QED  BY <2>2 DEF uint256_bit
<1>3. Registers = IF bit = 1 THEN <<q, p>> ELSE <<p, q>>
  BY <1>1 DEF Registers, InAddition
<1>4. Registers' = <<mem'.r0, mem'.r1>>
  BY <1>1 DEF Registers, InAddition
<1> HIDE DEF bit
<1>5. CASE bit = 0
  BY <1>1, <1>3, <1>4, <1>5 DEF CSwap, bit
<1>6. CASE bit = 1
  BY <1>1, <1>3, <1>4, <1>6 DEF CSwap, bit
<1>7. QED  BY <1>2, <1>5, <1>6

\* Where the Ruby ladder is while the C code runs, and what its registers hold.
RubyPc == CASE pc \in {"start", "rejected"} -> "start"
            [] pc = "done" -> "done"
            [] OTHER -> "loop"
RubyR0 == IF AtStart THEN 0 ELSE IF pc = "done" THEN Log(result) ELSE Log(Registers[1])
RubyR1 == IF AtStart THEN 1 ELSE IF pc = "done" THEN Log(mem.r1) ELSE Log(Registers[2])

LEMMA RubyInLoop ==
  pc \in Loop =>
    /\ RubyPc = "loop"
    /\ RubyR0 = Log(Registers[1]) /\ RubyR1 = Log(Registers[2])
BY DEF Loop, InAddition, RubyPc, RubyR0, RubyR1, AtStart

LEMMA RubyStep ==
  ASSUME MemInv, PointsInv, [Next]_vars
  PROVE  [RubyLadder!Next]_<<k, i, RubyR0, RubyR1, RubyPc>>
<1> DEFINE ruby == <<k, i, RubyR0, RubyR1, RubyPc>>
<1> USE DEF RubyLadder!Next
<1>0. base \in FinitePoints
  BY DEF PointsInv
<1>1. CASE UNCHANGED vars
  <2>1. UNCHANGED ruby
    BY <1>1 DEF vars, RubyPc, RubyR0, RubyR1, AtStart, Log, Registers, InAddition,
                uint256_bit
  <2>2. QED  BY <2>1
<1>2. CASE Reject
  <2>1. UNCHANGED ruby
    BY <1>2 DEF Reject, RubyPc, RubyR0, RubyR1, AtStart
  <2>2. QED  BY <2>1
<1>3. CASE ZeroScalar
  <2>1. /\ RubyPc = "start" /\ RubyPc' = "done" /\ k = 0 /\ k' = k /\ i' = i
        /\ RubyR0' = 0 /\ RubyR1 = 1 /\ RubyR1' = 1
    BY <1>3 DEF ZeroScalar, RubyPc, RubyR0, RubyR1, AtStart
  <2>2. RubyLadder!ZeroScalar
    BY <2>1 DEF RubyLadder!ZeroScalar, RubyPc, RubyR0, RubyR1
  <2>3. QED  BY <2>2
<1>4. CASE Enter
  <2>1. Registers' = <<JP_INFINITY, Jac(base.ax, base.ay, 1)>>
    BY <1>4 DEF Enter, Registers, InAddition
  <2>2. Log(JP_INFINITY)' = 0 /\ Log(Jac(base.ax, base.ay, 1))' = 1
    BY <1>0, <1>4, StartFacts DEF Enter, Log
  <2>3. /\ RubyPc = "start" /\ RubyPc' = "loop" /\ k # 0 /\ k' = k /\ i' = i
    BY <1>4 DEF Enter, RubyPc, PointsInv, Scalars
  <2>4. RubyR0' = 0 /\ RubyR1' = 1
    BY <1>4, <2>1, <2>2 DEF Enter, RubyR0, RubyR1, AtStart, Log
  <2>5. RubyLadder!Enter
    BY <2>3, <2>4 DEF RubyLadder!Enter, RubyPc, RubyR0, RubyR1
  <2>6. QED  BY <2>5
<1>5. CASE SwapIn \/ Compute \/ WriteSum \/ SelectDbl \/ SelectInf \/ SelectP \/ SelectQ
             \/ DoubleR0
  <2>1. Registers' = Registers /\ base' = base /\ k' = k /\ i' = i
        /\ pc \in Loop /\ pc' \in Loop
    BY <1>5, RegistersHold
  <2>2. RubyPc' = RubyPc
    BY <2>1 DEF Loop, InAddition, RubyPc
  <2>3. RubyR0' = RubyR0 /\ RubyR1' = RubyR1
    BY <2>1 DEF Loop, InAddition, RubyR0, RubyR1, AtStart, Log
  <2>4. QED  BY <2>1, <2>2, <2>3
<1>6. CASE SwapOut
  <2> DEFINE a == Registers[1]
             c == Registers[2]
  <2>1. /\ pc = "swapOut" /\ pc' = "swapIn"
        /\ k' = k /\ base' = base /\ i' = i - 1 /\ i > 0
    BY <1>6 DEF SwapOut, PointsInv, InAddition
  <2>2. /\ RubyPc = "loop" /\ RubyPc' = "loop"
        /\ RubyR0 = Log(a) /\ RubyR1 = Log(c)
    BY <2>1, RubyInLoop DEF Loop, InAddition, RubyPc
  <2>3. RubyR0' = LogOf[base][jp_to_affine(Registers'[1])]
        /\ RubyR1' = LogOf[base][jp_to_affine(Registers'[2])]
    BY <2>1 DEF RubyR0, RubyR1, AtStart, Log
  <2>4. RubyR0' = Log(Registers'[1]) /\ RubyR1' = Log(Registers'[2])
    BY <2>3 DEF Log
  <2>5. a \in CurveTriples /\ c \in CurveTriples
    BY <1>6, IterationFacts
  <2>6. CASE uint256_bit(i - 1) = 0
    <3>1. RubyR0' = (2 * Log(a)) % N /\ RubyR1' = (Log(a) + Log(c)) % N
      BY <1>0, <1>6, <2>4, <2>5, <2>6, IterationFacts, LogFacts
    <3>2. RubyLadder!IterateZero
      BY <2>1, <2>2, <2>6, <3>1
         DEF RubyLadder!IterateZero, RubyLadder!Bit, uint256_bit, ZnAdd, ZnDouble,
             RubyPc, RubyR0, RubyR1
    <3>3. QED  BY <3>2
  <2>7. CASE uint256_bit(i - 1) = 1
    <3>1. RubyR1' = (2 * Log(c)) % N /\ RubyR0' = (Log(c) + Log(a)) % N
      BY <1>0, <1>6, <2>4, <2>5, <2>7, IterationFacts, LogFacts
    <3>2. Log(c) + Log(a) = Log(a) + Log(c)
      BY <1>0, <2>5, LogFacts
    <3>3. RubyLadder!IterateOne
      BY <2>1, <2>2, <2>7, <3>1, <3>2
         DEF RubyLadder!IterateOne, RubyLadder!Bit, uint256_bit, ZnAdd, ZnDouble,
             RubyPc, RubyR0, RubyR1
    <3>4. QED  BY <3>3
  <2>8. QED  BY <1>6, <2>6, <2>7, IterationFacts
<1>7. CASE Return
  <2>1. Registers = <<mem.r0, mem.r1>> /\ pc \in Loop /\ k # 0
    BY <1>7 DEF Return, Registers, Loop, InAddition, PointsInv
  <2>2. /\ RubyPc = "loop" /\ RubyR0 = Log(mem.r0) /\ RubyR1 = Log(mem.r1)
    BY <2>1, RubyInLoop
  <2>3. RubyPc' = "done" /\ k' = k /\ i' = i /\ i = 0
    BY <1>7 DEF Return, RubyPc
  <2>4. RubyR0' = RubyR0 /\ RubyR1' = RubyR1
    BY <1>7, <2>1, <2>2 DEF Return, RubyR0, RubyR1, AtStart, Log
  <2>5. RubyLadder!Return
    BY <2>2, <2>3, <2>4 DEF RubyLadder!Return, RubyPc, RubyR0, RubyR1
  <2>6. QED  BY <2>5
<1>8. QED  BY <1>1, <1>2, <1>3, <1>4, <1>5, <1>6, <1>7 DEF Next

\* The C loop implements the Ruby loop: each iteration of swap, in-place
\* addition, doubling and swap is one of its iterations, in its registers.
THEOREM StepsOfTheRubyLadder == Spec => TakesRubySteps
<1>1. Init => RubyLadder!Init
  <2> SUFFICES ASSUME Init PROVE RubyLadder!Init
    OBVIOUS
  <2>1. AtStart /\ pc = "start" /\ k \in Scalars /\ i = Bits
    BY DEF Init, AtStart
  <2>2. QED  BY <2>1 DEF RubyLadder!Init, RubyLadder!Scalars, Scalars
<1>2. MemInv /\ PointsInv /\ [Next]_vars => [RubyLadder!Next]_(RubyLadder!vars)
  BY RubyStep DEF RubyLadder!vars, RubyPc, RubyR0, RubyR1
<1>3. QED
  BY <1>1, <1>2, MemoryInvariant, PointsInvariant, PTL
     DEF Spec, TakesRubySteps, RubyLadder!SafeSpec

-----------------------------------------------------------------------------
(* Scalar multiplication *)

\* What is proved of the Ruby ladder, for its steps as the C code takes them.
Ruby == INSTANCE LadderProofs WITH
  Points <- Zn, Infinity <- 0, Base <- 1,
  Log <- ZnLog, Add <- ZnAdd, Double <- ZnDouble,
  r0 <- RubyR0, r1 <- RubyR1, pc <- RubyPc

\* The numbers modulo N are such points.
LEMMA RubyAssumptions ==
  /\ Ruby!OrderAssumption /\ Ruby!BitsAssumption /\ Ruby!WeightAssumption
  /\ Ruby!GroupAssumption /\ Ruby!PendingAssumption
<1> USE NAssumption
<1>1. Ruby!OrderAssumption
  BY DEF Ruby!OrderAssumption
<1>2. Ruby!BitsAssumption /\ Ruby!WeightAssumption
  BY WeightAssumption DEF Ruby!BitsAssumption, Ruby!WeightAssumption
<1>3. Ruby!GroupAssumption
  <2>1. \A a \in Nat : a % N \in 0..N - 1
    OBVIOUS
  <2>2. \A x, y \in Zn : x \in Nat /\ x + y \in Nat /\ 2 * x \in Nat
    BY DEF Zn
  <2>3. \A x, y \in Zn : ZnAdd(x, y) \in Zn /\ ZnDouble(x) \in Zn
    BY <2>1, <2>2 DEF Zn, ZnAdd, ZnDouble
  <2>4. 0 \in Zn /\ 1 \in Zn
    BY DEF Zn
  <2>5. QED
    BY <2>3, <2>4 DEF Ruby!GroupAssumption, Zn, ZnLog, ZnAdd, ZnDouble
<1>4. Ruby!PendingAssumption
  BY OutcomesAssumption DEF Ruby!PendingAssumption
<1>5. QED  BY <1>1, <1>2, <1>3, <1>4

\* So the ladder's own theorem says what the C loop returns.
LEMMA NativeResult == Spec => [](pc = "done" => Log(result) = k % N)
<1>1. Init => Ruby!Init
  <2> SUFFICES ASSUME Init PROVE Ruby!Init
    OBVIOUS
  <2>1. AtStart /\ pc = "start" /\ k \in Scalars /\ i = Bits
    BY DEF Init, AtStart
  <2>2. QED
    BY <2>1 DEF Ruby!Init, Ruby!Scalars, Scalars, RubyPc, RubyR0, RubyR1
<1>2. MemInv /\ PointsInv /\ [Next]_vars => [Ruby!Next]_(Ruby!vars)
  BY RubyStep
     DEF Ruby!vars, Ruby!Next, Ruby!ZeroScalar, Ruby!Enter, Ruby!IterateZero,
         Ruby!IterateOne, Ruby!Return, Ruby!Bit, RubyLadder!Next,
         RubyLadder!ZeroScalar, RubyLadder!Enter, RubyLadder!IterateZero,
         RubyLadder!IterateOne, RubyLadder!Return, RubyLadder!Bit,
         RubyPc, RubyR0, RubyR1
<1>3. Spec => Ruby!SafeSpec
  BY <1>1, <1>2, MemoryInvariant, PointsInvariant, PTL DEF Spec, Ruby!SafeSpec
<1>4. Ruby!SafeSpec => []Ruby!ResultCorrect
  BY RubyAssumptions, Ruby!LadderCorrect, PTL
<1>5. PointsInv /\ Ruby!ResultCorrect => (pc = "done" => Log(result) = k % N)
  <2> SUFFICES ASSUME PointsInv, Ruby!ResultCorrect, pc = "done"
               PROVE  Log(result) = k % N
    OBVIOUS
  <2>1. CASE k = 0
    <3>1. Log(result) = 0
      BY <2>1, StartFacts DEF PointsInv
    <3>2. 0 % N = 0
      BY NAssumption
    <3>3. QED  BY <2>1, <3>1, <3>2
  <2>2. CASE k # 0
    <3>1. RubyPc = "done" /\ RubyR0 = Log(result)
      BY <2>2 DEF RubyPc, RubyR0, AtStart
    <3>2. QED  BY <3>1 DEF Ruby!ResultCorrect, ZnLog
  <2>3. QED  BY <2>1, <2>2
<1>6. QED  BY <1>3, <1>4, <1>5, PointsInvariant, PTL

\* The call is a scalar multiplication that refuses k >= N: it answers once,
\* with the multiple asked for or the exception, and never a wrong point.
THEOREM NativeIsScalarMult == Spec => Promise!SafeSpec
<1> DEFINE Right == pc = "done" => Log(result) = k % N
           out == CASE pc = "done" -> Log(result)
                    [] pc = "rejected" -> Rejected
                    [] OTHER -> Pending
<1>1. Init => Promise!Init
  BY DEF Init, Promise!Init
<1>2. PointsInv /\ Right' /\ [Next]_vars => [Promise!Answer]_<<k, out>>
  <2> SUFFICES ASSUME PointsInv, Right', [Next]_vars
               PROVE  [Promise!Answer]_<<k, out>>
    OBVIOUS
  <2>0. k \in Nat
    BY WeightAssumption DEF PointsInv, Scalars
  <2>1. CASE UNCHANGED vars
    BY <2>1 DEF vars, Log
  <2>2. CASE Reject
    <3>1. out = Pending /\ out' = Rejected /\ k' = k /\ k >= N
      BY <2>2 DEF Reject
    <3>2. QED  BY <3>1 DEF Promise!Answer
  <2>3. CASE ZeroScalar \/ Return
    <3>1. k < N
      BY <2>3, NAssumption DEF ZeroScalar, Return, PointsInv, Loop
    <3>2. out = Pending /\ pc' = "done" /\ k' = k
      BY <2>3 DEF ZeroScalar, Return
    <3>3. out' = k % N
      BY <3>2
    <3>4. QED  BY <2>0, <3>1, <3>2, <3>3, NAssumption DEF Promise!Answer
  <2>4. CASE Enter \/ SwapIn \/ Compute \/ WriteSum \/ SelectDbl \/ SelectInf
               \/ SelectP \/ SelectQ \/ DoubleR0 \/ SwapOut
    BY <2>4 DEF Enter, SwapIn, Compute, WriteSum, SelectDbl, SelectInf, SelectP,
                SelectQ, DoubleR0, SwapOut, Write
  <2>5. QED  BY <2>1, <2>2, <2>3, <2>4 DEF Next
<1>3. QED
  BY <1>1, <1>2, NativeResult, PointsInvariant, PTL DEF Spec, Promise!SafeSpec

-----------------------------------------------------------------------------
(* The wNAF call *)

CONSTANTS Bases, Windows, Extensions
VARIABLES window, tbl, two_p, k_tmp, wnaf, q, addend, installed, replaced, native, allowed, loader

\* A call of scalar_multiply_wnaf with the scalar k and the point base, in the
\* program of this curve.
Call == INSTANCE Wnaf

\* What the call assumes: its bases and windows, and the powers of two.
CallAssumption ==
  Call!BasesAssumption /\ Call!WindowsAssumption /\ Call!ShiftAssumption

\* Both modules speak of the same curve.
LEMMA SameCurve ==
  /\ Call!AffinePoints = AffinePoints
  /\ Call!None = None /\ Call!Field = Field
  /\ Call!JP_INFINITY = JP_INFINITY
  /\ Call!LogOf = LogOf
  /\ \A j : Call!jp_to_affine(j) = jp_to_affine(j)
<1>1. Call!AffinePoints = AffinePoints /\ Call!None = None /\ Call!Field = Field
  BY DEF Call!AffinePoints, AffinePoints, Call!None, None, Call!Field, Field,
         Call!Affine, Affine, Call!OnCurve, OnCurve, Call!fsqr, fsqr, Call!fmul, fmul
<1>2. Call!Inverses = Inverses
  BY <1>1 DEF Call!Inverses, Inverses, Call!fmul, fmul
<1>3. ASSUME NEW pt, NEW qt PROVE Call!ChordTangent(pt, qt) = ChordTangent(pt, qt)
  BY <1>1, <1>2
     DEF Call!ChordTangent, ChordTangent, Call!Affine, Affine, Call!fsqr, fsqr,
         Call!fmul, fmul, Call!fsub, fsub
<1>4. Call!MultiplesOf = MultiplesOf
  BY <1>1, <1>3 DEF Call!MultiplesOf, MultiplesOf
<1>5. Call!LogOf = LogOf
  BY <1>1, <1>4 DEF Call!LogOf, LogOf
<1>6. \A j : Call!jp_to_affine(j) = jp_to_affine(j)
  BY <1>1, <1>2
     DEF Call!jp_to_affine, jp_to_affine, Call!Affine, Affine, Call!fsqr, fsqr,
         Call!fmul, fmul
<1>7. QED
  BY <1>1, <1>5, <1>6 DEF Call!JP_INFINITY, JP_INFINITY, Call!Jac, Jac

\* The versions in C and in Ruby give the same triple, so it does not matter
\* which of them the call meets.
LEMMA SameFormulas ==
  ASSUME NEW j, NEW l
  PROVE  /\ Call!DoubleFormula(j) = DoubleFormula(j)
         /\ Call!AddFormula(j, l) = AddFormula(j, l)
         /\ Call!H(j, l) = H(j, l) /\ Call!Rval(j, l) = Rval(j, l)
BY DEF Call!DoubleFormula, DoubleFormula, Call!AddFormula, AddFormula, Call!H, H,
       Call!Rval, Rval, Call!U1, U1, Call!U2, U2, Call!S1, S1, Call!S2, S2,
       Call!Jac, Jac, Call!fmul, fmul, Call!fsqr, fsqr, Call!fsub, fsub

LEMMA CallAdds ==
  ASSUME NEW j, NEW l
  PROVE  Call!Double(j) = jp_double_internal(j) /\ Call!Add(j, l) = jp_add_internal(j, l)
<1>0. Call!JP_INFINITY = JP_INFINITY
  BY SameCurve
<1>1. Call!jp_double_internal(j) = jp_double_internal(j)
  BY <1>0, SameFormulas
     DEF Call!jp_double_internal, jp_double_internal, Call!Select, Select
<1>2. Call!jp_double(j) = jp_double_internal(j)
  BY <1>0, SameFormulas DEF Call!jp_double, jp_double_internal, Select
<1>3. Call!jp_add_internal(j, l) = jp_add_internal(j, l)
  BY <1>0, <1>1, SameFormulas
     DEF Call!jp_add_internal, jp_add_internal, Call!Select, Select
<1>4. Call!jp_add(j, l) = jp_add_internal(j, l)
  <2>1. CASE j.z = 0
    BY <2>1 DEF Call!jp_add, jp_add_internal, Select
  <2>2. CASE j.z # 0 /\ l.z = 0
    BY <2>2 DEF Call!jp_add, jp_add_internal, Select
  <2>3. CASE j.z # 0 /\ l.z # 0 /\ H(j, l) = 0
    BY <1>0, <1>2, <2>3, SameFormulas DEF Call!jp_add, jp_add_internal, Select
  <2>4. CASE j.z # 0 /\ l.z # 0 /\ H(j, l) # 0
    BY <2>4, SameFormulas DEF Call!jp_add, jp_add_internal, Select
  <2>5. QED  BY <2>1, <2>2, <2>3, <2>4
<1>5. QED  BY <1>1, <1>2, <1>3, <1>4 DEF Call!Double, Call!Add

\* The opposite of a triple of the curve is one, with the opposite multiple: in
\* Ruby, where infinity is left alone, and in C, where its Y is negated.
LEMMA CallNegates ==
  ASSUME CallAssumption, base \in FinitePoints, NEW j \in CurveTriples
  PROVE  Call!Neg(j) \in CurveTriples /\ (Log(j) + Log(Call!Neg(j))) % N = 0
<1> DEFINE n == Call!Neg(j)
<1>1. n \in {jp_neg(j), jp_neg_internal(j)}
  BY DEF Call!Neg, Call!jp_neg, Call!jp_neg_internal, Call!Jac, Jac, Call!fneg, fneg,
         jp_neg, jp_neg_internal
<1>2. n \in CurveTriples /\ jp_to_affine(n) = Negated(jp_to_affine(j))
  BY <1>1, FormulasAreTheGroupLaw
<1> HIDE DEF n
<1>3. jp_to_affine(j) \in AffinePoints
  BY FormulasAreTheGroupLaw
<1>4. jp_to_affine(n) \in AffinePoints
      /\ ChordTangent(jp_to_affine(j), jp_to_affine(n)) = None
  BY <1>2, <1>3, OppositeIsUnique
<1>5. (Log(j) + Log(n)) % N = LogOf[base][None]
  BY <1>3, <1>4, CyclicAssumption DEF Log
<1>6. QED  BY <1>2, <1>5, CyclicAssumption DEF n

\* Half a window is a whole number of entries, and the digits are odd residues
\* no larger.
Half == Call!tbl_size

LEMMA WindowFacts ==
  ASSUME CallAssumption, window \in Windows
  PROVE  /\ window \in Nat \ {0} /\ Half \in Nat \ {0}
         /\ Call!w_big = 2 * Half /\ Call!w_half = Half
         /\ Half = Call!Shift(window - 1)
<1>1. window \in Nat \ {0}
  BY DEF CallAssumption, Call!WindowsAssumption
<1>2. /\ Call!Shift(window) = 2 * Call!Shift(window - 1)
      /\ Call!Shift(window - 1) \in Nat \ {0}
  BY <1>1 DEF CallAssumption, Call!ShiftAssumption
<1>3. \A h \in Nat : (2 * h) \div 2 = h
  OBVIOUS
<1>4. QED
  BY <1>1, <1>2, <1>3 DEF Half, Call!tbl_size, Call!w_big, Call!w_half

Size(d) == Call!AbsDigit(d)

\* A digit taken off an odd rest leaves a multiple of the window, and names an
\* entry of the table: the one of its own size.
LEMMA DigitFacts ==
  ASSUME CallAssumption, window \in Windows, k_tmp \in Nat, k_tmp % 2 = 1
  PROVE  LET d == Call!Digit IN
         /\ d \in Int /\ d # 0
         /\ Size(d) \in 1..Half /\ Size(d) % 2 = 1
         /\ \E c \in Nat : /\ k_tmp - d = (2 * Half) * c
                           /\ (k_tmp - d) \div 2 = Half * c
                           /\ k_tmp = 2 * (Half * c) + d
                           /\ d < 0 => c > 0 /\ Half < k_tmp
                           /\ d < 0 => (2 * Half) * (c - 1) < k_tmp
<1> DEFINE h == Half
           z == k_tmp % (2 * h)
           d == Call!Digit
<1>1. h \in Nat \ {0} /\ Call!w_big = 2 * h /\ Call!w_half = h
  BY WindowFacts
<1>2. d = IF z > h THEN z - 2 * h ELSE z
  BY <1>1 DEF Call!Digit
<1> HIDE DEF h, d
<1>3. PICK c \in Nat, r \in 0..2 * h - 1 : k_tmp = (2 * h) * c + r /\ z = r
  <2>1. \A m \in Nat \ {0} : \E c \in Nat, r \in 0..m - 1 :
          k_tmp = m * c + r /\ k_tmp % m = r
    BY DivMod
  <2>2. 2 * h \in Nat \ {0}
    BY <1>1
  <2>3. QED  BY <2>1, <2>2
<1>4. (2 * h) * c = 2 * (h * c) /\ h * c \in Nat
      /\ (2 * h) * (c + 1) = 2 * (h * (c + 1)) /\ h * (c + 1) \in Nat
      /\ (2 * h) * (c + 1) = (2 * h) * c + 2 * h
  BY <1>1
<1>5. r % 2 = 1
  BY <1>1, <1>3, <1>4
<1>6. \A x \in Nat : (2 * x) \div 2 = x
  OBVIOUS
<1>7. CASE r > h
  <2>1. d = r - 2 * h /\ d < 0 /\ d \in Int
    BY <1>1, <1>2, <1>3, <1>7
  <2>2. Size(d) = 2 * h - r /\ Size(d) \in 1..h
    BY <1>1, <1>7, <2>1 DEF Size, Call!AbsDigit
  <2>3. Size(d) % 2 = 1
    BY <1>1, <1>5, <2>2
  <2>4. k_tmp - d = (2 * h) * (c + 1)
    BY <1>1, <1>3, <1>4, <2>1
  <2>5. (k_tmp - d) \div 2 = h * (c + 1)
    BY <1>4, <1>6, <2>4
  <2>6. c + 1 \in Nat /\ c + 1 > 0 /\ (c + 1) - 1 = c
    OBVIOUS
  <2>7. h < k_tmp /\ (2 * h) * c < k_tmp
    BY <1>1, <1>3, <1>4, <1>7
  <2>8. k_tmp = 2 * (h * (c + 1)) + d
    BY <1>4, <2>1, <2>4
  <2>9. QED  BY <2>1, <2>2, <2>3, <2>4, <2>5, <2>6, <2>7, <2>8 DEF h, d
<1>8. CASE r <= h
  <2>1. d = r /\ d > 0 /\ d \in Int
    BY <1>1, <1>2, <1>3, <1>5, <1>8
  <2>2. Size(d) = r /\ Size(d) \in 1..h /\ Size(d) % 2 = 1
    BY <1>1, <1>5, <1>8, <2>1 DEF Size, Call!AbsDigit
  <2>3. k_tmp - d = (2 * h) * c /\ (k_tmp - d) \div 2 = h * c
        /\ k_tmp = 2 * (h * c) + d
    BY <1>3, <1>4, <1>6, <2>1
  <2>4. QED  BY <2>1, <2>2, <2>3 DEF h, d
<1>9. QED  BY <1>1, <1>7, <1>8

\* An opposite is taken off a sum.
LEMMA OppositeSum ==
  ASSUME NEW m \in Nat \ {0}
  PROVE  \A a, e, x \in Nat :
           (e <= a /\ ((e % m) + x) % m = 0) => ((a % m) + x) % m = (a - e) % m
<1>0. \A y \in Nat : \E n \in Nat, u \in 0..m - 1 : y = m * n + u /\ y % m = u
  BY DivMod
<1>1. \A y, b \in Nat, n \in Int : y = b + m * n => y % m = b % m
  BY ModShift
<1>2. SUFFICES ASSUME NEW a \in Nat, NEW e \in Nat, NEW x \in Nat,
                      e <= a, ((e % m) + x) % m = 0
               PROVE  ((a % m) + x) % m = (a - e) % m
  OBVIOUS
<1>3. PICK f \in Nat, s \in 0..m - 1 : e = m * f + s /\ e % m = s
  BY <1>0
<1>4. PICK g \in Nat, t \in 0..m - 1 : a = m * g + t /\ a % m = t
  BY <1>0
<1>5. s + x \in Nat /\ (s + x) % m = 0
  BY <1>2, <1>3
<1>6. PICK n \in Nat : s + x = m * n
  <2>1. PICK w \in Nat, u \in 0..m - 1 : s + x = m * w + u /\ (s + x) % m = u
    BY <1>0, <1>5
  <2>2. u = 0 /\ m * w \in Nat
    BY <1>5, <2>1
  <2>3. s + x = m * w
    BY <2>1, <2>2
  <2>4. QED  BY <2>3
<1> DEFINE shift == (n + f) - g
           low == t + x
           high == a - e
<1>7. low = high + m * shift /\ low \in Nat /\ high \in Nat /\ shift \in Int
  <2>1. m * ((n + f) - g) = (m * n + m * f) - m * g
    BY <1>3
  <2>2. m * f \in Int /\ m * g \in Int /\ m * n \in Int
    OBVIOUS
  <2>3. QED  BY <1>2, <1>3, <1>4, <1>6, <2>1, <2>2
<1> HIDE DEF shift, low, high
<1>8. low % m = high % m
  BY ONLY <1>1, <1>7
<1>9. QED  BY <1>4, <1>8 DEF low, high

CallPlaces == {"start", "build", "recode", "accumulate", "select", "add", "done"}

CallTyping ==
  /\ k \in Nat /\ base \in FinitePoints /\ window \in Windows
  /\ pc \in CallPlaces
  /\ k_tmp \in Nat /\ wnaf \in Seq(Int)
  /\ pc \in {"start", "build"} => wnaf = << >> /\ k_tmp = k
  /\ pc \in {"start", "build", "recode"} => q = JP_INFINITY

\* Entry n of the table is the multiple 2n - 1 of the base.
TableInv ==
  /\ pc = "build" => Len(tbl) \in 1..Half
  /\ pc = "build" => two_p \in CurveTriples /\ Log(two_p) = (2 * 1) % N
  /\ pc \in {"recode", "accumulate", "select", "add"} => Len(tbl) = Half
  /\ pc \in {"build", "recode", "accumulate", "select", "add"} =>
       /\ tbl \in Seq(CurveTriples)
       /\ \A n \in 1..Len(tbl) : Log(tbl[n]) = (2 * n - 1) % N

LEMMA CallInit ==
  ASSUME CallAssumption, Call!Init
  PROVE  CallTyping /\ TableInv
<1>1. Bits \in Nat /\ Call!Shift(Bits) \in Nat
  <2>1. Bits \in Nat
    BY WeightAssumption
  <2>2. Bits + 1 \in 1..Bits + 1
    BY <2>1
  <2>3. QED  BY <2>1, <2>2 DEF CallAssumption, Call!ShiftAssumption
<1>2. k \in Nat
  BY <1>1 DEF Call!Init, Call!Scalars
<1>3. base \in FinitePoints
  BY SameCurve DEF Call!Init, CallAssumption, Call!BasesAssumption, FinitePoints
<1>4. QED
  BY <1>2, <1>3, SameCurve DEF Call!Init, CallTyping, TableInv, CallPlaces

\* Loader steps leave the call's own state alone.
LEMMA Bystanders ==
  ASSUME Call!Next \/ UNCHANGED Call!vars
  PROVE  Call!Step \/ UNCHANGED Call!call
BY DEF Call!Next, Call!vars

LEMMA CallTypingStep ==
  ASSUME CallAssumption, CallTyping, [Call!Next]_(Call!vars)
  PROVE  CallTyping'
<1> USE DEF CallTyping, CallPlaces
<1>1. CASE UNCHANGED Call!call
  BY <1>1 DEF Call!call
<1>2. CASE Call!ZeroScalar \/ Call!BuildFirst \/ Call!BuildEntry \/ Call!BuildDone
  BY <1>2 DEF Call!ZeroScalar, Call!BuildFirst, Call!BuildEntry, Call!BuildDone
<1>3. CASE Call!RecodeOdd
  <2>1. k_tmp % 2 = 1 /\ wnaf' = Append(wnaf, Call!Digit)
        /\ k_tmp' = (k_tmp - Call!Digit) \div 2
    BY <1>3 DEF Call!RecodeOdd
  <2>2. Call!Digit \in Int /\ (k_tmp - Call!Digit) \div 2 \in Nat
    <3>1. PICK c \in Nat : (k_tmp - Call!Digit) \div 2 = Half * c
      BY <2>1, DigitFacts
    <3>2. Half * c \in Nat
      BY WindowFacts
    <3>3. QED  BY <2>1, <3>1, <3>2, DigitFacts
  <2>3. wnaf' \in Seq(Int) /\ k_tmp' \in Nat
    BY <2>1, <2>2
  <2>4. QED  BY <1>3, <2>3 DEF Call!RecodeOdd
<1>4. CASE Call!RecodeEven
  <2>1. k_tmp \div 2 \in Nat /\ Append(wnaf, 0) \in Seq(Int)
    OBVIOUS
  <2>2. QED  BY <1>4, <2>1 DEF Call!RecodeEven
<1>5. CASE Call!RecodeDone
  BY <1>5 DEF Call!RecodeDone
<1>6. CASE \/ Call!AccumulateZero \/ Call!AccumulateDouble \/ Call!SelectAddend
           \/ Call!AccumulateAdd \/ Call!Return
  BY <1>6 DEF Call!AccumulateZero, Call!AccumulateDouble, Call!SelectAddend,
              Call!AccumulateAdd, Call!Return
<1>7. QED
  BY <1>1, <1>2, <1>3, <1>4, <1>5, <1>6, Bystanders DEF Call!Step

LEMMA TableStep ==
  ASSUME CallAssumption, CallTyping, TableInv, [Call!Next]_(Call!vars)
  PROVE  TableInv'
<1> USE DEF TableInv
<1>0. base \in FinitePoints /\ base' = base /\ window' = window /\ Half' = Half
      /\ Half \in Nat \ {0} /\ \A j : Log(j)' = LogOf[base'][jp_to_affine(j')]
  <2>1. base' = base /\ window' = window
    BY Bystanders
       DEF Call!Step, Call!ZeroScalar, Call!BuildFirst, Call!BuildEntry, Call!BuildDone,
           Call!RecodeOdd, Call!RecodeEven, Call!RecodeDone, Call!AccumulateZero,
           Call!AccumulateDouble, Call!SelectAddend, Call!AccumulateAdd, Call!Return, Call!call
  <2>2. QED  BY <2>1, WindowFacts DEF CallTyping, Half, Call!tbl_size, Log
<1>1. CASE UNCHANGED Call!call
  BY <1>0, <1>1 DEF Log, Call!call
<1>2. CASE Call!ZeroScalar \/ Call!Return
  BY <1>2 DEF Call!ZeroScalar, Call!Return
<1>3. CASE Call!BuildFirst
  <2> DEFINE first == Jac(base.ax, base.ay, 1)
  <2>1. tbl' = <<first>> /\ two_p' = jp_double_internal(first) /\ pc' = "build"
    BY <1>3, CallAdds DEF Call!BuildFirst, Call!Jac, Jac
  <2>2. first \in CurveTriples /\ Log(first) = 1
    BY <1>0, StartFacts
  <2>3. (2 * 1 - 1) % N = 1
    BY NAssumption
  <2> HIDE DEF first
  <2>4. tbl' \in Seq(CurveTriples) /\ Len(tbl') = 1 /\ tbl'[1] = first
    BY <2>1, <2>2
  <2>5. Log(tbl'[1]) = 1
    BY <2>2, <2>4
  <2>6. \A n \in 1..Len(tbl') : LogOf[base'][jp_to_affine(tbl'[n])] = (2 * n - 1) % N
    BY <1>0, <2>3, <2>4, <2>5 DEF Log
  <2>7. two_p' \in CurveTriples /\ LogOf[base'][jp_to_affine(two_p')] = (2 * 1) % N
    BY <1>0, <2>1, <2>2, LogFacts DEF Log
  <2>8. QED  BY <1>0, <2>1, <2>4, <2>6, <2>7 DEF Log
<1>4. CASE Call!BuildEntry
  <2> DEFINE n == Len(tbl)
             last == tbl[n]
             next == jp_add_internal(last, two_p)
  <2>1. /\ pc = "build" /\ pc' = "build" /\ n < Half /\ n \in 1..Half
        /\ tbl \in Seq(CurveTriples) /\ tbl' = Append(tbl, next) /\ two_p' = two_p
        /\ two_p \in CurveTriples /\ Log(two_p) = (2 * 1) % N
    BY <1>4, CallAdds DEF Call!BuildEntry, Call!Last, Half
  <2>2. last \in CurveTriples
    BY <2>1
  <2>3. Log(last) = (2 * n - 1) % N
    BY <2>1
  <2>4. /\ next \in CurveTriples
        /\ Log(next) = (((2 * n - 1) % N) + ((2 * 1) % N)) % N
    BY <1>0, <2>1, <2>2, <2>3, LogFacts
  <2>5. Log(next) = (2 * (n + 1) - 1) % N
    <3>0. N \in Nat \ {0}
      BY NAssumption
    <3>1. \A a, b \in Nat : ((a % N) + (b % N)) % N = (a + b) % N
      BY <3>0, ModSum
    <3>2. 2 * n - 1 \in Nat /\ 2 * 1 \in Nat
          /\ (2 * n - 1) + 2 * 1 = 2 * (n + 1) - 1
      BY <2>1
    <3> HIDE DEF n
    <3>3. QED  BY <2>4, <3>1, <3>2
  <2> HIDE DEF next
  <2>6. /\ tbl' \in Seq(CurveTriples) /\ Len(tbl') = n + 1 /\ tbl'[n + 1] = next
        /\ \A m \in 1..n : tbl'[m] = tbl[m]
    BY <2>1, <2>4
  <2>7. \A m \in 1..Len(tbl') : LogOf[base'][jp_to_affine(tbl'[m])] = (2 * m - 1) % N
    <3> SUFFICES ASSUME NEW m \in 1..n + 1
                 PROVE  Log(tbl'[m]) = (2 * m - 1) % N
      BY <1>0, <2>6 DEF Log
    <3>1. CASE m = n + 1
      BY <2>5, <2>6, <3>1
    <3>2. CASE m \in 1..n
      BY <2>1, <2>6, <3>2
    <3>3. QED  BY <2>1, <3>1, <3>2
  <2>8. QED  BY <1>0, <2>1, <2>6, <2>7 DEF Log
<1>5. CASE Call!BuildDone
  BY <1>0, <1>5 DEF Call!BuildDone, Half, Log
<1>6. CASE \/ Call!RecodeOdd \/ Call!RecodeEven \/ Call!RecodeDone
           \/ Call!AccumulateZero \/ Call!AccumulateDouble \/ Call!SelectAddend
           \/ Call!AccumulateAdd
  <2>1. /\ {pc, pc'} \subseteq {"recode", "accumulate", "select", "add"}
        /\ tbl' = tbl
    BY <1>6 DEF Call!RecodeOdd, Call!RecodeEven, Call!RecodeDone, Call!AccumulateZero,
                Call!AccumulateDouble, Call!SelectAddend, Call!AccumulateAdd
  <2>2. QED  BY <1>0, <2>1 DEF Log
<1>7. QED
  BY <1>1, <1>2, <1>3, <1>4, <1>5, <1>6, Bystanders DEF Call!Step

\* Digits that make `first' of `last', by the rests the code had before each.
Rests(r, digits, first, last) ==
  /\ r \in [1..Len(digits) + 1 -> Nat]
  /\ r[1] = first /\ r[Len(digits) + 1] = last
  /\ \A n \in 1..Len(digits) : r[n] = 2 * r[n + 1] + digits[n]

\* A triple of the multiple that a digit stands for: of its own multiple of the
\* base, or for a negative digit of the opposite one.
StandsFor(j, d) ==
  /\ j \in CurveTriples /\ Log(j) \in Nat
  /\ \/ d = Size(d) /\ Log(j) = Size(d) % N
     \/ d = 0 - Size(d) /\ ((Size(d) % N) + Log(j)) % N = 0

\* Every digit names the entry of its size, and the digits from one place up
\* are worth the rest that was left there: what the accumulator holds, or in
\* the middle of a turn half of what it holds.
RecodeInv ==
  /\ pc \in {"recode", "accumulate", "select", "add"} =>
       /\ \A n \in 1..Len(wnaf) :
            wnaf[n] # 0 => Size(wnaf[n]) \in 1..Half /\ Size(wnaf[n]) % 2 = 1
       /\ \E r \in [1..Len(wnaf) + 1 -> Nat] :
            /\ Rests(r, wnaf, k, k_tmp)
            /\ pc # "recode" => k_tmp = 0 /\ q \in CurveTriples
            /\ pc = "accumulate" => i \in 0..Len(wnaf) /\ Log(q) = r[i + 1] % N
            /\ pc \in {"select", "add"} =>
                 /\ i \in 1..Len(wnaf) /\ wnaf[i] # 0
                 /\ Log(q) = (2 * r[i + 1]) % N
       /\ pc = "add" => StandsFor(addend, wnaf[i])
  /\ pc = "done" => Log(q) = k % N

\* A digit more, and the rest it leaves.
LEMMA RestsGrow ==
  ASSUME NEW digits \in Seq(Int), NEW first, NEW last \in Nat, NEW r,
         Rests(r, digits, first, last),
         NEW d \in Int, NEW rest \in Nat, last = 2 * rest + d
  PROVE  \E s \in [1..Len(Append(digits, d)) + 1 -> Nat] :
           Rests(s, Append(digits, d), first, rest)
<1> DEFINE m == Len(digits)
           more == Append(digits, d)
           s == [n \in 1..m + 2 |-> IF n = m + 2 THEN rest ELSE r[n]]
<1>1. /\ m \in Nat /\ Len(more) = m + 1 /\ more[m + 1] = d
      /\ \A n \in 1..m : more[n] = digits[n]
  OBVIOUS
<1>2. /\ r \in [1..m + 1 -> Nat] /\ r[1] = first /\ r[m + 1] = last
      /\ \A n \in 1..m : r[n] = 2 * r[n + 1] + digits[n]
  BY DEF Rests
<1> HIDE DEF m, more
<1>3. s \in [1..m + 2 -> Nat]
  <2> SUFFICES ASSUME NEW n \in 1..m + 2, n # m + 2 PROVE r[n] \in Nat
    OBVIOUS
  <2>1. n \in 1..m + 1
    BY <1>1
  <2>2. QED  BY <1>2, <2>1
<1>4. s[1] = first /\ s[m + 2] = rest
  BY <1>1, <1>2
<1>5. ASSUME NEW n \in 1..m + 1 PROVE s[n] = 2 * s[n + 1] + more[n]
  <2>1. s[n] = r[n]
    BY <1>1
  <2>2. CASE n = m + 1
    BY <1>1, <1>2, <1>4, <2>1, <2>2
  <2>3. CASE n \in 1..m
    <3>1. s[n + 1] = r[n + 1]
      BY <1>1, <2>3
    <3>2. QED  BY <1>1, <1>2, <2>1, <2>3, <3>1
  <2>4. QED  BY <1>1, <2>2, <2>3
<1> HIDE DEF s
<1>6. Rests(s, more, first, rest)
  BY <1>1, <1>3, <1>4, <1>5 DEF Rests
<1>7. s \in [1..Len(more) + 1 -> Nat]
  BY <1>1, <1>3
<1>8. QED  BY <1>6, <1>7 DEF more

\* What a digit takes from the table stands for it.
LEMMA AddendFacts ==
  ASSUME CallAssumption, CallTyping, TableInv, pc = "select",
         NEW d \in Int, d # 0, Size(d) \in 1..Half, Size(d) % 2 = 1
  PROVE  StandsFor(Call!Addend(d), d)
<1> DEFINE e == Size(d)
           n == e \div 2 + 1
           entry == tbl[n]
<1>0. base \in FinitePoints /\ Half \in Nat \ {0}
  BY WindowFacts DEF CallTyping
<1>1. e \in Nat /\ n \in 1..Half /\ 2 * n - 1 = e
  BY <1>0
<1>2. /\ entry \in CurveTriples /\ Log(entry) = e % N /\ Log(entry) \in Nat
  <2>1. /\ tbl \in Seq(CurveTriples) /\ Len(tbl) = Half
        /\ \A m \in 1..Half : Log(tbl[m]) = (2 * m - 1) % N
    BY DEF TableInv
  <2> HIDE DEF n
  <2>2. entry \in CurveTriples /\ Log(entry) = e % N
    BY <1>1, <2>1
  <2>3. ASSUME NEW l \in CurveTriples PROVE Log(l) \in Nat
    <3>1. Log(l) \in 0..N - 1
      BY <1>0, LogFacts
    <3>2. QED  BY <3>1, NAssumption
  <2>4. QED  BY <2>2, <2>3
<1>3. CASE d > 0
  <2>1. Call!Addend(d) = entry
    BY <1>3 DEF Call!Addend, Size
  <2>2. d = e
    BY <1>3 DEF Size, Call!AbsDigit
  <2>3. QED  BY <1>2, <2>1, <2>2 DEF StandsFor
<1>4. CASE d < 0
  <2>1. Call!Addend(d) = Call!Neg(entry)
    BY <1>4 DEF Call!Addend, Size
  <2>2. d = 0 - e
    BY <1>4 DEF Size, Call!AbsDigit
  <2>3. /\ Call!Neg(entry) \in CurveTriples
        /\ (Log(entry) + Log(Call!Neg(entry))) % N = 0
    BY <1>0, <1>2, CallNegates
  <2>4. Log(Call!Neg(entry)) \in Nat
    BY <1>0, <2>3, LogFacts
  <2>5. QED  BY <1>2, <2>1, <2>2, <2>3, <2>4 DEF StandsFor
<1>5. QED  BY <1>3, <1>4

LEMMA RecodeStep ==
  ASSUME CallAssumption, CallTyping, TableInv, RecodeInv, [Call!Next]_(Call!vars)
  PROVE  RecodeInv'
<1> USE DEF RecodeInv
<1> DEFINE digitsFit(digits) ==
             \A n \in 1..Len(digits) :
               digits[n] # 0 => Size(digits[n]) \in 1..Half /\ Size(digits[n]) % 2 = 1
<1>0. /\ base \in FinitePoints /\ base' = base /\ k' = k /\ Half' = Half
      /\ Half \in Nat \ {0} /\ N \in Nat \ {0}
  <2>1. base' = base /\ k' = k /\ window' = window
    BY Bystanders
       DEF Call!Step, Call!ZeroScalar, Call!BuildFirst, Call!BuildEntry, Call!BuildDone,
           Call!RecodeOdd, Call!RecodeEven, Call!RecodeDone, Call!AccumulateZero,
           Call!AccumulateDouble, Call!SelectAddend, Call!AccumulateAdd, Call!Return, Call!call
  <2>2. QED  BY <2>1, WindowFacts, NAssumption DEF CallTyping, Half, Call!tbl_size
<1>1. CASE UNCHANGED Call!call
  BY <1>0, <1>1 DEF StandsFor, Log, Size, Call!AbsDigit, Call!call
<1>2. CASE Call!ZeroScalar
  <2>1. k = 0 /\ q' = JP_INFINITY /\ pc' = "done"
    BY <1>2 DEF Call!ZeroScalar, CallTyping
  <2>2. 0 % N = 0
    BY NAssumption
  <2>3. LogOf[base'][jp_to_affine(q')] = k' % N
    BY <1>0, <2>1, <2>2, StartFacts DEF Log
  <2>4. QED  BY <2>1, <2>3 DEF Log
<1>3. CASE Call!BuildFirst \/ Call!BuildEntry
  BY <1>3 DEF Call!BuildFirst, Call!BuildEntry
<1>4. CASE Call!BuildDone
  <2>1. /\ pc' = "recode" /\ wnaf' = << >> /\ k_tmp' = k'
    BY <1>4 DEF Call!BuildDone, CallTyping
  <2> DEFINE r == [n \in 1..1 |-> k]
  <2>2. Len(<< >>) = 0 /\ k \in Nat
    BY DEF CallTyping
  <2>3. r \in [1..Len(wnaf') + 1 -> Nat] /\ Rests(r, wnaf', k', k_tmp')
    BY <1>0, <2>1, <2>2 DEF Rests
  <2>4. QED  BY <2>1, <2>2, <2>3
<1>5. CASE Call!RecodeOdd
  <2> DEFINE d == Call!Digit
             rest == (k_tmp - d) \div 2
  <2>1. /\ pc = "recode" /\ pc' = "recode" /\ k_tmp % 2 = 1
        /\ wnaf' = Append(wnaf, d) /\ k_tmp' = rest /\ k_tmp \in Nat /\ wnaf \in Seq(Int)
    BY <1>5 DEF Call!RecodeOdd, CallTyping
  <2>2. /\ d \in Int /\ Size(d) \in 1..Half /\ Size(d) % 2 = 1
        /\ rest \in Nat /\ k_tmp = 2 * rest + d
    <3>1. PICK c \in Nat : rest = Half * c /\ k_tmp = 2 * (Half * c) + d
      BY <2>1, DigitFacts DEF CallTyping
    <3>2. Half * c \in Nat
      BY <1>0
    <3>3. QED  BY <2>1, <3>1, <3>2, DigitFacts DEF CallTyping
  <2>3. PICK r \in [1..Len(wnaf) + 1 -> Nat] : Rests(r, wnaf, k, k_tmp)
    BY <2>1
  <2>4. digitsFit(wnaf)
    BY <2>1
  <2> HIDE DEF d, rest
  <2>5. \E s \in [1..Len(wnaf') + 1 -> Nat] : Rests(s, wnaf', k', k_tmp')
    BY <1>0, <2>1, <2>2, <2>3, RestsGrow
  <2>6. digitsFit(wnaf')
    BY <2>1, <2>2, <2>4
  <2>7. QED  BY <1>0, <2>1, <2>5, <2>6 DEF Size, Call!AbsDigit
<1>6. CASE Call!RecodeEven
  <2> DEFINE rest == k_tmp \div 2
             d == 0
  <2>1. /\ pc = "recode" /\ pc' = "recode" /\ k_tmp % 2 = 0
        /\ wnaf' = Append(wnaf, d) /\ k_tmp' = rest /\ k_tmp \in Nat /\ wnaf \in Seq(Int)
    BY <1>6 DEF Call!RecodeEven, CallTyping
  <2>2. rest \in Nat /\ d \in Int /\ k_tmp = 2 * rest + d /\ d = 0
    BY <2>1
  <2>3. PICK r \in [1..Len(wnaf) + 1 -> Nat] : Rests(r, wnaf, k, k_tmp)
    BY <2>1
  <2>4. digitsFit(wnaf)
    BY <2>1
  <2> HIDE DEF rest, d
  <2>5. \E s \in [1..Len(wnaf') + 1 -> Nat] : Rests(s, wnaf', k', k_tmp')
    BY <1>0, <2>1, <2>2, <2>3, RestsGrow
  <2>6. digitsFit(wnaf')
    BY <2>1, <2>2, <2>4
  <2>7. QED  BY <1>0, <2>1, <2>5, <2>6 DEF Size, Call!AbsDigit
<1>7. CASE Call!RecodeDone
  <2>1. /\ pc = "recode" /\ pc' = "accumulate" /\ k_tmp = 0 /\ k_tmp' = k_tmp
        /\ wnaf' = wnaf /\ i' = Len(wnaf) /\ q = JP_INFINITY /\ q' = q
    BY <1>7 DEF Call!RecodeDone, CallTyping
  <2>2. PICK r \in [1..Len(wnaf) + 1 -> Nat] : Rests(r, wnaf, k, k_tmp)
    BY <2>1
  <2>3. r[Len(wnaf) + 1] = 0 /\ Len(wnaf) \in Nat
    BY <2>1, <2>2 DEF Rests, CallTyping
  <2>4. 0 % N = 0
    BY NAssumption
  <2>5. q' \in CurveTriples /\ LogOf[base'][jp_to_affine(q')] = r[i' + 1] % N
    BY <1>0, <2>1, <2>3, <2>4, StartFacts DEF Log
  <2>6. i' \in 0..Len(wnaf')
    BY <2>1, <2>3
  <2>7. digitsFit(wnaf)
    BY <2>1
  <2>8. QED
    BY <1>0, <2>1, <2>2, <2>5, <2>6, <2>7 DEF Log, Size, Call!AbsDigit
\* The rest one place down, from the rest here and the digit.
<1>8. ASSUME pc \in {"accumulate", "select", "add"}, i \in 1..Len(wnaf),
             NEW r \in [1..Len(wnaf) + 1 -> Nat], Rests(r, wnaf, k, k_tmp)
      PROVE  /\ wnaf[i] \in Int /\ r[i] \in Nat /\ r[i + 1] \in Nat
             /\ r[i] = 2 * r[i + 1] + wnaf[i]
  <2>1. wnaf \in Seq(Int) /\ Len(wnaf) \in Nat
    BY DEF CallTyping
  <2>2. i \in 1..Len(wnaf) + 1 /\ i + 1 \in 1..Len(wnaf) + 1
    BY <1>8, <2>1
  <2>3. r[i + 1] \in Nat /\ r[i] \in Nat
    BY <1>8, <2>2
  <2>4. r[i] = 2 * r[i + 1] + wnaf[i] /\ wnaf[i] \in Int
    BY <1>8, <2>1 DEF Rests
  <2>5. QED  BY <2>3, <2>4
<1>9. CASE Call!AccumulateZero \/ Call!AccumulateDouble
  <2>1. /\ pc = "accumulate" /\ i > 0 /\ wnaf \in Seq(Int)
        /\ wnaf' = wnaf /\ k_tmp' = k_tmp /\ q' = jp_double_internal(q)
    BY <1>9, CallAdds DEF Call!AccumulateZero, Call!AccumulateDouble, CallTyping
  <2>2. PICK r \in [1..Len(wnaf) + 1 -> Nat] :
          /\ Rests(r, wnaf, k, k_tmp) /\ k_tmp = 0 /\ i \in 0..Len(wnaf)
          /\ q \in CurveTriples /\ Log(q) = r[i + 1] % N
    BY <2>1
  <2> DEFINE rest == r[i + 1]
             d == wnaf[i]
  <2>3. i \in 1..Len(wnaf) /\ rest \in Nat /\ r[i] = 2 * rest + d
    <3>1. i \in 1..Len(wnaf)
      BY <2>1, <2>2
    <3>2. QED  BY <1>8, <2>1, <2>2, <3>1
  <2>4. digitsFit(wnaf)
    BY <2>1
  <2>5. q' \in CurveTriples /\ Log(q') = (2 * rest) % N
    <3>1. q' \in CurveTriples /\ Log(q') = (2 * Log(q)) % N
      BY <1>0, <2>1, <2>2, LogFacts
    <3>2. \A a \in Nat : (2 * (a % N)) % N = (2 * a) % N
      BY <1>0, ModDouble
    <3> HIDE DEF rest
    <3>3. Log(q) = rest % N
      BY <2>2 DEF rest
    <3>4. QED  BY <2>3, <3>1, <3>2, <3>3
  <2>6. LogOf[base'][jp_to_affine(q')] = (2 * rest) % N
    BY <1>0, <2>5 DEF Log
  <2>7. CASE Call!AccumulateZero
    <3>1. pc' = "accumulate" /\ i' = i - 1 /\ d = 0
      BY <2>7 DEF Call!AccumulateZero
    <3>2. i' \in 0..Len(wnaf') /\ i' + 1 = i /\ r[i] = 2 * rest
      BY <2>1, <2>3, <3>1
    <3>3. LogOf[base'][jp_to_affine(q')] = r[i' + 1] % N
      BY <2>6, <3>2
    <3> HIDE DEF rest, d
    <3>4. QED
      BY <1>0, <2>1, <2>2, <2>4, <2>5, <3>1, <3>2, <3>3 DEF Log, Size, Call!AbsDigit
  <2>8. CASE Call!AccumulateDouble
    <3>1. pc' = "select" /\ i' = i /\ wnaf'[i'] # 0
      BY <2>1, <2>8 DEF Call!AccumulateDouble
    <3>2. i' \in 1..Len(wnaf') /\ LogOf[base'][jp_to_affine(q')] = (2 * r[i' + 1]) % N
      BY <2>1, <2>3, <2>6, <3>1
    <3> HIDE DEF rest, d
    <3>3. QED
      BY <1>0, <2>1, <2>2, <2>4, <2>5, <3>1, <3>2 DEF Log, Size, Call!AbsDigit
  <2>9. QED  BY <1>9, <2>7, <2>8
<1>10. CASE Call!SelectAddend
  <2>1. /\ pc = "select" /\ pc' = "add" /\ addend' = Call!Addend(wnaf[i])
        /\ wnaf' = wnaf /\ k_tmp' = k_tmp /\ i' = i /\ q' = q
    BY <1>10 DEF Call!SelectAddend
  <2>2. PICK r \in [1..Len(wnaf) + 1 -> Nat] :
          /\ Rests(r, wnaf, k, k_tmp) /\ k_tmp = 0 /\ i \in 1..Len(wnaf)
          /\ wnaf[i] # 0 /\ q \in CurveTriples /\ Log(q) = (2 * r[i + 1]) % N
    BY <2>1
  <2>3. digitsFit(wnaf)
    BY <2>1
  <2>4. StandsFor(addend', wnaf[i])
    <3>1. wnaf[i] \in Int
      BY <1>8, <2>1, <2>2
    <3>2. QED  BY <2>1, <2>2, <2>3, <3>1, AddendFacts
  <2>5. StandsFor(addend, wnaf[i])'
    BY <1>0, <2>1, <2>4 DEF StandsFor, Log, Size, Call!AbsDigit
  <2>6. LogOf[base'][jp_to_affine(q')] = (2 * r[i' + 1]) % N
    BY <1>0, <2>1, <2>2 DEF Log
  <2>7. QED
    BY <1>0, <2>1, <2>2, <2>3, <2>5, <2>6 DEF Log, Size, Call!AbsDigit
<1>11. CASE Call!AccumulateAdd
  <2>1. /\ pc = "add" /\ pc' = "accumulate" /\ q' = jp_add_internal(q, addend)
        /\ wnaf' = wnaf /\ k_tmp' = k_tmp /\ i' = i - 1
    BY <1>11, CallAdds DEF Call!AccumulateAdd
  <2>2. PICK r \in [1..Len(wnaf) + 1 -> Nat] :
          /\ Rests(r, wnaf, k, k_tmp) /\ k_tmp = 0 /\ i \in 1..Len(wnaf)
          /\ wnaf[i] # 0 /\ q \in CurveTriples /\ Log(q) = (2 * r[i + 1]) % N
    BY <2>1
  <2> DEFINE rest == r[i + 1]
             d == wnaf[i]
             e == Size(d)
             a == 2 * rest
             x == Log(addend)
  <2>3. digitsFit(wnaf)
    BY <2>1
  <2>4. d \in Int /\ rest \in Nat /\ r[i] \in Nat /\ r[i] = 2 * rest + d
    BY <1>8, <2>1, <2>2
  <2>5. /\ addend \in CurveTriples /\ x \in Nat
        /\ \/ d = e /\ x = e % N
           \/ d = 0 - e /\ ((e % N) + x) % N = 0
    BY <2>1 DEF StandsFor
  <2>6. q' \in CurveTriples /\ Log(q') = ((a % N) + x) % N
    BY <1>0, <2>1, <2>2, <2>5, LogFacts
  <2>7. e \in Nat
    BY <1>0, <2>2, <2>3
  <2>8. a \in Nat /\ a + d \in Nat
    <3> HIDE DEF rest, d
    <3>1. QED  BY <2>4
  <2>9. Log(q') = r[i] % N
    <3> HIDE DEF e, x
    <3>1. CASE d = e /\ x = e % N
      <4>1. ((a % N) + (e % N)) % N = (a + e) % N
        BY ONLY <1>0, <2>7, <2>8, ModSum
      <4>2. QED  BY <2>4, <2>6, <3>1, <4>1
    <3>2. CASE d = 0 - e /\ ((e % N) + x) % N = 0
      <4> HIDE DEF rest, d
      <4>1. e <= a /\ a + d = a - e
        BY <2>7, <2>8, <3>2
      <4>2. \A b, f, y \in Nat :
              (f <= b /\ ((f % N) + y) % N = 0) => ((b % N) + y) % N = (b - f) % N
        BY ONLY <1>0, OppositeSum
      <4> HIDE DEF a
      <4>3. ((a % N) + x) % N = (a - e) % N
        BY ONLY <2>5, <2>7, <2>8, <3>2, <4>1, <4>2
      <4>4. QED  BY <2>4, <2>6, <4>1, <4>3 DEF a
    <3>3. QED  BY <2>5, <3>1, <3>2
  <2> HIDE DEF rest, d, e, a, x
  <2>10. /\ i' \in 0..Len(wnaf') /\ i' + 1 = i
         /\ LogOf[base'][jp_to_affine(q')] = r[i' + 1] % N
    <3>1. i' \in 0..Len(wnaf') /\ i' + 1 = i
      BY <2>1, <2>2
    <3>2. QED  BY <1>0, <2>9, <3>1 DEF Log
  <2>11. QED
    BY <1>0, <2>1, <2>2, <2>3, <2>6, <2>10 DEF Log, Size, Call!AbsDigit
<1>12. CASE Call!Return
  <2>1. pc = "accumulate" /\ pc' = "done" /\ i = 0 /\ q' = q
    BY <1>12 DEF Call!Return
  <2>2. Log(q) = k % N
    BY <2>1 DEF Rests
  <2>3. LogOf[base'][jp_to_affine(q')] = k' % N
    BY <1>0, <2>1, <2>2 DEF Log
  <2>4. QED  BY <2>1, <2>3 DEF Log
<1>13. QED
  BY <1>1, <1>2, <1>3, <1>4, <1>5, <1>6, <1>7, <1>9, <1>10, <1>11, <1>12, Bystanders
     DEF Call!Step

\* A call of the wNAF multiplication answers once, with the multiple k mod N of
\* its base, for k >= N too; for every window, and whichever of its functions
\* the loader replaces while it runs.
THEOREM WnafIsScalarMult ==
  ASSUME CallAssumption
  PROVE  Call!Spec => Call!Promise!SafeSpec
<1> DEFINE CInv == CallTyping /\ TableInv /\ RecodeInv
           out == IF pc = "done" THEN Call!Log(q) ELSE Pending
<1>1. Call!Init => CInv
  BY CallInit DEF RecodeInv, Call!Init
<1>2. CInv /\ [Call!Next]_(Call!vars) => CInv'
  BY CallTypingStep, TableStep, RecodeStep
<1>3. Call!Init => Call!Promise!Init
  BY DEF Call!Init, Call!Promise!Init
<1>4. CInv' /\ [Call!Next]_(Call!vars) => [Call!Promise!Answer]_<<k, out>>
  <2> SUFFICES ASSUME CInv', [Call!Next]_(Call!vars)
               PROVE  [Call!Promise!Answer]_<<k, out>>
    OBVIOUS
  <2>1. CASE UNCHANGED Call!call
    <3>1. Call!Log(q)' = Call!Log(q)
      BY <2>1 DEF Call!Log, Call!call
    <3>2. QED  BY <2>1, <3>1 DEF Call!call
  <2>2. CASE Call!ZeroScalar \/ Call!Return
    <3>1. pc # "done" /\ pc' = "done" /\ k' = k
      BY <2>2 DEF Call!ZeroScalar, Call!Return
    <3>2. out' = k' % N
      BY <3>1, SameCurve DEF RecodeInv, Log, Call!Log
    <3>3. QED  BY <3>1, <3>2 DEF Call!Promise!Answer
  <2>3. CASE \/ Call!BuildFirst \/ Call!BuildEntry \/ Call!BuildDone
             \/ Call!RecodeOdd \/ Call!RecodeEven \/ Call!RecodeDone
             \/ Call!AccumulateZero \/ Call!AccumulateDouble \/ Call!SelectAddend
             \/ Call!AccumulateAdd
    <3>1. pc # "done" /\ pc' # "done" /\ k' = k
      BY <2>3 DEF Call!BuildFirst, Call!BuildEntry, Call!BuildDone, Call!RecodeOdd,
                  Call!RecodeEven, Call!RecodeDone, Call!AccumulateZero,
                  Call!AccumulateDouble, Call!SelectAddend, Call!AccumulateAdd
    <3>2. QED  BY <3>1
  <2>4. QED  BY <2>1, <2>2, <2>3, Bystanders DEF Call!Step
<1>5. QED
  BY <1>1, <1>2, <1>3, <1>4, PTL DEF Call!Spec, Call!Promise!SafeSpec

\* The places after a digit are zeros as far as the window reaches: what is
\* left of the scalar still has so many zero bits.
ZerosInv ==
  /\ Call!NonAdjacent
  /\ \A m \in 1..Len(wnaf) :
       wnaf[m] # 0 /\ Len(wnaf) < m + window =>
         \E c \in Nat : k_tmp = Call!Shift(m + window - 1 - Len(wnaf)) * c

\* What is left fits the bits that are left, but for one that a negative digit
\* may have carried up.
BoundInv ==
  /\ Len(wnaf) <= Bits + 1
  /\ Len(wnaf) <= Bits => k_tmp <= Call!Shift(Bits - Len(wnaf))
  /\ Len(wnaf) = Bits + 1 => k_tmp = 0

\* Digits and rest change in the loop of recoding only.
LEMMA Recoding ==
  ASSUME CallTyping, [Call!Next]_(Call!vars)
  PROVE  /\ window' = window
         /\ \/ UNCHANGED <<k_tmp, wnaf>>
            \/ k_tmp % 2 = 1 /\ k_tmp' = (k_tmp - Call!Digit) \div 2
               /\ wnaf' = Append(wnaf, Call!Digit)
            \/ k_tmp > 0 /\ k_tmp % 2 = 0 /\ k_tmp' = k_tmp \div 2
               /\ wnaf' = Append(wnaf, 0)
BY Bystanders
   DEF Call!Step, Call!ZeroScalar, Call!BuildFirst, Call!BuildEntry, Call!BuildDone,
       Call!RecodeOdd, Call!RecodeEven, Call!RecodeDone, Call!AccumulateZero,
       Call!AccumulateDouble, Call!SelectAddend, Call!AccumulateAdd, Call!Return, Call!call

\* Powers as far as they are used.
LEMMA ShiftFacts ==
  ASSUME CallAssumption, window \in Windows
  PROVE  /\ \A n \in 1..window :
              /\ Call!Shift(n) = 2 * Call!Shift(n - 1)
              /\ Call!Shift(n - 1) \in Nat \ {0}
         /\ \A n \in 1..Bits + 1 :
              /\ Call!Shift(n) = 2 * Call!Shift(n - 1)
              /\ Call!Shift(n - 1) \in Nat \ {0}
         /\ \A n \in 0..window - 1 : Call!Shift(n) <= Half
         /\ \A n \in window..Bits : Call!Shift(n) = (2 * Half) * Call!Shift(n - window)
         /\ Call!Shift(0) = 1
<1>1. Call!Shift(window) = 2 * Half /\ Half = Call!Shift(window - 1)
  BY WindowFacts DEF Call!w_big
<1>2. QED  BY <1>1 DEF CallAssumption, Call!ShiftAssumption

LEMMA ZerosStep ==
  ASSUME CallAssumption, CallTyping, ZerosInv, [Call!Next]_(Call!vars)
  PROVE  ZerosInv'
<1> DEFINE L == Len(wnaf)
<1>0. /\ window' = window /\ window \in Windows /\ window \in Nat \ {0}
      /\ wnaf \in Seq(Int) /\ L \in Nat /\ k_tmp \in Nat
  BY Recoding, WindowFacts DEF CallTyping
<1>1. CASE UNCHANGED <<k_tmp, wnaf>>
  BY <1>0, <1>1 DEF ZerosInv, Call!NonAdjacent
\* An earlier digit in reach of the window leaves an even rest.
<1>2. ASSUME NEW m \in 1..L, wnaf[m] # 0, L + 1 < m + window
      PROVE  \E h \in Nat : /\ k_tmp = 2 * h
                            /\ \E c \in Nat : h = Call!Shift(m + window - 1 - (L + 1)) * c
  <2> DEFINE e == m + window - 1 - L
  <2>1. e \in 1..window /\ e - 1 = m + window - 1 - (L + 1)
    BY <1>0, <1>2
  <2>2. PICK c \in Nat : k_tmp = Call!Shift(e) * c
    BY <1>0, <1>2 DEF ZerosInv
  <2> HIDE DEF e
  <2>3. Call!Shift(e) = 2 * Call!Shift(e - 1) /\ Call!Shift(e - 1) \in Nat
    BY <1>0, <2>1, ShiftFacts
  <2> DEFINE s == Call!Shift(e - 1)
  <2>4. k_tmp = 2 * (s * c) /\ s * c \in Nat
    <3>1. s \in Nat /\ k_tmp = (2 * s) * c
      BY <2>2, <2>3
    <3> HIDE DEF s
    <3>2. QED  BY <3>1
  <2>5. QED  BY <2>1, <2>4
<1>3. ASSUME NEW d \in Int, NEW rest \in Nat, wnaf' = Append(wnaf, d), k_tmp' = rest,
             \/ d # 0 /\ k_tmp % 2 = 1 /\ \E c \in Nat : rest = Half * c
             \/ d = 0 /\ rest = k_tmp \div 2
      PROVE  ZerosInv'
  <2>1. /\ Len(wnaf') = L + 1 /\ wnaf'[L + 1] = d
        /\ \A m \in 1..L : wnaf'[m] = wnaf[m]
        /\ DOMAIN wnaf' = 1..L + 1 /\ DOMAIN wnaf = 1..L
    BY <1>0, <1>3
  <2>2. ASSUME NEW m \in 1..L, wnaf[m] # 0, L + 1 < m + window
        PROVE  d = 0 /\ \E c \in Nat : rest = Call!Shift(m + window - 1 - (L + 1)) * c
    <3>1. PICK h \in Nat : /\ k_tmp = 2 * h
                           /\ \E c \in Nat : h = Call!Shift(m + window - 1 - (L + 1)) * c
      BY <1>2, <2>2
    <3>2. k_tmp % 2 = 0 /\ k_tmp \div 2 = h
      BY <3>1
    <3>3. d = 0 /\ rest = h
      BY <1>3, <3>2
    <3>4. QED  BY <3>1, <3>3
  <2>3. ASSUME NEW m \in 1..L + 1, NEW n \in 1..L + 1, m < n, n < m + window
        PROVE  wnaf'[m] = 0 \/ wnaf'[n] = 0
    <3>1. m \in 1..L
      BY <1>0, <2>3
    <3>2. CASE n = L + 1
      BY <2>1, <2>2, <2>3, <3>1, <3>2
    <3>3. CASE n \in 1..L
      BY <2>1, <2>3, <3>1, <3>3 DEF ZerosInv, Call!NonAdjacent
    <3>4. QED  BY <1>0, <3>2, <3>3
  <2>4. ASSUME NEW m \in 1..L + 1, wnaf'[m] # 0, L + 1 < m + window
        PROVE  \E c \in Nat : rest = Call!Shift(m + window - 1 - (L + 1)) * c
    <3>1. CASE m \in 1..L
      BY <2>1, <2>2, <2>4, <3>1
    <3>2. CASE m = L + 1
      <4>1. d # 0 /\ m + window - 1 - (L + 1) = window - 1
        BY <1>0, <2>1, <2>4, <3>2
      <4>2. Half = Call!Shift(window - 1)
        BY <1>0, WindowFacts
      <4>3. QED  BY <1>3, <4>1, <4>2
    <3>3. QED  BY <1>0, <3>1, <3>2
  <2>5. QED  BY <1>0, <1>3, <2>1, <2>3, <2>4 DEF ZerosInv, Call!NonAdjacent
<1>4. CASE k_tmp % 2 = 1 /\ k_tmp' = (k_tmp - Call!Digit) \div 2
           /\ wnaf' = Append(wnaf, Call!Digit)
  <2>1. PICK c \in Nat : (k_tmp - Call!Digit) \div 2 = Half * c
    BY <1>0, <1>4, DigitFacts
  <2>2. Half * c \in Nat /\ Call!Digit \in Int /\ Call!Digit # 0
    <3>1. Half \in Nat
      BY <1>0, WindowFacts
    <3>2. Call!Digit \in Int /\ Call!Digit # 0
      BY <1>0, <1>4, DigitFacts
    <3>3. QED  BY <3>1, <3>2
  <2> DEFINE rest == Half * c
  <2>3. rest \in Nat /\ k_tmp' = rest /\ \E n \in Nat : rest = Half * n
    BY <1>4, <2>1, <2>2
  <2> HIDE DEF rest
  <2>4. QED  BY <1>3, <1>4, <2>2, <2>3
<1>5. CASE k_tmp > 0 /\ k_tmp % 2 = 0 /\ k_tmp' = k_tmp \div 2
           /\ wnaf' = Append(wnaf, 0)
  <2>1. k_tmp \div 2 \in Nat /\ 0 \in Int
    BY <1>0
  <2>2. QED  BY <1>3, <1>5, <2>1
<1>6. QED  BY <1>1, <1>4, <1>5, Recoding

LEMMA BoundStep ==
  ASSUME CallAssumption, CallTyping, BoundInv, [Call!Next]_(Call!vars)
  PROVE  BoundInv'
<1> DEFINE L == Len(wnaf)
           b == Bits - L
<1>0. /\ window \in Windows /\ window \in Nat \ {0} /\ Bits \in Nat
      /\ Half \in Nat \ {0}
      /\ wnaf \in Seq(Int) /\ L \in Nat /\ k_tmp \in Nat
  BY WeightAssumption, WindowFacts DEF CallTyping
<1>1. CASE UNCHANGED <<k_tmp, wnaf>>
  BY <1>1 DEF BoundInv
\* A turn shortens the rest by a bit, if a bit is left.
<1>2. ASSUME NEW d \in Int, NEW rest \in Nat, wnaf' = Append(wnaf, d), k_tmp' = rest,
             L <= Bits,
             b = 0 => rest = 0,
             b > 0 => rest <= Call!Shift(b - 1)
      PROVE  BoundInv'
  <2>1. Len(wnaf') = L + 1
    BY <1>0, <1>2
  <2>2. CASE b = 0
    <3>1. L + 1 = Bits + 1 /\ rest = 0
      BY <1>0, <1>2, <2>2
    <3>2. QED  BY <1>0, <1>2, <2>1, <3>1 DEF BoundInv
  <2>3. CASE b > 0
    <3>1. L + 1 <= Bits /\ Bits - (L + 1) = b - 1
      BY <1>0, <2>3
    <3>2. QED  BY <1>0, <1>2, <2>1, <2>3, <3>1 DEF BoundInv
  <2>4. QED  BY <1>0, <1>2, <2>2, <2>3
<1>3. ASSUME k_tmp > 0
      PROVE  L <= Bits /\ b \in 0..Bits /\ k_tmp <= Call!Shift(b)
  BY <1>0, <1>3 DEF BoundInv
<1>4. CASE k_tmp % 2 = 1 /\ k_tmp' = (k_tmp - Call!Digit) \div 2
           /\ wnaf' = Append(wnaf, Call!Digit)
  <2> DEFINE d == Call!Digit
             h == Half
  <2>1. PICK c \in Nat : /\ (k_tmp - d) \div 2 = h * c
                         /\ k_tmp = 2 * (h * c) + d
                         /\ d < 0 => c > 0 /\ h < k_tmp
                         /\ d < 0 => (2 * h) * (c - 1) < k_tmp
    BY <1>0, <1>4, DigitFacts
  <2> DEFINE rest == h * c
  <2>2. /\ rest \in Nat /\ d \in Int /\ d # 0 /\ k_tmp' = rest
        /\ wnaf' = Append(wnaf, d) /\ k_tmp = 2 * rest + d
    <3>1. h * c \in Nat
      BY <1>0
    <3>2. QED  BY <1>0, <1>4, <2>1, <3>1, DigitFacts
  <2>3. L <= Bits /\ b \in 0..Bits /\ k_tmp <= Call!Shift(b)
    <3>0. \A x \in Nat : x % 2 = 1 => x > 0
      OBVIOUS
    <3>1. k_tmp > 0
      BY <1>0, <1>4, <3>0
    <3>2. QED  BY <1>3, <3>1
  <2> HIDE DEF d, b
  <2>4. ASSUME b = 0 PROVE rest = 0
    <3>1. k_tmp <= 1
      BY <1>0, <2>3, <2>4, ShiftFacts
    <3>2. d > 0
      BY <1>0, <2>1, <2>2, <3>1
    <3> HIDE DEF rest
    <3>3. QED  BY <1>0, <2>2, <3>1, <3>2
  <2>5. ASSUME b > 0 PROVE rest <= Call!Shift(b - 1)
    <3> DEFINE s == Call!Shift(b - 1)
    <3>1. Call!Shift(b) = 2 * s /\ s \in Nat /\ k_tmp <= 2 * s
      <4>1. b \in 1..Bits + 1
        BY <1>0, <2>3, <2>5
      <4>2. QED  BY <1>0, <2>3, <4>1, ShiftFacts
    <3> HIDE DEF s
    <3>2. CASE d > 0
      <4> HIDE DEF rest
      <4>1. QED  BY <1>0, <2>2, <3>1, <3>2 DEF s
    <3>3. CASE d < 0
      <4>1. window <= b
        <5>1. SUFFICES ASSUME b <= window - 1 PROVE FALSE
          BY <1>0, <2>3
        <5>2. Call!Shift(b) <= h
          BY <1>0, <2>3, <5>1, ShiftFacts
        <5>3. QED  BY <1>0, <2>1, <2>3, <3>1, <3>3, <5>2
      <4> DEFINE t == Call!Shift(b - window)
      <4>2. 2 * s = (2 * h) * t /\ t \in Nat
        <5>1. b \in window..Bits /\ b - window + 1 \in 1..Bits + 1
              /\ (b - window + 1) - 1 = b - window
          BY <1>0, <2>3, <4>1
        <5>2. QED  BY <1>0, <3>1, <5>1, ShiftFacts
      <4> HIDE DEF t, h
      <4>3. (2 * h) * (c - 1) < (2 * h) * t
        <5> DEFINE x == (2 * h) * (c - 1)
                   y == (2 * h) * t
        <5>1. x < k_tmp
          BY <2>1, <3>3
        <5>2. x \in Int /\ y \in Int
          BY <1>0, <4>2 DEF h
        <5>3. k_tmp <= y
          BY <3>1, <4>2
        <5> HIDE DEF x, y
        <5>4. x < y
          BY <1>0, <5>1, <5>2, <5>3
        <5>5. QED  BY <5>4 DEF x, y
      <4>4. c <= t
        <5>1. SUFFICES ASSUME c - 1 >= t PROVE FALSE
          BY <4>2
        <5>2. (2 * h) * (c - 1) >= (2 * h) * t
          BY <1>0, <4>2, <5>1 DEF h
        <5>3. (2 * h) * (c - 1) \in Int /\ (2 * h) * t \in Int
          BY <1>0, <4>2 DEF h
        <5>4. QED  BY <4>3, <5>2, <5>3
      <4>5. h * c <= h * t
        BY <1>0, <4>2, <4>4 DEF h
      <4>6. h * t = s
        <5>1. (2 * h) * t = 2 * (h * t) /\ h * t \in Nat
          BY <1>0, <4>2 DEF h
        <5>2. QED  BY <3>1, <4>2, <5>1
      <4>7. QED  BY <4>5, <4>6 DEF s
    <3>4. QED  BY <2>2, <3>2, <3>3
  <2> HIDE DEF rest
  <2>6. QED  BY <1>2, <2>2, <2>3, <2>4, <2>5 DEF b
<1>5. CASE k_tmp > 0 /\ k_tmp % 2 = 0 /\ k_tmp' = k_tmp \div 2
           /\ wnaf' = Append(wnaf, 0)
  <2> DEFINE rest == k_tmp \div 2
  <2>1. rest \in Nat /\ k_tmp = 2 * rest /\ rest > 0 /\ 0 \in Int
    BY <1>0, <1>5
  <2>2. L <= Bits /\ b \in 0..Bits /\ k_tmp <= Call!Shift(b)
    BY <1>3, <1>5
  <2> HIDE DEF rest
  <2>3. b # 0
    BY <2>1, <2>2, <1>0, ShiftFacts
  <2>4. rest <= Call!Shift(b - 1)
    <3>1. b \in 1..Bits + 1
      BY <1>0, <2>2, <2>3
    <3>2. Call!Shift(b) = 2 * Call!Shift(b - 1) /\ Call!Shift(b - 1) \in Nat
      BY <1>0, <3>1, ShiftFacts
    <3>3. QED  BY <2>1, <2>2, <3>2
  <2>5. k_tmp' = rest
    BY <1>5 DEF rest
  <2>6. QED  BY <1>2, <1>5, <2>1, <2>2, <2>3, <2>4, <2>5
<1>6. QED  BY <1>1, <1>4, <1>5, Recoding

LEMMA RecodingInit ==
  ASSUME CallAssumption, Call!Init
  PROVE  ZerosInv /\ BoundInv
<1>1. wnaf = << >> /\ Len(wnaf) = 0 /\ k_tmp = k /\ k \in 0..Call!Shift(Bits) - 1
  BY DEF Call!Init, Call!Scalars
<1>2. Bits \in Nat /\ Call!Shift(Bits) \in Nat
  <2>1. Bits \in Nat
    BY WeightAssumption
  <2>2. Bits + 1 \in 1..Bits + 1
    BY <2>1
  <2>3. QED  BY <2>1, <2>2 DEF CallAssumption, Call!ShiftAssumption
<1>3. Bits - 0 = Bits
  BY <1>2
<1>4. QED
  BY <1>1, <1>2, <1>3 DEF ZerosInv, BoundInv, Call!NonAdjacent

\* Whatever the window, no two digits that are not zero are closer than it, so
\* an addition is followed by a window of doublings at least.
THEOREM DigitsAreSparse ==
  ASSUME CallAssumption
  PROVE  Call!Spec => []Call!NonAdjacent
<1>1. Call!Init => CallTyping /\ ZerosInv
  BY CallInit, RecodingInit
<1>2. CallTyping /\ ZerosInv /\ [Call!Next]_(Call!vars) => (CallTyping /\ ZerosInv)'
  BY CallTypingStep, ZerosStep
<1>3. ZerosInv => Call!NonAdjacent
  BY DEF ZerosInv
<1>4. QED  BY <1>1, <1>2, <1>3, PTL DEF Call!Spec

\* The digits of a scalar are at most one more than its bits, though a negative
\* digit makes the rest larger: the loops end.
THEOREM DigitsAreFew ==
  ASSUME CallAssumption
  PROVE  Call!Spec => []Call!DigitsBounded
<1>1. Call!Init => CallTyping /\ BoundInv
  BY CallInit, RecodingInit
<1>2. CallTyping /\ BoundInv /\ [Call!Next]_(Call!vars) => (CallTyping /\ BoundInv)'
  BY CallTypingStep, BoundStep
<1>3. BoundInv => Call!DigitsBounded
  BY DEF BoundInv, Call!DigitsBounded
<1>4. QED  BY <1>1, <1>2, <1>3, PTL DEF Call!Spec

\* What the first digits are worth, place by place.
Worth(digits) ==
  CHOOSE f : f = [n \in 0..Len(digits) |->
                    IF n = 0 THEN 0 ELSE f[n - 1] + digits[n] * Call!Shift(n - 1)]

LEMMA WorthFacts ==
  ASSUME CallAssumption, NEW digits \in Seq(Int), Len(digits) <= Bits + 1
  PROVE  /\ Call!Value(digits) = Worth(digits)[Len(digits)]
         /\ Worth(digits)[0] = 0
         /\ \A n \in 1..Len(digits) :
              Worth(digits)[n] = Worth(digits)[n - 1] + digits[n] * Call!Shift(n - 1)
         /\ \A n \in 0..Len(digits) : Worth(digits)[n] \in Int
<1> DEFINE L == Len(digits)
           term(n) == digits[n] * Call!Shift(n - 1)
           Def(f) == f = [n \in 0..L |-> IF n = 0 THEN 0 ELSE f[n - 1] + term(n)]
           w == Worth(digits)
<1>0. L \in Nat /\ \A n \in 1..L : n \in Nat /\ n - 1 \in 0..L
  OBVIOUS
<1>1. \A n \in 1..L : term(n) \in Int
  <2> SUFFICES ASSUME NEW n \in 1..L PROVE term(n) \in Int
    OBVIOUS
  <2>1. n \in 1..Bits + 1
    BY WeightAssumption
  <2>2. \A m \in 1..Bits + 1 : Call!Shift(m - 1) \in Nat
    BY DEF CallAssumption, Call!ShiftAssumption
  <2>3. digits[n] \in Int
    OBVIOUS
  <2>4. QED  BY <2>1, <2>2, <2>3
<1> HIDE DEF term
<1>2. \E f : Def(f)
  <2> DEFINE step == [n \in Nat |-> [s \in Int |-> IF n \in 1..L THEN s + term(n) ELSE s]]
  <2>1. step \in [Nat -> [Int -> Int]] /\ 0 \in Int
    BY <1>1
  <2>2. \A n \in 1..L, s \in Int : step[n][s] = s + term(n)
    BY <1>0
  <2> HIDE DEF step
  <2>3. \E f \in [0..L -> Int] : Iterated(f, 0, step, L)
    <3> HIDE DEF L
    <3>1. QED  BY <1>0, <2>1, Iterates
  <2>4. PICK f \in [0..L -> Int] : f[0] = 0 /\ \A n \in 1..L : f[n] = step[n][f[n - 1]]
    BY <2>3 DEF Iterated
  <2>5. ASSUME NEW n \in 0..L PROVE f[n] = IF n = 0 THEN 0 ELSE f[n - 1] + term(n)
    <3>1. CASE n = 0
      BY <2>4, <3>1
    <3>2. CASE n # 0
      <4>1. n \in 1..L /\ n - 1 \in 0..L
        BY <1>0, <3>2
      <4>2. f[n] = step[n][f[n - 1]] /\ f[n - 1] \in Int
        BY <2>4, <4>1
      <4>3. QED  BY <2>2, <3>2, <4>1, <4>2
    <3>3. QED  BY <3>1, <3>2
  <2>6. QED  BY <2>4, <2>5
<1>3. w = CHOOSE f : Def(f)
  BY DEF Worth, term
<1>4. Def(w)
  <2> HIDE DEF Def, w
  <2>1. QED  BY <1>2, <1>3
<1>5. Call!Value(digits) = w[L]
  BY DEF Call!Value, Worth
<1> HIDE DEF w
<1>6. w[0] = 0 /\ \A n \in 1..L : w[n] = w[n - 1] + term(n)
  BY <1>0, <1>4
<1>7. \A n \in 0..L : w[n] \in Int
  <2> DEFINE T == {n \in 0..L : w[n] \notin Int}
  <2>1. SUFFICES ASSUME T # {} PROVE FALSE
    OBVIOUS
  <2>2. PICK l \in T : \A n \in T : l <= n
    <3>1. T \subseteq Nat
      BY <1>0
    <3> HIDE DEF T
    <3>2. QED  BY <2>1, <3>1, Least
  <2>3. CASE l = 0
    BY <1>6, <2>2, <2>3
  <2>4. CASE l # 0
    <3>1. l \in 1..L /\ l - 1 \in 0..L /\ l - 1 \notin T
      BY <1>0, <2>2, <2>4
    <3>2. w[l] = w[l - 1] + term(l) /\ w[l - 1] \in Int
      BY <1>6, <3>1
    <3>3. QED  BY <1>1, <2>2, <3>1, <3>2
  <2>5. QED  BY <2>3, <2>4
<1>8. QED  BY <1>5, <1>6, <1>7 DEF w, term

\* A digit more is worth its place.
LEMMA ValueGrows ==
  ASSUME CallAssumption, NEW digits \in Seq(Int), NEW d \in Int, Len(digits) <= Bits
  PROVE  /\ Call!Value(digits) \in Int
         /\ Call!Value(Append(digits, d))
              = Call!Value(digits) + d * Call!Shift(Len(digits))
<1> DEFINE L == Len(digits)
           more == Append(digits, d)
           v == Worth(digits)
           w == Worth(more)
<1>1. /\ L \in Nat /\ Bits \in Nat /\ L <= Bits + 1 /\ more \in Seq(Int)
      /\ Len(more) = L + 1 /\ more[L + 1] = d /\ \A n \in 1..L : more[n] = digits[n]
      /\ (L + 1) - 1 = L
  BY WeightAssumption
<1>2. /\ Call!Value(digits) = v[L] /\ v[0] = 0 /\ v[L] \in Int
      /\ \A n \in 1..L : v[n] = v[n - 1] + digits[n] * Call!Shift(n - 1)
  <2>1. L \in 0..L
    BY <1>1
  <2>2. QED  BY <1>1, <2>1, WorthFacts
<1>3. /\ Call!Value(more) = w[L + 1] /\ w[0] = 0
      /\ \A n \in 1..L + 1 : w[n] = w[n - 1] + more[n] * Call!Shift(n - 1)
  <2> HIDE DEF more
  <2>1. Len(more) <= Bits + 1
    BY <1>1
  <2>2. /\ Call!Value(more) = Worth(more)[Len(more)] /\ Worth(more)[0] = 0
        /\ \A n \in 1..Len(more) :
             Worth(more)[n] = Worth(more)[n - 1] + more[n] * Call!Shift(n - 1)
    BY <1>1, <2>1, WorthFacts
  <2>3. QED  BY <1>1, <2>2
<1> HIDE DEF v, w, more
<1>4. \A n \in 0..L : w[n] = v[n]
  <2> DEFINE T == {n \in 0..L : w[n] # v[n]}
  <2>1. SUFFICES ASSUME T # {} PROVE FALSE
    OBVIOUS
  <2>2. PICK l \in T : \A n \in T : l <= n
    <3>1. T \subseteq Nat
      BY <1>1
    <3> HIDE DEF T
    <3>2. QED  BY <2>1, <3>1, Least
  <2>3. CASE l = 0
    BY <1>2, <1>3, <2>2, <2>3
  <2>4. CASE l # 0
    <3>1. l \in 1..L /\ l \in 1..L + 1 /\ l - 1 \in 0..L /\ l - 1 \notin T
      BY <1>1, <2>2, <2>4
    <3>2. w[l - 1] = v[l - 1] /\ more[l] = digits[l]
      BY <1>1, <3>1
    <3>3. w[l] = v[l]
      BY <1>2, <1>3, <3>1, <3>2
    <3>4. QED  BY <2>2, <3>3
  <2>5. QED  BY <2>3, <2>4
<1>5. w[L + 1] = w[L] + d * Call!Shift(L)
  BY <1>1, <1>3
<1>6. w[L] = v[L]
  BY <1>1, <1>4
<1>7. QED  BY <1>2, <1>3, <1>5, <1>6 DEF more

LEMMA ExactStep ==
  ASSUME CallAssumption, CallTyping, BoundInv, Call!RecodingExact, [Call!Next]_(Call!vars)
  PROVE  Call!RecodingExact'
<1> DEFINE L == Len(wnaf)
<1>0. /\ window \in Windows /\ Bits \in Nat /\ Half \in Nat \ {0}
      /\ wnaf \in Seq(Int) /\ L \in Nat /\ k_tmp \in Nat /\ k \in Nat
      /\ Call!Value(wnaf) + k_tmp * Call!Shift(L) = k
  BY WeightAssumption, WindowFacts DEF CallTyping, Call!RecodingExact
<1>1. k' = k
  BY Bystanders
     DEF Call!Step, Call!ZeroScalar, Call!BuildFirst, Call!BuildEntry, Call!BuildDone,
         Call!RecodeOdd, Call!RecodeEven, Call!RecodeDone, Call!AccumulateZero,
         Call!AccumulateDouble, Call!SelectAddend, Call!AccumulateAdd, Call!Return, Call!call
<1>2. CASE UNCHANGED <<k_tmp, wnaf>>
  BY <1>0, <1>1, <1>2 DEF Call!RecodingExact
<1>3. ASSUME NEW d \in Int, NEW rest \in Nat, wnaf' = Append(wnaf, d), k_tmp' = rest,
             k_tmp = 2 * rest + d, k_tmp > 0
      PROVE  Call!RecodingExact'
  <2> DEFINE v == Call!Value(wnaf)
             s == Call!Shift(L)
  <2>1. L <= Bits /\ Len(wnaf') = L + 1
    BY <1>0, <1>3 DEF BoundInv
  <2>2. v \in Int /\ Call!Value(wnaf') = v + d * s
    BY <1>0, <1>3, <2>1, ValueGrows
  <2>3. s \in Nat /\ Call!Shift(L + 1) = 2 * s
    <3>1. L + 1 \in 1..Bits + 1 /\ (L + 1) - 1 = L
      BY <1>0, <2>1
    <3>2. QED  BY <1>0, <3>1, ShiftFacts
  <2>4. v + k_tmp * s = k
    BY <1>0
  <2> HIDE DEF v, s, L
  <2>5. (2 * rest + d) * s = rest * (2 * s) + d * s
    BY ONLY <1>3, <2>3, d \in Int, rest \in Nat
  <2>6. d * s \in Int /\ rest * (2 * s) \in Int
    BY ONLY <2>3, d \in Int, rest \in Nat
  <2>7. (v + d * s) + rest * (2 * s) = k
    BY ONLY <1>3, <2>2, <2>4, <2>5, <2>6
  <2>8. QED  BY <1>1, <1>3, <2>1, <2>2, <2>3, <2>7 DEF Call!RecodingExact
<1>4. CASE k_tmp % 2 = 1 /\ k_tmp' = (k_tmp - Call!Digit) \div 2
           /\ wnaf' = Append(wnaf, Call!Digit)
  <2> DEFINE d == Call!Digit
  <2>1. PICK c \in Nat : (k_tmp - d) \div 2 = Half * c /\ k_tmp = 2 * (Half * c) + d
    BY <1>0, <1>4, DigitFacts
  <2>2. Half * c \in Nat /\ d \in Int
    BY <1>0, <1>4, DigitFacts
  <2>3. k_tmp > 0
    <3>1. \A x \in Nat : x % 2 = 1 => x > 0
      OBVIOUS
    <3>2. QED  BY <1>0, <1>4, <3>1
  <2> HIDE DEF d
  <2>4. QED  BY <1>3, <1>4, <2>1, <2>2, <2>3 DEF d
<1>5. CASE k_tmp > 0 /\ k_tmp % 2 = 0 /\ k_tmp' = k_tmp \div 2
           /\ wnaf' = Append(wnaf, 0)
  <2>1. k_tmp \div 2 \in Nat /\ k_tmp = 2 * (k_tmp \div 2) + 0 /\ 0 \in Int
    BY <1>0, <1>5
  <2>2. QED  BY <1>3, <1>5, <2>1
<1>6. QED  BY <1>2, <1>4, <1>5, Recoding

\* The digits and the rest make the scalar at every turn: no carry of a negative
\* digit is lost or taken twice, whatever the window.
THEOREM RecodingLosesNothing ==
  ASSUME CallAssumption
  PROVE  Call!Spec => []Call!RecodingExact
<1>1. Call!Init => CallTyping /\ BoundInv /\ Call!RecodingExact
  <2> SUFFICES ASSUME Call!Init PROVE Call!RecodingExact
    BY CallInit, RecodingInit
  <2>1. wnaf = << >> /\ k_tmp = k /\ k \in Nat
    BY CallInit DEF Call!Init, CallTyping
  <2>2. << >> \in Seq(Int) /\ Len(<< >>) = 0 /\ 0 <= Bits + 1
    BY WeightAssumption
  <2>3. Call!Value(<< >>) = 0
    BY <2>2, WorthFacts
  <2>4. Call!Shift(0) = 1
    BY DEF CallAssumption, Call!ShiftAssumption
  <2>5. k * 1 = k /\ 0 + k = k
    BY <2>1
  <2>6. QED  BY <2>1, <2>2, <2>3, <2>4, <2>5 DEF Call!RecodingExact
<1>2. CallTyping /\ BoundInv /\ Call!RecodingExact /\ [Call!Next]_(Call!vars)
        => (CallTyping /\ BoundInv /\ Call!RecodingExact)'
  BY CallTypingStep, BoundStep, ExactStep
<1>3. QED  BY <1>1, <1>2, PTL DEF Call!Spec

=============================================================================
