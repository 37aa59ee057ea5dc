---------------------------- MODULE TimingHarness ----------------------------
(***************************************************************************)
(* timing/timing_harness.c: nine functions of the extension are measured   *)
(* on two classes of operands each, chosen so that a value computed from   *)
(* the operands, which a compiler might turn back into a branch, comes out *)
(* one way in class 0 and the other way in class 1.  Each gets a verdict   *)
(* of dudect.c and a line of output, and the verdicts an exit code.        *)
(*                                                                         *)
(* The operands are those of the source with its constants scaled to the   *)
(* width of a limb.  The clock is any clock.                               *)
(***************************************************************************)
EXTENDS Dudect, Limbs, SequencesExt

CONSTANTS
  FRED_C,          \* 2^256 - P
  C_N,             \* 2^256 - N
  SmallMask,       \* 0xFFFF, and ...
  ByteMask,        \* ... 0xFF: masks of some low bits of a limb
  Durations,       \* what the clock may measure
  Measurements,    \* how many times each function is measured
  CurveP, CurveB, CurveN  \* a curve for the points of test_jp_add

\* The clock counts cycles.
ASSUME DurationsAssumption == Durations \subseteq Nat
ASSUME MeasurementsAssumption == Measurements \in Nat

Curve == INSTANCE Jacobian WITH P <- CurveP, B <- CurveB, N <- CurveN

VARIABLES
  sound,     \* do the functions compute what the first four checks expect?
  phase,
  test,      \* the number of the test that runs
  ctx,       \* its dudect_ctx_t
  drawn,     \* the class drawn last and what its operands exercise
  samples,   \* what all it has measured sums up to, for the reference
  failures,  \* the tests of this group that failed
  exit_code,
  allFlat    \* were the measurements of every test so far flat?

harnessVars == <<sound, phase, test, ctx, drawn, samples, failures, exit_code, allFlat>>

\* The tests of test_field_ops, test_point_ops and test_scalar_ops.
Tests == <<"fred", "fsub", "fneg", "fadd", "scalar_multiply_ct", "jp_add",
           "scalar_mul", "scalar_reduce", "scalar_inv">>
GroupEnds == {4, 6, 9}

-----------------------------------------------------------------------------
(* The operands *)

FIELD_P == Two256 - FRED_C
CURVE_N == Two256 - C_N

TopBit == Word \div 2
And(x, mask) == x % (mask + 1)  \* for the masks of low bits that are used here

\* xorshift64 never returns 0: its state starts and stays different from 0.
Drawn == Limb \ {0}
Small == {And(x, SmallMask) : x \in Drawn}
Tiny == {Four(d0, And(d1, ByteMask), 0, 0) : d0, d1 \in Drawn}
BelowTop == {Four(d0, d1, d2, And(d3, TopBit - 1)) : d0, d1, d2, d3 \in Drawn}
AboveTop == {Four(x[0], x[1], x[2], TopBit + x[3]) : x \in BelowTop}
Random == {Four(d0, d1, d2, d3) : d0, d1, d2, d3 \in Drawn}

\* random_scalar_mod_n, and the zero that is replaced by 1
RandomScalars ==
  {IF k = 0 THEN 1 ELSE k : k \in {Value(x) % CURVE_N : x \in Random}}

\* (xorshift64() & 0xFFFE) + 1
Offsets == {(x - (x % 2)) + 1 : x \in Small}

\* Mutant: the offset of the operands of fred may be 0.
fredFromZero(class_id) ==
  {FIELD_P + (IF class_id = 0 THEN offset ELSE -offset) : offset \in Offsets \cup {0}}

fredOperands(class_id) ==
  {FIELD_P + (IF class_id = 0 THEN offset ELSE -offset) : offset \in Offsets}

fsubOperands(class_id) ==
  LET small == {Four(d0, 0, 0, 0) : d0 \in Small} IN
  IF class_id = 0 THEN small \X BelowTop ELSE BelowTop \X small

fnegOperands(class_id) ==
  IF class_id = 0
  THEN LET p == FromInt(FIELD_P)
       IN  {Four(p[0] - x, Word - 1, Word - 1, Word - 1) : x \in Small}
  ELSE Tiny

faddOperands(class_id) == IF class_id = 0 THEN AboveTop \X AboveTop ELSE Tiny \X Tiny

\* G and 2G with Z = 1, or 3G and 5G as doubling and adding leave them.
jp_addOperands(class_id, g) ==
  LET g_jac == Curve!Jac(g.ax, g.ay, 1)
      g2_jac == Curve!jp_double_internal(g_jac)
      g2 == Curve!jp_to_affine(g2_jac)
      g3_jac == Curve!jp_add_internal(g2_jac, g_jac)
  IN  IF class_id = 0
      THEN <<g_jac, Curve!Jac(g2.ax, g2.ay, 1)>>
      ELSE <<g3_jac, Curve!jp_add_internal(g3_jac, g2_jac)>>

\* The operands of a class for the functions of scalar.c, as numbers.
scalar_mulOperands(class_id) ==
  {Value([x EXCEPT ![3] = IF class_id = 0 THEN 0 ELSE @]) : x \in Random}
\* The + 1 on the lowest limb of N does not carry.
scalar_reduceHigh(class_id) ==
  LET n == FromInt(CURVE_N) IN
  IF class_id = 0 THEN 0 ELSE Value([n EXCEPT ![0] = (@ + 1) % Word])

-----------------------------------------------------------------------------
(* What the operands exercise: the values of the condition the function     *)
(* computes without a branch, or that its operands differ by.               *)

\* The last subtraction of P in fred_internal, for hi = 0.
Subtracts(x) == uint256_sub(FromInt(x), FromInt(FIELD_P)).borrow = 0
\* The borrow after which fsub_internal adds P.
Borrows(a, b) == uint256_sub(a, b).borrow = 1
\* The carry or the absent borrow after which fadd_internal keeps the
\* difference.
Exceeds(a, b) ==
  LET sum == uint256_add(a, b)
  IN  sum.carry = 1 \/ uint256_sub(sum.d, FromInt(FIELD_P)).borrow = 0
\* One of the four selections of jp_add_internal.
Exceptional(ops) ==
  ops[1].z = 0 \/ ops[2].z = 0 \/ Curve!H(ops[1], ops[2]) = 0

Exercises ==
  [name \in Range(Tests) |-> [c \in 0..1 |->
    CASE name = "fred" -> {Subtracts(x) : x \in fredOperands(c)}
      [] name = "fsub" -> {Borrows(x[1], x[2]) : x \in fsubOperands(c)}
      [] name = "fneg" -> {Value(x) = 0 : x \in fnegOperands(c)}
      [] name = "fadd" -> {Exceeds(x[1], x[2]) : x \in faddOperands(c)}
      [] name = "jp_add" ->
           {Exceptional(jp_addOperands(c, g)) : g \in Curve!AffinePoints \ {Curve!None}}
      [] name = "scalar_mul" -> {x >= Word^3 : x \in scalar_mulOperands(c)}
      [] name = "scalar_reduce" -> {scalar_reduceHigh(c) > CURVE_N}
      [] OTHER ->
           {k \notin 1..CURVE_N - 1 :
              k \in IF c = 1 THEN RandomScalars
                    ELSE IF name = "scalar_inv" THEN {2} ELSE {1}}]]

-----------------------------------------------------------------------------
HarnessInit ==
  /\ sound \in BOOLEAN
  /\ phase = "checks"
  /\ test = 1
  /\ ctx = dudect_init
  /\ drawn = [class |-> 0, exercises |-> {}]
  /\ samples = NoSamples
  /\ failures = 0
  /\ exit_code = 0
  /\ allFlat = TRUE

\* The checks [1] to [4] return 1 from main before anything is measured.
SelfChecks ==
  /\ phase = "checks"
  /\ phase' = IF sound THEN "measuring" ELSE "exited"
  /\ exit_code' = IF sound THEN 0 ELSE 1
  /\ UNCHANGED <<sound, test, ctx, drawn, samples, failures, allFlat>>

Taken == ctx[0].n + ctx[1].n

\* One turn of the loop of a test: random_class, the operands, the two
\* readings of the clock and dudect_add.
Measure ==
  /\ phase = "measuring"
  /\ Taken < Measurements
  /\ \E class_id \in 0..1, time \in Durations :
       /\ \E side \in Exercises[Tests[test]][class_id] :
            drawn' = [class |-> class_id, exercises |-> {side}]
       /\ ctx' = dudect_add(ctx, class_id, time)
       /\ samples' = Counted(samples, class_id, time)
  /\ UNCHANGED <<sound, phase, test, failures, exit_code, allFlat>>

ExitCode(failed) == IF test \in GroupEnds /\ failed > 0 THEN 1 ELSE exit_code

LastTest == test = Len(Tests)

\* dudect_report and dudect_passed at the end of a test; the last test of a
\* group hands its failures on to main.
Report ==
  /\ phase = "measuring"
  /\ Taken = Measurements
  /\ LET failed == failures + IF dudect_passed(ctx) THEN 0 ELSE 1 IN
     /\ failures' = IF test \in GroupEnds THEN 0 ELSE failed
     /\ exit_code' = ExitCode(failed)
  /\ phase' = IF LastTest THEN "exited" ELSE "measuring"
  /\ test' = IF LastTest THEN test ELSE test + 1
  /\ ctx' = dudect_init
  /\ samples' = NoSamples
  /\ drawn' = [class |-> 0, exercises |-> {}]
  /\ allFlat' = (allFlat /\ IsFlat(samples))
  /\ UNCHANGED sound

HarnessNext == SelfChecks \/ Measure \/ Report

HarnessSpec == HarnessInit /\ [][HarnessNext]_harnessVars

-----------------------------------------------------------------------------
\* Every operand a test can draw is on the side of the condition that its
\* class stands for, or, where both classes are to stay clear of a special
\* case, clear of it: no measurement is booked under the wrong class.
ClassesContrast ==
  \A side \in drawn.exercises :
    side = CASE Tests[test] \in {"fred", "fsub", "fadd"} -> drawn.class = 0
             [] Tests[test] \in {"scalar_mul", "scalar_reduce"} -> drawn.class = 1
             [] OTHER -> FALSE

\* The running statistic is Welch's t of the measurements, and main loses no
\* verdict: the harness exits 0 only if every test measured both classes, saw
\* the clock move and stayed below the threshold.
ExitIsEarned == phase = "exited" => (exit_code = 0 <=> sound /\ allFlat)

=============================================================================
