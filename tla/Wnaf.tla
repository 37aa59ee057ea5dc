-------------------------------- MODULE Wnaf --------------------------------
(***************************************************************************)
(* Secp256k1.scalar_multiply_wnaf of lib/secp256k1.rb on Jacobian triples: *)
(* the table of odd multiples, the recoding of the scalar into signed      *)
(* digits from the low end, and the accumulation from the high end.  The   *)
(* table is built here; that a cached one is no different is the subject   *)
(* of WnafCache.  The loader (module Backend) may replace the functions    *)
(* the call uses, or put the Ruby ones back, between any two of its steps. *)
(***************************************************************************)
EXTENDS MixedBackend

CONSTANTS
  Bits,     \* the scalars range over 0 .. 2^Bits - 1
  Bases,    \* the affine base points
  Windows,  \* the window sizes
  Pending, Rejected

ASSUME BasesAssumption == Bases \subseteq AffinePoints \ {None}
ASSUME WindowsAssumption == Windows \subseteq Nat \ {0}
ASSUME BitsAssumption == Bits \in Nat

\* 1 << n
Shift(n) == 2^n

\* What is used of the powers of two, up to the windows' and one digit beyond the
\* scalars'.
ASSUME ShiftAssumption ==
  /\ Shift(0) = 1
  /\ \A w \in Windows \cup {Bits + 1} : \A n \in 1..w :
       Shift(n) \in Nat /\ Shift(n) = 2 * Shift(n - 1) /\ Shift(n - 1) \in Nat \ {0}
  /\ \A w \in Windows :
       /\ \A n \in 0..w - 1 : Shift(n) <= Shift(w - 1)
       /\ \A n \in w..Bits : Shift(n) = Shift(w) * Shift(n - w)

VARIABLES
  k, base, window,
  tbl,    \* tbl[n + 1] is the entry the code keeps at tbl[n]
  two_p,  \* twice the base, by which the entries of the table differ
  k_tmp,  \* what is left of the scalar to recode
  wnaf,   \* the digits, the lowest first
  i,      \* the digits still to be accumulated
  q,      \* the accumulator
  addend, \* what the digit in hand is to add
  pc

call == <<k, base, window, tbl, two_p, k_tmp, wnaf, i, q, addend, pc>>
vars == <<backend, call>>

Scalars == 0..Shift(Bits) - 1

tbl_size == Shift(window - 1)
w_big == Shift(window)
w_half == w_big \div 2

Init ==
  /\ LoaderInit
  /\ k \in Scalars
  /\ base \in Bases
  /\ window \in Windows
  /\ tbl = << >>
  /\ two_p = << >>
  /\ k_tmp = k
  /\ wnaf = << >>
  /\ i = 0
  /\ q = JP_INFINITY
  /\ addend = << >>
  /\ pc = "start"

ZeroScalar ==
  /\ pc = "start"
  /\ k = 0
  /\ pc' = "done"
  /\ UNCHANGED <<backend, k, base, window, tbl, two_p, k_tmp, wnaf, i, q, addend>>

BuildFirst ==
  /\ pc = "start"
  /\ k # 0
  /\ LET first == Jac(base.ax, base.ay, 1) IN
     /\ tbl' = <<first>>
     /\ two_p' = Double(first)
  /\ pc' = "build"
  /\ UNCHANGED <<backend, k, base, window, k_tmp, wnaf, i, q, addend>>

\* tbl[i] = jp_add(tbl[i - 1], two_p)
BuildEntry ==
  /\ pc = "build"
  /\ Len(tbl) < tbl_size
  /\ tbl' = Append(tbl, Add(Last(tbl), two_p))
  /\ UNCHANGED <<backend, k, base, window, two_p, k_tmp, wnaf, i, q, addend, pc>>

BuildDone ==
  /\ pc = "build"
  /\ Len(tbl) = tbl_size
  /\ pc' = "recode"
  /\ UNCHANGED <<backend, k, base, window, tbl, two_p, k_tmp, wnaf, i, q, addend>>

\* Mutant: a digit of exactly half a window is taken to be negative.
DigitHalfNegative ==
  LET z == k_tmp % w_big IN IF z >= w_half THEN z - w_big ELSE z

\* z = k_tmp & (w_big - 1), taken to the residue closest to zero.
Digit ==
  LET z == k_tmp % w_big IN IF z > w_half THEN z - w_big ELSE z

\* Mutant: the digit is not taken off the rest.
RecodeOddKeepsRest ==
  /\ pc = "recode"
  /\ k_tmp % 2 = 1
  /\ wnaf' = Append(wnaf, Digit)
  /\ k_tmp' = k_tmp \div 2
  /\ UNCHANGED <<backend, k, base, window, tbl, two_p, i, q, addend, pc>>

\* Mutant: the window is one bit too narrow for its digits.
RecodeOddNarrow ==
  /\ pc = "recode"
  /\ k_tmp % 2 = 1
  /\ LET z == k_tmp % w_half
         d == IF z > w_half \div 2 THEN z - w_half ELSE z
     IN  /\ wnaf' = Append(wnaf, d)
         /\ k_tmp' = (k_tmp - d) \div 2
  /\ UNCHANGED <<backend, k, base, window, tbl, two_p, i, q, addend, pc>>

RecodeOdd ==
  /\ pc = "recode"
  /\ k_tmp % 2 = 1
  /\ wnaf' = Append(wnaf, Digit)
  /\ k_tmp' = (k_tmp - Digit) \div 2
  /\ UNCHANGED <<backend, k, base, window, tbl, two_p, i, q, addend, pc>>

RecodeEven ==
  /\ pc = "recode"
  /\ k_tmp > 0
  /\ k_tmp % 2 = 0
  /\ wnaf' = Append(wnaf, 0)
  /\ k_tmp' = k_tmp \div 2
  /\ UNCHANGED <<backend, k, base, window, tbl, two_p, i, q, addend, pc>>

RecodeDone ==
  /\ pc = "recode"
  /\ k_tmp = 0
  /\ i' = Len(wnaf)
  /\ pc' = "accumulate"
  /\ UNCHANGED <<backend, k, base, window, tbl, two_p, k_tmp, wnaf, q, addend>>

AbsDigit(d) == IF d < 0 THEN -d ELSE d

\* Mutant: a negative digit adds the entry itself.
AddendUnsigned(d) == tbl[AbsDigit(d) \div 2 + 1]

\* tbl[di.abs >> 1], or its opposite.
Addend(d) ==
  LET entry == tbl[AbsDigit(d) \div 2 + 1] IN IF d > 0 THEN entry ELSE Neg(entry)

AccumulateZero ==
  /\ pc = "accumulate"
  /\ i > 0
  /\ wnaf[i] = 0
  /\ q' = Double(q)
  /\ i' = i - 1
  /\ UNCHANGED <<backend, k, base, window, tbl, two_p, k_tmp, wnaf, addend, pc>>

\* A digit that is not zero takes three calls: jp_double, ...
AccumulateDouble ==
  /\ pc = "accumulate"
  /\ i > 0
  /\ wnaf[i] # 0
  /\ q' = Double(q)
  /\ pc' = "select"
  /\ UNCHANGED <<backend, k, base, window, tbl, two_p, k_tmp, wnaf, i, addend>>

\* ... jp_neg, if the digit is negative, ...
SelectAddend ==
  /\ pc = "select"
  /\ addend' = Addend(wnaf[i])
  /\ pc' = "add"
  /\ UNCHANGED <<backend, k, base, window, tbl, two_p, k_tmp, wnaf, i, q>>

\* ... and jp_add.
AccumulateAdd ==
  /\ pc = "add"
  /\ q' = Add(q, addend)
  /\ i' = i - 1
  /\ pc' = "accumulate"
  /\ UNCHANGED <<backend, k, base, window, tbl, two_p, k_tmp, wnaf, addend>>

Return ==
  /\ pc = "accumulate"
  /\ i = 0
  /\ pc' = "done"
  /\ UNCHANGED <<backend, k, base, window, tbl, two_p, k_tmp, wnaf, i, q, addend>>

Step ==
  \/ ZeroScalar \/ BuildFirst \/ BuildEntry \/ BuildDone
  \/ RecodeOdd \/ RecodeEven \/ RecodeDone
  \/ AccumulateZero \/ AccumulateDouble \/ SelectAddend \/ AccumulateAdd \/ Return

Next == Step \/ (Require /\ UNCHANGED call)

\* One call runs in one thread and waits for nothing, for the loader least.
Spec == Init /\ [][Next]_vars /\ WF_vars(Step)

-----------------------------------------------------------------------------
\* What digits are worth, the lowest counting once.
Value(digits) ==
  LET value[n \in 0..Len(digits)] ==
        IF n = 0 THEN 0 ELSE value[n - 1] + digits[n] * Shift(n - 1)
  IN  value[Len(digits)]

\* The recoding loses nothing on the way: at every turn of the loop, and when it
\* is over, the digits so far and the rest make the scalar.
RecodingExact == Value(wnaf) + k_tmp * Shift(Len(wnaf)) = k

\* Non-adjacent form, what makes the loop fast: among any window digits in a
\* row at most one is not zero.
NonAdjacent ==
  \A m, n \in DOMAIN wnaf :
    m < n /\ n < m + window => wnaf[m] = 0 \/ wnaf[n] = 0

\* The loop of accumulation has at most one turn more than the scalar has
\* bits: the highest digit carries at most one bit up.
DigitsBounded == Len(wnaf) <= Bits + 1

Log(j) == LogOf[base][jp_to_affine(j)]

\* The call is a scalar multiplication, for k >= N too, and comes back.
Promise == INSTANCE ScalarMult WITH
  Strict <- FALSE, out <- IF pc = "done" THEN Log(q) ELSE Pending

IsScalarMult == Promise!Spec

=============================================================================
