------------------------------- MODULE Dudect -------------------------------
(***************************************************************************)
(* timing/dudect.c: Welford's running mean and sum of squares for the two  *)
(* classes of measurements, Welch's t-statistic over them and the verdict. *)
(* Doubles are rational numbers here, <<numerator, denominator>> in lowest *)
(* terms; their rounding is not modelled.                                  *)
(***************************************************************************)
EXTENDS Integers

\* Of a and of b > 0.
Gcd(a, b) ==
  LET gcd[m \in Nat] == [n \in Nat |-> IF m = 0 THEN n ELSE gcd[n % m][m]]
  IN  gcd[b][IF a < 0 THEN -a ELSE a]

Ratio(n, d) == <<n \div Gcd(n, d), d \div Gcd(n, d)>>
Plus(a, b) == Ratio(a[1] * b[2] + b[1] * a[2], a[2] * b[2])
Minus(a, b) == Plus(a, <<-b[1], b[2]>>)
Prod(a, b) == Ratio(a[1] * b[1], a[2] * b[2])
Less(a, b) == a[1] * b[2] < b[1] * a[2]
Zero == <<0, 1>>

dudect_init == [c \in 0..1 |-> [n |-> 0, mean |-> Zero, m2 |-> Zero]]

dudect_add(ctx, class_id, x) ==
  LET w == ctx[class_id]
      delta == Minus(<<x, 1>>, w.mean)
      mean == Plus(w.mean, Prod(delta, <<1, w.n + 1>>))
      delta2 == Minus(<<x, 1>>, mean)
  IN  [ctx EXCEPT ![class_id] =
        [n |-> w.n + 1, mean |-> mean, m2 |-> Plus(w.m2, Prod(delta, delta2))]]

\* var / n of one class
SquaredError(w) == Prod(w.m2, <<1, (w.n - 1) * w.n>>)

\* The square of dudect_t_statistic as a set of at most one number: empty for
\* NAN, which compares as below nothing.
SquaredT(ctx) ==
  IF ctx[0].n < 2 \/ ctx[1].n < 2 THEN {}
  ELSE LET denom == Plus(SquaredError(ctx[0]), SquaredError(ctx[1]))
           diff == Minus(ctx[0].mean, ctx[1].mean)
       IN  IF denom = Zero THEN {} ELSE {Prod(Prod(diff, diff), Ratio(denom[2], denom[1]))}

Threshold2 == <<81, 4>>  \* the square of DUDECT_THRESHOLD_DEFAULT, 4.5

\* Mutant: an undefined statistic counts as flat.
dudect_passedDegenerate(ctx) == \A t2 \in SquaredT(ctx) : Less(t2, Threshold2)

dudect_passed(ctx) == \E t2 \in SquaredT(ctx) : Less(t2, Threshold2)

-----------------------------------------------------------------------------
(* The reference: Welch's t from the sums over all measurements, with       *)
(* everything multiplied out.                                               *)

NoSamples == [c \in 0..1 |-> [n |-> 0, sum |-> 0, squares |-> 0]]

Counted(samples, class_id, x) ==
  LET s == samples[class_id]
  IN  [samples EXCEPT ![class_id] =
        [n |-> s.n + 1, sum |-> s.sum + x, squares |-> s.squares + x * x]]

\* n times the sum of the squared distances from the mean.
SumOfSquares(s) == s.n * s.squares - s.sum * s.sum

\* Two samples at least in each class, and |t| below the threshold.
IsFlat(samples) ==
  LET s0 == samples[0]
      s1 == samples[1]
      diff == s0.sum * s1.n - s1.sum * s0.n
  IN  /\ s0.n > 1 /\ s1.n > 1
      /\ Threshold2[2] * (diff * diff) * ((s0.n - 1) * (s1.n - 1)) <
           Threshold2[1] * (SumOfSquares(s0) * (s1.n * s1.n * (s1.n - 1))
                             + SumOfSquares(s1) * (s0.n * s0.n * (s0.n - 1)))

=============================================================================
