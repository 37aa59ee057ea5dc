------------------------------- MODULE Limbs -------------------------------
(***************************************************************************)
(* Numbers of four limbs as field.c and scalar.c handle them: limbs are    *)
(* unsigned words of Word values (uint64_t, Word = 2^64), accumulators are *)
(* of double width (uint128_t), and both wrap around.                      *)
(***************************************************************************)
EXTENDS Integers

CONSTANT Word

ASSUME WordAssumption == Word \in Nat /\ Word > 2 /\ Word % 2 = 0

Limb == 0..Word - 1

\* (uint64_t)acc and acc >> 64 of a double-width accumulator.
Wide(x) == x % (Word * Word)
Low(acc) == acc % Word
High(acc) == acc \div Word

Two256 == Word * Word * Word * Word

\* The number that four limbs stand for.
Value(x) == x[0] + Word * (x[1] + Word * (x[2] + Word * x[3]))

\* Eight limbs, and the upper four of them.
Upper(x) == [j \in 0..3 |-> x[4 + j]]
Value8(x) == Value(x) + Two256 * Value(Upper(x))

Four(d0, d1, d2, d3) ==
  [j \in 0..3 |-> CASE j = 0 -> d0 [] j = 1 -> d1 [] j = 2 -> d2 [] j = 3 -> d3]

FromInt(v) ==
  LET q1 == v \div Word
      q2 == q1 \div Word
      q3 == q2 \div Word
  IN  Four(v % Word, q1 % Word, q2 % Word, q3 % Word)

\* A loop over the four limbs that hands a carry on: each turn accumulates
\* term[j] and the carry of the turn before.
Chain(term, carry) ==
  LET acc0 == Wide(term[0] + carry)
      acc1 == Wide(term[1] + High(acc0))
      acc2 == Wide(term[2] + High(acc1))
      acc3 == Wide(term[3] + High(acc2))
  IN  [d |-> Four(Low(acc0), Low(acc1), Low(acc2), Low(acc3)),
       carry |-> High(acc3)]

uint256_add(a, b) == Chain([j \in 0..3 |-> a[j] + b[j]], 0)

\* The borrow is the top bit of the accumulator that wrapped below zero.
Borrow(acc) == (2 * acc) \div (Word * Word)
uint256_sub(a, b) ==
  LET acc0 == Wide(a[0] - b[0])
      acc1 == Wide(a[1] - b[1] - Borrow(acc0))
      acc2 == Wide(a[2] - b[2] - Borrow(acc1))
      acc3 == Wide(a[3] - b[3] - Borrow(acc2))
  IN  [d |-> Four(Low(acc0), Low(acc1), Low(acc2), Low(acc3)),
       borrow |-> Borrow(acc3)]

\* One row of the schoolbook product: a[i] * b into product[i..i + 5].
Row(product, a, b, i) ==
  LET row == Chain([j \in 0..3 |-> a[i] * b[j] + product[i + j]], 0)
      acc == product[i + 4] + row.carry
  IN  [n \in 0..7 |-> CASE n \in i..i + 3 -> row.d[n - i]
                        [] n = i + 4 -> Low(acc)
                        [] n = i + 5 -> Low(product[n] + High(acc))
                        [] OTHER -> product[n]]

\* The 4x4 schoolbook product of fmul_internal and scalar_mul_internal.
Product(a, b) ==
  LET p0 == [n \in 0..7 |-> 0]
      p1 == Row(p0, a, b, 0)
      p2 == Row(p1, a, b, 1)
      p3 == Row(p2, a, b, 2)
  IN  Row(p3, a, b, 3)

\* A low and a high half as eight limbs.
Halves(lo, hi) == [n \in 0..7 |-> IF n < 4 THEN lo[n] ELSE hi[n - 4]]

=============================================================================
