------------------------------ MODULE MCLadder ------------------------------
(* The ladder over the integers modulo N, each its own representation, and  *)
(* with two representations of every point, as a Jacobian triple has many.  *)
EXTENDS Ladder

TwoToThe == [n \in 0..Bits |-> 2^n]

Doubled == (0..N - 1) \X {0, 1}
DoubledInfinity == <<0, 0>>
DoubledBase == <<1, 0>>
DoubledLog(x) == x[1]
\* The tag of the sum tells the order of the operands.
DoubledAdd(x, y) == <<(x[1] + y[1]) % N, x[2]>>
DoubledDouble(x) == <<(2 * x[1]) % N, 1 - x[2]>>
=============================================================================
