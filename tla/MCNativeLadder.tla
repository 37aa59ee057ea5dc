--------------------------- MODULE MCNativeLadder ---------------------------
(* The curve y^2 = x^3 + 2 over the field of 13 elements has the prime order *)
(* 19; scalars have one bit more than the order, so most of them are out of  *)
(* range.                                                                    *)
EXTENDS NativeLadder

TwoToThe == [n \in 0..Bits |-> 2^n]
=============================================================================
