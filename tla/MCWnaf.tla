------------------------------- MODULE MCWnaf -------------------------------
(* The curve y^2 = x^3 + 7 over the field of 43 elements, of order 31.  Its  *)
(* order is prime, so the multiples of any finite point are all the others.  *)
EXTENDS Wnaf

SomePoint == CHOOSE pt \in AffinePoints \ {None} : TRUE
OneBase == {SomePoint}
SomeExtensions == {{}, Range(Methods), Range(Methods) \ {"jp_neg"}}
FewWindows == {1, 2, 3, 5}
=============================================================================
