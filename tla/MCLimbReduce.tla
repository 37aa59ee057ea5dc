---------------------------- MODULE MCLimbReduce ----------------------------
(* Limbs of two bits, four of which make 256; P = 253, and N = 235 with      *)
(* c_N = 21, whose square is 1.7 times 256 as c_N^2 is 1.6 times 2^256 on    *)
(* secp256k1.  Every product of two numbers of four limbs, and every number  *)
(* of eight.                                                                 *)
EXTENDS LimbReduce

FourLimbs == 0..Two256 - 1
EightLimbs == 0..Two256 * Two256 - 1
=============================================================================
