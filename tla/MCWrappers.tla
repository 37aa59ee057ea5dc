----------------------------- MODULE MCWrappers -----------------------------
(* Limbs of two bits: the numbers of four limbs are 0..255, the primes 251,  *)
(* 3 modulo 4, and 239 leave some of them unreduced, and the integers reach  *)
(* over either end, of 512 bits (here 16) for fred.                          *)
EXTENDS Wrappers

AroundWord == -2..Two256 + 1
AroundTwoWords == (-2..Two256 + 1) \cup (Two256 * Two256 - 300..Two256 * Two256 + 1)
=============================================================================
