--------------------------- MODULE MCTimingHarness ---------------------------
(* Limbs of two bits: P = 253 and N = 234, with 2 as the lowest limb of N,   *)
(* masks of one bit, and every operand the harness could draw at that width. *)
(* Five measurements put two or three into a class at best, none at worst,   *)
(* and the durations make flat, marginal and clear differences as well as a  *)
(* clock that stands still.                                                  *)
EXTENDS TimingHarness
=============================================================================
