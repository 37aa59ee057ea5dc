------------------------------- MODULE MCGate -------------------------------
(* Two compilers, two runs each, and one function of each tier.  The         *)
(* thresholds are those of the script; readings lie on both sides of them.   *)
EXTENDS Gate

CONSTANTS mul_ct, jp_add, fadd, renamed

TwoCompilers == <<"gcc", "gcc-14">>

SomeReadings ==
  (mul_ct :> {1, 20}) @@ (jp_add :> {20, 100}) @@ (fadd :> {1, 20}) @@ (renamed :> {1})

=============================================================================
