---------------------------- MODULE MCFoldReduce ----------------------------
(* A word of 8 bits; 2^8 - 15 = 241 leaves room for two folds, as 2^256 -   *)
(* 0x1000003D1 does.                                                        *)
EXTENDS FoldReduce

TwoWords == 0..R * R - 1
=============================================================================
