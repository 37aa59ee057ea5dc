---------------------------- MODULE MCWnafCache ----------------------------
(* Instances of WnafCache small enough for TLC, in every environment. *)
EXTENDS WnafCache

CONSTANTS t1, t2, a, b

TwoThreads   == {t1, t2}
TwoPoints    == {a, b}
OneWindow    == {2}
TwoWindows   == {1, 3}

\* MRI with and without the caller's mutex, and a parallel runtime with and
\* without it.
Everywhere == [locked : BOOLEAN, atomicEvict : BOOLEAN]
Unlocked   == {[locked |-> FALSE, atomicEvict |-> TRUE]}
=============================================================================
