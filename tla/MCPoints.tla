------------------------------ MODULE MCPoints ------------------------------
(* The curve y^2 = x^3 + 3 over the field of 7 elements: a group of prime    *)
(* order 13, so as on secp256k1 no point has y = 0, and P is 3 modulo 4.     *)
(* Integers up to 9 name 0, 1 and 2 a second time.                           *)
EXTENDS Points

CONSTANT NotInteger  \* an argument that is neither nil nor an Integer

SomeScalars == {-1, 0, 2, N, N + 2}
SomeArguments == (-1..MaxInt) \cup {Nil, NotInteger}
SomeExtensions == {{}, Range(Methods), Range(Methods) \ {"jp_neg"}}

\* Bounds on the search.  A program that works with triples calls no mul until
\* it has points again, and nothing else reads what permits one.  A multiplication
\* neither reads nor changes the other operand, nor does a refusal.
RawWithoutPermission == call.op = "raw" => ~(env \/ allowed)
MulWithOneOperand == call.op \in {"mul", "mul_vt"} => other = None
RefusalWithOneOperand ==
  call.op \in {"decoded", "constructed"} => (call.answer = Refused => other = None)
=============================================================================
