------------------------------- MODULE Ladder -------------------------------
(***************************************************************************)
(* Secp256k1.scalar_multiply_ct of lib/secp256k1.rb: the Montgomery ladder *)
(* over two registers, one iteration for each bit of the scalar from the   *)
(* top.  The points and their two operations are parameters: a point is    *)
(* whatever represents a multiple of the base (a Jacobian triple has many  *)
(* representations of one point), and Log says which multiple.             *)
(***************************************************************************)
EXTENDS Integers

CONSTANTS
  N,          \* the order of the curve
  Bits,       \* iterations of the loop: 256 in the code
  Weight,     \* Weight[i] is the weight 2^i of bit i
  Points,     \* the representations of points
  Infinity,   \* JP_INFINITY
  Base,       \* [px, py, 1]
  Log(_),     \* which multiple of Base a representation stands for
  Add(_, _),  \* jp_add
  Double(_)   \* jp_double

ASSUME OrderAssumption == N \in Nat /\ N > 1
ASSUME BitsAssumption == Bits \in Nat
ASSUME WeightAssumption ==
  /\ Weight \in [0..Bits -> Nat \ {0}]
  /\ Weight[0] = 1
  /\ \A i \in 1..Bits : Weight[i] = 2 * Weight[i - 1]

\* jp_add and jp_double compute the group operation on all representations.
ASSUME GroupAssumption ==
  /\ Infinity \in Points /\ Log(Infinity) = 0
  /\ Base \in Points /\ Log(Base) = 1
  /\ \A x \in Points : Log(x) \in 0..N - 1
  /\ \A x, y \in Points : /\ Add(x, y) \in Points
                          /\ Log(Add(x, y)) = (Log(x) + Log(y)) % N
  /\ \A x \in Points : /\ Double(x) \in Points
                       /\ Log(Double(x)) = (2 * Log(x)) % N

VARIABLES
  k,   \* the scalar
  i,   \* how many of its bits are left
  r0,  \* the register that accumulates the result
  r1,  \* the other register
  pc

vars == <<k, i, r0, r1, pc>>

Scalars == 0..Weight[Bits] - 1

\* (k >> n) & 1
Bit(n) == (k \div Weight[n]) % 2

Init ==
  /\ k \in Scalars
  /\ i = Bits
  /\ r0 = Infinity
  /\ r1 = Base
  /\ pc = "start"

\* return JP_INFINITY if k.zero?
ZeroScalar ==
  /\ pc = "start"
  /\ k = 0
  /\ r0' = Infinity
  /\ pc' = "done"
  /\ UNCHANGED <<k, i, r1>>

\* Mutant: the registers start as base and infinity.
EnterSwapped ==
  /\ pc = "start"
  /\ k # 0
  /\ r0' = Base
  /\ r1' = Infinity
  /\ pc' = "loop"
  /\ UNCHANGED <<k, i>>

Enter ==
  /\ pc = "start"
  /\ k # 0
  /\ r0' = Infinity
  /\ r1' = Base
  /\ pc' = "loop"
  /\ UNCHANGED <<k, i>>

IterateZero ==
  /\ pc = "loop"
  /\ i > 0
  /\ Bit(i - 1) = 0
  /\ r1' = Add(r0, r1)
  /\ r0' = Double(r0)
  /\ i' = i - 1
  /\ UNCHANGED <<k, pc>>

\* Mutant: r1 is doubled before it is added to r0.
IterateOneDoublesFirst ==
  /\ pc = "loop"
  /\ i > 0
  /\ Bit(i - 1) = 1
  /\ r1' = Double(r1)
  /\ r0' = Add(r0, r1')
  /\ i' = i - 1
  /\ UNCHANGED <<k, pc>>

IterateOne ==
  /\ pc = "loop"
  /\ i > 0
  /\ Bit(i - 1) = 1
  /\ r0' = Add(r0, r1)
  /\ r1' = Double(r1)
  /\ i' = i - 1
  /\ UNCHANGED <<k, pc>>

Return ==
  /\ pc = "loop"
  /\ i = 0
  /\ pc' = "done"
  /\ UNCHANGED <<k, i, r0, r1>>

Next == ZeroScalar \/ Enter \/ IterateZero \/ IterateOne \/ Return

SafeSpec == Init /\ [][Next]_vars

\* Nothing blocks or suspends the loop.
Spec == SafeSpec /\ WF_vars(Next)

-----------------------------------------------------------------------------
TypeOK ==
  /\ k \in Scalars
  /\ i \in 0..Bits
  /\ r0 \in Points
  /\ r1 \in Points
  /\ pc \in {"start", "loop", "done"}

\* The invariant the code's comment claims at every turn of the loop: r1 is
\* r0 plus the base point, also where that wraps around to infinity.
RegistersDifferByBase ==
  pc = "loop" => Log(r1) = (Log(r0) + 1) % N

\* r0 is the multiple asked for by the bits consumed so far.
PrefixComputed ==
  pc = "loop" => Log(r0) = (k \div Weight[i]) % N

CONSTANTS Pending, Rejected
ASSUME PendingAssumption == Pending \notin 0..N - 1

\* The ladder is a scalar multiplication that comes back, also for scalars it was
\* not written for (k >= N, up to Bits bits): the result is the multiple k mod N.
Promise == INSTANCE ScalarMult
  WITH Strict <- FALSE, out <- IF pc = "done" THEN Log(r0) ELSE Pending

IsScalarMult == Promise!Spec

=============================================================================
