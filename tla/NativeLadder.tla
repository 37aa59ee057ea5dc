---------------------------- MODULE NativeLadder ----------------------------
(***************************************************************************)
(* The constant-time ladder of jacobian.c on Jacobian triples: the wrapper *)
(* rb_scalar_multiply_ct and the loop of scalar_multiply_ct_internal,      *)
(* statement by statement over the two register buffers r0 and r1.         *)
(*                                                                         *)
(* jp_add_internal(r1, r0, r1) is given an output buffer that is also its  *)
(* second input, so its writes and the reads after them are steps of their *)
(* own.  The other functions write their output last, from locals.         *)
(***************************************************************************)
EXTENDS Jacobian

CONSTANTS
  Bits,   \* bits of a scalar: 256 in the code
  Weight, \* Weight[i] = 2^i
  Unset   \* what a local holds before it is assigned

ASSUME WeightAssumption ==
  /\ Bits \in Nat
  /\ Weight \in [0..Bits -> Nat \ {0}]
  /\ Weight[0] = 1
  /\ \A n \in 1..Bits : Weight[n] = 2 * Weight[n - 1]
  /\ N < Weight[Bits]

\* The group is cyclic of order N, and as N is prime every finite point
\* generates it: its logarithm takes sums of points to sums modulo N.
ASSUME CyclicAssumption ==
  \A pt \in FinitePoints :
    /\ LogOf[pt] \in [AffinePoints -> 0..N - 1]
    /\ LogOf[pt][None] = 0 /\ LogOf[pt][pt] = 1
    /\ \A qt, rt \in AffinePoints :
         LogOf[pt][ChordTangent(qt, rt)] = (LogOf[pt][qt] + LogOf[pt][rt]) % N

VARIABLES
  k,      \* the scalar, as rb_to_uint256 delivers it
  base,   \* the affine base point px, py
  i,      \* how many bits are left
  mem,    \* the buffers r0 and r1
  loc,    \* the locals of jp_add_internal
  result, \* the triple that is returned
  pc

vars == <<k, base, i, mem, loc, result, pc>>

Scalars == 0..Weight[Bits] - 1

uint256_bit(n) == (k \div Weight[n]) % 2

Init ==
  /\ k \in Scalars
  /\ base \in AffinePoints \ {None}
  /\ i = Bits
  /\ mem = [r0 |-> Unset, r1 |-> Unset]
  /\ loc = Unset
  /\ result = Unset
  /\ pc = "start"

\* Mutant: the order itself passes for a scalar.
RejectAboveOrder ==
  /\ pc = "start"
  /\ k > N
  /\ pc' = "rejected"
  /\ UNCHANGED <<k, base, i, mem, loc, result>>

\* k >= N: k - N does not borrow, ArgumentError.
Reject ==
  /\ pc = "start"
  /\ k >= N
  /\ pc' = "rejected"
  /\ UNCHANGED <<k, base, i, mem, loc, result>>

ZeroScalar ==
  /\ pc = "start"
  /\ k = 0
  /\ result' = JP_INFINITY
  /\ pc' = "done"
  /\ UNCHANGED <<k, base, i, mem, loc>>

Enter ==
  /\ pc = "start"
  /\ k \in 1..N - 1
  /\ mem' = [r0 |-> JP_INFINITY, r1 |-> Jac(base.ax, base.ay, 1)]
  /\ pc' = "swapIn"
  /\ UNCHANGED <<k, base, i, loc, result>>

CSwap(bit) == IF bit = 1 THEN [r0 |-> mem.r1, r1 |-> mem.r0] ELSE mem

SwapIn ==
  /\ pc = "swapIn"
  /\ i > 0
  /\ mem' = CSwap(uint256_bit(i - 1))
  /\ pc' = "compute"
  /\ UNCHANGED <<k, base, i, loc, result>>

\* jp_add_internal(r1, r0, r1), up to its first write: the copies p_copy and
\* q_copy, the four flags, the sum and the double.
Compute ==
  /\ pc = "compute"
  /\ LET p == mem.r0
         q == mem.r1
     IN  loc' = [p_copy |-> p, q_copy |-> q,
                 sum |-> AddFormula(p, q), dbl |-> jp_double_internal(p),
                 pz |-> p.z = 0, qz |-> q.z = 0,
                 h |-> H(p, q) = 0, r |-> Rval(p, q) = 0]
  /\ pc' = "writeSum"
  /\ UNCHANGED <<k, base, i, mem, result>>

Write(j, next) ==
  /\ mem' = [mem EXCEPT !.r1 = j]
  /\ pc' = next
  /\ UNCHANGED <<k, base, i, loc, result>>

WriteSum == pc = "writeSum" /\ Write(loc.sum, "selectDbl")

SelectDbl ==
  /\ pc = "selectDbl"
  /\ Write(Select(mem.r1, loc.dbl, loc.h /\ loc.r), "selectInf")

SelectInf ==
  /\ pc = "selectInf"
  /\ Write(Select(mem.r1, JP_INFINITY, loc.h /\ ~loc.r), "selectP")

SelectP ==
  /\ pc = "selectP"
  /\ Write(Select(mem.r1, loc.p_copy, loc.qz), "selectQ")

\* Mutant: the last selection reads q through its pointer, which is r1.
SelectQAliased ==
  /\ pc = "selectQ"
  /\ Write(Select(mem.r1, mem.r1, loc.pz), "double")

SelectQ ==
  /\ pc = "selectQ"
  /\ Write(Select(mem.r1, loc.q_copy, loc.pz), "double")

\* Mutant: r0 is doubled into r1.
DoubleOtherRegister ==
  /\ pc = "double"
  /\ mem' = [mem EXCEPT !.r1 = jp_double_internal(mem.r1)]
  /\ pc' = "swapOut"
  /\ UNCHANGED <<k, base, i, loc, result>>

\* jp_double_internal(r0, r0)
DoubleR0 ==
  /\ pc = "double"
  /\ mem' = [mem EXCEPT !.r0 = jp_double_internal(mem.r0)]
  /\ pc' = "swapOut"
  /\ UNCHANGED <<k, base, i, loc, result>>

SwapOut ==
  /\ pc = "swapOut"
  /\ mem' = CSwap(uint256_bit(i - 1))
  /\ i' = i - 1
  /\ loc' = Unset
  /\ pc' = "swapIn"
  /\ UNCHANGED <<k, base, result>>

Return ==
  /\ pc = "swapIn"
  /\ i = 0
  /\ result' = mem.r0
  /\ pc' = "done"
  /\ UNCHANGED <<k, base, i, mem, loc>>

Next ==
  \/ Reject \/ ZeroScalar \/ Enter
  \/ SwapIn \/ Compute \/ WriteSum \/ SelectDbl \/ SelectInf \/ SelectP
  \/ SelectQ \/ DoubleR0 \/ SwapOut \/ Return

\* One thread runs the call, and the GVL is not released in it.
Spec == Init /\ [][Next]_vars /\ WF_vars(Next)

-----------------------------------------------------------------------------
\* The multiple of the base that a triple stands for.
Log(j) == LogOf[base][jp_to_affine(j)]

InAddition == {"writeSum", "selectDbl", "selectInf", "selectP", "selectQ",
               "double", "swapOut"}

\* In-place addition: when jp_add_internal(r1, r0, r1) has returned, r1 holds
\* what the function returns for buffers that do not overlap.
AliasingIsHarmless ==
  pc = "double" => mem.r1 = jp_add_internal(loc.p_copy, loc.q_copy)

\* The registers as they were when the iteration began.
Registers ==
  LET now == IF pc \in InAddition THEN <<loc.p_copy, loc.q_copy>>
             ELSE <<mem.r0, mem.r1>>
  IN  IF (pc \in InAddition \/ pc = "compute") /\ uint256_bit(i - 1) = 1
      THEN <<now[2], now[1]>> ELSE now

AtStart == pc \in {"start", "rejected"} \/ (pc = "done" /\ k = 0)

Zn == 0..N - 1
ZnLog(x) == x
ZnAdd(x, y) == (x + y) % N
ZnDouble(x) == (2 * x) % N

CONSTANTS Pending, Rejected
ASSUME OutcomesAssumption ==
  Pending \notin 0..N - 1 /\ Rejected \notin 0..N - 1 /\ Pending # Rejected

\* The C loop takes the steps of the Ruby loop: its swaps, its branchless
\* addition and its doubling make one iteration.
RubyLadder == INSTANCE Ladder WITH
  Points <- Zn, Infinity <- 0, Base <- 1,
  Log <- ZnLog, Add <- ZnAdd, Double <- ZnDouble,
  r0 <- IF AtStart THEN 0
        ELSE IF pc = "done" THEN Log(result) ELSE Log(Registers[1]),
  r1 <- IF AtStart THEN 1
        ELSE IF pc = "done" THEN Log(mem.r1) ELSE Log(Registers[2]),
  pc <- CASE pc \in {"start", "rejected"} -> "start"
          [] pc = "done" -> "done"
          [] OTHER -> "loop"

TakesRubySteps == RubyLadder!SafeSpec

\* And the call as a whole is a scalar multiplication that refuses k >= N and
\* always comes back.
Promise == INSTANCE ScalarMult WITH
  Strict <- TRUE,
  out <- CASE pc = "done" -> Log(result)
           [] pc = "rejected" -> Rejected
           [] OTHER -> Pending

IsScalarMult == Promise!Spec

=============================================================================
