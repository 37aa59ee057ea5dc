# A model of secp256k1-native

TLA+ modules, TLC configurations and TLAPS proofs about this gem: elliptic-curve
arithmetic on secp256k1 in pure Ruby (`lib/secp256k1.rb`), whose hot methods a C
extension (`ext/secp256k1_native/`) replaces when it loads.

The C code is branchless on purpose: it computes every case and overrides the
wrong ones, drops carries it takes to be zero, and writes into buffers it still
reads from. The Ruby code keeps a cache that all threads of a process share, and
swaps its methods for those of the extension while others may call them. Scripts of
the repository measure, unattended and for hours, whether the compiled code is
constant-time.
What can go wrong there is rare. A carry out of bit 256 appears for a handful of
operands in 2^256, an accidental zero for one point, one interleaving in
millions. On a small word, a small curve or a small cache, all of those cases
happen and all of them are checked; what does not depend on size is proved.

Contents: 1 the system, 2 the modules, 3 the runs, 4 fairness and deadlock,
5 the proofs, 6 where code and comments differ, 7 what is not modelled, 8 the plan.

Line numbers below are those of `lib/secp256k1.rb` when no file is named.

## 1. The system

### Components, state, operations

| Component | Where | State | Operations |
|---|---|---|---|
| wNAF table cache | 305-381 | `WNAF_TABLE_CACHE`, a process-wide Hash in insertion order, at most `WNAF_CACHE_MAX` tables | lookup, size check, eviction of the oldest, building, insertion, by every thread that calls `Point#mul_vt` |
| wNAF multiplication | 327-381 | locals of one call | table of odd multiples, recoding into signed digits, accumulation |
| Ruby ladder | 413-432 | registers `r0`, `r1`, bit index | one addition and one doubling for each of 256 bits |
| Native ladder | `jacobian.c` 418-489 | the buffers `r0`, `r1` | refusal of k >= N, swap, in-place addition, doubling, swap |
| Jacobian points | 227-303, `jacobian.c` | none | `jp_double`, `jp_add`, `jp_neg`, `jp_to_affine` |
| Field and scalar arithmetic | 100-225, `field.c`, `scalar.c` | none | twelve functions that exist in Ruby and as C wrappers |
| Reduction of wide numbers | 112-122, `field.c`, `scalar.c` | limbs and carries of one call | folding at 2^256 and one conditional subtraction |
| Point objects, SEC1 | 461-736 | immutable points | construction with validation, `from_bytes`, `to_octet_string`, `add`, `negate`, `mul`, `mul_vt` |
| Backend selection, constant-time guard | 27-46, 630-645, 743-766 | which of sixteen methods are C; a permission flag | replacement at load time; the check before `mul` in pure Ruby |
| Timing statistics | `timing/dudect.c`, `timing/timing_harness.c` | running means of two classes, failures, exit code | choose a class, draw its operands, measure, add; verdict of each test, exit code |
| Constant-time gate | `nix/gate.sh`, `nix/iso.nix` | verdicts and tallies of the sweep, rows of the report, what of it is on the medium | for each compiler build, check, measure n times, aggregate, log and sync; conclude; power off or stay up |
| Build, packaging, checks | `Rakefile`, `nix/`, `security/` | none at run time | compile, compare listings, drive fuzzers |

### How they interact

`Point#mul` runs a ladder and `Point#mul_vt` the wNAF multiplication. Both work on
Jacobian triples and come back to affine coordinates with one field inversion. The
wNAF multiplication stays in Ruby but calls `jp_*` methods, which are the native
ones once the extension is loaded, and asks the cache for its table first. Every
native wrapper unpacks Ruby integers into four limbs, refuses those that do not
fit, reduces the rest, and calls an internal function that is right only for
operands below the modulus. Internal products end in the folding reductions.

There is one piece of state that threads share, the cache. It has no lock:
`docs/security.md` (192-200) asks multi-threaded callers for a mutex. The native
functions do not release the interpreter's lock, so no other Ruby thread runs
inside one of them. But a call in Ruby may meet native methods in its second half
that were not there in its first, since `require` replaces them one at a time while
other threads run.

The gate runs the timing harness as a process, reads its lines of output and its
exit code, and writes a report; a boot service runs the gate on the reference
machine, keeps the report on a USB stick and turns the machine off.

### What is hard here, and what makes each part correct

- *Cache.* Check, eviction and insertion are separate steps. Threads may pass the
  check together, evict each other's entries, build the same table twice, or die
  half-way (`Timeout`, `Thread#raise`). Whatever they do, a call must multiply with
  the complete table of its own point and window, the cache must publish complete
  tables only, its size must stay bounded, and calls must come back.
- *Recoding.* A negative digit makes the rest larger. Digits must add up to the
  scalar, fit the table, and end after at most one digit more than the scalar has.
- *Ladders.* r1 = r0 + base at every turn, also where the sum wraps around to
  infinity; the native one must undo each swap with the same bit, and add in place
  without reading what it has already overwritten.
- *Jacobian points.* An addition whose difference in x vanishes is a doubling or an
  infinity. The C code computes the general formula, the doubling and three
  overrides, in an order that matters. Both backends must give the same triple,
  because one may build what the other reads.
- *Reduction.* Carries out of bit 255 after the second and third fold decide
  whether the result is right, and random tests do not produce them.
- *Boundary.* The internals have preconditions that only the wrappers establish; an
  operand equal to the modulus is zero although it is not 0.
- *Encoding.* What decodes must be on the curve, below P and of the parity asked
  for, and encode to the bytes it came from; nothing that encodes may be refused.
- *Loading and guard.* Methods are replaced one at a time, a missing one stops the
  load half-way, and the file may then be loaded again. `native?` must not be true
  too early. `mul` asks for permission and calls the ladder later; the method it
  then finds under that name may be another one.
- *Statistics.* A verdict on too few samples, or on a clock that stands still, must
  not be a pass, and each class must exercise what it stands for with every operand.
- *Gate.* Runs time out, crash, or leave out a line. Verdicts and tallies must not
  leak from one compiler to the next. Nothing unverified may read as a pass, and a
  power loss in a sweep of many hours must not cost what was finished.

`PROJECT.json` lists each hazard at its line with the properties that would catch it.

## 2. The modules

| Module | Models | Extends or instantiates |
|---|---|---|
| `WnafCache` | the cache under concurrent `scalar_multiply_wnaf` calls | |
| `ScalarMult` | abstract: a call comes back once, with the multiple k mod N, or refuses | |
| `Ladder` | the Ruby ladder over any representation of points | `ScalarMult` |
| `Jacobian` | the point formulas of both backends; the affine group law | |
| `Backend` | loading the extension method by method; the flags | |
| `MixedBackend` | the point functions in place at the moment of a call | `Jacobian`, `Backend` |
| `Points` | a program that works with `Point` and with triples while the loader runs | `MixedBackend` |
| `NativeLadder` | the C ladder, write by write | `Jacobian`; `Ladder`, `ScalarMult` |
| `Wnaf` | table, recoding and accumulation while the loader runs | `MixedBackend`; `ScalarMult` |
| `FoldReduce` | reduction by folding, on numbers; the Ruby `fred` | |
| `Limbs` | four-limb sums, differences and carry chains | |
| `LimbReduce` | the limb loops of `field.c` and `scalar.c` | `Limbs`; `FoldReduce` |
| `Wrappers` | the twelve wrappers at the Ruby/C boundary | `Limbs` |
| `Dudect` | running means, Welch's t and the verdict; the t of the sums over all samples as reference | |
| `TimingHarness` | the nine timing tests, their operands and the exit code | `Dudect`, `Limbs`; `Jacobian` |
| `Gate` | the sweep over the compilers, its report, the power | |
| `WnafCacheProofs`, `LadderProofs`, `FoldReduceProofs`, `JacobianProofs` | theorems about the module of that name | the module |
| `PointsProofs` | theorems about `Points` | `Points`, `JacobianProofs` |
| `ScalarMultProofs` | theorems about `NativeLadder` and `Wnaf` | `NativeLadder`, `JacobianProofs`; `LadderProofs`, `Wnaf` |
| `GateProofs` | theorems about `Gate` and `TimingHarness` | `Gate`, `TimingHarness` |
| `LimbReduceProofs` | theorems about `LimbReduce` and `Wrappers` | `LimbReduce`; `FoldReduceProofs`, `Wrappers` |
| `MC*` | small instances for TLC | |

### How state and actions correspond to the code

**WnafCache.** `cache` is the Hash as a sequence of entries, oldest first; `pc`,
`call`, `tbl` and `victim` are a thread's position and locals; `lock` is the mutex a
caller may hold. One action is one access to the Hash: `Hit` and `Miss` for line
336, `CheckRoom` and `CheckFull` for the comparison of line 340, `Evict` for
`delete(keys.first)`, `BuildEntry` for a turn of the loop at 346, `Insert` for line
349, `Use` for the accumulation. On MRI `keys.first` and `delete` run without a
thread switch between them; on a parallel runtime they do not, and `PickVictim` and
`DeleteVictim` split the statement. `Abort` is an exception delivered to the thread
anywhere in a call. `env`, chosen at the start and never changed, says whether the
caller holds the mutex and whether eviction is split, so that one run covers the four
programs. A table is abstracted to what it was built for and how many slots are
filled.

**Ladder.** `ZeroScalar` is the early return, `Enter` sets the registers,
`IterateZero` and `IterateOne` are the two branches of an iteration. Points are a
parameter with a logarithm, an addition and a doubling. Bit weights are a constant
function (`Weight[i]` = 2^i), since the provers do not know powers.

**Jacobian.** One operator per function and backend: the Ruby ones with their early
returns, the C ones as formula, flags and selections. The affine group law (chord,
tangent, infinity) is written separately, as the reference.

**Backend.** `loader` is the position of the thread that requires the file.
`Replace`, `MethodMissing` and `MarkNative` are turns and end of the loop at 754-760,
`NoExtension` the rescue; `RequireAgain`, `ResetAllowed` and `Define` are a second load
after one that failed, which resets one flag, then the other, and puts the Ruby
methods back one by one. Of the
sixteen methods the four on points are kept; the field and scalar methods before
them agree in both languages (`Wrappers`). No other step waits for the loader.

**Points.** `held` and `other` are the two operands a program has, as points or, in
`call.op = "raw"`, as triples. `Point#add`, `mul` and `mul_vt` are several actions
each, so that loader steps come between the guard and the ladder, and between the
computation and `jp_to_affine`. The loops of the two multiplications are one step,
which leaves any triple of the right multiple; that they compute it is what `Ladder`,
`NativeLadder` and `Wnaf` show. Bytes are a length, a prefix and integers, which may
be larger than P. `Arguments` is what a program may pass for a coordinate: any
integer, nil, or something else. `call.expected` is the answer of the affine group law, and
`call.asked` what the guard saw: both are there for the properties.

**NativeLadder.** `jp_add_internal(r1, r0, r1)` has an output that is also an input,
so each write of its output is an action (`WriteSum`, `SelectDbl`, `SelectInf`,
`SelectP`, `SelectQ`) and `loc` holds the copies and flags taken before. `Reject` is
the range check of the wrapper.

**Wnaf.** One action per turn of the loops that build and recode; a turn of the
accumulation is three where the digit is not zero, `AccumulateDouble`, `SelectAddend`
and `AccumulateAdd`, since it calls three methods. Each call takes `jp_double`,
`jp_add` or `jp_neg` as the loader has left it at that moment. The table is always
built here; `WnafCache` shows that a cached table is the same one.

**FoldReduce, Limbs, LimbReduce.** `FoldReduce` has a fold and a subtraction on
numbers. `LimbReduce` takes the C loops carry by carry: double-width accumulators
wrap at Word^2, limbs that the code ignores are really dropped. `modulo` says which
of the two functions runs.

**Wrappers.** `Refuse` is `rb_to_uint256`: the type is looked at before the size, and
the first operand before the second. `UnpackAndReduce` establishes the internals'
precondition, `Compute` is the internal on limbs, and the powers (inverses, square
root) iterate over exponent bits. Products and reductions are taken to be right here;
that is what `LimbReduce` checks and `LimbReduceProofs` proves.

**Dudect, TimingHarness.** Doubles are exact fractions and the clock is any clock:
`Measure` draws a class, a duration and one of the operands of that class, and adds
to the running statistics as `dudect_add` does; `Report` is the end of a test, with
the failures of a group handed to `main` after its last. The operands are the
expressions of the source with its constants scaled to the width of a limb, and
`Exercises` evaluates for every one of them the condition that the function under
test computes without a branch. `samples` is kept for the reference: number, sum and
sum of squares of the measurements, the naive approach whose cancellation in floating
point is why `dudect.c` uses Welford's.

**Gate.** One action per thing that may fail: `Skip` (not on the PATH, build or
staging failed), `Misattributed`, each of the `Checks`, `AcceptRun` and `DiscardRun`
for the runs of the harness, `Aggregate` for awk, `Verdict` for the row of the report,
`Sync` for the `sync` in `log`. `leaky` says which strict functions leak in the code
of which compiler; it is chosen at the start. `report` holds the rows that matter and `synced` how
many are on the medium. `PowerLoss` and `StickFills` happen at any time. `sink` says
what became of the stick, and `PowerOff` is the end of the boot service. `complete`
and `flawless` count what really happened, for the properties.

Definitions whose comment begins with *Mutant* are not part of any specification.
Each is a plausible slip in the code (a lost carry, an off-by-one, a missing reset)
which, put in place of the definition it follows, violates the property that
`PROJECT.json` names under `mutants`.

## 3. The runs

`tlc -config <cfg> <module>` in this directory. The times are those of two workers.

**MCWnafCache** (60,060 states, half a minute). Two threads, two points, windows 1
and 3, a cap of two tables, all four environments. Four keys compete for two places,
so every call may find the cache full, and tables of different length exist for one
point. Two threads reach every pairwise race; a third adds one more to the overrun,
which the theorem gives for any number. Checked: with the mutex the documented bound
holds (`MutexKeepsBound`); without it, on a runtime that does not split eviction, the
cap is exceeded by at most the number of threads less one (`OverrunBounded`); a call
multiplies with the complete table of its own point and window (`UsesRightTable`);
only complete tables are ever published, also by calls that died
(`CachedTablesComplete`); eviction in order of insertion (`EvictsOldestFirst`); every
call comes back (`CallsReturn`).

**MCWnafCache_doc_bound** (finds a violation). Two threads without a mutex and a cap
of one: the documented bound fails. See section 6.

**MCLadder** (1,272 states). Order 31, seven bits, so scalars run to four times the
order; two representations of each point. Registers differ by the base at every turn
(`RegistersDifferByBase`), and the loop refines `ScalarMult`, which says that the
result is k mod N, with its liveness (`IsScalarMult`).

**MCPoints** (197,278 states, one to two minutes). The curve y^2 = x^3 + 3 over 7 elements
has the prime order 13: as on secp256k1 no point has y = 0, P is 3 modulo 4, and P
and N differ. Integers reach 9, so 0, 1 and 2 have second names above P. Scalars are
negative, zero, N and above N. Three extensions: none, a full one, and one that lacks
`jp_neg`, whose load stops after two methods and starts again. The program reaches
every triple of every point, infinity's many representations included. Uncompressed
bytes come with every pair of coordinates, compressed ones with every x and prefix,
and `from_coordinates` is called with every pair of integers from -1 to 9, nil and an
object of another type: what is accepted is the right point, and what is refused is
none (`DecodesExactly`); `add`, `negate`, `mul` and `mul_vt` are the group law whatever
mixture of methods they meet (`PointsAreTheGroup`); `native?` tells the truth
(`NativeMeansAll`); the Ruby ladder runs only for a program that has allowed it
(`LadderIsGuarded`); and on all triples both backends compute the group law
(`RubyIsGroupLaw`, `NativeIsGroupLaw`) and double and add to the same triple
(`SameTriples`). Three bounds on the search: it does not go on from states in which a
program holds triples and also has permission for `mul`, since nothing it can do with
triples reads the permission; and it goes on with a multiplication, or after a refused
argument, only where the other operand is infinity, since neither reads nor changes it.

**MCNativeLadder** (20,124 states). The curve y^2 = x^3 + 2 over 13 elements, of order
19; all its base points and all scalars of six bits, most of them out of range. That the
points form a cyclic group (`CyclicAssumption`) is evaluated here. In-place addition
equals the addition in separate buffers (`AliasingIsHarmless`), each iteration is one
of the Ruby ladder (`TakesRubySteps`), and the call is a scalar multiplication that
refuses k >= N and comes back (`IsScalarMult`).

**MCWnaf** (105,383 states, half a minute). The curve y^2 = x^3 + 7 over 43 elements, of
order 31, one base (the order is prime, so its multiples are all points), scalars of six bits, windows 1, 2, 3 and 5, the
three extensions above with loader steps between any two steps of the call. The odd
multiples of window 5 run up to the order, so the table holds opposite points and,
last, infinity; window 1 is the degenerate one with a single entry. The recoding is
exact at every turn, digits and rest making the scalar (`RecodingExact`), non-adjacent (`NonAdjacent`), at most one digit
too long (`DigitsBounded`); the call refines `ScalarMult`, for k >= N too, and comes
back (`IsScalarMult`).

**MCFoldReduce_ruby** (262,144 states). A word of 8 bits with C = 15, for which two
folds are just enough, on every input of two words: no fold changes the residue, each
narrows as far as it must, the result is canonical.

**MCLimbReduce** (655,360 states, three quarters of a minute). Limbs of two bits,
P = 253 and N = 235: all products of two four-limb numbers and all eight-limb
numbers. The constants keep the real proportions where they matter: C_N^2 is 1.7
times Word^4, as c_N^2 is 1.6 times 2^256, so the residual fold of `scalar.c` does
carry out of the top limb, and the second fold of `field.c` does too. Carries that
are dropped are zero (`CarriesDie`, `DroppedLimbsEmpty`), each loop is one fold on
numbers (`FoldsNumbers`, a refinement of `FoldReduce`), and the result is the residue
(`IsReduction`).

**MCWrappers** (1,021,304 states, half a minute). Limbs of two bits, P = 251 and
N = 239. Every wrapper is called with every integer from -2 to 2^256 + 1 (257 here)
and with a non-integer; `fred` also around the double width. A call returns what the
Ruby function returns, or raises for an operand that is no integer or out of range,
and for nothing else (`MatchesRuby`); inverses are inverses, and the
multiples of the modulus, the modulus itself included, are refused
(`InverseOrRefusal`); `fsqrt` returns nil exactly when there is no root
(`RootOrNil`).

**MCTimingHarness** (22,769 states, a few seconds). Limbs of two bits, P = 253 and N = 234, every
operand that the expressions of the nine tests can produce at that width, five
measurements a test, durations 1, 2 and 9. Five measurements put from none to five
into a class, so undefined statistics happen; the durations make flat, marginal and
clear differences and a clock that stands still. Each operand exercises what its
class stands for (`ClassesContrast`); the harness exits 0 exactly if its self-checks
held and each test has two samples in each class and a Welch's t, computed from
the plain sums over all of them, below 4.5 (`ExitIsEarned`).

**MCGate** (681,772 states). Two compilers, two runs each, one function of each tier
and a label the gate does not know, readings on both sides of every threshold, all
five fates of the stick. A run may lack any label, carry the unknown one or a line
that awk rejects, or be lost. Two runs are enough for one to be discarded and one
accepted, and for a label to be in one only; two compilers for a verdict to reach the
next one. The strict threshold is 50 percent instead of 5, since with two runs
anything below would allow none over. A pass has the full number of runs, a line
for every function in each, and no leak in any strict function (`PassIsEarned`; one
strict function is what the search can afford, the theorem is for any number); a compiler whose checks all
passed and whose readings all lie below the bounds of their functions is not failed
(`FailIsEarned`); the conclusion sums up the rows (`SweepSumsUp`);
finished rows survive a power loss (`RowsAreDurable`); where there is a stick, the
machine turns itself off only with a report on it, each row in its place: the whole
one, or, once the stick has filled up, the start of it (`PowersOffWithReport`).

**MCGate_full_stick** (finds a violation). The same instance: the service should stay
up when a full stick has cost it the report, and does not. See section 6.

## 4. Fairness and deadlock

`WnafCache` assumes weak fairness of each thread's own steps: Ruby gives every
runnable thread a time slice, and no step waits for another thread except a caller's
mutex, taken before the call begins. Calls that begin and exceptions are not assumed
to happen. The other modules with liveness run one call in one thread that waits for
nothing, and assume weak fairness of its next step. In `Wnaf` that is the step of the
call only: the loader may stop for good at any point, or load and fail for ever.

`Points`, `TimingHarness` and `Gate` are checked for safety and assume no fairness. The
gate has no liveness worth stating: that its steps end is the promise of timeout(1).

Modules that model one call, one harness or one sweep stop when it is over, so their
runs do not check deadlock. `WnafCache` and `Points` never stop, and theirs do.

## 5. The proofs

`tlapm <module>` on `WnafCacheProofs`, `LadderProofs`, `JacobianProofs`,
`ScalarMultProofs`, `FoldReduceProofs`, `LimbReduceProofs`, `PointsProofs` and
`GateProofs`. They hold for every value of the constants that meets the named
assumptions; TLC evaluates those assumptions on the instances above. Every safety
invariant and action property of a passing run is proved, with one exception
(`ClassesContrast`, see the end of this section).

Recursive functions (the multiples of a point, the value of digits, powers, Euclid's
algorithm) are handled without an induction theorem: that the function exists is shown
by a witness or by the least length at which it would not, and what it computes by the
least argument at which it would be wrong (`Least`, from the well-foundedness of <).

**The formulas** (`JacobianProofs`): any prime P above 3 (`PrimeAssumption`: every
element but zero has an inverse), any B, any curve without a point of y = 0
(`OddOrderAssumption`, the order being odd).

- `FormulasAreTheGroupLaw`: on every pair of triples of the curve's points, equal,
  opposite and infinite ones included, `jp_double`, `jp_add` and `jp_neg` of both
  backends make triples of the curve's points, and those points are the ones that
  chord and tangent give. A triple is written as `Scaled(x, y, z)`, residues of
  integers, so that the identities are identities of polynomials over the integers
  (`DoubleScaled`, `AddScaled`) and only their ends are taken modulo P.
- `GroupCloses`: chord and tangent of two points of the curve are on the curve.

**The cache** (`WnafCacheProofs`): any finite set of threads, any points, windows of 1
to 32 bits, any cap, any set of environments.

- `Typing`: type correctness, inductive as it stands.
- `MutexBound`: the documented bound under the mutex, even where eviction is split.
  The bound alone is not inductive, because a thread about to insert must know that there
  is room. `MutexInv` adds what the owner of the lock knows at each of its program
  points: a full cache is not empty before eviction, the victim is the head of the
  cache, there is room while it builds. All of it rests on the owner being the only
  thread inside.
- `OverrunIsBounded`: without a mutex. `OverrunInv` counts the threads that have
  passed the check and not yet inserted: cache length plus that number stays below
  cap plus threads. A thread that finds room adds one to the count when the
  others are at most threads - 1; an evicting thread takes one entry out first, and
  an evicted empty cache is harmless. With one thread this is the documented bound.
- `RightTable` and `TablesComplete`: `UsesRightTable` and `CachedTablesComplete` by way
  of `TableInv`: a table being built belongs to its call, and whatever the cache holds is
  complete and under its own key. This is where it matters that the key names both
  window and point.
- `OldestFirst`: the action property `EvictsOldestFirst`. It needs `KeysDistinct`, that
  no key is filed twice though two threads may build the same table, and what
  `MutexInv` knows of the victim: then the entry that leaves is the head, and the keys
  after it are the tail.

**The Ruby ladder** (`LadderProofs`): any order above one, any number of bits, any
representation of points whose addition and doubling are the group operations
(`GroupAssumption`). `LadderTyping`, `LadderRegisters` and the lemma `LadderCorrect`
(the result is k mod N) follow from one inductive invariant: types, r1 = r0 + base, and `PrefixComputed`, that r0 is the
multiple asked for by the bits consumed so far. The step from one prefix to the next
is `PrefixStep` and `Residue` arithmetic. `LadderImplements`: initial states and steps
of the ladder are those of `ScalarMult` or invisible to it.

**The C ladder** (`ScalarMultProofs`, first part): any curve, any number of bits.

- `AliasingHarmless`: `MemInv` says at each write of `jp_add_internal` what `r1` holds
  by then (`AfterDbl`, `AfterInf`, `AfterP`), that `r0` is untouched, and that the locals
  are still those computed from both buffers. It assumes nothing about the curve.
- `StepsOfTheRubyLadder`: `PointsInv` adds that outside the iteration the buffers are
  triples of the curve, the scalar is in range, and a zero scalar has left infinity;
  `RubyStep` maps the last write of an iteration to a turn of the Ruby ladder and every
  other to a stutter.
- `NativeIsScalarMult`: `LadderCorrect` is then used through that refinement
  (`NativeResult`), after showing that triples meet its `GroupAssumption`.

What they rest on: the logarithm to a finite point takes sums to sums modulo N
(`CyclicAssumption`), which is what it means that the group is cyclic of prime order;
that it is one, associativity in particular, is taken from mathematics. TLC evaluates it
on every pair of points of the curve of order 19. That triples compute in this group is
`FormulasAreTheGroupLaw`.

**The wNAF call** (`ScalarMultProofs`, last part): any scalars, bases and windows, any
extension, the loader at work between any two steps. It is in this module because it
needs the same facts about triples; `Call` is `Wnaf`.

- `WnafIsScalarMult`: the call refines `ScalarMult`. `TableInv` says that the entry at
  place n is a triple of 2n - 1 times the base. `RecodeInv` carries the recoding: there
  is a chain of rests, one for each digit, from the scalar down to what is left, each
  twice the next plus its digit. In the accumulation the accumulator is a triple of
  the rest at its place. Both backends return the same triple (`CallAdds`) or, for
  `jp_neg`, one of the same point (`CallNegates`), so a mixture does no harm.
- `DigitsAreSparse`: `[]Call!NonAdjacent`. `NonAdjacent` alone is not inductive. `ZerosInv` adds that after a
  digit the rest still has as many zero bits as the window reaches further.
- `RecodingLosesNothing`: `[]Call!RecodingExact`, by what a digit adds to the value of
  the digits before it (`ValueGrows`).
- `DigitsAreFew`: `[]Call!DigitsBounded`. `BoundInv` bounds the rest by 2 to the bits that are left. It is
  reached, because a negative digit rounds up, and costs the one digit more.

The powers of two enter through `ShiftAssumption` (the provers know no
exponentiation).

**Folding** (`FoldReduceProofs`): any word R and constant C with C^2 + 2C <= R and two
folds (the field: C has 33 bits) or C^2 <= 2R, 4C <= R and three (the order: C has 129
bits). `FoldKeepsResidue` needs R = C modulo M; `FoldNarrows` bounds each fold from
the one before; `FoldReduces` concludes that one subtraction is enough. Inputs are
below R^2; section 6 says what happens above.

**Limbs** (`LimbReduceProofs`): words of any even size above two, any `FRED_C` of one
limb and `C_N` of two limbs and a bit with C_N^2 <= 2 * 2^256 and 4 * C_N <= 2^256
(`ScalarAssumption`; for this order the square is 1.6 times 2^256).

- The lemmas say what a loop makes of the number that its limbs stand for: a `Chain`
  adds and hands the rest on as its carry (`ChainFacts`), `uint256_sub` borrows exactly
  when it must (`SubFacts`), rows make the product (`RowFacts`, `ProductFacts`), and
  `fold_limb` adds a limb times `C_N` without losing its two carries (`FoldLimbFacts`).
  Each shows as well that no accumulator wraps around.
- `LimbInvariant`: `LInv` ties both levels together. The limbs are limbs, those that a
  loop has emptied are zero (`Emptied`), what is dropped is zero, and the number they
  stand for satisfies the inductive invariant of `FoldReduceProofs`. The bounds of the
  numbers are what makes the carries vanish, and the carries must vanish for the step
  to be a fold; neither holds on its own.
- `CarriesVanish`, `NothingDropped` and `LimbsReduce` are read off `LInv`;
  `LimbsFoldNumbers` is the refinement, every loop a step of `FoldReduce`.
- `WrappersMatchRuby`: `[]Boundary!MatchesRuby`, the twelve wrappers but the powers
  return what the Ruby functions return, and raise only for operands that are no
  integers or out of range (`Boundary` is `Wrappers`; its invariant is
  `CallInv`). It is here because sums, differences and negations are these limb loops.
  What it adds is that one correction is enough for canonical operands
  (`SumFacts`, `DifferenceFacts`, `NegationFacts`), and that the wrapper made them
  canonical.

**Inverses and roots** (`LimbReduceProofs`, last part): any two moduli that have an
inverse for every residue but zero (`PrimesAssumption`), P being 3 modulo 4.

- `InversesAreInverses`: `[]Boundary!InverseOrRefusal`. `PowerInv` says that after each
  bit of the exponent the result is the power with the bits consumed so far
  (`PowerSoFar`); at the end that is x^(m - 2), and by `Fermat` it is the inverse.
- `RootsAreRoots`: `[]Boundary!RootOrNil`. The candidate x^((P + 1) / 4) squares to x where
  x has a root, and the last comparison tells.
- `Fermat` is proved, not assumed: the powers of x repeat (`OrderExists`), the residues
  fall into orbits of equal size (`OrbitSize`), so the order of x divides m - 1
  (`OrderDivides`).

**Loading and the guard** (`PointsProofs`): any curve, scalars, program and set of
extensions. `LoaderInv` is inductive: types, `ReplacedSoFar` (the loader has
replaced what lies before it in the list), `NativeIsFinal` (with the flag set it has
nothing left to do, so nothing takes a method back), and `NativeMeansAll`. Only
together do they carry a load that fails and starts again. `NativeTellsTheTruth` follows.
For `LadderNeverUnguarded` it takes `GuardHolds` besides: between guard and ladder the
program is in Ruby, and all it knows is that the extension was there or that it
was allowed; because `native` is never taken back, the ladder it then meets is the
native one in the first case.

**Points** (`PointsProofs`):

- `BackendsAgree`: on any triples both backends double and add to the same triple. The
  order of the selections in C is that of the early returns in Ruby, and the last
  selection is the first return (`SelectionsAreEarlyReturns`).
- `PointsAnswerTheGroupLaw`: what `add`, `negate`, `mul` and `mul_vt` answer is the group
  law, whatever the loader did between their steps. `GroupInv` says that operands are
  points or triples of the curve, and that a call in progress holds triples that
  stand for the answer.
- `RubyComputesTheGroupLaw`, `NativeComputesTheGroupLaw`: on all triples a program can
  come by, both backends compute the group law, `jp_neg_internal` included, which makes
  another triple of infinity. (`NativeIsRightWhereRubyIs` derives the second from the
  first.)
- `DecodingIsExact`: what `from_bytes` accepts encodes to the bytes it came from, and
  what it refuses is the encoding of no point; `from_coordinates` accepts just the
  coordinates of points, out of anything a program may pass. Assumed: nil is no
  integer, `fsqrt` finds a root where there is one (`SquareRootsAssumption`;
  `RootsAreRoots` shows it of the C function), no point has y = 0 (`OddOrderAssumption`, or a parity would be
  asked for that neither root has), and an exception is no point.
- `MulNeverRaises`: `mul` has reduced its scalar before it meets the range check of the
  C ladder, whatever integer the program passes.

**The gate** (`GateProofs`): any number of compilers and runs, any functions and
readings, thresholds below 100 percent, any fate of the stick.

- `RowsSurvive` and `OffWithReport` rest on `ReportInv`: on a stick the row of the n-th
  compiler is at its place in the report, also when the stick has filled up or the
  power failed (`RowsInPlace`), and until it fills up so many rows are written and so
  many are safe at each point of the sweep (`RowsSoFar`). That compilers differ makes
  the row the only one. `OffWithReport` says of a stick that has filled up only that
  its report is a start of the whole one and not empty; it promises no more, since the
  service does not (section 6).
- `LeaksNeverPass` rests on `TallyInv`: awk's counts fit the runs; if some accepted run
  lacked a label, some label is short for good (`IncompleteIsShort`); a strict
  function that leaks is over the threshold in each of its lines (`LeaksShow`, from the
  assumption that a branch compiled in shows in every run, as `gate.sh` has it).
- `QuietPasses` rests on `QuietInv`: as long as nothing went wrong with this compiler,
  every function has a line for each run, its sum lies below the bound times the runs,
  its maximum below the bound and its count of crossings at zero (`WithinBounds`),
  whatever an earlier compiler left in the variables (`QuietSoFar`).
- `SweepAddsUp` rests on `SumInv`: until the stick is full the exit code agrees with the
  rows (`CodeFitsRows`), and a conclusion is the last row or not there
  (`ConclusionIsLast`), so a full stick or a power loss can only remove it.

**The harness** (`GateProofs`, last part): any clock that counts in whole numbers, any
number of measurements, any word and curve.

- `HarnessExitIsEarned`: the exit code is 0 just when every test was flat by the plain
  sums over its measurements. `StatisticsInv` says that Welford's means and sums of squares
  are those of the sums (`AddSummed`: the identity is `SquaresGrow`), as fractions in
  lowest terms, which needs Euclid's algorithm to divide (`EuclidDivides`). It also says
  that the sum of squares is not negative; without it the sign of a denominator would be
  open. `VerdictIsExact` compares the two t-statistics, undefined ones included.
  `VerdictsInv` carries the verdicts through groups to the exit code.

**Only model-checked.**

- Liveness, and the fairness in `IsScalarMult`: the provers have no ENABLED. What is
  proved of it is the safety part, `Promise!SafeSpec`.
- `ClassesContrast`: operands that are written with the constants of one width, limb by
  limb; for another width other constants would have to be chosen. That 3G and 5G share
  no abscissa is a fact about the group that the proofs do not reach.
- That the points of the curve are a cyclic group (`CyclicAssumption`), and that the
  constants of secp256k1 meet the assumptions (that P and N are prime, that the curve
  has N points).

## 6. Where code and comments differ

Two differences have a run of their own.

- The comment of the cache (312) says "Bounded at WNAF_CACHE_MAX entries". Two
  threads that pass the check together leave it one above the cap, and it stays
  there, since every later miss takes one out and puts one in. With the mutex of
  `docs/security.md` the sentence is true, and proved.
- The service of `nix/iso.nix` is to power off "only when we're sure the report is
  safe", and to stay up when it did not persist because the stick is "full" (71-75). The
  test at 126 asks for a report that is not empty, and the header, written before the
  first compiler, makes sure of that: a stick that fills up later loses rows and
  conclusion, and the machine turns itself off (`OffOnlyWithReport`).

Others were met while modelling and have no run:

- The comment of `fred` (110-111) promises a result in [0, P) for any non-negative
  integer. Two folds reduce 512 bits; `fred(2**768 - 1)` is not reduced. `Point`
  objects hold coordinates below P, whose products have 512 bits at most, and the C
  `fred` refuses more.
- `field.c` 366 says of the correction of a borrow that the carry is 0; it is always 1,
  and rightly dropped.
- `scalar.c` 206-208 bounds the value after two folds by 2^257; it can reach
  2.6 * 2^256. The top carry is still one bit.
- `jacobian.c` 301 says `jp_neg_internal` matches the Ruby function exactly. It turns the
  infinity [0, 1, 0] into [0, P - 1, 0], which is the same point.
- Line 149-150 says that backends agree for all non-negative inputs; the native
  functions raise from 2^256 up.
- `docs/security.md` (196) says that the lock is released during C calls. Nothing in
  the extension releases it; threads race on the cache because they may be switched
  between Ruby statements. It also names `mul`, which does not use the cache.
- The upper half of a wNAF table is built and never read: digits reach half as far.
- `nix/gate.sh` 272 says that an artefact of another compiler is not a SKIP and reds the
  gate. If it is the only one that builds, the sweep ends in "NO COMPILERS BUILT" and
  exits 2, though line 43 promises 1. It is not a pass either way.
- `nix/gate.sh` 260 says that staging fails closed; what it logs is SKIPPED, which alone
  fails nothing. The compiler is not passed either.
- `nix/gate.sh` 22 says that every step has a timeout; `$cc -dumpversion` and
  `$cc --version` have none.
- `timing_harness.c` 694 says that class 1 of the test of `scalar_reduce` exercises the
  carry out of the top; that depends on the low half, which is random.
- `timing_harness.c` 330 draws for `fneg` values near P that may be P itself, one in
  65,536; the result is still right.

## 7. What is not modelled

- *Time*: how long anything takes and whether the compiled code is constant-time. The
  harness is modelled with an arbitrary clock, and its doubles as exact fractions:
  rounding of the running means is left out.
- *Size*: TLC sees words of 8 bits, fields of 7, 13 and 43 elements. Properties of these
  particular constants (that P and N are prime, that the order is N) are assumed.
- *Memory*: bounds and lifetimes of C buffers, `secure_zero`, exceptions raised by
  Ruby's allocator inside wrappers.
- *Jacobian wrappers with unreduced coordinates*: `Points` hands on what calls
  return, and those are canonical.
- *A Hash torn by a parallel runtime*: one operation on the Hash is one step.
- *Of `Point`*: `==`, `hash` and the memoised generator, which are equality and
  constants here; errors for operands of a wrong type.
- *Of the gate*: the text of the report, the diagnostics of the machine's state, and
  that steps end.
- *Assembly checks*: text processing of compiler listings. *Differential and memory
  checks* (`dfuzz`, `ctgrind`, `asan`): drivers without state of their own, which call
  functions modelled here. *Build and packaging*: no behaviour at run time.

## 8. The plan

Order of work, the most important behaviour first. Steps 1 to 12 are done.

1. `WnafCache` and its proofs, the one place where threads meet.
2. `ScalarMult` and `Ladder` with proofs; `NativeLadder` refining them.
3. `Jacobian`, what the ladders stand on.
4. `Wnaf`, the other multiplication.
5. `FoldReduce` with proofs; `Limbs` and `LimbReduce` refining it.
6. `Wrappers`, the boundary.
7. `Backend` and `MixedBackend`: loading method by method, and again; the call of
   `Wnaf` composed with it.
8. `Points` with proofs: encoding, group operations and the guard under the loader.
9. `Dudect` and `TimingHarness`: statistics, operands and exit code.
10. `Gate` with proofs: verdicts, report and power.
11. Proofs: `NativeLadder` refines `Ladder` and `Wnaf` refines `ScalarMult` for every
    curve and window; `LimbReduce` refines `FoldReduce` for every word; the wrappers;
    decoding; the order of eviction; no compiler fails for another's fault.
12. Proofs: the formulas of `Jacobian` compute chord and tangent in every prime field,
    and from that `PointsAreTheGroup`; the value of wNAF digits; inverses and roots by
    Fermat's little theorem; the running statistics of `Dudect` and the exit code.
13. Open: that chord and tangent make a group; Jacobian wrappers on unreduced coordinates;
    the classifier of `check-ct-assembly.rb`.
