-------------------------------- MODULE Gate --------------------------------
(***************************************************************************)
(* nix/gate.sh, the unattended sweep that builds the extension with each   *)
(* compiler, checks it and measures it a number of times with the timing   *)
(* harness, and the boot service of nix/iso.nix that runs it on the        *)
(* reference machine, writes its report to a USB stick and powers off.     *)
(*                                                                         *)
(* Anything that runs may fail or hang; timeout(1) turns the second into   *)
(* the first.  The power may fail between any two steps.                   *)
(***************************************************************************)
EXTENDS Integers, Sequences, FiniteSets, SequencesExt

CONSTANTS
  Compilers,                  \* GATE_COMPILERS, a sequence
  Runs,                       \* GATE_DUDECT_RUNS
  Strict, Artefact, Lenient,  \* the labels of STRICT_RE, of ARTEFACT_RE, the others
  Unknown,                    \* labels the gate does not know
  Readings,                   \* the |t| that each label may show, as integers
  OverPct,                    \* GATE_STRICT_OVER_PCT
  ArtefactMean, LenientMean, LenientMax,
  Sinks,                      \* the ways the report may be kept, see below
  None

ASSUME RunsAssumption == Runs \in Nat \ {0}
ASSUME CompilersAssumption ==
  /\ Compilers \in Seq(Range(Compilers))
  /\ IsInjective(Compilers)
  /\ None \notin Range(Compilers)
\* Some function is strict, and not all runs of one may be over the threshold.
ASSUME StrictAssumption ==
  Strict # {} /\ Strict \cap (Artefact \cup Lenient) = {} /\ OverPct \in 0..99

Expected == Strict \cup Artefact \cup Lenient
Labels == Expected \cup Unknown

ASSUME ReadingsAssumption ==
  /\ Labels \subseteq DOMAIN Readings
  /\ \A label \in DOMAIN Readings : Readings[label] \subseteq Nat
ASSUME BoundsAssumption == ArtefactMean \in Nat /\ LenientMean \in Nat /\ LenientMax \in Nat

\* Where the report goes: to a mounted stick that takes every write, no write
\* ("readonly") or those before it fills up ("filling"); to memory because the
\* stick cannot be mounted, or because there is none.
AllSinks == {"stick", "readonly", "filling", "unmountable", "absent"}

ASSUME SinksAssumption == Sinks \subseteq AllSinks

VARIABLES
  sink,        \* what became of the stick
  full,        \* has it filled up?
  leaky,       \* <<compiler, label>>: its code of this strict function leaks
  pc,
  cc,          \* the number of the compiler under test
  overall_rc, built, cc_pass,
  stage,       \* the check or the run that comes next
  runs_ok,
  seen,        \* what awk sums up of the accepted runs, label by label
  rejected,    \* was there a line it could not use?
  report,      \* the rows in the report
  synced,      \* how many of them are on the medium for good
  complete,    \* for the properties: runs with a usable line for every label, and ...
  flawless     \* ... has nothing gone wrong with this compiler?

sweep == <<cc, overall_rc, built>>
tally == <<runs_ok, seen, rejected>>
ghosts == <<complete, flawless>>
disk == <<report, synced, full>>
vars == <<sink, full, leaky, pc, cc, overall_rc, built, cc_pass, stage, runs_ok, seen,
          rejected, report, synced, complete, flawless>>

Nothing == [label \in {} |-> 0]

Init ==
  /\ sink \in Sinks
  /\ full = FALSE
  /\ leaky \in SUBSET (Range(Compilers) \X Strict)
  /\ pc = "boot"
  /\ cc = 1
  /\ overall_rc = 0 /\ built = 0 /\ cc_pass = 1
  /\ stage = 1
  /\ runs_ok = 0 /\ seen = Nothing /\ rejected = FALSE
  /\ report = << >> /\ synced = 0
  /\ complete = 0 /\ flawless = TRUE

Writable == sink # "readonly" /\ ~full

\* log: tee -a, then sync.  The rows are what is logged at the end of a
\* compiler and of the sweep; the other lines only tell of the way there.
Log(row) == report' = IF Writable THEN Append(report, row) ELSE report

HeaderRow == [compiler |-> None, word |-> "header"]

\* The header truncates what an earlier run left.
Header ==
  /\ pc = "boot"
  /\ report' = IF Writable THEN <<HeaderRow>> ELSE << >>
  /\ synced' = Len(report')
  /\ pc' = "compiler"
  /\ UNCHANGED <<sink, full, leaky, sweep, cc_pass, stage, tally, ghosts>>

RowOf(word) == [compiler |-> Compilers[cc], word |-> word]

-----------------------------------------------------------------------------
(* One compiler *)

More == pc = "compiler" /\ cc <= Len(Compilers)

\* Not on the PATH, or the build or its staging failed.
Skip ==
  /\ More
  /\ Log(RowOf("SKIPPED"))
  /\ pc' = "sync"
  /\ UNCHANGED <<sink, full, leaky, sweep, cc_pass, stage, tally, synced, ghosts>>

\* Mutant: an artefact that another compiler built does not red the gate.
MisattributedUnnoticed ==
  /\ More
  /\ Log(RowOf("FAIL"))
  /\ pc' = "sync"
  /\ UNCHANGED <<sink, full, leaky, sweep, cc_pass, stage, tally, synced, ghosts>>

\* The staged .so is of another compiler's major version.
Misattributed ==
  /\ More
  /\ overall_rc' = 1
  /\ Log(RowOf("FAIL"))
  /\ pc' = "sync"
  /\ UNCHANGED <<sink, full, leaky, cc, built, cc_pass, stage, tally, synced, ghosts>>

\* Mutant: the verdict on the compiler before is kept.
BuiltKeepsVerdict ==
  /\ More
  /\ built' = built + 1
  /\ stage' = 1
  /\ runs_ok' = 0 /\ seen' = Nothing /\ rejected' = FALSE
  /\ complete' = 0 /\ flawless' = TRUE
  /\ pc' = "checks"
  /\ UNCHANGED <<sink, leaky, cc, overall_rc, cc_pass, disk>>

Built ==
  /\ More
  /\ built' = built + 1
  /\ cc_pass' = 1
  /\ stage' = 1
  /\ runs_ok' = 0 /\ seen' = Nothing /\ rejected' = FALSE
  /\ complete' = 0 /\ flawless' = TRUE
  /\ pc' = "checks"
  /\ UNCHANGED <<sink, leaky, cc, overall_rc, disk>>

\* The assembly check, rspec and ctgrind, in this order, whatever the ones
\* before have said; last the build of the harness.
Checks == <<"codegen", "rspec", "ctgrind", "harness">>

Check ==
  /\ pc = "checks"
  /\ \E ok \in BOOLEAN :
       /\ cc_pass' = IF ok THEN cc_pass ELSE 0
       /\ flawless' = (flawless /\ ok)
       /\ pc' = IF stage < Len(Checks) THEN "checks" ELSE IF ok THEN "runs" ELSE "verdict"
  /\ stage' = IF stage < Len(Checks) THEN stage + 1 ELSE 1
  /\ UNCHANGED <<sink, leaky, sweep, tally, disk, complete>>

\* What one run of the harness leaves: usable lines for some of the labels.
\* A strict function that leaks is over the threshold in every run.
Outputs ==
  LET Reading(label) ==
        IF <<Compilers[cc], label>> \in leaky
        THEN {t \in Readings[label] : 2 * t >= 9} ELSE Readings[label]
  IN  UNION {{lines \in [labels -> UNION {Readings[l] : l \in labels}] :
                \A l \in labels : lines[l] \in Reading(l)} :
             labels \in {Expected, Labels} \cup {Expected \ {l} : l \in Expected}}

Tallied(lines) ==
  [l \in DOMAIN seen \cup DOMAIN lines |->
    LET old == IF l \in DOMAIN seen THEN seen[l] ELSE [n |-> 0, over |-> 0, sum |-> 0, mx |-> 0]
        t == IF l \in DOMAIN lines THEN lines[l] ELSE 0
    IN  IF l \notin DOMAIN lines THEN old
        ELSE [n |-> old.n + 1,
              over |-> old.over + IF 2 * t >= 9 THEN 1 ELSE 0,
              sum |-> old.sum + t,
              mx |-> IF t > old.mx THEN t ELSE old.mx]]

\* Below each of the bounds that apply to the function.
Quiet(label, t) ==
  /\ label \in Strict => 2 * t < 9
  /\ label \in Artefact => t < ArtefactMean /\ t < LenientMax
  /\ label \in Lenient => t < LenientMean /\ t < LenientMax

NextRun ==
  /\ stage' = stage + 1
  /\ pc' = IF stage = Runs THEN "aggregate" ELSE "runs"

\* An exit code of 0 or 1 with at least one line.  unusable: there are lines
\* without a t, with nan or inf, or of too few samples; awk rejects those.
AcceptRun ==
  /\ pc = "runs"
  /\ NextRun
  /\ runs_ok' = runs_ok + 1
  /\ \E lines \in Outputs, unusable \in BOOLEAN :
       /\ seen' = Tallied(lines)
       /\ rejected' = (rejected \/ unusable)
       /\ complete' = complete + IF Expected \subseteq DOMAIN lines THEN 1 ELSE 0
       /\ flawless' = (/\ flawless /\ ~unusable
                       /\ DOMAIN lines = Expected
                       /\ \A l \in Expected : Quiet(l, lines[l]))
  /\ UNCHANGED <<sink, leaky, sweep, cc_pass, disk>>

\* A timeout, a signal, or no output.
DiscardRun ==
  /\ pc = "runs"
  /\ NextRun
  /\ flawless' = FALSE
  /\ UNCHANGED <<sink, leaky, sweep, cc_pass, tally, disk, complete>>

Fails(label) ==
  LET s == seen[label] IN
  CASE label \in Strict -> s.over * 100 > s.n * OverPct
    [] label \in Artefact -> s.sum >= ArtefactMean * s.n \/ s.mx >= LenientMax
    [] OTHER -> s.sum >= LenientMean * s.n \/ s.mx >= LenientMax

\* The END block of the awk script.
AnyFail ==
  \/ rejected
  \/ \E l \in DOMAIN seen : Fails(l) \/ l \notin Expected
  \/ \E l \in Expected : l \notin DOMAIN seen \/ seen[l].n # runs_ok

\* Mutant: the runs that were discarded are not missed.
DudectPassesShort == runs_ok > 0 /\ ~AnyFail

DudectPasses == runs_ok = Runs /\ ~AnyFail

Aggregate ==
  /\ pc = "aggregate"
  /\ cc_pass' = IF DudectPasses THEN cc_pass ELSE 0
  /\ pc' = "verdict"
  /\ UNCHANGED <<sink, leaky, sweep, stage, tally, disk, ghosts>>

Verdict ==
  /\ pc = "verdict"
  /\ Log(RowOf(IF cc_pass = 1 THEN "PASS" ELSE "FAIL"))
  /\ overall_rc' = IF cc_pass = 1 THEN overall_rc ELSE 1
  /\ pc' = "sync"
  /\ UNCHANGED <<sink, full, leaky, cc, built, cc_pass, stage, tally, synced, ghosts>>

\* Mutant: rows are left to the system to write out.
SyncNothing ==
  /\ pc = "sync"
  /\ cc' = cc + 1
  /\ pc' = "compiler"
  /\ UNCHANGED <<sink, leaky, overall_rc, built, cc_pass, stage, tally, disk, ghosts>>

\* The sync in log; then the next compiler, from a clean tree.
Sync ==
  /\ pc = "sync"
  /\ synced' = Len(report)
  /\ cc' = cc + 1
  /\ pc' = "compiler"
  /\ UNCHANGED <<sink, full, leaky, overall_rc, built, cc_pass, stage, tally, report, ghosts>>

-----------------------------------------------------------------------------
(* The end of the sweep, and the machine *)

Conclude ==
  /\ pc = "compiler" /\ cc > Len(Compilers)
  /\ overall_rc' = IF built = 0 THEN 2 ELSE overall_rc
  /\ Log([compiler |-> None,
          word |-> CASE built = 0 -> "NOTHING" [] built > 0 /\ overall_rc = 0 -> "PASS" [] OTHER -> "FAIL"])
  /\ pc' = "exiting"
  /\ UNCHANGED <<sink, full, leaky, cc, built, cc_pass, stage, tally, synced, ghosts>>

\* Mutant: a write that failed is not noticed.
PowerOffUnverified ==
  /\ pc = "exiting"
  /\ synced' = Len(report)
  /\ pc' = IF sink = "unmountable" THEN "up" ELSE "off"
  /\ UNCHANGED <<sink, full, leaky, sweep, cc_pass, stage, tally, report, ghosts>>

\* Back in the service: sync and, unless there should be a report on the stick
\* and there is none, power off.
PowerOff ==
  /\ pc = "exiting"
  /\ synced' = Len(report)
  /\ pc' = IF sink = "unmountable" \/ (sink \in {"stick", "readonly", "filling"} /\ report = << >>)
           THEN "up" ELSE "off"
  /\ UNCHANGED <<sink, full, leaky, sweep, cc_pass, stage, tally, report, ghosts>>

\* A stick keeps what was synced, and perhaps what was not yet; memory nothing.
PowerLoss ==
  /\ pc \notin {"off", "up", "dead"}
  /\ \E n \in synced..Len(report) :
       report' = IF sink \in {"absent", "unmountable"} THEN << >> ELSE SubSeq(report, 1, n)
  /\ synced' = Len(report')
  /\ pc' = "dead"
  /\ UNCHANGED <<sink, full, leaky, sweep, cc_pass, stage, tally, ghosts>>

StickFills ==
  /\ sink = "filling" /\ ~full
  /\ pc \notin {"off", "up", "dead"}
  /\ full' = TRUE
  /\ UNCHANGED <<sink, leaky, pc, sweep, cc_pass, stage, tally, report, synced, ghosts>>

-----------------------------------------------------------------------------
Next ==
  \/ Header \/ Skip \/ Misattributed \/ Built \/ Check
  \/ AcceptRun \/ DiscardRun \/ Aggregate \/ Verdict \/ Sync
  \/ Conclude \/ PowerOff \/ PowerLoss \/ StickFills

Spec == Init /\ [][Next]_vars

-----------------------------------------------------------------------------
RowsOf(compiler) == {n \in DOMAIN report : report[n].compiler = compiler}

Words == {report[n].word : n \in UNION {RowsOf(c) : c \in Range(Compilers)}}

HasConclusion == report # << >> /\ Last(report).compiler = None /\ Last(report) # HeaderRow

\* A compiler is passed only on the full number of runs with a line for every
\* function, and never when one of its strict functions leaks: no discarded run,
\* line awk cannot use or label that is missing in some run gets a leak past the
\* bounds.
PassIsEarned ==
  pc = "verdict" /\ cc_pass = 1 =>
    complete = Runs /\ \A l \in Strict : <<Compilers[cc], l>> \notin leaky

\* Nor is it failed for anything but its own: with nothing wrong in any of its
\* checks and runs, and every reading below the bounds of its function, it
\* passes, whatever became of the compilers before it.
FailIsEarned == pc = "verdict" /\ flawless => cc_pass = 1

\* The line of the sweep says PASS just when some compiler has passed and none
\* has failed, skipped and unattributable ones included.
SweepSumsUp ==
  HasConclusion =>
    (Last(report).word = "PASS" <=> "PASS" \in Words /\ "FAIL" \notin Words)

\* A power loss in the middle of the sweep costs the compiler in flight and no
\* other: each one before it has its one row on the stick.
RowsAreDurable ==
  sink = "stick" => \A n \in 1..(cc - 1) : Cardinality(RowsOf(Compilers[n])) = 1

\* The header, the row of each compiler in turn, the conclusion: each in its
\* place, as far as the report goes.
RowsInPlace ==
  \A n \in 1..Len(report) :
    report[n].compiler =
      IF n = 1 \/ n > Len(Compilers) + 1 THEN None ELSE Compilers[n - 1]

\* Where there is a stick, the machine turns itself off only with a report on
\* it: the whole one, or, of a stick that has filled up on the way, the start of
\* it, the header at least and no row missing in between.
PowersOffWithReport ==
  pc = "off" /\ sink # "absent" =>
    /\ report # << >> /\ RowsInPlace
    /\ ~full => Len(report) = Len(Compilers) + 2 /\ HasConclusion

\* What the comments of the service say (nix/iso.nix:71-75): it stays up when
\* the report did not make it to the stick, a full one included.
OffOnlyWithReport == pc = "off" => sink = "absent" \/ HasConclusion

=============================================================================
