----------------------------- MODULE GateProofs -----------------------------
(***************************************************************************)
(* What the gate's report is worth, for any number of compilers and runs,  *)
(* any functions and readings, and any fate of the stick: a leak never     *)
(* passes, the rows of finished compilers survive a power loss, and the    *)
(* machine turns itself off only with a report on the stick: the whole one *)
(* unless the stick has filled up.                                         *)
(*                                                                         *)
(* The last part is about the harness that the gate runs, for any clock    *)
(* and any number of measurements: its exit code is what its samples say.  *)
(***************************************************************************)
EXTENDS Gate, TimingHarness, FiniteSetTheorems, WellFoundedInduction, TLAPS

-----------------------------------------------------------------------------
(* The report on a stick that takes writes, every one or until it is full *)

Inside == {"checks", "runs", "aggregate", "verdict"}
Over == {"exiting", "off", "up"}

\* How long the report is where the sweep stands, and how much of it is safe.
RowsSoFar ==
  /\ pc = "boot" => report = << >> /\ cc = 1
  /\ pc = "compiler" \/ pc \in Inside => Len(report) = cc
  /\ pc = "sync" \/ pc \in Over => Len(report) = cc + 1
  /\ pc \in Over => cc = Len(Compilers) + 1 /\ HasConclusion
  /\ cc = 1 \/ synced >= cc

RowType == [compiler : Range(Compilers) \cup {None},
            word : {"header", "SKIPPED", "FAIL", "PASS", "NOTHING"}]

GateTyping ==
  /\ pc \in Inside \cup Over \cup {"boot", "compiler", "sync", "dead"}
  /\ cc \in 1..Len(Compilers) + 1
  /\ pc \in Inside \cup {"sync"} => cc <= Len(Compilers)
  /\ sink \in Sinks /\ full \in BOOLEAN
  /\ report \in Seq(RowType)
  /\ synced \in 0..Len(report)

\* What a sink that takes no write, or keeps none, leaves.
NoReport ==
  /\ sink # "filling" => ~full
  /\ sink = "readonly" => report = << >>
  /\ pc = "off" => sink # "unmountable" /\ (sink = "absent" \/ report # << >>)

OnStick == sink \in {"stick", "filling"}

ReportInv ==
  /\ GateTyping
  /\ NoReport
  /\ OnStick => RowsInPlace
  /\ OnStick /\ ~full => RowsSoFar

LEMMA ReportInvInit == Init => ReportInv
<1> SUFFICES ASSUME Init PROVE ReportInv
  OBVIOUS
<1>1. Len(Compilers) \in Nat
  BY CompilersAssumption
<1>2. /\ pc = "boot" /\ cc = 1 /\ report = << >> /\ synced = 0 /\ Len(report) = 0
      /\ full = FALSE /\ full \in BOOLEAN /\ sink \in Sinks
  BY DEF Init
<1>3. GateTyping
  <2>1. report \in Seq(RowType)
    BY <1>2
  <2>2. QED  BY <1>1, <1>2, <2>1 DEF GateTyping, Inside, Over
<1>4. NoReport
  BY <1>2 DEF NoReport
<1>5. RowsInPlace /\ RowsSoFar
  BY <1>2 DEF RowsInPlace, RowsSoFar, Inside, Over
<1>6. QED  BY <1>3, <1>4, <1>5 DEF ReportInv

\* What log does to the report.
LEMMA LogFacts ==
  ASSUME ReportInv, NEW row \in RowType, Log(row)
  PROVE  /\ report' \in Seq(RowType)
         /\ synced \in 0..Len(report')
         /\ sink = "readonly" => report' = << >>
         /\ OnStick /\ full => report' = report
         /\ OnStick /\ ~full =>
              /\ report' = Append(report, row)
              /\ Len(report') = Len(report) + 1
              /\ report'[Len(report) + 1] = row
              /\ \A n \in 1..Len(report) : report'[n] = report[n]
<1>1. report \in Seq(RowType) /\ synced \in 0..Len(report)
  BY DEF ReportInv, GateTyping
<1>2. OnStick => (Writable <=> ~full)
  BY DEF OnStick, Writable
<1>3. CASE Writable
  <2>1. report' = Append(report, row)
    BY <1>3 DEF Log
  <2>2. QED  BY <1>1, <1>2, <1>3, <2>1 DEF Writable
<1>4. CASE ~Writable
  <2>1. report' = report
    BY <1>4 DEF Log
  <2>2. QED  BY <1>1, <1>2, <1>4, <2>1 DEF ReportInv, NoReport
<1>5. QED  BY <1>3, <1>4

\* The row of the compiler under test goes where it belongs.
LEMMA RowFacts ==
  ASSUME ReportInv, pc = "compiler" \/ pc \in Inside, cc <= Len(Compilers),
         NEW word \in {"SKIPPED", "FAIL", "PASS"}, Log(RowOf(word)),
         pc' = "sync", UNCHANGED <<sink, full, cc, synced>>
  PROVE  ReportInv'
<1>1. /\ Len(Compilers) \in Nat
      /\ cc \in 1..Len(Compilers)
      /\ Compilers[cc] \in Range(Compilers)
  BY CompilersAssumption DEF ReportInv, GateTyping, Range
<1>2. RowOf(word) \in RowType /\ RowOf(word).compiler = Compilers[cc]
  BY <1>1 DEF RowOf, RowType
<1>3. GateTyping'
  BY <1>1, <1>2, LogFacts DEF ReportInv, GateTyping, Inside
<1>4. NoReport'
  BY <1>2, LogFacts DEF ReportInv, NoReport
<1>5. ASSUME OnStick, ~full  PROVE RowsInPlace' /\ RowsSoFar'
  <2>1. Len(report) = cc /\ (cc = 1 \/ synced >= cc)
    BY <1>5 DEF ReportInv, RowsSoFar, Inside
  <2>2. /\ Len(report') = cc + 1
        /\ report'[cc + 1].compiler = Compilers[cc]
        /\ \A n \in 1..cc : report'[n] = report[n]
    BY <1>2, <1>5, <2>1, LogFacts
  <2>3. RowsInPlace'
    BY <1>1, <1>5, <2>1, <2>2 DEF ReportInv, RowsInPlace
  <2>4. RowsSoFar'
    BY <1>1, <2>1, <2>2 DEF RowsSoFar, Inside, Over
  <2>5. QED  BY <2>3, <2>4
<1>6. ASSUME OnStick, full  PROVE RowsInPlace'
  BY <1>2, <1>6, LogFacts DEF ReportInv, RowsInPlace
<1>7. QED  BY <1>3, <1>4, <1>5, <1>6 DEF ReportInv, OnStick

\* While a compiler is built, checked and measured nothing is logged that
\* counts.
LEMMA InsideFacts ==
  ASSUME ReportInv, pc = "compiler" \/ pc \in Inside, cc <= Len(Compilers),
         pc' \in Inside, UNCHANGED <<sink, full, cc, report, synced>>
  PROVE  ReportInv'
<1>1. GateTyping' /\ NoReport'
  BY DEF ReportInv, GateTyping, NoReport, Inside
<1>2. OnStick => RowsInPlace'
  BY DEF ReportInv, RowsInPlace
<1>3. OnStick /\ ~full => RowsSoFar'
  BY DEF ReportInv, RowsSoFar, Inside, Over
<1>4. QED  BY <1>1, <1>2, <1>3 DEF ReportInv, OnStick

\* Every action keeps the rows in their places.
LEMMA ReportInvStep == ReportInv /\ [Next]_vars => ReportInv'
<1> SUFFICES ASSUME ReportInv, [Next]_vars PROVE ReportInv'
  OBVIOUS
<1>0. /\ Len(Compilers) \in Nat
      /\ cc \in 1..Len(Compilers) + 1
      /\ report \in Seq(RowType) /\ Len(report) \in Nat
      /\ synced \in 0..Len(report)
  BY CompilersAssumption DEF ReportInv, GateTyping
<1>1. CASE Header
  <2>1. /\ pc = "boot" /\ pc' = "compiler" /\ synced' = Len(report')
        /\ report' = (IF Writable THEN <<HeaderRow>> ELSE << >>)
        /\ UNCHANGED <<sink, full, cc>>
    BY <1>1 DEF Header, sweep
  <2>2. HeaderRow \in RowType /\ HeaderRow.compiler = None
    BY DEF HeaderRow, RowType
  <2>3. report' \in Seq(RowType) /\ Len(report') \in Nat
    BY <2>1, <2>2
  <2>4. GateTyping'
    BY <1>0, <2>1, <2>3 DEF ReportInv, GateTyping, Inside
  <2>5. NoReport'
    BY <2>1 DEF ReportInv, NoReport, Writable
  <2>6. RowsInPlace'
    BY <1>0, <2>1, <2>2 DEF RowsInPlace
  <2>7. ASSUME OnStick, ~full  PROVE RowsSoFar'
    <3>1. report' = <<HeaderRow>> /\ cc = 1
      BY <2>1, <2>7 DEF ReportInv, RowsSoFar, Writable, OnStick
    <3>2. QED  BY <1>0, <2>1, <3>1 DEF RowsSoFar, Inside, Over
  <2>8. QED  BY <2>1, <2>4, <2>5, <2>6, <2>7 DEF ReportInv, OnStick
<1>2. CASE Skip \/ Misattributed
  <2>1. PICK word \in {"SKIPPED", "FAIL"} :
          /\ pc = "compiler" /\ cc <= Len(Compilers) /\ Log(RowOf(word))
          /\ pc' = "sync" /\ UNCHANGED <<sink, full, cc, synced>>
    BY <1>2 DEF Skip, Misattributed, More, sweep
  <2>2. QED  BY <2>1, RowFacts
<1>3. CASE Verdict
  <2>1. PICK word \in {"PASS", "FAIL"} :
          /\ pc = "verdict" /\ Log(RowOf(word))
          /\ pc' = "sync" /\ UNCHANGED <<sink, full, cc, synced>>
    BY <1>3 DEF Verdict
  <2>2. cc <= Len(Compilers)
    BY <2>1 DEF ReportInv, GateTyping, Inside
  <2>3. QED  BY <2>1, <2>2, RowFacts DEF Inside
<1>4. CASE Built \/ Check \/ AcceptRun \/ DiscardRun \/ Aggregate
  <2>1. /\ pc = "compiler" \/ pc \in Inside
        /\ pc' \in Inside
        /\ UNCHANGED <<sink, full, cc, report, synced>>
    BY <1>4 DEF Built, Check, AcceptRun, DiscardRun, Aggregate, NextRun, More, sweep, disk, Inside
  <2>2. cc <= Len(Compilers)
    BY <1>4 DEF ReportInv, GateTyping, Inside, Built, Check, AcceptRun, DiscardRun, Aggregate, More
  <2>3. QED  BY <2>1, <2>2, InsideFacts
<1>5. CASE Sync
  <2>1. /\ pc = "sync" /\ pc' = "compiler" /\ synced' = Len(report) /\ cc' = cc + 1
        /\ UNCHANGED <<sink, full, report>> /\ cc <= Len(Compilers)
    BY <1>5 DEF Sync, ReportInv, GateTyping
  <2>2. GateTyping' /\ NoReport'
    BY <1>0, <2>1 DEF ReportInv, GateTyping, NoReport, Inside
  <2>3. OnStick => RowsInPlace'
    BY <2>1 DEF ReportInv, RowsInPlace
  <2>4. ASSUME OnStick, ~full  PROVE RowsSoFar'
    BY <1>0, <2>1, <2>4 DEF ReportInv, RowsSoFar, Inside, Over
  <2>5. QED  BY <2>1, <2>2, <2>3, <2>4 DEF ReportInv, OnStick
<1>6. CASE Conclude
  <2>1. PICK word \in {"PASS", "FAIL", "NOTHING"} :
          /\ pc = "compiler" /\ cc = Len(Compilers) + 1
          /\ Log([compiler |-> None, word |-> word])
          /\ pc' = "exiting" /\ UNCHANGED <<sink, full, cc, synced>>
    BY <1>0, <1>6 DEF Conclude
  <2> DEFINE row == [compiler |-> None, word |-> word]
  <2>2. row \in RowType /\ row.compiler = None /\ row # HeaderRow
    <3>1. row.word # HeaderRow.word
      BY DEF HeaderRow
    <3>2. QED  BY <3>1 DEF RowType
  <2>3. GateTyping' /\ NoReport'
    BY <1>0, <2>1, <2>2, LogFacts DEF ReportInv, GateTyping, NoReport, Inside, Over
  <2>4. ASSUME OnStick, ~full  PROVE RowsInPlace' /\ RowsSoFar'
    <3>1. Len(report) = cc /\ (cc = 1 \/ synced >= cc)
      BY <2>1, <2>4 DEF ReportInv, RowsSoFar
    <3>2. /\ Len(report') = cc + 1 /\ report'[cc + 1] = row
          /\ \A n \in 1..cc : report'[n] = report[n]
      BY <2>1, <2>2, <2>4, <3>1, LogFacts
    <3>3. HasConclusion'
      BY <1>0, <2>2, <3>2 DEF HasConclusion, Last, HeaderRow
    <3>4. RowsInPlace'
      BY <1>0, <2>1, <2>2, <2>4, <3>1, <3>2 DEF ReportInv, RowsInPlace
    <3>5. RowsSoFar'
      BY <1>0, <2>1, <3>1, <3>2, <3>3 DEF RowsSoFar, Inside, Over
    <3>6. QED  BY <3>4, <3>5
  <2>5. ASSUME OnStick, full  PROVE RowsInPlace'
    BY <2>1, <2>2, <2>5, LogFacts DEF ReportInv, RowsInPlace
  <2>6. QED  BY <2>1, <2>3, <2>4, <2>5 DEF ReportInv, OnStick
<1>7. CASE PowerOff
  <2>1. /\ pc = "exiting" /\ pc' \in {"up", "off"} /\ synced' = Len(report)
        /\ sink = "unmountable" \/ (sink # "absent" /\ report = << >>) => pc' = "up"
        /\ UNCHANGED <<sink, full, cc, report>>
    BY <1>7, SinksAssumption DEF PowerOff, sweep, ReportInv, GateTyping, AllSinks
  <2>2. GateTyping' /\ NoReport'
    BY <1>0, <2>1 DEF ReportInv, GateTyping, NoReport, Inside, Over
  <2>3. OnStick => RowsInPlace'
    BY <2>1 DEF ReportInv, RowsInPlace
  <2>4. ASSUME OnStick, ~full  PROVE RowsSoFar'
    BY <1>0, <2>1, <2>4 DEF ReportInv, RowsSoFar, Inside, Over, HasConclusion
  <2>5. QED  BY <2>1, <2>2, <2>3, <2>4 DEF ReportInv, OnStick
<1>8. CASE PowerLoss
  <2>1. /\ pc' = "dead" /\ synced' = Len(report')
        /\ UNCHANGED <<sink, full, cc>>
    BY <1>8 DEF PowerLoss, sweep
  <2>2. PICK n \in synced..Len(report) :
          report' = IF sink \in {"absent", "unmountable"} THEN << >> ELSE SubSeq(report, 1, n)
    BY <1>8 DEF PowerLoss
  <2>3. /\ SubSeq(report, 1, n) \in Seq(RowType) /\ Len(SubSeq(report, 1, n)) = n
        /\ \A m \in 1..n : SubSeq(report, 1, n)[m] = report[m]
    BY <1>0, <2>2
  <2>4. report' \in Seq(RowType) /\ Len(report') \in Nat
    BY <2>2, <2>3
  <2>5. GateTyping' /\ NoReport'
    BY <1>0, <2>1, <2>2, <2>3, <2>4 DEF ReportInv, GateTyping, NoReport, Inside
  <2>6. ASSUME OnStick  PROVE RowsInPlace'
    <3>1. report' = SubSeq(report, 1, n)
      BY <2>2, <2>6 DEF OnStick
    <3>2. Len(report') = n /\ \A m \in 1..n : m \in 1..Len(report) /\ report'[m] = report[m]
      BY <1>0, <2>3, <3>1
    <3>3. RowsInPlace
      BY <2>6 DEF ReportInv
    <3>4. QED  BY <3>2, <3>3 DEF RowsInPlace
  <2>7. ASSUME OnStick, ~full  PROVE RowsSoFar'
    BY <1>0, <2>1, <2>2, <2>3, <2>7 DEF ReportInv, RowsSoFar, Inside, Over, OnStick
  <2>8. QED  BY <2>1, <2>5, <2>6, <2>7 DEF ReportInv, OnStick
<1>9. CASE StickFills
  <2>1. /\ sink = "filling" /\ full' = TRUE /\ UNCHANGED <<sink, pc, cc, report, synced>>
    BY <1>9 DEF StickFills, sweep
  <2>2. GateTyping' /\ NoReport'
    BY <2>1 DEF ReportInv, GateTyping, NoReport
  <2>3. OnStick => RowsInPlace'
    BY <2>1 DEF ReportInv, RowsInPlace
  <2>4. QED  BY <2>1, <2>2, <2>3 DEF ReportInv, OnStick
<1>10. CASE UNCHANGED vars
  <2>1. UNCHANGED <<sink, full, pc, cc, report, synced>>
    BY <1>10 DEF vars
  <2>2. QED  BY <2>1 DEF ReportInv, GateTyping, NoReport, OnStick, RowsInPlace, RowsSoFar, HasConclusion
<1>11. QED
  BY <1>1, <1>2, <1>3, <1>4, <1>5, <1>6, <1>7, <1>8, <1>9, <1>10 DEF Next

\* The report of the gate keeps its shape, whatever happens to the power.
THEOREM ReportInvariant == Spec => []ReportInv
<1>1. QED  BY ReportInvInit, ReportInvStep, PTL DEF Spec

\* nix/gate.sh logs and syncs a compiler's line before it turns to the next: on
\* a stick that works, a power loss at any moment leaves one line for each
\* compiler that is finished.
THEOREM RowsSurvive == Spec => []RowsAreDurable
<1>1. ReportInv => RowsAreDurable
  <2> SUFFICES ASSUME ReportInv, sink = "stick", NEW n \in 1..(cc - 1)
               PROVE  Cardinality(RowsOf(Compilers[n])) = 1
    BY DEF RowsAreDurable
  <2>1. /\ Len(Compilers) \in Nat /\ DOMAIN Compilers = 1..Len(Compilers)
        /\ cc \in 1..Len(Compilers) + 1
        /\ report \in Seq(RowType) /\ DOMAIN report = 1..Len(report) /\ Len(report) \in Nat
        /\ synced \in 0..Len(report)
    BY CompilersAssumption DEF ReportInv, GateTyping
  <2>2. synced >= cc /\ RowsInPlace
    <3>1. RowsInPlace /\ (cc = 1 \/ synced >= cc)
      BY DEF ReportInv, NoReport, OnStick, RowsSoFar
    <3>2. cc # 1
      BY <2>1
    <3>3. QED  BY <3>1, <3>2
  <2>3. Compilers[n] \in Range(Compilers) /\ Compilers[n] # None
    BY <2>1, CompilersAssumption DEF Range
  <2>4. \A m \in 1..Len(report) : report[m].compiler = Compilers[n] <=> m = n + 1
    <3> SUFFICES ASSUME NEW m \in 1..Len(report)
                 PROVE  report[m].compiler = Compilers[n] <=> m = n + 1
      OBVIOUS
    <3>1. CASE m = 1 \/ m > Len(Compilers) + 1
      BY <2>1, <2>2, <2>3, <3>1 DEF RowsInPlace
    <3>2. CASE m # 1 /\ m <= Len(Compilers) + 1
      <4>1. report[m].compiler = Compilers[m - 1] /\ m - 1 \in DOMAIN Compilers
        BY <2>1, <2>2, <3>2 DEF RowsInPlace
      <4>2. QED  BY <2>1, <4>1, CompilersAssumption DEF IsInjective
    <3>3. QED  BY <2>1, <3>1, <3>2
  <2>5. RowsOf(Compilers[n]) = {n + 1}
    BY <2>1, <2>2, <2>4 DEF RowsOf
  <2>6. QED  BY <2>5, FS_Singleton
<1>2. QED  BY <1>1, ReportInvariant, PTL

\* Where there is a stick, the boot service of nix/iso.nix turns the machine off
\* only with a report on it, each row of it in its place: the whole report unless
\* the stick has filled up, and then the start of it, which is not empty.
THEOREM OffWithReport == Spec => []PowersOffWithReport
<1>1. ReportInv => PowersOffWithReport
  <2> SUFFICES ASSUME ReportInv, pc = "off", sink # "absent"
               PROVE  /\ report # << >> /\ RowsInPlace
                      /\ ~full => Len(report) = Len(Compilers) + 2 /\ HasConclusion
    BY DEF PowersOffWithReport
  <2>1. report # << >> /\ OnStick
    BY SinksAssumption DEF ReportInv, GateTyping, NoReport, AllSinks, OnStick
  <2>2. RowsInPlace
    BY <2>1 DEF ReportInv
  <2>3. ASSUME ~full  PROVE Len(report) = Len(Compilers) + 2 /\ HasConclusion
    <3>1. Len(report) = cc + 1 /\ cc = Len(Compilers) + 1 /\ HasConclusion
      BY <2>1, <2>3 DEF ReportInv, RowsSoFar, Over
    <3>2. QED  BY <3>1, CompilersAssumption
  <2>4. QED  BY <2>1, <2>2, <2>3
<1>2. QED  BY <1>1, ReportInvariant, PTL

-----------------------------------------------------------------------------
(* The verdict on a compiler *)

Measuring == {"checks", "runs", "aggregate"}

\* awk's counts against the runs.  A label has a line in a run at most once; a
\* run that misses a label of the list leaves that label short for good; and a
\* strict function that leaks is over the threshold in each of its lines.
CountsFit ==
  /\ runs_ok \in Nat /\ complete \in 0..runs_ok
  /\ \A l \in DOMAIN seen : seen[l].n \in 1..runs_ok /\ seen[l].over \in Nat

IncompleteIsShort ==
  \/ complete = runs_ok
  \/ \E l \in Expected : l \notin DOMAIN seen \/ seen[l].n < runs_ok

LeaksShow ==
  pc \in Measuring =>
    \A l \in DOMAIN seen :
      <<Compilers[cc], l>> \in leaky => seen[l].over = seen[l].n

TallyInv == CountsFit /\ IncompleteIsShort /\ LeaksShow /\ PassIsEarned

\* One more run accepted.
LEMMA TalliedFacts ==
  ASSUME CountsFit, NEW lines \in Outputs
  PROVE  /\ DOMAIN Tallied(lines) = DOMAIN seen \cup DOMAIN lines
         /\ \A l \in DOMAIN seen \ DOMAIN lines : Tallied(lines)[l] = seen[l]
         /\ \A l \in DOMAIN seen \cap DOMAIN lines :
              /\ Tallied(lines)[l].n = seen[l].n + 1
              /\ Tallied(lines)[l].over = seen[l].over + IF 2 * lines[l] >= 9 THEN 1 ELSE 0
         /\ \A l \in DOMAIN lines \ DOMAIN seen :
              /\ Tallied(lines)[l].n = 1
              /\ Tallied(lines)[l].over = IF 2 * lines[l] >= 9 THEN 1 ELSE 0
  BY DEF Tallied

\* What a strict function that leaks shows in a run.
LEMMA OutputsShow ==
  ASSUME NEW lines \in Outputs, NEW l \in DOMAIN lines, <<Compilers[cc], l>> \in leaky
  PROVE  2 * lines[l] >= 9
<1>1. PICK labels \in {Expected, Labels} \cup {Expected \ {m} : m \in Expected} :
        /\ lines \in [labels -> UNION {Readings[m] : m \in labels}]
        /\ \A m \in labels :
             lines[m] \in IF <<Compilers[cc], m>> \in leaky
                         THEN {t \in Readings[m] : 2 * t >= 9} ELSE Readings[m]
  BY DEF Outputs
<1>2. l \in labels
  BY <1>1
<1>3. QED  BY <1>1, <1>2

LEMMA AcceptKeeps == TallyInv /\ AcceptRun => TallyInv'
<1> SUFFICES ASSUME TallyInv, AcceptRun PROVE TallyInv'
  OBVIOUS
<1>1. /\ pc = "runs" /\ pc' \in {"aggregate", "runs"} /\ runs_ok' = runs_ok + 1
      /\ UNCHANGED <<cc, leaky>>
  BY DEF AcceptRun, NextRun, sweep
<1>2. PICK lines \in Outputs :
        /\ seen' = Tallied(lines)
        /\ complete' = complete + IF Expected \subseteq DOMAIN lines THEN 1 ELSE 0
  BY DEF AcceptRun
<1>3. CountsFit /\ IncompleteIsShort /\ LeaksShow
  BY DEF TallyInv
<1>4. CountsFit'
  <2>1. runs_ok' \in Nat /\ complete' \in 0..runs_ok'
    BY <1>1, <1>2, <1>3 DEF CountsFit
  <2>2. ASSUME NEW l \in DOMAIN seen'
        PROVE  seen'[l].n \in 1..runs_ok' /\ seen'[l].over \in Nat
    <3>1. l \in DOMAIN seen \/ l \in DOMAIN lines
      BY <1>2, <1>3, <2>2, TalliedFacts
    <3>2. CASE l \in DOMAIN seen /\ l \in DOMAIN lines
      <4>1. /\ seen'[l].n = seen[l].n + 1
            /\ seen'[l].over = seen[l].over + IF 2 * lines[l] >= 9 THEN 1 ELSE 0
        BY <1>2, <1>3, <3>2, TalliedFacts
      <4>2. QED  BY <1>1, <1>3, <3>2, <4>1 DEF CountsFit
    <3>3. CASE l \in DOMAIN seen /\ l \notin DOMAIN lines
      <4>1. seen'[l] = seen[l]
        BY <1>2, <1>3, <3>3, TalliedFacts
      <4>2. QED  BY <1>1, <1>3, <3>3, <4>1 DEF CountsFit
    <3>4. CASE l \notin DOMAIN seen /\ l \in DOMAIN lines
      <4>1. /\ seen'[l].n = 1
            /\ seen'[l].over = IF 2 * lines[l] >= 9 THEN 1 ELSE 0
        BY <1>2, <1>3, <3>4, TalliedFacts
      <4>2. QED  BY <1>1, <1>3, <4>1 DEF CountsFit
    <3>5. QED  BY <3>1, <3>2, <3>3, <3>4
  <2>3. QED  BY <2>1, <2>2 DEF CountsFit
<1>5. IncompleteIsShort'
  <2>1. CASE complete = runs_ok /\ Expected \subseteq DOMAIN lines
    BY <1>1, <1>2, <2>1 DEF IncompleteIsShort
  <2>2. CASE complete = runs_ok /\ ~(Expected \subseteq DOMAIN lines)
    <3>1. PICK l \in Expected : l \notin DOMAIN lines
      BY <2>2
    <3>2. l \notin DOMAIN seen' \/ seen'[l].n < runs_ok'
      <4>1. l \in DOMAIN seen' => l \in DOMAIN seen /\ seen'[l] = seen[l]
        BY <1>2, <1>3, <3>1, TalliedFacts
      <4>2. QED  BY <1>1, <1>3, <4>1 DEF CountsFit
    <3>3. QED  BY <3>1, <3>2 DEF IncompleteIsShort
  <2>3. CASE complete # runs_ok
    <3>1. PICK l \in Expected : l \notin DOMAIN seen \/ seen[l].n < runs_ok
      BY <1>3, <2>3 DEF IncompleteIsShort
    <3>2. runs_ok > 0
      BY <1>3, <2>3 DEF CountsFit
    <3>3. l \notin DOMAIN seen' \/ seen'[l].n < runs_ok'
      <4>1. CASE l \in DOMAIN seen
        <5>1. seen'[l].n = seen[l].n + 1 \/ seen'[l] = seen[l]
          BY <1>2, <1>3, <4>1, TalliedFacts
        <5>2. QED  BY <1>1, <1>3, <3>1, <4>1, <5>1 DEF CountsFit
      <4>2. CASE l \notin DOMAIN seen
        <5>1. l \in DOMAIN seen' => seen'[l].n = 1
          BY <1>2, <1>3, <4>2, TalliedFacts
        <5>2. QED  BY <1>1, <1>3, <3>2, <5>1 DEF CountsFit
      <4>3. QED  BY <4>1, <4>2
    <3>4. QED  BY <3>1, <3>3 DEF IncompleteIsShort
  <2>4. QED  BY <2>1, <2>2, <2>3
<1>6. LeaksShow'
  <2> SUFFICES ASSUME NEW l \in DOMAIN seen', <<Compilers[cc], l>> \in leaky
               PROVE  seen'[l].over = seen'[l].n
    BY <1>1 DEF LeaksShow
  <2>1. l \in DOMAIN seen => seen[l].over = seen[l].n
    BY <1>1, <1>3 DEF LeaksShow, Measuring
  <2>2. l \in DOMAIN lines => 2 * lines[l] >= 9
    BY OutputsShow
  <2>3. QED  BY <1>2, <1>3, <2>1, <2>2, TalliedFacts DEF CountsFit
<1>7. PassIsEarned'
  BY <1>1 DEF PassIsEarned
<1>8. QED  BY <1>4, <1>5, <1>6, <1>7 DEF TallyInv

\* With the full number of runs, all of them over, a strict function fails.
LEMMA AllOver == ASSUME NEW n \in Nat \ {0}  PROVE n * 100 > n * OverPct
<1>1. OverPct \in Int /\ OverPct < 100
  BY StrictAssumption
<1>2. n * (100 - OverPct) > 0
  BY <1>1
<1>3. QED  BY <1>1, <1>2

LEMMA AggregateKeeps == TallyInv /\ Aggregate => TallyInv'
<1> SUFFICES ASSUME TallyInv, Aggregate PROVE TallyInv'
  OBVIOUS
<1>1. /\ pc = "aggregate" /\ pc' = "verdict"
      /\ cc_pass' = (IF DudectPasses THEN cc_pass ELSE 0)
      /\ UNCHANGED <<cc, leaky, runs_ok, seen, complete>>
  BY DEF Aggregate, sweep, tally, ghosts
<1>2. CountsFit' /\ IncompleteIsShort' /\ LeaksShow'
  BY <1>1 DEF TallyInv, CountsFit, IncompleteIsShort, LeaksShow, Measuring
<1>3. ASSUME DudectPasses
      PROVE  complete = Runs /\ \A l \in Strict : <<Compilers[cc], l>> \notin leaky
  <2>1. runs_ok = Runs /\ ~AnyFail
    BY <1>3 DEF DudectPasses
  <2>2. \A l \in Expected : l \in DOMAIN seen /\ seen[l].n = runs_ok
    BY <2>1 DEF AnyFail
  <2>3. complete = Runs
    BY <2>1, <2>2, RunsAssumption DEF TallyInv, IncompleteIsShort, CountsFit
  <2>4. ASSUME NEW l \in Strict, <<Compilers[cc], l>> \in leaky  PROVE FALSE
    <3>1. l \in Expected /\ l \notin Artefact \cup Lenient
      BY StrictAssumption DEF Expected
    <3>2. l \in DOMAIN seen /\ seen[l].n = Runs /\ seen[l].over = Runs
      BY <1>1, <2>1, <2>2, <2>4, <3>1 DEF TallyInv, LeaksShow, Measuring
    <3>3. Runs * 100 > Runs * OverPct
      BY AllOver, RunsAssumption
    <3>4. Fails(l)
      BY <3>1, <3>2, <3>3 DEF Fails
    <3>5. QED  BY <2>1, <3>2, <3>4 DEF AnyFail
  <2>5. QED  BY <2>3, <2>4
<1>4. PassIsEarned'
  BY <1>1, <1>3 DEF PassIsEarned
<1>5. QED  BY <1>2, <1>4 DEF TallyInv

\* For every number of compilers and runs, every list of functions and every
\* reading: nix/gate.sh passes a compiler only on the full number of runs with a
\* line for every function, and never one of whose strict functions leaks.
THEOREM LeaksNeverPass == Spec => []PassIsEarned
<1>1. Init => TallyInv
  BY DEF Init, TallyInv, CountsFit, IncompleteIsShort, LeaksShow, PassIsEarned, Nothing, Measuring
<1>2. TallyInv /\ [Next]_vars => TallyInv'
  <2> SUFFICES ASSUME TallyInv, [Next]_vars PROVE TallyInv'
    OBVIOUS
  <2> USE DEF TallyInv, CountsFit, IncompleteIsShort, LeaksShow, PassIsEarned, Measuring,
              sweep, tally, ghosts, disk
  <2>1. CASE Header \/ Skip \/ Misattributed \/ Verdict \/ Sync \/ Conclude \/ PowerOff \/ PowerLoss
    <3>1. /\ pc' \in {"compiler", "sync", "exiting", "up", "off", "dead"}
          /\ UNCHANGED <<runs_ok, seen, complete>>
      BY <2>1 DEF Header, Skip, Misattributed, Verdict, Sync, Conclude, PowerOff, PowerLoss
    <3>2. QED  BY <3>1
  <2>2. CASE Built
    BY <2>2 DEF Built, Nothing
  <2>3. CASE Check
    BY <2>3 DEF Check, Checks
  <2>4. CASE AcceptRun
    BY <2>4, AcceptKeeps
  <2>5. CASE DiscardRun
    BY <2>5 DEF DiscardRun, NextRun
  <2>6. CASE Aggregate
    BY <2>6, AggregateKeeps
  <2>7. CASE StickFills
    BY <2>7 DEF StickFills
  <2>8. CASE UNCHANGED vars
    BY <2>8 DEF vars
  <2>9. QED  BY <2>1, <2>2, <2>3, <2>4, <2>5, <2>6, <2>7, <2>8 DEF Next
<1>3. TallyInv => PassIsEarned
  BY DEF TallyInv
<1>4. QED  BY <1>1, <1>2, <1>3, PTL DEF Spec

-----------------------------------------------------------------------------
(* The verdict on a compiler that does nothing wrong *)

\* What awk has summed up of a function that stayed below its bounds.
WithinBounds(l) ==
  /\ seen[l].n = runs_ok
  /\ l \in Strict => seen[l].over = 0
  /\ l \in Artefact => seen[l].sum < ArtefactMean * runs_ok /\ seen[l].mx < LenientMax
  /\ l \in Lenient => seen[l].sum < LenientMean * runs_ok /\ seen[l].mx < LenientMax

SeenType ==
  \A l \in DOMAIN seen :
    seen[l].n \in Nat /\ seen[l].over \in Nat /\ seen[l].sum \in Nat /\ seen[l].mx \in Nat

\* Every check has succeeded, every run so far was accepted with one line for
\* each function, and no function is over its bounds.
QuietSoFar ==
  /\ cc_pass = 1
  /\ pc = "checks" => runs_ok = 0
  /\ pc = "runs" => stage = runs_ok + 1
  /\ pc = "aggregate" => runs_ok = Runs
  /\ ~rejected
  /\ DOMAIN seen = IF runs_ok = 0 THEN {} ELSE Expected
  /\ \A l \in DOMAIN seen : WithinBounds(l)

QuietInv ==
  /\ runs_ok \in Nat /\ SeenType
  /\ pc \in Measuring /\ flawless => QuietSoFar
  /\ FailIsEarned

\* What the next line makes of a function's summary.
LEMMA LineFacts ==
  ASSUME QuietInv, NEW lines \in Outputs
  PROVE  LET next == Tallied(lines)
         IN  /\ DOMAIN next = DOMAIN seen \cup DOMAIN lines
             /\ \A l \in DOMAIN next :
                  /\ next[l].n \in Nat /\ next[l].over \in Nat
                  /\ next[l].sum \in Nat /\ next[l].mx \in Nat
             /\ \A l \in DOMAIN lines :
                  LET known == l \in DOMAIN seen
                  IN  /\ lines[l] \in Nat
                      /\ next[l].n = IF known THEN seen[l].n + 1 ELSE 1
                      /\ 2 * lines[l] < 9 =>
                           next[l].over = IF known THEN seen[l].over ELSE 0
                      /\ next[l].sum = IF known THEN seen[l].sum + lines[l] ELSE lines[l]
                      /\ next[l].mx = lines[l] \/ (known /\ next[l].mx = seen[l].mx)
<1> DEFINE next == Tallied(lines)
<1>1. \A l \in DOMAIN lines : lines[l] \in Nat
  <2>1. PICK labels \in {Expected, Labels} \cup {Expected \ {l} : l \in Expected} :
          /\ lines \in [labels -> UNION {Readings[l] : l \in labels}]
          /\ \A l \in labels :
               lines[l] \in IF <<Compilers[cc], l>> \in leaky
                           THEN {t \in Readings[l] : 2 * t >= 9} ELSE Readings[l]
    BY DEF Outputs
  <2>2. labels \subseteq Labels
    BY DEF Labels
  <2>3. QED  BY <2>1, <2>2, ReadingsAssumption
<1>2. DOMAIN next = DOMAIN seen \cup DOMAIN lines
  BY DEF Tallied
<1>3. ASSUME NEW l \in DOMAIN seen \ DOMAIN lines PROVE next[l] = seen[l]
  BY DEF Tallied
<1>4. ASSUME NEW l \in DOMAIN seen \cap DOMAIN lines
      PROVE  /\ next[l].n = seen[l].n + 1
             /\ next[l].over = seen[l].over + IF 2 * lines[l] >= 9 THEN 1 ELSE 0
             /\ next[l].sum = seen[l].sum + lines[l]
             /\ next[l].mx = IF lines[l] > seen[l].mx THEN lines[l] ELSE seen[l].mx
  BY DEF Tallied
<1>5. ASSUME NEW l \in DOMAIN lines \ DOMAIN seen
      PROVE  /\ next[l].n = 1
             /\ next[l].over = IF 2 * lines[l] >= 9 THEN 1 ELSE 0
             /\ next[l].sum = lines[l]
             /\ next[l].mx = lines[l]
  <2>1. /\ next[l].n = 0 + 1
        /\ next[l].over = 0 + IF 2 * lines[l] >= 9 THEN 1 ELSE 0
        /\ next[l].sum = 0 + lines[l]
        /\ next[l].mx = IF lines[l] > 0 THEN lines[l] ELSE 0
    BY DEF Tallied
  <2>2. lines[l] \in Nat
    BY <1>1
  <2>3. QED  BY <2>1, <2>2
<1> HIDE DEF next
<1>6. \A l \in DOMAIN seen : /\ seen[l].n \in Nat /\ seen[l].over \in Nat
                             /\ seen[l].sum \in Nat /\ seen[l].mx \in Nat
  BY DEF QuietInv, SeenType
<1>7. ASSUME NEW l \in DOMAIN next
      PROVE  /\ next[l].n \in Nat /\ next[l].over \in Nat
             /\ next[l].sum \in Nat /\ next[l].mx \in Nat
  BY <1>1, <1>2, <1>3, <1>4, <1>5, <1>6
<1>8. ASSUME NEW l \in DOMAIN lines
      PROVE  LET known == l \in DOMAIN seen
             IN  /\ lines[l] \in Nat
                 /\ next[l].n = IF known THEN seen[l].n + 1 ELSE 1
                 /\ 2 * lines[l] < 9 => next[l].over = IF known THEN seen[l].over ELSE 0
                 /\ next[l].sum = IF known THEN seen[l].sum + lines[l] ELSE lines[l]
                 /\ next[l].mx = lines[l] \/ (known /\ next[l].mx = seen[l].mx)
  <2>1. CASE l \in DOMAIN seen
    BY <1>1, <1>4, <1>6, <2>1
  <2>2. CASE l \notin DOMAIN seen
    BY <1>1, <1>5, <2>2
  <2>3. QED  BY <2>1, <2>2
<1>9. QED  BY <1>2, <1>7, <1>8 DEF next

LEMMA AcceptQuiet == QuietInv /\ AcceptRun => QuietInv'
<1> SUFFICES ASSUME QuietInv, AcceptRun PROVE QuietInv'
  OBVIOUS
<1>1. /\ pc = "runs" /\ pc' = (IF stage = Runs THEN "aggregate" ELSE "runs")
      /\ stage' = stage + 1 /\ runs_ok' = runs_ok + 1 /\ cc_pass' = cc_pass
      /\ runs_ok \in Nat
  BY DEF AcceptRun, NextRun, QuietInv
<1>2. PICK lines \in Outputs, unusable \in BOOLEAN :
        /\ seen' = Tallied(lines)
        /\ rejected' = (rejected \/ unusable)
        /\ flawless' = (/\ flawless /\ ~unusable
                        /\ DOMAIN lines = Expected
                        /\ \A l \in Expected : Quiet(l, lines[l]))
  BY DEF AcceptRun
<1>3. SeenType'
  BY <1>2, LineFacts DEF SeenType
<1>4. ASSUME flawless' PROVE QuietSoFar'
  <2>1. /\ flawless /\ ~unusable /\ DOMAIN lines = Expected
        /\ \A l \in Expected : Quiet(l, lines[l])
    BY <1>2, <1>4, Zenon
  <2>2. /\ cc_pass = 1 /\ stage = runs_ok + 1 /\ ~rejected
        /\ DOMAIN seen = (IF runs_ok = 0 THEN {} ELSE Expected)
        /\ \A l \in DOMAIN seen : WithinBounds(l)
    BY <1>1, <2>1 DEF QuietInv, QuietSoFar, Measuring
  <2>3. ~rejected'
    BY <1>2, <2>1, <2>2, Zenon
  <2>4. DOMAIN seen' = Expected
    BY <1>2, <2>1, <2>2, LineFacts
  <2>5. ASSUME NEW l \in Expected PROVE WithinBounds(l)'
    <3>1. /\ lines[l] \in Nat /\ Quiet(l, lines[l])
          /\ ArtefactMean \in Nat /\ LenientMean \in Nat /\ LenientMax \in Nat
      BY <2>1, LineFacts, BoundsAssumption
    <3>2. CASE runs_ok = 0
      <4>1. /\ seen'[l].n = 1 /\ (2 * lines[l] < 9 => seen'[l].over = 0)
            /\ seen'[l].sum = lines[l] /\ seen'[l].mx = lines[l]
        BY <1>2, <2>1, <2>2, <3>2, LineFacts
      <4>2. ArtefactMean * 1 = ArtefactMean /\ LenientMean * 1 = LenientMean
        BY <3>1
      <4>3. QED  BY <1>1, <3>1, <3>2, <4>1, <4>2 DEF WithinBounds, Quiet
    <3>3. CASE runs_ok # 0
      <4>1. /\ l \in DOMAIN seen /\ WithinBounds(l)
            /\ seen[l].sum \in Nat /\ seen[l].mx \in Nat
        BY <2>2, <3>3 DEF QuietInv, SeenType
      <4>2. /\ seen'[l].n = seen[l].n + 1 /\ (2 * lines[l] < 9 => seen'[l].over = seen[l].over)
            /\ seen'[l].sum = seen[l].sum + lines[l]
            /\ seen'[l].mx = lines[l] \/ seen'[l].mx = seen[l].mx
        BY <1>2, <2>1, <4>1, LineFacts
      <4>3. /\ ArtefactMean * (runs_ok + 1) = ArtefactMean * runs_ok + ArtefactMean
            /\ LenientMean * (runs_ok + 1) = LenientMean * runs_ok + LenientMean
            /\ ArtefactMean * runs_ok \in Nat /\ LenientMean * runs_ok \in Nat
        BY <1>1, <3>1
      <4>4. QED  BY <1>1, <3>1, <4>1, <4>2, <4>3 DEF WithinBounds, Quiet
    <3>4. QED  BY <3>2, <3>3
  <2>6. pc' = "aggregate" => runs_ok' = Runs
    BY <1>1, <2>2
  <2>7. QED  BY <1>1, <2>2, <2>3, <2>4, <2>5, <2>6 DEF QuietSoFar
<1>5. FailIsEarned'
  BY <1>1 DEF FailIsEarned
<1>6. QED  BY <1>1, <1>3, <1>4, <1>5 DEF QuietInv

LEMMA AggregateQuiet == QuietInv /\ Aggregate => QuietInv'
<1> SUFFICES ASSUME QuietInv, Aggregate PROVE QuietInv'
  OBVIOUS
<1>1. /\ pc = "aggregate" /\ pc' = "verdict" /\ flawless' = flawless
      /\ cc_pass' = (IF DudectPasses THEN cc_pass ELSE 0)
      /\ UNCHANGED <<runs_ok, seen>>
  BY DEF Aggregate, tally, ghosts
<1>2. ASSUME flawless PROVE cc_pass = 1 /\ DudectPasses
  <2>1. /\ cc_pass = 1 /\ runs_ok = Runs /\ ~rejected /\ runs_ok \in Nat /\ runs_ok # 0
        /\ DOMAIN seen = Expected /\ \A l \in Expected : WithinBounds(l)
    BY <1>1, <1>2, RunsAssumption DEF QuietInv, QuietSoFar, Measuring
  <2>2. ASSUME NEW l \in Expected PROVE ~Fails(l) /\ seen[l].n = runs_ok
    <3>1. WithinBounds(l) /\ l \in DOMAIN seen /\ OverPct \in Nat
      BY <2>1, StrictAssumption
    <3>2. /\ seen[l].n = runs_ok /\ seen[l].sum \in Nat /\ seen[l].mx \in Nat
          /\ ArtefactMean * runs_ok \in Nat /\ LenientMean * runs_ok \in Nat
          /\ runs_ok * OverPct \in Nat /\ LenientMax \in Nat
      BY <2>1, <3>1, BoundsAssumption DEF QuietInv, SeenType, WithinBounds
    <3>3. CASE l \in Strict
      <4>1. seen[l].over = 0 /\ ~(seen[l].over * 100 > seen[l].n * OverPct)
        BY <3>1, <3>2, <3>3 DEF WithinBounds
      <4>2. l \notin Artefact
        BY <3>3, StrictAssumption
      <4>3. QED  BY <3>2, <3>3, <4>1, <4>2 DEF Fails
    <3>4. CASE l \notin Strict /\ l \in Artefact
      <4>1. /\ ~(seen[l].sum >= ArtefactMean * runs_ok) /\ ~(seen[l].mx >= LenientMax)
        BY <3>1, <3>2, <3>4 DEF WithinBounds
      <4>2. QED  BY <3>2, <3>4, <4>1 DEF Fails
    <3>5. CASE l \notin Strict /\ l \notin Artefact
      <4>1. l \in Lenient
        BY <3>5 DEF Expected
      <4>2. /\ ~(seen[l].sum >= LenientMean * runs_ok) /\ ~(seen[l].mx >= LenientMax)
        BY <3>1, <3>2, <4>1 DEF WithinBounds
      <4>3. QED  BY <3>2, <3>5, <4>2 DEF Fails
    <3>6. QED  BY <3>2, <3>3, <3>4, <3>5
  <2>3. ~AnyFail
    BY <2>1, <2>2 DEF AnyFail
  <2>4. QED  BY <2>1, <2>3 DEF DudectPasses
<1>3. FailIsEarned'
  BY <1>1, <1>2 DEF FailIsEarned
<1>4. QED  BY <1>1, <1>3 DEF QuietInv, SeenType, Measuring

\* nix/gate.sh fails a compiler for nothing but its own: where every check
\* succeeds, every run is accepted with one line for each function, and every
\* reading is below the bounds of its function, the compiler passes, for any
\* number of runs and whatever became of the compilers before it.
THEOREM QuietPasses == Spec => []FailIsEarned
<1>1. Init => QuietInv
  BY DEF Init, QuietInv, SeenType, FailIsEarned, Nothing, Measuring
<1>2. QuietInv /\ [Next]_vars => QuietInv'
  <2> SUFFICES ASSUME QuietInv, [Next]_vars PROVE QuietInv'
    OBVIOUS
  <2>1. CASE Header \/ Skip \/ Misattributed \/ Verdict \/ Sync \/ Conclude \/ PowerOff \/ PowerLoss
    <3>1. /\ pc' \in {"compiler", "sync", "exiting", "up", "off", "dead"}
          /\ UNCHANGED <<runs_ok, seen>>
      BY <2>1 DEF Header, Skip, Misattributed, Verdict, Sync, Conclude, PowerOff, PowerLoss,
                  sweep, tally, ghosts, disk
    <3>2. QED  BY <3>1 DEF QuietInv, SeenType, FailIsEarned, Measuring
  <2>2. CASE Built
    <3>1. /\ pc' = "checks" /\ cc_pass' = 1 /\ runs_ok' = 0 /\ ~rejected'
          /\ DOMAIN seen' = {}
      BY <2>2 DEF Built, Nothing
    <3>2. QED  BY <3>1 DEF QuietInv, QuietSoFar, SeenType, FailIsEarned
  <2>3. CASE Check
    <3>1. PICK ok \in BOOLEAN :
            /\ cc_pass' = IF ok THEN cc_pass ELSE 0
            /\ flawless' = (flawless /\ ok)
            /\ pc' = IF stage < Len(Checks) THEN "checks" ELSE IF ok THEN "runs" ELSE "verdict"
      BY <2>3 DEF Check
    <3>2. /\ pc = "checks" /\ stage' = (IF stage < Len(Checks) THEN stage + 1 ELSE 1)
          /\ UNCHANGED <<runs_ok, seen, rejected>>
      BY <2>3 DEF Check, tally
    <3>3. CASE ~ok
      BY <3>1, <3>2, <3>3 DEF QuietInv, SeenType, FailIsEarned
    <3>4. CASE ok
      <4>1. cc_pass' = cc_pass /\ (flawless' <=> flawless) /\ pc' # "verdict"
        BY <3>1, <3>4
      <4>2. QuietInv /\ pc' = "runs" => stage' = 1
        BY <3>1, <3>2
      <4>3. pc' \in {"checks", "runs"}
        BY <3>1, <3>4
      <4>4. QED
        BY <3>2, <4>1, <4>2, <4>3
           DEF QuietInv, QuietSoFar, WithinBounds, SeenType, FailIsEarned, Measuring
    <3>5. QED  BY <3>3, <3>4
  <2>4. CASE AcceptRun
    BY <2>4, AcceptQuiet
  <2>5. CASE DiscardRun
    BY <2>5 DEF DiscardRun, NextRun, tally, QuietInv, SeenType, FailIsEarned
  <2>6. CASE Aggregate
    BY <2>6, AggregateQuiet
  <2>7. CASE StickFills \/ UNCHANGED vars
    <3>1. UNCHANGED <<pc, cc_pass, stage, runs_ok, seen, rejected, flawless>>
      BY <2>7 DEF StickFills, vars, tally, ghosts
    <3>2. QED
      BY <3>1 DEF QuietInv, QuietSoFar, WithinBounds, SeenType, FailIsEarned
  <2>8. QED  BY <2>1, <2>2, <2>3, <2>4, <2>5, <2>6, <2>7 DEF Next
<1>3. QuietInv => FailIsEarned
  BY DEF QuietInv
<1>4. QED  BY <1>1, <1>2, <1>3, PTL DEF Spec

-----------------------------------------------------------------------------
(* The verdict on the sweep *)

Before == {"boot", "compiler", "sync"} \cup Inside

\* The conclusion is the last row if it is there at all.
ConclusionIsLast ==
  \A n \in 1..Len(report) :
    /\ report[n].compiler = None
    /\ report[n] # HeaderRow
    => n = Len(report) /\ pc \notin Before

\* Until the stick is full the exit code agrees with the rows.
CodeFitsRows ==
  /\ overall_rc \in {0, 1, 2} /\ built \in Nat
  /\ pc = "boot" => overall_rc = 0 /\ built = 0
  /\ pc \in Inside => built > 0
  /\ pc \in Before /\ Writable =>
       /\ overall_rc # 2
       /\ "FAIL" \in Words <=> overall_rc = 1
       /\ "PASS" \in Words => built > 0
       /\ built > 0 /\ pc \notin Inside => "PASS" \in Words \/ "FAIL" \in Words

SumInv == ReportInv /\ ConclusionIsLast /\ CodeFitsRows /\ SweepSumsUp

LEMMA WordsFacts ==
  ASSUME NEW word
  PROVE  word \in Words <=>
           \E n \in DOMAIN report :
             report[n].compiler \in Range(Compilers) /\ report[n].word = word
<1>1. \A c, n : n \in RowsOf(c) <=> n \in DOMAIN report /\ report[n].compiler = c
  BY DEF RowsOf
<1>2. QED  BY <1>1 DEF Words

\* What the row of a compiler adds.
LEMMA RowAdds ==
  ASSUME ReportInv, NEW row \in RowType, report' = Append(report, row), NEW word
  PROVE  word \in Words' <=>
           word \in Words \/ (row.compiler \in Range(Compilers) /\ word = row.word)
<1>1. report \in Seq(RowType) /\ DOMAIN report = 1..Len(report) /\ Len(report) \in Nat
  BY DEF ReportInv, GateTyping
<1>2. /\ DOMAIN report' = 1..Len(report) + 1
      /\ report'[Len(report) + 1] = row
      /\ \A n \in 1..Len(report) : report'[n] = report[n]
  BY <1>1
<1>3. word \in Words' <=>
        \E n \in DOMAIN report' :
          report'[n].compiler \in Range(Compilers) /\ report'[n].word = word
  <2>1. \A c, n : n \in RowsOf(c)' <=> n \in DOMAIN report' /\ report'[n].compiler = c
    BY DEF RowsOf
  <2>2. QED  BY <2>1 DEF Words
<1>4. QED  BY <1>1, <1>2, <1>3, WordsFacts

\* Before the end there is no conclusion to be wrong.
LEMMA NoneBefore == ReportInv /\ ConclusionIsLast /\ pc \in Before => SweepSumsUp
<1> SUFFICES ASSUME ReportInv, ConclusionIsLast, pc \in Before, HasConclusion  PROVE FALSE
  BY DEF SweepSumsUp
<1>1. report \in Seq(RowType) /\ Len(report) \in Nat /\ report # << >>
  BY DEF ReportInv, GateTyping, HasConclusion
<1>2. Len(report) \in 1..Len(report) /\ Last(report) = report[Len(report)]
  BY <1>1 DEF Last
<1>3. QED  BY <1>2 DEF ConclusionIsLast, HasConclusion

\* The row of a compiler is no conclusion.
LEMMA RowSums ==
  ASSUME SumInv, ReportInv', pc \in Before, pc # "boot", cc <= Len(Compilers),
         NEW word \in {"SKIPPED", "FAIL", "PASS"}, Log(RowOf(word)),
         pc' = "sync", UNCHANGED <<sink, full, built>>,
         overall_rc' = IF word = "FAIL" THEN 1 ELSE overall_rc,
         word = "PASS" => pc \in Inside,
         pc \in Inside => word # "SKIPPED"
  PROVE  SumInv'
<1>1. /\ Len(Compilers) \in Nat /\ cc \in DOMAIN Compilers
      /\ Compilers[cc] \in Range(Compilers) /\ Compilers[cc] # None
  BY CompilersAssumption DEF SumInv, ReportInv, GateTyping, Range
<1>2. /\ RowOf(word) \in RowType /\ RowOf(word).compiler = Compilers[cc]
      /\ RowOf(word).word = word
  BY <1>1 DEF RowOf, RowType
<1>3. report \in Seq(RowType) /\ Len(report) \in Nat
  BY DEF SumInv, ReportInv, GateTyping
<1>4. CASE ~Writable
  <2>1. report' = report /\ ~Writable'
    BY <1>4 DEF Log, Writable
  <2>2. ConclusionIsLast'
    BY <2>1 DEF SumInv, ConclusionIsLast, Before
  <2>3. CodeFitsRows'
    BY <2>1 DEF SumInv, CodeFitsRows, Inside
  <2>4. SweepSumsUp'
    <3>1. ~HasConclusion
      <4>1. report # << >> => Last(report) = report[Len(report)] /\ Len(report) \in 1..Len(report)
        BY <1>3 DEF Last
      <4>2. QED  BY <4>1 DEF SumInv, ConclusionIsLast, HasConclusion
    <3>2. QED  BY <2>1, <3>1 DEF SweepSumsUp, HasConclusion
  <2>5. QED  BY <2>2, <2>3, <2>4 DEF SumInv
<1>5. CASE Writable
  <2>1. report' = Append(report, RowOf(word)) /\ Writable'
    BY <1>5 DEF Log, Writable
  <2>2. /\ Len(report') = Len(report) + 1
        /\ report'[Len(report) + 1] = RowOf(word)
        /\ \A n \in 1..Len(report) : report'[n] = report[n]
    BY <1>2, <1>3, <2>1
  <2>3. ConclusionIsLast'
    BY <1>1, <1>2, <1>3, <2>2 DEF SumInv, ConclusionIsLast, Before
  <2>4. /\ "FAIL" \in Words' <=> "FAIL" \in Words \/ word = "FAIL"
        /\ "PASS" \in Words' <=> "PASS" \in Words \/ word = "PASS"
    BY <1>1, <1>2, <2>1, RowAdds DEF SumInv
  <2>5. CodeFitsRows'
    BY <1>5, <2>1, <2>4 DEF SumInv, CodeFitsRows, Before, Inside
  <2>6. SweepSumsUp'
    <3>1. ~HasConclusion'
      <4>1. Last(report') = RowOf(word)
        BY <1>3, <2>1, <2>2 DEF Last
      <4>2. QED  BY <1>1, <1>2, <4>1 DEF HasConclusion
    <3>2. QED  BY <3>1 DEF SweepSumsUp
  <2>7. QED  BY <2>3, <2>5, <2>6 DEF SumInv
<1>6. QED  BY <1>4, <1>5

\* nix/gate.sh ends in PASS just when some compiler passed and none failed, for
\* any number of compilers, and whatever is lost to a stick that fills up or to
\* the power: a conclusion that is there is that of the whole sweep.
THEOREM SweepAddsUp == Spec => []SweepSumsUp
<1>1. Init => SumInv
  <2> SUFFICES ASSUME Init PROVE SumInv
    OBVIOUS
  <2>1. /\ pc = "boot" /\ report = << >> /\ overall_rc = 0 /\ built = 0
        /\ Len(report) = 0 /\ DOMAIN report = {}
    BY DEF Init
  <2>2. "FAIL" \notin Words /\ "PASS" \notin Words
    BY <2>1, WordsFacts
  <2>3. ConclusionIsLast /\ CodeFitsRows
    BY <2>1, <2>2 DEF ConclusionIsLast, CodeFitsRows, Inside
  <2>4. SweepSumsUp
    BY <2>1 DEF SweepSumsUp, HasConclusion
  <2>5. QED  BY <2>3, <2>4, ReportInvInit DEF SumInv
<1>2. SumInv /\ [Next]_vars => SumInv'
  <2> SUFFICES ASSUME SumInv, [Next]_vars PROVE SumInv'
    OBVIOUS
  <2>0. /\ ReportInv /\ ReportInv'
        /\ report \in Seq(RowType) /\ Len(report) \in Nat
        /\ Len(Compilers) \in Nat /\ cc \in 1..Len(Compilers) + 1
    BY ReportInvStep, CompilersAssumption DEF SumInv, ReportInv, GateTyping
  <2>1. CASE Header
    <3>1. /\ pc = "boot" /\ pc' = "compiler"
          /\ report' = (IF Writable THEN <<HeaderRow>> ELSE << >>)
          /\ UNCHANGED <<overall_rc, built>>
      BY <2>1 DEF Header, sweep
    <3>2. \A n \in DOMAIN report' : report'[n] = HeaderRow
      BY <3>1
    <3>3. "FAIL" \notin Words' /\ "PASS" \notin Words'
      <4>1. HeaderRow.compiler \notin Range(Compilers)
        BY CompilersAssumption DEF HeaderRow
      <4>2. QED  BY <3>2, <4>1 DEF Words, RowsOf
    <3>4. ConclusionIsLast'
      <4>1. report' \in Seq(RowType) /\ DOMAIN report' = 1..Len(report')
        BY <2>0 DEF ReportInv, GateTyping
      <4>2. QED  BY <3>2, <4>1 DEF ConclusionIsLast
    <3>5. CodeFitsRows'
      BY <3>1, <3>3 DEF SumInv, CodeFitsRows, Inside
    <3>6. pc' \in Before
      BY <3>1 DEF Before
    <3>7. SweepSumsUp'
      <4>1. report' = << >> \/ Last(report') = HeaderRow
        BY <3>1 DEF Last
      <4>2. QED  BY <4>1 DEF SweepSumsUp, HasConclusion
    <3>8. QED  BY <2>0, <3>4, <3>5, <3>7 DEF SumInv
  <2>2. CASE Skip \/ Misattributed \/ Verdict
    <3>1. PICK word \in {"SKIPPED", "FAIL", "PASS"} :
            /\ pc \in {"compiler", "verdict"} /\ Log(RowOf(word))
            /\ pc' = "sync" /\ UNCHANGED <<sink, full, built>>
            /\ overall_rc' = IF word = "FAIL" THEN 1 ELSE overall_rc
            /\ word = "PASS" => pc \in Inside
            /\ pc \in Inside => word # "SKIPPED"
      BY <2>2 DEF Skip, Misattributed, Verdict, More, sweep, Inside
    <3>2. cc <= Len(Compilers)
      BY <2>2 DEF Skip, Misattributed, Verdict, More, SumInv, ReportInv, GateTyping, Inside
    <3>3. pc \in Before /\ pc # "boot"
      BY <3>1 DEF Before, Inside
    <3>4. QED  BY <2>0, <3>1, <3>2, <3>3, RowSums
  <2>3. CASE Built \/ Check \/ AcceptRun \/ DiscardRun \/ Aggregate \/ Sync
    <3>1. /\ pc \in Before /\ pc # "boot" /\ pc' \in Before /\ pc' # "boot"
          /\ UNCHANGED <<sink, full, overall_rc, report>>
          /\ built' = built + 1 \/ built' = built
          /\ pc' \in Inside => pc \in Inside \/ built' = built + 1
          /\ pc' \notin Inside => pc \notin Inside /\ built' = built
      BY <2>3 DEF Built, Check, AcceptRun, DiscardRun, Aggregate, Sync, NextRun, More, sweep, disk,
                  Inside, Before
    <3>2. ConclusionIsLast'
      BY <3>1 DEF SumInv, ConclusionIsLast
    <3>3. Words' = Words /\ (Writable' <=> Writable)
      BY <3>1 DEF Words, RowsOf, Writable
    <3>4. CodeFitsRows'
      BY <3>1, <3>3 DEF SumInv, CodeFitsRows
    <3>5. SweepSumsUp'
      BY <3>1, <3>3 DEF SumInv, SweepSumsUp, HasConclusion
    <3>6. QED  BY <2>0, <3>2, <3>4, <3>5 DEF SumInv
  <2>4. CASE Conclude
    <3> DEFINE word == CASE built = 0 -> "NOTHING" [] built > 0 /\ overall_rc = 0 -> "PASS"
                         [] OTHER -> "FAIL"
               row == [compiler |-> None, word |-> word]
    <3>1. /\ pc = "compiler" /\ pc' = "exiting" /\ Log(row)
          /\ built' = built /\ overall_rc' \in {overall_rc, 2}
      BY <2>4 DEF Conclude
    <3>2. pc \in Before /\ pc \notin Inside /\ pc' \notin Before /\ pc' \notin Inside
      BY <3>1 DEF Before, Inside
    <3>3. /\ word \in {"NOTHING", "PASS", "FAIL"}
          /\ word = "PASS" <=> built > 0 /\ overall_rc = 0
      BY DEF SumInv, CodeFitsRows
    <3>4. row \in RowType /\ row.compiler \notin Range(Compilers) /\ row.word = word
      BY <3>3, CompilersAssumption DEF RowType
    <3> HIDE DEF word
    <3>5. CodeFitsRows'
      BY <3>1, <3>2 DEF SumInv, CodeFitsRows
    <3>6. CASE ~Writable
      <4>1. report' = report /\ Words' = Words
        BY <3>1, <3>6 DEF Log, Words, RowsOf
      <4>2. ConclusionIsLast'
        BY <3>2, <4>1 DEF SumInv, ConclusionIsLast
      <4>3. SweepSumsUp'
        BY <4>1 DEF SumInv, SweepSumsUp, HasConclusion
      <4>4. QED  BY <2>0, <3>5, <4>2, <4>3 DEF SumInv
    <3>7. CASE Writable
      <4>1. report' = Append(report, row)
        BY <3>1, <3>7 DEF Log
      <4>2. /\ Len(report') = Len(report) + 1
            /\ \A n \in 1..Len(report) : report'[n] = report[n]
            /\ Last(report') = row
        BY <2>0, <3>4, <4>1 DEF Last
      <4>3. ConclusionIsLast'
        BY <2>0, <3>2, <4>2 DEF SumInv, ConclusionIsLast
      <4>4. /\ "FAIL" \in Words' <=> "FAIL" \in Words
            /\ "PASS" \in Words' <=> "PASS" \in Words
        BY <2>0, <3>4, <4>1, RowAdds
      <4>5. word = "PASS" <=> "PASS" \in Words /\ "FAIL" \notin Words
        BY <3>2, <3>3, <3>7 DEF SumInv, CodeFitsRows
      <4>6. SweepSumsUp'
        BY <3>4, <4>2, <4>4, <4>5 DEF SweepSumsUp
      <4>7. QED  BY <2>0, <3>5, <4>3, <4>6 DEF SumInv
    <3>8. QED  BY <3>6, <3>7
  <2>5. CASE PowerLoss
    <3>1. /\ pc' = "dead" /\ UNCHANGED <<built, overall_rc>>
      BY <2>5 DEF PowerLoss, sweep
    <3>2. PICK n \in synced..Len(report) :
            report' = IF sink \in {"absent", "unmountable"} THEN << >> ELSE SubSeq(report, 1, n)
      BY <2>5 DEF PowerLoss
    <3>3. pc' \notin Before /\ pc' \notin Inside
      BY <3>1 DEF Before, Inside
    <3>4. n \in 0..Len(report)
      BY <2>0 DEF ReportInv, GateTyping
    <3>5. CASE report' = << >>
      <4>1. ConclusionIsLast'
        BY <3>5 DEF ConclusionIsLast
      <4>2. SweepSumsUp'
        BY <3>5 DEF SweepSumsUp, HasConclusion
      <4>3. CodeFitsRows'
        BY <3>1, <3>3 DEF SumInv, CodeFitsRows
      <4>4. QED  BY <2>0, <4>1, <4>2, <4>3 DEF SumInv
    <3>6. CASE report' # << >>
      <4>1. /\ report' = SubSeq(report, 1, n) /\ Len(report') = n /\ n > 0
            /\ \A m \in 1..n : report'[m] = report[m]
            /\ Last(report') = report[n]
        BY <2>0, <3>2, <3>4, <3>6 DEF Last
      <4>2. ConclusionIsLast'
        BY <3>3, <3>4, <4>1 DEF SumInv, ConclusionIsLast
      <4>3. SweepSumsUp'
        <5> SUFFICES ASSUME HasConclusion'
                     PROVE  Last(report').word = "PASS" <=> "PASS" \in Words' /\ "FAIL" \notin Words'
          BY DEF SweepSumsUp
        <5>1. n = Len(report)
          BY <3>4, <4>1 DEF SumInv, ConclusionIsLast, HasConclusion
        <5>2. /\ DOMAIN report' = DOMAIN report /\ DOMAIN report = 1..Len(report)
              /\ Last(report) = report[n] /\ report # << >>
          BY <2>0, <4>1, <5>1 DEF Last
        <5>3. \A m \in DOMAIN report : report'[m] = report[m]
          BY <4>1, <5>1, <5>2
        <5>4. \A c : RowsOf(c)' = RowsOf(c)
          BY <5>2, <5>3 DEF RowsOf
        <5>5. "FAIL" \in Words' <=> "FAIL" \in Words
          BY <5>3, <5>4, <5>2 DEF Words, RowsOf
        <5>6. "PASS" \in Words' <=> "PASS" \in Words
          BY <5>3, <5>4, <5>2 DEF Words, RowsOf
        <5>7. HasConclusion
          BY <4>1, <5>2 DEF HasConclusion
        <5>8. QED  BY <4>1, <5>2, <5>5, <5>6, <5>7 DEF SumInv, SweepSumsUp
      <4>4. CodeFitsRows'
        BY <3>1, <3>3 DEF SumInv, CodeFitsRows
      <4>5. QED  BY <2>0, <4>2, <4>3, <4>4 DEF SumInv
    <3>7. QED  BY <3>5, <3>6
  <2>6. CASE PowerOff \/ StickFills \/ UNCHANGED vars
    <3>1. /\ UNCHANGED <<sink, overall_rc, built, report>>
          /\ pc' = pc \/ (pc \notin Before /\ pc' \notin Before /\ pc' \notin Inside)
          /\ pc' = "boot" => pc = "boot"
          /\ Writable' => Writable
      BY <2>6 DEF PowerOff, StickFills, vars, sweep, Before, Inside, Writable
    <3>2. ConclusionIsLast'
      BY <3>1 DEF SumInv, ConclusionIsLast
    <3>3. Words' = Words
      BY <3>1 DEF Words, RowsOf
    <3>4. CodeFitsRows'
      BY <3>1, <3>3 DEF SumInv, CodeFitsRows
    <3>5. SweepSumsUp'
      BY <3>1, <3>3 DEF SumInv, SweepSumsUp, HasConclusion
    <3>6. QED  BY <2>0, <3>2, <3>4, <3>5 DEF SumInv
  <2>7. QED  BY <2>1, <2>2, <2>3, <2>4, <2>5, <2>6 DEF Next
<1>3. SumInv => SweepSumsUp
  BY DEF SumInv
<1>4. QED  BY <1>1, <1>2, <1>3, PTL DEF Spec

-----------------------------------------------------------------------------
(* The harness: fractions *)

\* A set of natural numbers has a least one.
LEMMA Least ==
  ASSUME NEW T, T \subseteq Nat, T # {}
  PROVE  \E n \in T : \A m \in T : n <= m
<1> DEFINE R == {ss \in Nat \X Nat : ss[1] < ss[2]}
<1>1. IsWellFoundedOn(R, Nat)
  BY NatLessThanWellFounded DEF OpToRel
<1> HIDE DEF R
<1>2. PICK n \in T : \A m \in T : ~ (<<m, n>> \in R)
  BY <1>1, WFMin
<1>3. \A m \in T : ~ (m < n)
  BY <1>2 DEF R
<1>4. QED  BY <1>3

Divides(d, a) == \E c \in Int : a = d * c

\* Euclid's function, which Ratio divides by.
EuclidDef(f) ==
  f = [m \in Nat |-> [n \in Nat |-> IF m = 0 THEN n ELSE f[n % m][m]]]
Euclid == CHOOSE f : EuclidDef(f)

LEMMA GcdIsEuclid ==
  ASSUME NEW a, NEW b
  PROVE  Gcd(a, b) = Euclid[b][IF a < 0 THEN -a ELSE a]
BY DEF Gcd, Euclid, EuclidDef

\* A divisor of a positive number is not larger.
LEMMA DivisorIsSmall ==
  ASSUME NEW d \in Nat, NEW a \in Nat \ {0}, Divides(d, a)
  PROVE  d \in 1..a
<1>1. PICK c \in Int : a = d * c
  BY DEF Divides
<1>2. c >= 1 /\ d >= 1
  <2>1. c <= 0 => d * c <= 0
    BY ONLY d \in Nat, c \in Int
  <2>2. d = 0 => d * c = 0
    BY ONLY c \in Int
  <2>3. QED  BY <1>1, <2>1, <2>2
<1>3. d * c >= d
  BY ONLY <1>2, d \in Nat, c \in Int
<1>4. QED  BY <1>1, <1>2, <1>3

\* The remainder has the same divisors in common with the divisor.
LEMMA RemainderDivisors ==
  ASSUME NEW d \in Nat, NEW n \in Nat, NEW m \in Nat \ {0}, Divides(d, m)
  PROVE  Divides(d, n) <=> Divides(d, n % m)
<1> DEFINE r == n % m
           c == n \div m
<1>1. r \in Nat /\ c \in Nat /\ n = m * c + r
  OBVIOUS
<1> HIDE DEF r, c
<1>2. PICK e \in Int : m = d * e
  BY DEF Divides
<1>3. n = d * (e * c) + r
  <2>1. (d * e) * c = d * (e * c)
    BY ONLY <1>1, e \in Int, d \in Nat
  <2>2. QED  BY <1>1, <1>2, <2>1
<1>4. ASSUME Divides(d, n) PROVE Divides(d, r)
  <2>1. PICK f \in Int : n = d * f
    BY <1>4 DEF Divides
  <2>2. r = d * (f - e * c) /\ f - e * c \in Int
    <3>1. e * c \in Int
      BY ONLY <1>1, e \in Int
    <3>2. d * (f - e * c) = d * f - d * (e * c)
      BY ONLY <3>1, d \in Nat, f \in Int
    <3>3. d * f \in Int /\ d * (e * c) \in Int
      BY ONLY <3>1, d \in Nat, f \in Int
    <3>4. QED  BY <1>1, <1>3, <2>1, <3>1, <3>2, <3>3
  <2>3. QED  BY <2>2 DEF Divides
<1>5. ASSUME Divides(d, r) PROVE Divides(d, n)
  <2>1. PICK f \in Int : r = d * f
    BY <1>5 DEF Divides
  <2>2. n = d * (e * c + f) /\ e * c + f \in Int
    <3>1. e * c \in Int
      BY ONLY <1>1, e \in Int
    <3>2. d * (e * c + f) = d * (e * c) + d * f
      BY ONLY <3>1, d \in Nat, f \in Int
    <3>3. QED  BY <1>3, <2>1, <3>1, <3>2
  <2>3. QED  BY <2>2 DEF Divides
<1>6. QED  BY <1>4, <1>5 DEF r

\* The greatest common divisor satisfies Euclid's equation.
LEMMA EuclidExists == EuclidDef(Euclid)
<1> DEFINE Common(n, m) == {d \in 1..n + m : Divides(d, n) /\ Divides(d, m)}
           Greatest(n, m) == CHOOSE d \in Common(n, m) : \A c \in Common(n, m) : c <= d
           g == [m \in Nat |-> [n \in Nat |-> IF m = 0 THEN n ELSE Greatest(n, m)]]
<1>1. ASSUME NEW n \in Nat, NEW m \in Nat
      PROVE  g[m][n] = IF m = 0 THEN n ELSE Greatest(n, m)
  OBVIOUS
<1>2. ASSUME NEW n \in Nat, NEW m \in Nat \ {0}, n % m = 0
      PROVE  Greatest(n, m) = m
  <2>1. Divides(m, m) /\ Divides(m, n)
    <3>1. Divides(m, m)
      <4>1. m = m * 1
        OBVIOUS
      <4>2. QED  BY <4>1 DEF Divides
    <3>2. Divides(m, n % m)
      <4>1. n % m = m * 0 /\ 0 \in Int
        BY <1>2
      <4> DEFINE r == n % m
      <4> HIDE DEF r
      <4>2. r = m * 0 => Divides(m, r)
        BY DEF Divides
      <4>3. QED  BY <4>1, <4>2 DEF r
    <3>3. QED  BY <3>1, <3>2, RemainderDivisors
  <2>2. m \in Common(n, m)
    BY <2>1
  <2>3. \A d \in Common(n, m) : d <= m
    BY DivisorIsSmall
  <2>4. Common(n, m) \subseteq Nat
    OBVIOUS
  <2> HIDE DEF Common
  <2>5. \A d \in Common(n, m) : (\A c \in Common(n, m) : c <= d) => d = m
    BY <2>2, <2>3, <2>4
  <2>6. QED  BY <2>2, <2>3, <2>5
<1>3. ASSUME NEW n \in Nat, NEW m \in Nat \ {0}, n % m # 0
      PROVE  Greatest(n, m) = Greatest(m, n % m)
  <2> DEFINE r == n % m
  <2>1. r \in Nat \ {0}
    BY <1>3
  <2>2. ASSUME NEW d \in Nat, Divides(d, m)
        PROVE  Divides(d, n) <=> Divides(d, r)
    BY <2>2, RemainderDivisors
  <2> HIDE DEF r
  <2>3. ASSUME NEW d \in Nat, Divides(d, m) PROVE d \in 1..n + m /\ d \in 1..m + r
    <3>1. d \in 1..m
      BY <2>3, DivisorIsSmall
    <3>2. QED  BY <2>1, <3>1
  <2>4. Common(n, m) = Common(m, r)
    BY <2>1, <2>2, <2>3
  <2>5. QED  BY <2>4 DEF r
<1>4. ASSUME NEW n \in Nat, NEW m \in Nat
      PROVE  g[m][n] = IF m = 0 THEN n ELSE g[n % m][m]
  <2>1. CASE m = 0
    BY <1>1, <2>1
  <2>2. CASE m # 0
    <3>1. m \in Nat \ {0} /\ n % m \in Nat
      BY <2>2
    <3>2. g[n % m][m] = IF n % m = 0 THEN m ELSE Greatest(m, n % m)
      BY <1>1, <3>1
    <3> HIDE DEF g, Greatest
    <3>3. QED  BY <1>1, <1>2, <1>3, <2>2, <3>1, <3>2
  <2>3. QED  BY <2>1, <2>2
<1>5. EuclidDef(g)
  <2> DEFINE f == [m \in Nat |-> [n \in Nat |-> IF m = 0 THEN n ELSE g[n % m][m]]]
  <2>1. ASSUME NEW m \in Nat PROVE g[m] = f[m]
    <3> DEFINE p(n) == IF m = 0 THEN n ELSE Greatest(n, m)
               q(n) == IF m = 0 THEN n ELSE g[n % m][m]
    <3>1. g[m] = [n \in Nat |-> p(n)] /\ f[m] = [n \in Nat |-> q(n)]
      OBVIOUS
    <3>2. \A n \in Nat : p(n) = q(n)
      <4> SUFFICES ASSUME NEW n \in Nat PROVE p(n) = q(n)
        OBVIOUS
      <4>1. p(n) = g[m][n]
        BY <1>1
      <4>2. QED  BY <1>4, <4>1
    <3> HIDE DEF p, q, g, f
    <3>3. QED  BY ONLY <3>1, <3>2
  <2>2. g = f
    <3> DEFINE p(m) == [n \in Nat |-> IF m = 0 THEN n ELSE Greatest(n, m)]
               q(m) == [n \in Nat |-> IF m = 0 THEN n ELSE g[n % m][m]]
    <3> HIDE DEF Greatest
    <3>1. \A m \in Nat : p(m) = q(m)
      BY <2>1
    <3>2. g = [m \in Nat |-> p(m)] /\ f = [m \in Nat |-> q(m)]
      OBVIOUS
    <3> HIDE DEF p, q, g, f
    <3>3. QED  BY ONLY <3>1, <3>2
  <2>3. QED  BY <2>2 DEF EuclidDef
<1> HIDE DEF g
<1>6. QED  BY <1>5 DEF Euclid

LEMMA EuclidFacts ==
  /\ \A n \in Nat : Euclid[0][n] = n
  /\ \A m \in Nat \ {0}, n \in Nat : Euclid[m][n] = Euclid[n % m][m]
<1> DEFINE row(m) == [n \in Nat |-> IF m = 0 THEN n ELSE Euclid[n % m][m]]
<1>1. \A m \in Nat : Euclid[m] = row(m)
  BY EuclidExists DEF EuclidDef
<1>2. \A m, n \in Nat : row(m)[n] = IF m = 0 THEN n ELSE Euclid[n % m][m]
  OBVIOUS
<1> HIDE DEF row
<1>3. QED  BY <1>1, <1>2

\* Euclid's function divides its arguments.
LEMMA EuclidDivides ==
  ASSUME NEW n \in Nat, NEW m \in Nat, n + m > 0
  PROVE  Euclid[m][n] \in Nat \ {0} /\ Divides(Euclid[m][n], n) /\ Divides(Euclid[m][n], m)
<1> DEFINE Good(l, k) ==
             /\ Euclid[l][k] \in Nat \ {0}
             /\ Divides(Euclid[l][k], k) /\ Divides(Euclid[l][k], l)
           T == {l \in Nat : \E k \in Nat : k + l > 0 /\ ~Good(l, k)}
<1>1. SUFFICES ASSUME T # {} PROVE FALSE
  OBVIOUS
<1>2. PICK l \in T : \A i \in T : l <= i
  <2>1. T \subseteq Nat
    OBVIOUS
  <2> HIDE DEF T
  <2>2. QED  BY <1>1, <2>1, Least
<1>3. PICK k \in Nat : k + l > 0 /\ ~Good(l, k)
  BY <1>2
<1>4. \A d \in Int : Divides(d, d)
  <2>1. \A d \in Int : d = d * 1
    OBVIOUS
  <2>2. QED  BY <2>1 DEF Divides
<1>5. CASE l = 0
  <2>1. Euclid[0][k] = k /\ k \in Nat \ {0}
    BY <1>3, <1>5, EuclidFacts
  <2>2. Divides(k, 0)
    <3>1. 0 = k * 0
      OBVIOUS
    <3>2. QED  BY <3>1 DEF Divides
  <2>3. QED  BY <1>3, <1>4, <1>5, <2>1, <2>2
<1>6. CASE l # 0
  <2> DEFINE r == k % l
             d == Euclid[r][l]
  <2>1. l \in Nat \ {0} /\ r \in Nat /\ r < l /\ l + r > 0
    BY <1>2, <1>6
  <2>2. Good(r, l)
    BY <1>2, <2>1
  <2>3. d \in Nat \ {0} /\ Divides(d, l) /\ Divides(d, r)
    BY <2>2
  <2>4. Divides(d, k)
    BY <2>1, <2>3, RemainderDivisors
  <2>5. Euclid[l][k] = d
    BY <2>1, EuclidFacts
  <2> HIDE DEF d
  <2>6. QED  BY <1>3, <2>3, <2>4, <2>5
<1>7. QED  BY <1>5, <1>6

LEMMA GcdFacts ==
  ASSUME NEW a \in Int, NEW b \in Nat \ {0}
  PROVE  /\ Gcd(a, b) \in Nat \ {0}
         /\ Divides(Gcd(a, b), a) /\ Divides(Gcd(a, b), b)
         /\ Gcd(0, b) = b
<1> DEFINE n == IF a < 0 THEN -a ELSE a
           g == Euclid[b][n]
<1>1. n \in Nat /\ n + b > 0 /\ (n = a \/ n = 0 - a)
  OBVIOUS
<1>2. g \in Nat \ {0} /\ Divides(g, n) /\ Divides(g, b)
  <2> HIDE DEF n
  <2>1. QED  BY <1>1, EuclidDivides
<1>3. Gcd(a, b) = g
  BY GcdIsEuclid
<1> HIDE DEF n, g
<1>4. Divides(g, a)
  <2>1. PICK c \in Int : n = g * c
    BY <1>2 DEF Divides
  <2>2. g * (0 - c) = 0 - g * c /\ g * c \in Int /\ 0 - c \in Int
    BY ONLY <1>2, c \in Int
  <2>3. a = g * c \/ a = g * (0 - c)
    BY <1>1, <2>1, <2>2
  <2>4. QED  BY <2>2, <2>3 DEF Divides
<1>5. Gcd(0, b) = b
  <2>1. Gcd(0, b) = Euclid[b][0]
    BY GcdIsEuclid
  <2>2. 0 % b = 0
    OBVIOUS
  <2>3. QED  BY <2>1, <2>2, EuclidFacts
<1>6. QED  BY <1>2, <1>3, <1>4, <1>5

\* The fraction r is n / d.
Stands(r, n, d) ==
  r = <<r[1], r[2]>> /\ r[1] \in Int /\ r[2] \in Nat \ {0} /\ r[1] * d = n * r[2]

LEMMA RatioStands ==
  ASSUME NEW n \in Int, NEW d \in Nat \ {0}
  PROVE  /\ Stands(Ratio(n, d), n, d)
         /\ n = 0 => Ratio(n, d) = Zero
<1> DEFINE g == Gcd(n, d)
           p == n \div g
           q == d \div g
<1>1. g \in Nat \ {0} /\ Divides(g, n) /\ Divides(g, d)
  BY GcdFacts
<1>2. ASSUME NEW a \in Int, Divides(g, a) PROVE a = g * (a \div g) /\ a \div g \in Int
  <2> HIDE DEF g
  <2>1. PICK c \in Int : a = g * c
    BY <1>2 DEF Divides
  <2>2. a \div g = c
    <3>1. a = g * (a \div g) + (a % g) /\ a \div g \in Int /\ a % g \in 0..g - 1
      BY <1>1
    <3> DEFINE e == c - (a \div g)
    <3>2. e \in Int /\ g * e = a % g
      <4> DEFINE b == a \div g
                 r == a % g
      <4>1. a = g * b + r /\ b \in Int /\ r \in Int /\ e = c - b
        BY <3>1
      <4> HIDE DEF b, r, e
      <4>2. g * (c - b) = g * c - g * b /\ g * c \in Int /\ g * b \in Int
        BY ONLY <1>1, <4>1, c \in Int
      <4>3. e \in Int /\ g * e = r
        BY ONLY <2>1, <4>1, <4>2, c \in Int
      <4>4. QED  BY <4>3 DEF r
    <3>3. e >= 1 => g * e >= g
      BY ONLY <1>1, <3>2
    <3>4. e <= 0 - 1 => g * e <= 0 - g
      BY ONLY <1>1, <3>2
    <3>5. e = 0
      BY ONLY <1>1, <3>1, <3>2, <3>3, <3>4
    <3>6. QED  BY <3>1, <3>5
  <2>3. QED  BY <2>1, <2>2
<1>3. n = g * p /\ p \in Int /\ d = g * q /\ q \in Int
  BY <1>1, <1>2
<1>4. Ratio(n, d) = <<p, q>>
  BY DEF Ratio
<1> HIDE DEF g, p, q
<1>5. q \in Nat \ {0}
  <2>1. q <= 0 => g * q <= 0
    BY ONLY <1>1, <1>3
  <2>2. QED  BY <1>3, <2>1
<1>6. p * d = n * q
  <2>1. p * (g * q) = (g * p) * q
    BY ONLY <1>1, <1>3
  <2>2. QED  BY <1>3, <2>1
<1>7. ASSUME n = 0 PROVE p = 0 /\ q = 1
  <2>1. g = d
    BY <1>7, GcdFacts DEF g
  <2>2. d \div d = 1 /\ 0 \div d = 0
    OBVIOUS
  <2>3. QED  BY <1>7, <2>1, <2>2 DEF p, q
<1>8. QED  BY <1>3, <1>4, <1>5, <1>6, <1>7 DEF Stands, Zero

LEMMA Cancel ==
  ASSUME NEW x \in Int, NEW y \in Int, NEW c \in Nat \ {0}
  PROVE  /\ x * c = y * c => x = y
         /\ x * c < y * c <=> x < y
<1> DEFINE e == y - x
<1>1. e \in Int /\ y = x + e
  OBVIOUS
<1> HIDE DEF e
<1>2. (x + e) * c = x * c + e * c /\ x * c \in Int /\ e * c \in Int
  BY ONLY <1>1, x \in Int, c \in Nat \ {0}
<1>3. /\ e > 0 => e * c > 0
      /\ e = 0 => e * c = 0
      /\ e < 0 => e * c < 0
  BY ONLY <1>1, c \in Nat \ {0}
<1>4. QED  BY <1>1, <1>2, <1>3

\* A fraction has many names.
LEMMA Rescale ==
  ASSUME NEW r, NEW n \in Int, NEW d \in Nat \ {0}, NEW k \in Int, NEW e \in Nat \ {0},
         Stands(r, n, d), n * e = k * d
  PROVE  Stands(r, k, e)
<1> DEFINE p == r[1]
           q == r[2]
<1>1. p \in Int /\ q \in Nat \ {0} /\ p * d = n * q
  BY DEF Stands
<1> HIDE DEF p, q
<1>2. (p * e) * d = (k * q) * d
  <2>1. (p * e) * d = (p * d) * e
    BY ONLY <1>1, d \in Nat \ {0}, e \in Nat \ {0}
  <2>2. (n * q) * e = (n * e) * q
    BY ONLY <1>1, n \in Int, e \in Nat \ {0}
  <2>3. (k * d) * q = (k * q) * d
    BY ONLY <1>1, k \in Int, d \in Nat \ {0}
  <2>4. QED  BY <1>1, <2>1, <2>2, <2>3
<1>3. p * e \in Int /\ k * q \in Int
  BY <1>1
<1>4. p * e = k * q
  BY <1>2, <1>3, Cancel
<1>5. QED  BY <1>4 DEF Stands, p, q

LEMMA PlusStands ==
  ASSUME NEW r, NEW n \in Int, NEW d \in Nat \ {0}, Stands(r, n, d),
         NEW s, NEW k \in Int, NEW e \in Nat \ {0}, Stands(s, k, e)
  PROVE  /\ Stands(Plus(r, s), n * e + k * d, d * e)
         /\ n * e + k * d = 0 => Plus(r, s) = Zero
<1> DEFINE a == r[1]
           b == r[2]
           u == s[1]
           v == s[2]
           m == a * v + u * b
<1>1. /\ a \in Int /\ b \in Nat \ {0} /\ a * d = n * b
      /\ u \in Int /\ v \in Nat \ {0} /\ u * e = k * v
  BY DEF Stands
<1>2. Plus(r, s) = Ratio(m, b * v)
  BY DEF Plus
<1> HIDE DEF a, b, u, v
<1>3. /\ m \in Int /\ b * v \in Nat \ {0} /\ d * e \in Nat \ {0}
      /\ n * e + k * d \in Int
  BY ONLY <1>1, n \in Int, d \in Nat \ {0}, k \in Int, e \in Nat \ {0}
<1>4. m * (d * e) = (n * e + k * d) * (b * v)
  <2>1. m * (d * e) = (a * d) * (v * e) + (u * e) * (b * d)
    BY ONLY <1>1, d \in Nat \ {0}, e \in Nat \ {0}
  <2>2. (n * b) * (v * e) + (k * v) * (b * d) = (n * e + k * d) * (b * v)
    BY ONLY <1>1, n \in Int, d \in Nat \ {0}, k \in Int, e \in Nat \ {0}
  <2>3. QED  BY <1>1, <2>1, <2>2
<1> HIDE DEF m
<1>5. Stands(Ratio(m, b * v), m, b * v) /\ (m = 0 => Ratio(m, b * v) = Zero)
  BY <1>3, RatioStands
<1>6. n * e + k * d = 0 => m = 0
  <2>1. ASSUME n * e + k * d = 0 PROVE m = 0
    <3>1. m * (d * e) = 0 * (d * e)
      BY <1>3, <1>4, <2>1
    <3>2. QED  BY <1>3, <3>1, Cancel
  <2>2. QED  BY <2>1
<1>7. Stands(Ratio(m, b * v), n * e + k * d, d * e)
  BY <1>3, <1>4, <1>5, Rescale
<1>8. QED  BY <1>2, <1>5, <1>6, <1>7

LEMMA MinusStands ==
  ASSUME NEW r, NEW n \in Int, NEW d \in Nat \ {0}, Stands(r, n, d),
         NEW s, NEW k \in Int, NEW e \in Nat \ {0}, Stands(s, k, e)
  PROVE  Stands(Minus(r, s), n * e - k * d, d * e)
<1> DEFINE t == <<-s[1], s[2]>>
<1>1. s[1] \in Int /\ s[2] \in Nat \ {0} /\ s[1] * e = k * s[2]
  BY DEF Stands
<1>2. Stands(t, 0 - k, e)
  <2>1. t[1] = 0 - s[1] /\ t[2] = s[2] /\ t = <<t[1], t[2]>>
    BY <1>1
  <2> DEFINE u == s[1]
             v == s[2]
  <2>2. u \in Int /\ v \in Int /\ u * e = k * v
    BY <1>1
  <2> HIDE DEF t, u, v
  <2>3. (0 - u) * e = 0 - u * e /\ (0 - k) * v = 0 - k * v
    BY ONLY <2>2, k \in Int, e \in Nat \ {0}
  <2>4. (0 - u) * e = (0 - k) * v
    BY ONLY <2>2, <2>3
  <2>5. QED  BY <1>1, <2>1, <2>4 DEF Stands, u, v
<1>3. Minus(r, s) = Plus(r, t)
  BY DEF Minus
<1> HIDE DEF t
<1>4. Stands(Plus(r, t), n * e + (0 - k) * d, d * e)
  BY <1>2, PlusStands
<1>5. n * e + (0 - k) * d = n * e - k * d
  BY ONLY n \in Int, d \in Nat \ {0}, k \in Int, e \in Nat \ {0}
<1>6. QED  BY <1>3, <1>4, <1>5

LEMMA ProdStands ==
  ASSUME NEW r, NEW n \in Int, NEW d \in Nat \ {0}, Stands(r, n, d),
         NEW s, NEW k \in Int, NEW e \in Nat \ {0}, Stands(s, k, e)
  PROVE  Stands(Prod(r, s), n * k, d * e)
<1> DEFINE a == r[1]
           b == r[2]
           u == s[1]
           v == s[2]
<1>1. /\ a \in Int /\ b \in Nat \ {0} /\ a * d = n * b
      /\ u \in Int /\ v \in Nat \ {0} /\ u * e = k * v
  BY DEF Stands
<1>2. Prod(r, s) = Ratio(a * u, b * v)
  BY DEF Prod
<1> HIDE DEF a, b, u, v
<1>3. a * u \in Int /\ b * v \in Nat \ {0} /\ d * e \in Nat \ {0} /\ n * k \in Int
  BY ONLY <1>1, n \in Int, d \in Nat \ {0}, k \in Int, e \in Nat \ {0}
<1>4. (a * u) * (d * e) = (n * k) * (b * v)
  <2>1. (a * u) * (d * e) = (a * d) * (u * e)
    BY ONLY <1>1, d \in Nat \ {0}, e \in Nat \ {0}
  <2>2. (n * b) * (k * v) = (n * k) * (b * v)
    BY ONLY <1>1, n \in Int, k \in Int
  <2>3. QED  BY <1>1, <2>1, <2>2
<1>5. Stands(Ratio(a * u, b * v), a * u, b * v)
  BY <1>3, RatioStands
<1>6. QED  BY <1>2, <1>3, <1>4, <1>5, Rescale

LEMMA LessStands ==
  ASSUME NEW r, NEW n \in Int, NEW d \in Nat \ {0}, Stands(r, n, d),
         NEW s, NEW k \in Int, NEW e \in Nat \ {0}, Stands(s, k, e)
  PROVE  Less(r, s) <=> n * e < k * d
<1> DEFINE a == r[1]
           b == r[2]
           u == s[1]
           v == s[2]
<1>1. /\ a \in Int /\ b \in Nat \ {0} /\ a * d = n * b
      /\ u \in Int /\ v \in Nat \ {0} /\ u * e = k * v
  BY DEF Stands
<1>2. Less(r, s) <=> a * v < u * b
  BY DEF Less
<1> HIDE DEF a, b, u, v
<1>3. /\ a * v \in Int /\ u * b \in Int /\ n * e \in Int /\ k * d \in Int
      /\ d * e \in Nat \ {0} /\ b * v \in Nat \ {0}
  BY ONLY <1>1, n \in Int, d \in Nat \ {0}, k \in Int, e \in Nat \ {0}
<1>4. (a * v) * (d * e) = (n * e) * (b * v)
  <2>1. (a * v) * (d * e) = (a * d) * (v * e) /\ (n * b) * (v * e) = (n * e) * (b * v)
    BY ONLY <1>1, n \in Int, d \in Nat \ {0}, e \in Nat \ {0}
  <2>2. QED  BY <1>1, <2>1
<1>5. (u * b) * (d * e) = (k * d) * (b * v)
  <2>1. (u * b) * (d * e) = (u * e) * (b * d) /\ (k * v) * (b * d) = (k * d) * (b * v)
    BY ONLY <1>1, k \in Int, d \in Nat \ {0}, e \in Nat \ {0}
  <2>2. QED  BY <1>1, <2>1
<1>6. a * v < u * b <=> (a * v) * (d * e) < (u * b) * (d * e)
  BY <1>3, Cancel
<1>7. n * e < k * d <=> (n * e) * (b * v) < (k * d) * (b * v)
  BY <1>3, Cancel
<1>8. QED  BY <1>2, <1>4, <1>5, <1>6, <1>7

-----------------------------------------------------------------------------
(* The harness: statistics and exit code *)

\* The running statistics w are those of measurements with the sums s.
Summed(w, s) ==
  /\ s.n \in Nat /\ s.sum \in Int /\ s.squares \in Int /\ w.n = s.n
  /\ SumOfSquares(s) >= 0
  /\ s.n = 0 => s.sum = 0 /\ s.squares = 0 /\ w.mean = Zero /\ w.m2 = Zero
  /\ s.n > 0 => Stands(w.mean, s.sum, s.n) /\ Stands(w.m2, SumOfSquares(s), s.n)

LEMMA Whole == \A x \in Int : Stands(<<x, 1>>, x, 1)
BY DEF Stands

LEMMA ZeroStands == \A d \in Nat \ {0} : Stands(Zero, 0, d)
<1> SUFFICES ASSUME NEW d \in Nat \ {0} PROVE Stands(Zero, 0, d)
  OBVIOUS
<1>1. 0 * d = 0 * 1
  OBVIOUS
<1>2. QED  BY <1>1 DEF Stands, Zero

LEMMA Unit == \A k \in Nat \ {0} : Stands(<<1, k>>, 1, k)
BY DEF Stands

\* How the sum of the squared distances grows with a measurement.
LEMMA SquaresGrow ==
  ASSUME NEW n \in Nat \ {0}, NEW s \in Int, NEW q \in Int, NEW x \in Int
  PROVE  (n * q - s * s) * (n + 1) + (x * n - s) * (x * n - s)
           = ((n + 1) * (q + x * x) - (s + x) * (s + x)) * n
OBVIOUS

\* Welford's update keeps mean and squares exact.
LEMMA AddSummed ==
  ASSUME NEW cx, NEW taken, NEW c \in 0..1, NEW x \in Nat,
         DOMAIN cx = 0..1, DOMAIN taken = 0..1,
         Summed(cx[c], taken[c])
  PROVE  Summed(dudect_add(cx, c, x)[c], Counted(taken, c, x)[c])
<1> DEFINE w == cx[c]
           h == taken[c]
           n == h.n
           s == h.sum
           q == h.squares
           delta == Minus(<<x, 1>>, w.mean)
           mean == Plus(w.mean, Prod(delta, <<1, w.n + 1>>))
           delta2 == Minus(<<x, 1>>, mean)
           m2 == Plus(w.m2, Prod(delta, delta2))
           new == dudect_add(cx, c, x)[c]
           sums == Counted(taken, c, x)[c]
           Q == n * q - s * s
           R == (n + 1) * (q + x * x) - (s + x) * (s + x)
<1>1. new = [n |-> w.n + 1, mean |-> mean, m2 |-> m2]
  BY DEF dudect_add
<1>2. sums = [n |-> n + 1, sum |-> s + x, squares |-> q + x * x]
  BY DEF Counted
<1>3. /\ n \in Nat /\ s \in Int /\ q \in Int /\ w.n = n /\ Q >= 0
      /\ n = 0 => s = 0 /\ q = 0 /\ w.mean = Zero /\ w.m2 = Zero
      /\ n > 0 => Stands(w.mean, s, n) /\ Stands(w.m2, Q, n)
  BY DEF Summed, SumOfSquares
<1>4. /\ new.n = n + 1 /\ new.mean = mean /\ new.m2 = m2
      /\ sums.n = n + 1 /\ sums.sum = s + x /\ sums.squares = q + x * x
      /\ SumOfSquares(sums) = R
  BY <1>1, <1>2, <1>3 DEF SumOfSquares
<1> HIDE DEF new, sums
<1>5. SUFFICES R >= 0 /\ Stands(mean, s + x, n + 1) /\ Stands(m2, R, n + 1)
  <2>0. n \in Nat /\ s \in Int /\ q \in Int
    BY <1>3
  <2> HIDE DEF n, s, q, R, mean, m2, w, h
  <2>1. n + 1 \in Nat /\ s + x \in Int /\ q + x * x \in Int /\ n + 1 > 0 /\ n + 1 # 0
    BY ONLY <2>0, x \in Nat
  <2>2. Summed(new, sums)
    BY <1>3, <1>4, <2>1 DEF Summed
  <2>3. QED  BY <2>2 DEF new, sums
<1>6. /\ Stands(<<x, 1>>, x, 1) /\ Stands(<<1, n + 1>>, 1, n + 1)
      /\ x \in Int /\ n + 1 \in Nat \ {0} /\ 1 \in Nat \ {0}
  <2>1. n \in Nat
    BY <1>3
  <2> HIDE DEF n
  <2>2. x \in Int /\ n + 1 \in Nat \ {0} /\ 1 \in Nat \ {0}
    BY ONLY <2>1, x \in Nat
  <2>3. QED  BY ONLY <2>2, Whole, Unit
<1> HIDE DEF n, s, q, w, h
<1>7. CASE n = 0
  <2>1. Stands(w.mean, 0, 1) /\ Stands(w.m2, 0, 1) /\ s = 0 /\ q = 0
    BY <1>3, <1>7, ZeroStands
  <2>2. Stands(delta, x, 1)
    <3>1. Stands(delta, x * 1 - 0 * 1, 1 * 1)
      BY <1>6, <2>1, MinusStands
    <3>2. x * 1 - 0 * 1 = x /\ 1 * 1 = 1
      BY <1>6
    <3>3. QED  BY <3>1, <3>2
  <2>3. Stands(Prod(delta, <<1, w.n + 1>>), x, 1)
    <3>1. Stands(Prod(delta, <<1, w.n + 1>>), x * 1, 1 * 1)
      <4> DEFINE u == <<1, w.n + 1>>
      <4>1. w.n + 1 = 1 /\ Stands(<<1, 1>>, 1, 1)
        BY <1>3, <1>7, Unit
      <4>2. Stands(u, 1, 1)
        BY <4>1
      <4> HIDE DEF delta, u
      <4>3. Stands(Prod(delta, u), x * 1, 1 * 1)
        BY <1>6, <2>2, <4>2, ProdStands
      <4>4. QED  BY <4>3 DEF u
    <3>2. x * 1 = x /\ 1 * 1 = 1
      BY <1>6
    <3>3. QED  BY <3>1, <3>2
  <2>4. Stands(mean, x, 1)
    <3> DEFINE p == Prod(delta, <<1, w.n + 1>>)
    <3> HIDE DEF p
    <3>1. Stands(Plus(w.mean, p), 0 * 1 + x * 1, 1 * 1)
      BY <1>6, <2>1, <2>3, PlusStands DEF p
    <3>2. 0 * 1 + x * 1 = x /\ 1 * 1 = 1
      BY <1>6
    <3>3. QED  BY <3>1, <3>2 DEF p
  <2> HIDE DEF mean, delta
  <2>5. Stands(delta2, 0, 1)
    <3>1. Stands(delta2, x * 1 - x * 1, 1 * 1)
      BY <1>6, <2>4, MinusStands
    <3>2. x * 1 - x * 1 = 0 /\ 1 * 1 = 1
      BY <1>6
    <3>3. QED  BY <3>1, <3>2
  <2> HIDE DEF delta2
  <2>6. Stands(Prod(delta, delta2), 0, 1)
    <3>1. Stands(Prod(delta, delta2), x * 0, 1 * 1)
      BY <1>6, <2>2, <2>5, ProdStands
    <3>2. x * 0 = 0 /\ 1 * 1 = 1
      BY <1>6
    <3>3. QED  BY <3>1, <3>2
  <2>7. Stands(m2, 0, 1)
    <3> DEFINE p == Prod(delta, delta2)
    <3> HIDE DEF p
    <3>1. Stands(Plus(w.m2, p), 0 * 1 + 0 * 1, 1 * 1)
      BY <1>6, <2>1, <2>6, PlusStands DEF p
    <3>2. 0 * 1 + 0 * 1 = 0 /\ 1 * 1 = 1
      OBVIOUS
    <3>3. QED  BY <3>1, <3>2 DEF p
  <2>8. R = 0 /\ s + x = x /\ n + 1 = 1
    <3>1. (0 + 1) * (0 + x * x) - (0 + x) * (0 + x) = 0
      BY <1>6
    <3>2. QED  BY <1>6, <1>7, <2>1, <3>1
  <2> HIDE DEF m2, R
  <2>9. QED  BY <2>4, <2>7, <2>8
<1>8. CASE n # 0
  <2> DEFINE e == x * n - s
             k == n + 1
  <2>1. /\ n \in Nat \ {0} /\ k \in Nat \ {0} /\ e \in Int /\ Q \in Int /\ R \in Int
        /\ Stands(w.mean, s, n) /\ Stands(w.m2, Q, n)
        /\ n * k \in Nat \ {0} /\ 1 * n = n /\ w.n + 1 = k
    <3>1. n \in Nat \ {0} /\ n > 0
      BY <1>3, <1>8
    <3>2. Q \in Int /\ R \in Int /\ e \in Int /\ n * k \in Nat \ {0} /\ 1 * n = n
      BY ONLY <1>3, <1>6, <3>1
    <3>3. QED  BY <1>3, <1>6, <3>1, <3>2
  <2>2. Q * k + e * e = R * n
    BY ONLY <1>3, <1>6, <2>1, SquaresGrow
  <2> HIDE DEF Q, R
  <2>3. Stands(delta, e, n)
    <3>1. Stands(delta, x * n - s * 1, 1 * n)
      BY <1>3, <1>6, <2>1, MinusStands
    <3>2. x * n - s * 1 = e
      BY ONLY <1>3, <1>6
    <3>3. QED  BY <2>1, <3>1, <3>2
  <2> HIDE DEF delta
  <2>4. Stands(Prod(delta, <<1, w.n + 1>>), e, n * k)
    <3> DEFINE u == <<1, w.n + 1>>
    <3>1. Stands(u, 1, k) /\ e * 1 = e
      BY <2>1, <1>6
    <3> HIDE DEF e, k, u
    <3>2. /\ e \in Int /\ n \in Nat \ {0} /\ Stands(delta, e, n)
          /\ 1 \in Int /\ k \in Nat \ {0} /\ Stands(u, 1, k)
      BY <2>1, <2>3, <3>1
    <3>3. Stands(Prod(delta, u), e * 1, n * k)
      BY ONLY <3>2, ProdStands
    <3>4. QED  BY <3>1, <3>3 DEF u
  <2>5. Stands(mean, s + x, k)
    <3> DEFINE p == Prod(delta, <<1, w.n + 1>>)
    <3>1. Stands(p, e, n * k)
      BY <2>4
    <3> HIDE DEF p
    <3>2. (s * (n * k) + e * n) * k = (s + x) * (n * (n * k))
      BY ONLY <1>3, <1>6, <2>1
    <3>3. s * (n * k) + e * n \in Int /\ n * (n * k) \in Nat \ {0} /\ s + x \in Int
      BY ONLY <1>3, <1>6, <2>1
    <3> HIDE DEF e, k
    <3>4. Stands(Plus(w.mean, p), s * (n * k) + e * n, n * (n * k))
      BY <1>3, <2>1, <3>1, PlusStands
    <3>5. Stands(Plus(w.mean, p), s + x, k)
      BY <2>1, <3>2, <3>3, <3>4, Rescale
    <3>6. QED  BY <3>5 DEF p
  <2> HIDE DEF mean
  <2>6. Stands(delta2, e, k)
    <3>1. Stands(delta2, x * k - (s + x) * 1, 1 * k)
      <4>1. s + x \in Int
        BY <1>3, <1>6
      <4> HIDE DEF k
      <4>2. QED  BY <1>6, <2>1, <2>5, <4>1, MinusStands
    <3>2. x * k - (s + x) * 1 = e /\ 1 * k = k
      BY ONLY <1>3, <1>6
    <3>3. QED  BY <3>1, <3>2
  <2> HIDE DEF delta2
  <2>7. Stands(Prod(delta, delta2), e * e, n * k)
    <3> HIDE DEF e, k
    <3>1. QED  BY <2>1, <2>3, <2>6, ProdStands
  <2>8. Stands(m2, R, k)
    <3> DEFINE p == Prod(delta, delta2)
    <3>1. Stands(p, e * e, n * k)
      BY <2>7
    <3> HIDE DEF p, e, k
    <3>2. (Q * (n * k) + (e * e) * n) * k = R * (n * (n * k))
      <4>1. (Q * (n * k) + (e * e) * n) * k = (Q * k + e * e) * (n * k)
        BY ONLY <2>1
      <4>2. (R * n) * (n * k) = R * (n * (n * k))
        BY ONLY <2>1
      <4>3. QED  BY <2>2, <4>1, <4>2
    <3>3. Q * (n * k) + (e * e) * n \in Int /\ n * (n * k) \in Nat \ {0} /\ e * e \in Int
      BY ONLY <2>1
    <3>4. Stands(Plus(w.m2, p), Q * (n * k) + (e * e) * n, n * (n * k))
      BY <2>1, <3>1, <3>3, PlusStands
    <3>5. Stands(Plus(w.m2, p), R, k)
      BY <2>1, <3>2, <3>3, <3>4, Rescale
    <3>6. QED  BY <3>5 DEF p
  <2>9. R >= 0
    <3> HIDE DEF e, k
    <3>1. Q * k >= 0 /\ e * e >= 0 /\ Q * k \in Int /\ e * e \in Int
      BY ONLY <1>3, <2>1
    <3>2. R * n >= 0
      BY ONLY <2>2, <3>1
    <3>3. R < 0 => R * n < 0
      BY ONLY <2>1
    <3>4. QED  BY ONLY <2>1, <3>2, <3>3
  <2>10. QED  BY <2>5, <2>8, <2>9
<1>9. QED  BY <1>7, <1>8

LEMMA SummedFacts ==
  ASSUME NEW w, NEW s, Summed(w, s)
  PROVE  SumOfSquares(s) \in Nat
<1> DEFINE n == s.n
           a == s.sum
           q == s.squares
<1>1. n \in Int /\ a \in Int /\ q \in Int
  BY DEF Summed
<1>2. SumOfSquares(s) = n * q - a * a
  BY DEF SumOfSquares
<1> HIDE DEF n, a, q
<1>3. n * q - a * a \in Int
  BY ONLY <1>1
<1>4. QED  BY <1>2, <1>3 DEF Summed

\* The variance of the mean of a class.
LEMMA ErrorStands ==
  ASSUME NEW w, NEW s, Summed(w, s), s.n > 1
  PROVE  Stands(SquaredError(w), SumOfSquares(s), s.n * ((s.n - 1) * s.n))
<1> DEFINE n == s.n
           Q == SumOfSquares(s)
           k == (n - 1) * n
           u == <<1, (w.n - 1) * w.n>>
<1>1. /\ n \in Nat \ {0} /\ n - 1 \in Nat \ {0} /\ w.n = n /\ Q \in Int
      /\ Stands(w.m2, Q, n)
  BY SummedFacts DEF Summed
<1>2. SquaredError(w) = Prod(w.m2, u)
  BY DEF SquaredError
<1>3. k \in Nat \ {0} /\ u = <<1, k>> /\ Q * 1 = Q /\ 1 \in Int
  <2> HIDE DEF n, Q
  <2>1. (n - 1) * n \in Nat \ {0}
    BY ONLY <1>1
  <2>2. QED  BY <1>1, <2>1
<1>4. Stands(u, 1, k)
  BY <1>3, Unit
<1> HIDE DEF n, Q, k, u
<1>5. Stands(Prod(w.m2, u), Q * 1, n * k)
  BY ONLY <1>1, <1>3, <1>4, ProdStands
<1>6. QED  BY <1>2, <1>3, <1>5 DEF n, Q, k

\* The verdict is that of Welch's t of the measurements.
LEMMA VerdictIsExact ==
  ASSUME NEW cx, NEW taken, \A c \in 0..1 : Summed(cx[c], taken[c])
  PROVE  dudect_passed(cx) <=> IsFlat(taken)
<1> DEFINE v == cx[0]
           w == cx[1]
           a == taken[0]
           b == taken[1]
           n == a.n
           m == b.n
           Q == SumOfSquares(a)
           R == SumOfSquares(b)
           d == n * ((n - 1) * n)
           e == m * ((m - 1) * m)
           F == a.sum * m - b.sum * n
           A == Q * e + R * d
           denom == Plus(SquaredError(v), SquaredError(w))
           diff == Minus(v.mean, w.mean)
           inv == Ratio(denom[2], denom[1])
           t2 == Prod(Prod(diff, diff), inv)
<1>1. Summed(v, a) /\ Summed(w, b)
  BY 0 \in 0..1, 1 \in 0..1
<1>2. SquaredT(cx) = IF v.n < 2 \/ w.n < 2 \/ denom = Zero THEN {} ELSE {t2}
  BY DEF SquaredT
<1>3. n \in Nat /\ m \in Nat /\ v.n = n /\ w.n = m
  BY <1>1 DEF Summed
<1>4. CASE ~(n > 1 /\ m > 1)
  <2>1. ~dudect_passed(cx)
    BY <1>2, <1>3, <1>4 DEF dudect_passed
  <2>2. ~IsFlat(taken)
    BY <1>4 DEF IsFlat
  <2>3. QED  BY <2>1, <2>2
<1>5. CASE n > 1 /\ m > 1
  <2>1. /\ n \in Nat \ {0} /\ m \in Nat \ {0} /\ n - 1 \in Nat \ {0} /\ m - 1 \in Nat \ {0}
        /\ a.sum \in Int /\ b.sum \in Int /\ Q \in Nat /\ R \in Nat
        /\ Stands(v.mean, a.sum, n) /\ Stands(w.mean, b.sum, m)
    <3>1. Q \in Nat /\ R \in Nat
      BY <1>1, SummedFacts
    <3>2. QED  BY <1>1, <1>3, <1>5, <3>1 DEF Summed
  <2>2. Stands(SquaredError(v), Q, d) /\ Stands(SquaredError(w), R, e)
    BY <1>1, <1>5, ErrorStands
  <2>3. /\ IsFlat(taken) <=>
             4 * (F * F) * ((n - 1) * (m - 1))
               < 81 * (Q * (m * m * (m - 1)) + R * (n * n * (n - 1)))
        /\ 4 \in Nat /\ 81 \in Nat
    BY <1>5 DEF IsFlat, Threshold2
  <2> HIDE DEF v, w, a, b
  <2>4. F \in Int
    BY ONLY <2>1
  <2> HIDE DEF F, n, m, Q, R
  <2>5. d \in Nat \ {0} /\ e \in Nat \ {0} /\ d = n * n * (n - 1) /\ e = m * m * (m - 1)
    BY ONLY <2>1
  <2>6. IsFlat(taken) <=> 4 * (F * F) * ((n - 1) * (m - 1)) < 81 * A
    BY ONLY <2>3, <2>5
  <2> HIDE DEF d, e
  <2>7. A \in Nat /\ d * e \in Nat \ {0}
    BY ONLY <2>1, <2>5
  <2>8. Stands(denom, A, d * e) /\ (A = 0 => denom = Zero)
    <3> DEFINE r == SquaredError(v)
               s == SquaredError(w)
    <3>1. Stands(r, Q, d) /\ Stands(s, R, e) /\ Q \in Int /\ R \in Int
      BY <2>1, <2>2
    <3> HIDE DEF r, s
    <3>2. Stands(Plus(r, s), Q * e + R * d, d * e) /\ (Q * e + R * d = 0 => Plus(r, s) = Zero)
      BY ONLY <2>5, <3>1, PlusStands
    <3>3. QED  BY <3>2 DEF r, s
  <2> HIDE DEF A, denom
  <2>9. CASE A = 0
    <3>1. ~dudect_passed(cx)
      BY <1>2, <2>8, <2>9 DEF dudect_passed
    <3>2. F * F >= 0 /\ (n - 1) * (m - 1) >= 0 /\ F * F \in Int /\ (n - 1) * (m - 1) \in Int
      BY ONLY <2>1, <2>4
    <3> DEFINE g == 4 * (F * F) * ((n - 1) * (m - 1))
    <3>3. g \in Int /\ g >= 0 /\ 81 * A = 0
      BY ONLY <2>9, <3>2
    <3>4. IsFlat(taken) <=> g < 81 * A
      BY <2>6
    <3> HIDE DEF g
    <3>5. QED  BY <3>1, <3>3, <3>4
  <2>10. CASE A # 0
    <3> DEFINE p == denom[1]
               q == denom[2]
    <3>1. p \in Int /\ q \in Nat \ {0} /\ p * (d * e) = A * q
      BY <2>8 DEF Stands
    <3>2. denom # Zero
      BY <2>7, <2>8, <2>10, <3>1 DEF Zero
    <3> HIDE DEF p, q
    <3>3. A \in Nat \ {0} /\ p \in Nat \ {0}
      <4>1. A * q > 0
        BY ONLY <2>7, <2>10, <3>1
      <4>2. p <= 0 => p * (d * e) <= 0
        BY ONLY <2>7, <3>1
      <4>3. QED  BY <2>7, <2>10, <3>1, <4>1, <4>2
    <3>4. Stands(inv, d * e, A)
      <4>1. inv = Ratio(q, p)
        BY DEF p, q
      <4>2. Stands(inv, q, p)
        BY <3>1, <3>3, <4>1, RatioStands
      <4>3. q * A = (d * e) * p
        BY ONLY <2>7, <3>1, <3>3
      <4> HIDE DEF inv
      <4>4. QED  BY <2>7, <3>1, <3>3, <4>2, <4>3, Rescale
    <3> HIDE DEF inv
    <3>5. Stands(diff, F, n * m)
      BY <2>1, MinusStands DEF F
    <3>6. n * m \in Nat \ {0} /\ (n * m) * (n * m) \in Nat \ {0} /\ F * F \in Int
      BY ONLY <2>1, <2>4
    <3> HIDE DEF diff
    <3>7. Stands(Prod(diff, diff), F * F, (n * m) * (n * m))
      BY ONLY <2>4, <3>5, <3>6, ProdStands
    <3> DEFINE D == ((n * m) * (n * m)) * A
               N2 == (F * F) * (d * e)
    <3>8. Stands(t2, N2, D)
      <4>1. d * e \in Int
        BY <2>7
      <4>2. QED  BY ONLY <3>3, <3>4, <3>6, <3>7, <4>1, ProdStands
    <3>9. Stands(Threshold2, 81, 4)
      BY DEF Stands, Threshold2
    <3>10. D \in Nat \ {0} /\ N2 \in Int
      BY ONLY <2>7, <3>3, <3>6
    <3>11. dudect_passed(cx) <=> Less(t2, Threshold2)
      BY <1>2, <1>3, <1>5, <3>2 DEF dudect_passed
    <3> HIDE DEF t2, D, N2
    <3>12. Less(t2, Threshold2) <=> N2 * 4 < 81 * D
      BY <3>8, <3>9, <3>10, LessStands
    <3> DEFINE g == 4 * (F * F) * ((n - 1) * (m - 1))
               c == (n * m) * (n * m)
    <3>13. N2 * 4 = g * c
      <4>1. d * e = ((n * m) * (n * m)) * ((n - 1) * (m - 1))
        BY ONLY <2>1, <2>5
      <4> DEFINE x == F * F
                 y == (n - 1) * (m - 1)
      <4>2. x \in Int /\ y \in Int /\ c \in Int
        BY ONLY <2>1, <3>6
      <4>3. (x * (c * y)) * 4 = (4 * x * y) * c
        <5> HIDE DEF x, y, c
        <5>1. QED  BY ONLY <4>2
      <4>4. QED  BY <4>1, <4>3 DEF N2
    <3>14. 81 * D = (81 * A) * c
      BY ONLY <2>7, <3>6 DEF D
    <3>15. g \in Int /\ 81 * A \in Int /\ c \in Nat \ {0}
      <4>1. (n - 1) * (m - 1) \in Int
        BY ONLY <2>1
      <4>2. QED  BY ONLY <2>7, <3>6, <4>1
    <3> HIDE DEF g, c
    <3>16. g < 81 * A <=> g * c < (81 * A) * c
      BY <3>15, Cancel
    <3>17. QED  BY <2>6, <3>11, <3>12, <3>13, <3>14, <3>16 DEF g
  <2>11. QED  BY <2>9, <2>10
<1>6. QED  BY <1>4, <1>5

LEMMA StartsSummed ==
  /\ DOMAIN dudect_init = 0..1 /\ DOMAIN NoSamples = 0..1
  /\ \A c \in 0..1 : Summed(dudect_init[c], NoSamples[c])
<1> SUFFICES ASSUME NEW c \in 0..1 PROVE Summed(dudect_init[c], NoSamples[c])
  BY DEF dudect_init, NoSamples
<1> DEFINE w == dudect_init[c]
           s == NoSamples[c]
<1>1. w = [n |-> 0, mean |-> Zero, m2 |-> Zero] /\ s = [n |-> 0, sum |-> 0, squares |-> 0]
  BY DEF dudect_init, NoSamples
<1> HIDE DEF w, s
<1>2. Summed(w, s)
  <2>1. SumOfSquares(s) = 0 /\ s.n = 0 /\ s.sum = 0 /\ s.squares = 0 /\ w.n = 0
        /\ w.mean = Zero /\ w.m2 = Zero
    BY <1>1 DEF SumOfSquares
  <2>2. QED  BY <2>1 DEF Summed
<1>3. QED  BY <1>2 DEF w, s

\* The statistics are those of the measurements of the test that runs, and no
\* verdict of an earlier one is lost on the way to main.
StatisticsInv ==
  /\ DOMAIN ctx = 0..1 /\ DOMAIN samples = 0..1
  /\ \A c \in 0..1 : Summed(ctx[c], samples[c])

VerdictsInv ==
  /\ phase \in {"checks", "measuring", "exited"}
  /\ test \in 1..9 /\ failures \in Nat
  /\ phase = "checks" => allFlat /\ failures = 0 /\ exit_code = 0
  /\ phase = "measuring" => sound /\ (allFlat <=> failures = 0 /\ exit_code = 0)
  /\ ExitIsEarned

LEMMA StatisticsStep ==
  ASSUME StatisticsInv, [HarnessNext]_harnessVars
  PROVE  StatisticsInv'
<1>1. CASE UNCHANGED harnessVars \/ SelfChecks
  BY <1>1 DEF StatisticsInv, harnessVars, SelfChecks
<1>2. CASE Measure
  <2>1. PICK c \in 0..1, x \in Durations :
          ctx' = dudect_add(ctx, c, x) /\ samples' = Counted(samples, c, x)
    BY <1>2 DEF Measure
  <2>2. x \in Nat
    BY DurationsAssumption
  <2>3. DOMAIN ctx' = 0..1 /\ DOMAIN samples' = 0..1
    BY <2>1 DEF StatisticsInv, dudect_add, Counted
  <2>4. Summed(ctx'[c], samples'[c])
    BY <2>1, <2>2, AddSummed DEF StatisticsInv
  <2>5. \A e \in 0..1 : e # c => ctx'[e] = ctx[e] /\ samples'[e] = samples[e]
    BY <2>1 DEF StatisticsInv, dudect_add, Counted
  <2>6. QED  BY <2>3, <2>4, <2>5 DEF StatisticsInv
<1>3. CASE Report
  <2>1. ctx' = dudect_init /\ samples' = NoSamples
    BY <1>3 DEF Report
  <2>2. QED  BY <2>1, StartsSummed DEF StatisticsInv
<1>4. QED  BY <1>1, <1>2, <1>3 DEF HarnessNext

LEMMA VerdictsStep ==
  ASSUME StatisticsInv, VerdictsInv, [HarnessNext]_harnessVars
  PROVE  VerdictsInv'
<1>1. CASE UNCHANGED harnessVars \/ Measure
  <2>1. UNCHANGED <<sound, phase, test, failures, exit_code, allFlat>>
    BY <1>1 DEF harnessVars, Measure
  <2>2. QED  BY <2>1 DEF VerdictsInv, ExitIsEarned
<1>2. CASE SelfChecks
  <2>1. /\ phase = "checks" /\ allFlat /\ failures = 0
        /\ phase' = IF sound THEN "measuring" ELSE "exited"
        /\ exit_code' = IF sound THEN 0 ELSE 1
        /\ UNCHANGED <<sound, test, failures, allFlat>>
    BY <1>2 DEF SelfChecks, VerdictsInv
  <2>2. test' \in 1..9 /\ failures' \in Nat
    BY <2>1 DEF VerdictsInv
  <2>3. CASE sound
    <3>1. phase' = "measuring" /\ exit_code' = 0 /\ failures' = 0 /\ allFlat' /\ sound'
      BY <2>1, <2>3
    <3>2. QED  BY <2>2, <3>1 DEF VerdictsInv, ExitIsEarned
  <2>4. CASE ~sound
    <3>1. phase' = "exited" /\ exit_code' = 1 /\ ~sound'
      BY <2>1, <2>4
    <3>2. QED  BY <2>2, <3>1 DEF VerdictsInv, ExitIsEarned
  <2>5. QED  BY <2>3, <2>4
<1>3. CASE Report
  <2> DEFINE flat == IsFlat(samples)
             failed == failures + IF dudect_passed(ctx) THEN 0 ELSE 1
  <2>1. /\ phase = "measuring" /\ sound /\ (allFlat <=> failures = 0 /\ exit_code = 0)
        /\ test \in 1..9 /\ failures \in Nat
    BY <1>3 DEF Report, VerdictsInv
  <2>2. dudect_passed(ctx) <=> flat
    BY VerdictIsExact DEF StatisticsInv
  <2>3. /\ failures' = IF test \in GroupEnds THEN 0 ELSE failed
        /\ exit_code' = ExitCode(failed)
        /\ phase' = IF LastTest THEN "exited" ELSE "measuring"
        /\ test' = IF LastTest THEN test ELSE test + 1
        /\ allFlat' = (allFlat /\ flat) /\ sound' = sound
    BY <1>3 DEF Report
  <2>4. Len(Tests) = 9
    BY DEF Tests
  <2> HIDE DEF flat
  <2>5. failed \in Nat /\ (failed = 0 <=> failures = 0 /\ flat)
    BY <2>1, <2>2
  <2> HIDE DEF failed
  <2>6. failures' \in Nat /\ test' \in 1..9
    BY <2>1, <2>3, <2>4, <2>5 DEF LastTest
  <2>7. allFlat' <=> failures' = 0 /\ exit_code' = 0
    <3>1. CASE test \in GroupEnds
      <4>1. failures' = 0 /\ exit_code' = IF failed > 0 THEN 1 ELSE exit_code
        BY <2>3, <3>1 DEF ExitCode
      <4>2. exit_code' = 0 <=> failed = 0 /\ exit_code = 0
        BY <2>5, <4>1
      <4>3. QED  BY <2>1, <2>3, <2>5, <4>1, <4>2
    <3>2. CASE test \notin GroupEnds
      <4>1. failures' = failed /\ exit_code' = exit_code
        BY <2>3, <3>2 DEF ExitCode
      <4>2. QED  BY <2>1, <2>3, <2>5, <4>1
    <3>3. QED  BY <3>1, <3>2
  <2>8. CASE LastTest
    <3>1. failures' = 0
      <4>1. test \in GroupEnds
        BY <2>4, <2>8 DEF LastTest, GroupEnds
      <4>2. QED  BY <2>3, <4>1
    <3>2. phase' = "exited" /\ sound'
      BY <2>1, <2>3, <2>8
    <3>3. QED  BY <2>6, <2>7, <3>1, <3>2 DEF VerdictsInv, ExitIsEarned
  <2>9. CASE ~LastTest
    <3>1. phase' = "measuring" /\ sound'
      BY <2>1, <2>3, <2>9
    <3>2. QED  BY <2>6, <2>7, <3>1 DEF VerdictsInv, ExitIsEarned
  <2>10. QED  BY <2>8, <2>9
<1>4. QED  BY <1>1, <1>2, <1>3 DEF HarnessNext

\* The harness exits 0 just when its checks held and every test saw two samples
\* in each class, a clock that moved and a Welch's t below the threshold, for
\* any number of measurements and any clock: Welford's running sums lose nothing
\* (in exact arithmetic), and main no verdict.
THEOREM HarnessExitIsEarned == HarnessSpec => []ExitIsEarned
<1>1. HarnessInit => StatisticsInv /\ VerdictsInv
  <2> SUFFICES ASSUME HarnessInit PROVE StatisticsInv /\ VerdictsInv
    OBVIOUS
  <2>1. StatisticsInv
    BY StartsSummed DEF HarnessInit, StatisticsInv
  <2>2. VerdictsInv
    BY DEF HarnessInit, VerdictsInv, ExitIsEarned
  <2>3. QED  BY <2>1, <2>2
<1>2. StatisticsInv /\ VerdictsInv /\ [HarnessNext]_harnessVars
        => (StatisticsInv /\ VerdictsInv)'
  BY StatisticsStep, VerdictsStep
<1>3. VerdictsInv => ExitIsEarned
  BY DEF VerdictsInv
<1>4. QED  BY <1>1, <1>2, <1>3, PTL DEF HarnessSpec

=============================================================================
