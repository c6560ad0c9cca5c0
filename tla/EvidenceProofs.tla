--------------------------- MODULE EvidenceProofs ---------------------------
(***************************************************************************)
(* Theorems about what the decisions rest on: Cohorts and LiveGate for     *)
(* every set of strategies, cohorts and entries and every bound, OrderFlow *)
(* for every set of trades, every length of bar and day and every window,  *)
(* FlowResearch for every course of bars, set of variants and phases.      *)
(***************************************************************************)
EXTENDS LiveGate, OrderFlow, FlowResearch, FiniteSetTheorems,
        SumTheorems, TLAPS

-----------------------------------------------------------------------------
(* Cohorts and LiveGate.                                                   *)

\* The rows of trader_decisions keep the cohort and the parameters they were
\* judged under, and a cohort freezes its parameters once, when it is created.
Row == [state : {"none", "judged", "pending", "parked", "open", "closed"},
        cohort : Cohort \cup {NoCohort}, of : Strategy \cup {NoCohort},
        seen : Params \cup {0}, by : Dispatcher \cup {"auto"}, today : BOOLEAN]

EvidenceKept ==
  /\ entry \in [Entry -> Row]
  /\ params \in [Strategy -> Params]
  /\ \A e \in Entry : entry[e].cohort # NoCohort =>
       status[entry[e].cohort] # "none" /\ entry[e].seen = frozen[entry[e].cohort]
  /\ status \in [Cohort -> {"none", "draft", "running", "invalidated", "passed"}]
  /\ frozen \in [Cohort -> Params]

LEMMA EvidenceInit == CohortInit => EvidenceKept
  BY CohortAssumption DEF CohortInit, EvidenceKept, Row, Unused

\* No step of an operator, of the guard or of the scorecards touches a row, and
\* none freezes again what was frozen.
LEMMA StatusKeepsEvidence ==
  ASSUME EvidenceKept,
         UNCHANGED entry,
         params' \in [Strategy -> Params],
         status' \in [Cohort -> {"none", "draft", "running", "invalidated", "passed"}],
         frozen' \in [Cohort -> Params],
         \A c \in Cohort : status[c] # "none" => status'[c] # "none" /\ frozen'[c] = frozen[c]
  PROVE  EvidenceKept'
  BY DEF EvidenceKept, Row

LEMMA OperatorKeepsEvidence ==
  ASSUME EvidenceKept,
         OperatorNext \/ Score \/ SaveScores \/ (\E c \in Cohort : GuardInvalidates(c))
  PROVE  EvidenceKept'
<1> USE CohortAssumption DEF EvidenceKept
<1>1. ASSUME NEW c \in Cohort, CreateDraft(c) PROVE EvidenceKept'
  BY <1>1, StatusKeepsEvidence DEF CreateDraft, strategyVars
<1>2. ASSUME NEW c \in Cohort, RecordBacktest(c) PROVE EvidenceKept'
  BY <1>2, StatusKeepsEvidence DEF RecordBacktest, strategyVars
<1>3. ASSUME NEW c \in Cohort, Activate(c) PROVE EvidenceKept'
  BY <1>3, StatusKeepsEvidence DEF Activate, evidenceVars
<1>4. ASSUME NEW c \in Cohort, OperatorInvalidates(c) \/ GuardInvalidates(c) PROVE EvidenceKept'
  BY <1>4, StatusKeepsEvidence
  DEF OperatorInvalidates, GuardInvalidates, Invalidate, strategyVars, evidenceVars
<1>5. ASSUME NEW s \in Strategy, PauseStrategy(s) PROVE EvidenceKept'
  BY <1>5, StatusKeepsEvidence DEF PauseStrategy, strategyVars, evidenceVars
<1>6. ASSUME NEW s \in Strategy, NEW p \in Params, Release(s, p) PROVE EvidenceKept'
  BY <1>6, StatusKeepsEvidence DEF Release, evidenceVars
<1>7. CASE Score
  BY <1>7, StatusKeepsEvidence DEF Score, strategyVars
<1>8. CASE SaveScores
  BY <1>8, StatusKeepsEvidence DEF SaveScores, strategyVars
<1> QED BY <1>1, <1>2, <1>3, <1>4, <1>5, <1>6, <1>7, <1>8 DEF OperatorNext

\* A sweep of the rows keeps the evidence when every row keeps its cohort and
\* its parameters or is emptied.
LEMMA RowsKeepEvidence ==
  ASSUME EvidenceKept,
         UNCHANGED <<params, status, frozen>>,
         entry' \in [Entry -> Row],
         \A e \in Entry : \/ entry'[e] = Unused
                          \/ entry'[e].cohort = entry[e].cohort /\ entry'[e].seen = entry[e].seen
  PROVE  EvidenceKept'
<1>1. \A e \in Entry : entry'[e].cohort # NoCohort =>
        entry'[e].cohort = entry[e].cohort /\ entry'[e].seen = entry[e].seen
  BY DEF Unused
<1> QED BY <1>1 DEF EvidenceKept

\* Only an admission sets cohort and parameters of a row; every other step of
\* the dispatch keeps them or empties the row.
LEMMA DispatchKeepsEvidence ==
  ASSUME EvidenceKept,
         DispatchNext
  PROVE  EvidenceKept'
<1> USE CohortAssumption DEF EvidenceKept, Row, strategyVars, evidenceVars
<1>1. ASSUME NEW e \in Entry, NEW s \in Strategy, NEW by \in Dispatcher, Admit(e, s, by)
      PROVE  EvidenceKept'
  BY <1>1 DEF Admit, Admitted, Running, Matches, SameParams
<1>2. ASSUME NEW e \in Entry, Place(e, "pending") \/ Place(e, "open") PROVE EvidenceKept'
  BY <1>2 DEF Place
<1>3. ASSUME NEW e \in Entry, Discard(e) PROVE EvidenceKept'
  BY <1>3 DEF Discard, Unused
<1>4. ASSUME NEW e \in Entry, Close(e) PROVE EvidenceKept'
  BY <1>4 DEF Close, Unused
<1>5. ASSUME NEW healthy \in BOOLEAN, NEW reached \in BOOLEAN, RetrySweep(healthy, reached)
      PROVE  EvidenceKept'
  <2> HIDE DEF EvidenceKept, Row
  <2>1. \A e \in Entry : entry[e] \in Row
    BY DEF EvidenceKept
  <2>2. PICK f \in [Due(healthy) -> {"pending", "open", "parked", "none"}] :
          entry' = [e \in Entry |-> IF e \in Due(healthy) THEN Swept(e, f[e]) ELSE entry[e]]
    BY <1>5 DEF RetrySweep
  <2>3. ASSUME NEW e \in Entry
        PROVE  /\ entry'[e] \in Row
               /\ \/ entry'[e] = Unused
                  \/ entry'[e].cohort = entry[e].cohort /\ entry'[e].seen = entry[e].seen
    <3>1. CASE e \notin Due(healthy)
      BY <2>1, <2>2, <3>1
    <3>2. CASE e \in Due(healthy) /\ f[e] = "none"
      BY <2>2, <3>2 DEF Swept, Unused, Row
    <3>3. CASE e \in Due(healthy) /\ f[e] # "none"
      <4>1. f[e] \in {"pending", "open", "parked"}
        BY <3>3
      <4>2. entry'[e] = [entry[e] EXCEPT !.state = f[e]]
        BY <2>2, <3>3 DEF Swept
      <4> QED BY <2>1, <4>1, <4>2 DEF Row
    <3> QED BY <3>1, <3>2, <3>3
  <2>4. entry' \in [Entry -> Row]
    BY <2>2, <2>3
  <2>5. UNCHANGED <<params, status, frozen>>
    BY <1>5 DEF RetrySweep
  <2>6. \A e \in Entry : \/ entry'[e] = Unused
                         \/ entry'[e].cohort = entry[e].cohort /\ entry'[e].seen = entry[e].seen
    BY <2>3
  <2> QED BY <2>4, <2>5, <2>6, RowsKeepEvidence
<1>6. CASE NewDay
  <2> HIDE DEF EvidenceKept, Row
  <2>1. \A e \in Entry : entry[e] \in Row
    BY DEF EvidenceKept
  <2>2. entry' = [e \in Entry |-> [entry[e] EXCEPT !.today = FALSE]] /\ UNCHANGED <<params, status, frozen>>
    BY <1>6 DEF NewDay
  <2>3. ASSUME NEW e \in Entry
        PROVE  entry'[e] \in Row /\ entry'[e].cohort = entry[e].cohort /\ entry'[e].seen = entry[e].seen
    BY <2>1, <2>2 DEF Row
  <2>4. entry' \in [Entry -> Row]
    BY <2>2, <2>3
  <2> QED BY <2>2, <2>3, <2>4, RowsKeepEvidence
<1> QED BY <1>1, <1>2, <1>3, <1>4, <1>5, <1>6 DEF DispatchNext

LEMMA NextKeepsEvidence == EvidenceKept /\ [CohortNext]_cohortVars => EvidenceKept'
<1>1. EvidenceKept /\ UNCHANGED cohortVars => EvidenceKept'
  BY DEF EvidenceKept, cohortVars
<1> QED BY <1>1, OperatorKeepsEvidence, DispatchKeepsEvidence DEF CohortNext

\* countCohortEntries and the scorecards read cohort-linked rows only: whatever
\* is released, paused, invalidated or retried in the meantime, such a row was
\* judged under the parameters its cohort froze.
THEOREM EvidenceFrozen == CohortSpec => []EvidenceIsFrozen
<1>1. EvidenceKept => EvidenceIsFrozen
  BY DEF EvidenceKept, EvidenceIsFrozen
<1> QED BY <1>1, EvidenceInit, NextKeepsEvidence, PTL DEF CohortSpec

\* At most one cohort of a strategy runs and, once cohorts are enforced, one
\* runs for every active strategy.
Runs(c, s) == status[c] = "running" /\ StrategyOf[c] = s
OneRuns ==
  /\ active \subseteq Strategy
  /\ status \in [Cohort -> {"none", "draft", "running", "invalidated", "passed"}]
  /\ \A c, d \in Cohort : Runs(c, StrategyOf[d]) /\ Runs(d, StrategyOf[d]) => c = d
  /\ enforced => \A s \in active : \E c \in Cohort : Runs(c, s)

LEMMA RunsInit == CohortInit => OneRuns
  BY CohortAssumption DEF CohortInit, OneRuns, Runs

\* Whoever ends a cohort also pauses its strategy.
LEMMA EndingKeepsOneRuns ==
  ASSUME OneRuns,
         NEW cs, active' = Paused(cs), UNCHANGED enforced,
         status' \in [Cohort -> {"none", "draft", "running", "invalidated", "passed"}],
         \A c \in Cohort : status'[c] = "running" => status[c] = "running",
         \A c \in Cohort \ cs : status'[c] = status[c]
  PROVE  OneRuns'
<1>1. ASSUME enforced, NEW s \in active' PROVE \E c \in Cohort : Runs(c, s)'
  <2>1. s \in active /\ \A c \in cs : StrategyOf[c] # s
    BY <1>1 DEF Paused
  <2>2. PICK c \in Cohort : Runs(c, s)
    BY <1>1, <2>1 DEF OneRuns
  <2>3. c \notin cs
    BY <2>1, <2>2 DEF Runs
  <2> QED BY <2>2, <2>3 DEF Runs
<1>2. active' \subseteq Strategy
  BY DEF OneRuns, Paused
<1> QED BY <1>1, <1>2 DEF OneRuns, Runs

LEMMA NextKeepsOneRuns == OneRuns /\ [CohortNext]_cohortVars => OneRuns'
<1> USE CohortAssumption
<1> SUFFICES ASSUME OneRuns, [CohortNext]_cohortVars PROVE OneRuns'
  OBVIOUS
<1>1. ASSUME NEW c \in Cohort, CreateDraft(c) PROVE OneRuns'
  BY <1>1 DEF CreateDraft, OneRuns, Runs
<1>2. ASSUME NEW c \in Cohort, Activate(c) PROVE OneRuns'
  <2> DEFINE s == StrategyOf[c]
  <2>1. /\ \A d \in Cohort : ~Runs(d, s)
        /\ status' = [status EXCEPT ![c] = "running"]
        /\ active' = {t \in active : Running(t) # {}} \cup {s}
    BY <1>2 DEF Activate, Running, Runs
  <2>2. \A d \in Cohort : status'[d] = "running" => d = c \/ status[d] = "running"
    BY <2>1 DEF OneRuns
  <2>3. \A d, e \in Cohort : (Runs(d, StrategyOf[e]) /\ Runs(e, StrategyOf[e]))' => d = e
    BY <2>1, <2>2 DEF OneRuns, Runs
  <2>4. ASSUME NEW t \in active' PROVE \E d \in Cohort : Runs(d, t)'
    <3>1. CASE t = s
      BY <2>1, <3>1 DEF Runs, OneRuns
    <3>2. CASE t # s
      <4>1. PICK d \in Cohort : Runs(d, t)
        BY <2>1, <3>2 DEF Running, Runs
      <4>2. d # c
        BY <3>2, <4>1 DEF Runs
      <4> QED BY <2>1, <4>1, <4>2 DEF Runs, OneRuns
    <3> QED BY <3>1, <3>2
  <2>5. status' \in [Cohort -> {"none", "draft", "running", "invalidated", "passed"}]
    BY <2>1 DEF OneRuns
  <2>6. active' \subseteq Strategy
    BY <2>1 DEF OneRuns
  <2> QED BY <2>3, <2>4, <2>5, <2>6 DEF OneRuns
<1>3. ASSUME NEW c \in Cohort, OperatorInvalidates(c) \/ GuardInvalidates(c) PROVE OneRuns'
  <2>1. active' = Paused({c}) /\ UNCHANGED enforced /\ status' = [status EXCEPT ![c] = "invalidated"]
    BY <1>3 DEF OperatorInvalidates, GuardInvalidates, Invalidate
  <2>2. /\ status' \in [Cohort -> {"none", "draft", "running", "invalidated", "passed"}]
        /\ \A d \in Cohort : status'[d] = "running" => status[d] = "running"
        /\ \A d \in Cohort \ {c} : status'[d] = status[d]
    BY <2>1 DEF OneRuns
  <2> QED BY <2>1, <2>2, EndingKeepsOneRuns
<1>4. CASE SaveScores
  <2> DEFINE passing == {r.cohort : r \in {q \in scored : q.passed /\ q.ran}}
  <2>1. /\ active' = Paused(passing) /\ UNCHANGED enforced
        /\ status' = [c \in Cohort |-> IF c \in passing /\ status[c] = "running" THEN "passed"
                                      ELSE status[c]]
    BY <1>4 DEF SaveScores
  <2> HIDE DEF passing
  <2>2. /\ status' \in [Cohort -> {"none", "draft", "running", "invalidated", "passed"}]
        /\ \A c \in Cohort : status'[c] = "running" => status[c] = "running"
        /\ \A c \in Cohort \ passing : status'[c] = status[c]
    BY <2>1 DEF OneRuns
  <2> QED BY <2>1, <2>2, EndingKeepsOneRuns
<1>5. ASSUME NEW s \in Strategy, PauseStrategy(s) PROVE OneRuns'
  BY <1>5 DEF PauseStrategy, OneRuns, Runs
<1>6. CASE UNCHANGED <<active, status, enforced>>
  BY <1>6 DEF OneRuns, Runs
<1>7. ASSUME NEW c \in Cohort, RecordBacktest(c) PROVE UNCHANGED <<active, status, enforced>>
  BY <1>7 DEF RecordBacktest
<1>8. ASSUME NEW s \in Strategy, NEW p \in Params, Release(s, p)
      PROVE  UNCHANGED <<active, status, enforced>>
  BY <1>8 DEF Release
<1>9. DispatchNext \/ Score \/ UNCHANGED cohortVars => UNCHANGED <<active, status, enforced>>
  BY DEF DispatchNext, Admit, Place, Discard, Close, RetrySweep, NewDay, Score, cohortVars
<1> QED BY <1>1, <1>2, <1>3, <1>4, <1>5, <1>6, <1>7, <1>8, <1>9 DEF CohortNext, OperatorNext

\* Enforced cohorts and active strategies go together: whatever passes, drifts,
\* is invalidated or activated, nothing trades unobserved.
THEOREM ActiveEvaluated == CohortSpec => []ActiveIsEvaluated
<1>1. ASSUME OneRuns, enforced, NEW s \in active PROVE Cardinality(Running(s)) = 1
  <2>1. PICK c \in Cohort : Runs(c, s)
    BY <1>1 DEF OneRuns
  <2>2. Running(s) = {c}
    BY <1>1, <2>1 DEF OneRuns, Runs, Running
  <2> QED BY <2>2, FS_Singleton
<1>2. OneRuns => ActiveIsEvaluated
  BY <1>1 DEF ActiveIsEvaluated
<1> QED BY <1>2, RunsInit, NextKeepsOneRuns, PTL DEF CohortSpec

\* Whether a cohort is ready can be read off the configuration.
LEMMA ReadyByConf ==
  ASSUME Conf' = Conf
  PROVE  Ready' = Ready
<1>1. UNCHANGED <<params, limit, status, frozen, card>>
  BY DEF Conf
<1> QED BY <1>1 DEF Ready, Matches, SameParams

\* A stored result names the configuration of a moment before, unless this step
\* stores it, and then it changes nothing of the configuration.
LEMMA ResultIsOld ==
  ASSUME [GateNext]_gateVars,
         Authorizes, Authorizes'
  PROVE  Conf' = Conf
<1>1. CASE UNCHANGED gateOnlyVars
  BY <1>1 DEF Authorizes, gateOnlyVars
<1>2. CASE GateOnlyNext /\ ~StartNewEpoch
  <2>1. UNCHANGED <<cohortVars, epoch>>
    BY <1>2 DEF GateOnlyNext, ReadTruth, AbandonRun, WeekPasses, RecordRegimes, StoreResult
  <2> QED BY <2>1 DEF Conf, cohortVars, strategyVars, evidenceVars
<1>3. CASE StartNewEpoch
  BY <1>3 DEF StartNewEpoch, Authorizes, NoResult
<1> QED BY <1>1, <1>2, <1>3 DEF GateNext, gateVars

\* gateAuthorizesLive falls with the evidence: the step that leaves no passed
\* cohort under its frozen configuration also leaves no result that authorizes,
\* while an evaluation of any length runs beside it.
THEOREM Revoked == GateSpec => RevokedWithEvidence
<1>1. [GateNext]_gateVars => [Authorizes /\ Ready /\ ~Ready' => ~Authorizes']_gateVars
  BY ReadyByConf, ResultIsOld
<1> QED BY <1>1, PTL DEF GateSpec, RevokedWithEvidence

-----------------------------------------------------------------------------
(* OrderFlow: the raw store.                                               *)

\* The collector remembers every trade it has stored or is about to store, so
\* the batch holds none that any day's shard has.
StoreInv ==
  /\ raw \in [Days -> SUBSET seen]
  /\ pending \subseteq seen
  /\ \A d \in Days : raw[d] \cap pending = {}
  /\ TradeIsStoredOnce

LEMMA StoreInvInit == FlowInit => StoreInv
BY DEF FlowInit, StoreInv, TradeIsStoredOnce

\* The batch goes to the shard of one day.
LEMMA ShardGrows ==
  ASSUME StoreInv, NEW day, raw' = [raw EXCEPT ![day] = @ \cup pending]
  PROVE  /\ raw' \in [Days -> SUBSET seen]
         /\ TradeIsStoredOnce'
         /\ \A d \in Days : raw'[d] \subseteq raw[d] \cup pending
<1>1. raw \in [Days -> SUBSET seen] /\ pending \subseteq seen
  BY DEF StoreInv
<1>2. \A d \in Days : raw'[d] = IF d = day THEN raw[d] \cup pending ELSE raw[d]
  BY <1>1
<1>3. raw' \in [Days -> SUBSET seen]
  BY <1>1
<1>4. \A d \in Days : raw'[d] \subseteq raw[d] \cup pending
  BY <1>2
<1>5. ASSUME NEW d \in Days, NEW e \in Days, d # e PROVE raw'[d] \cap raw'[e] = {}
  <2>1. raw[d] \cap raw[e] = {} /\ raw[d] \cap pending = {} /\ raw[e] \cap pending = {}
    BY <1>5 DEF StoreInv, TradeIsStoredOnce
  <2> QED BY <1>2, <1>5, <2>1
<1> QED BY <1>3, <1>4, <1>5 DEF TradeIsStoredOnce

LEMMA FlushKeepsStore ==
  ASSUME StoreInv, FlushWorks \/ UNCHANGED batchVars, seen' = seen
  PROVE  StoreInv'
<1>1. CASE UNCHANGED batchVars
  BY <1>1 DEF StoreInv, batchVars, TradeIsStoredOnce
<1>2. CASE FlushWorks
  <2>1. pending' = {} /\ (raw' = raw \/ raw' = [raw EXCEPT ![pendingDay] = @ \cup pending])
    BY <1>2 DEF FlushWorks
  <2>2. CASE raw' = raw
    BY <2>1, <2>2 DEF StoreInv, TradeIsStoredOnce
  <2>3. CASE raw' = [raw EXCEPT ![pendingDay] = @ \cup pending]
    BY <2>1, <2>3, ShardGrows DEF StoreInv
  <2> QED BY <2>1, <2>2, <2>3
<1> QED BY <1>1, <1>2

LEMMA TakeKeepsStore ==
  ASSUME StoreInv, NEW m, Take(m)
  PROVE  StoreInv'
<1> DEFINE novel == m.trades \ seen
<1>1. seen' = seen \cup novel
  BY DEF Take
<1>2. \/ raw' = [raw EXCEPT ![pendingDay] = @ \cup pending] /\ pending' = novel
      \/ raw' = raw /\ pending' = pending \cup novel
  BY DEF Take
<1> HIDE DEF novel
<1>3. \A d \in Days : raw[d] \subseteq seen /\ raw[d] \cap pending = {}
  BY DEF StoreInv
<1>4. novel \cap seen = {}
  BY DEF novel
<1>5. CASE raw' = raw /\ pending' = pending \cup novel
  BY <1>1, <1>3, <1>4, <1>5 DEF StoreInv, TradeIsStoredOnce
<1>6. CASE raw' = [raw EXCEPT ![pendingDay] = @ \cup pending] /\ pending' = novel
  <2>1. /\ raw' \in [Days -> SUBSET seen] /\ TradeIsStoredOnce'
        /\ \A d \in Days : raw'[d] \subseteq raw[d] \cup pending
    BY <1>6, ShardGrows
  <2>2. raw' \in [Days -> SUBSET seen']
    BY <1>1, <2>1
  <2>3. \A d \in Days : raw'[d] \subseteq seen
    BY <2>1
  <2>4. \A d \in Days : raw'[d] \cap pending' = {}
    BY <1>4, <1>6, <2>3
  <2>5. pending' \subseteq seen'
    BY <1>1, <1>6
  <2> QED BY <2>1, <2>2, <2>4, <2>5 DEF StoreInv
<1> QED BY <1>2, <1>5, <1>6

LEMMA StoreInvNext == StoreInv /\ [FlowNext]_flowVars => StoreInv'
<1> SUFFICES ASSUME StoreInv, [FlowNext]_flowVars PROVE StoreInv'
  OBVIOUS
<1>1. ASSUME UNCHANGED <<batchVars, seen>> PROVE StoreInv'
  BY <1>1, FlushKeepsStore DEF batchVars
<1>2. CASE Clock
  BY <1>1, <1>2 DEF Clock
<1>3. ASSUME NEW t \in Trade, NEW ahead \in 0..Ahead, TradeHappens(t, ahead) PROVE StoreInv'
  BY <1>1, <1>3 DEF TradeHappens
<1>4. ASSUME NEW trades, Snapshot(trades) PROVE StoreInv'
  BY <1>1, <1>4 DEF Snapshot
<1>5. CASE LoseMessage \/ Repeat \/ SocketOpens \/ Watchdog
  BY <1>1, <1>5 DEF LoseMessage, Repeat, SocketOpens, Watchdog
<1>6. CASE Deliver
  <2>1. PICK m : \/ UNCHANGED <<batchVars, seen>>
                 \/ Take(m)
                 \/ DropFrame(m)
    BY <1>6 DEF Deliver
  <2>2. DropFrame(m) => UNCHANGED <<batchVars, seen>>
    BY DEF DropFrame, FlushFails
  <2> QED BY <1>1, <2>1, <2>2, TakeKeepsStore
<1>7. CASE FlushTimer
  BY <1>7, FlushKeepsStore DEF FlushTimer, FlushFails
<1>8. CASE SocketCloses
  BY <1>8, FlushKeepsStore DEF SocketCloses, FlushFails
<1>9. CASE CollectorRestarts
  <2>1. /\ seen' = UNION {raw[d] : d \in Days} /\ pending' = {} /\ raw' = raw
    BY <1>9 DEF CollectorRestarts, WarmTradeDedupe
  <2>2. raw' \in [Days -> SUBSET seen']
    BY <2>1 DEF StoreInv
  <2> QED BY <2>1, <2>2 DEF StoreInv, TradeIsStoredOnce
<1>10. CASE UNCHANGED flowVars
  BY <1>1, <1>10 DEF flowVars
<1> QED BY <1>2, <1>3, <1>4, <1>5, <1>6, <1>7, <1>8, <1>9, <1>10 DEF FlowNext

\* However often the socket closes, messages come twice and the collector is
\* restarted, no trade is in the shards of two days.
THEOREM StoredOnce == FlowSpec => []TradeIsStoredOnce
<1>1. StoreInv => TradeIsStoredOnce
  BY DEF StoreInv
<1> QED BY <1>1, StoreInvInit, StoreInvNext, PTL DEF FlowSpec

-----------------------------------------------------------------------------
(* FlowResearch.  A scan is a recursive function: what it computes is      *)
(* compared, with and without the bars behind a cut, at the first index    *)
(* where the two would differ.                                             *)

\* scan is the scan after each of the first n bars.
IsScan(bs, from, to, v, cost, n, scan) ==
  scan = [i \in 0..n |->
            IF i = 0 THEN [streak |-> 0, free |-> 1, trades |-> <<>>]
            ELSE Scan(bs, from, to, v, cost, scan[i - 1], i)]

LEMMA ScanExists ==
  ASSUME NEW bs, NEW from, NEW to, NEW v, NEW cost, NEW n \in Nat
  PROVE  \E scan : IsScan(bs, from, to, v, cost, n, scan)
<1> DEFINE T == {k \in Nat : ~ \E scan : IsScan(bs, from, to, v, cost, k, scan)}
<1>1. ASSUME T # {} PROVE FALSE
  <2>1. PICK k \in T : \A m \in T : k <= m
    <3>1. T \in SUBSET Nat
      OBVIOUS
    <3> HIDE DEF T
    <3> QED BY <1>1, <3>1, SmallestNat
  <2>2. k # 0
    <3>1. IsScan(bs, from, to, v, cost, 0, [i \in 0..0 |-> [streak |-> 0, free |-> 1, trades |-> <<>>]])
      BY DEF IsScan
    <3> QED BY <2>1, <3>1
  <2>3. PICK c : IsScan(bs, from, to, v, cost, k - 1, c)
    <3>1. k - 1 \in Nat /\ k - 1 \notin T
      BY <2>1, <2>2
    <3> QED BY <3>1
  <2> DEFINE d == [i \in 0..k |-> IF i = k THEN Scan(bs, from, to, v, cost, c[k - 1], k) ELSE c[i]]
  <2>4. ASSUME NEW i \in 0..k
        PROVE  d[i] = IF i = 0 THEN [streak |-> 0, free |-> 1, trades |-> <<>>]
                      ELSE Scan(bs, from, to, v, cost, d[i - 1], i)
    <3>1. CASE i = k
      <4>1. d[i - 1] = c[k - 1]
        BY <2>1, <2>2, <3>1
      <4> QED BY <2>2, <3>1, <4>1
    <3>2. CASE i # k
      <4>1. i \in 0..k - 1
        BY <2>1, <3>2
      <4>2. c[i] = IF i = 0 THEN [streak |-> 0, free |-> 1, trades |-> <<>>]
                   ELSE Scan(bs, from, to, v, cost, c[i - 1], i)
        BY <2>3, <4>1 DEF IsScan
      <4>3. d[i] = c[i] /\ (i # 0 => d[i - 1] = c[i - 1])
        BY <2>1, <3>2
      <4> QED BY <4>2, <4>3
    <3> QED BY <3>1, <3>2
  <2>5. d = [i \in 0..k |-> d[i]]
    OBVIOUS
  <2> HIDE DEF d
  <2>6. IsScan(bs, from, to, v, cost, k, d)
    BY <2>4, <2>5 DEF IsScan
  <2> QED BY <2>1, <2>6
<1> QED BY <1>1

\* The scans follow one another.
LEMMA ScansFollow ==
  ASSUME NEW bs, Len(bs) \in Nat, NEW from, NEW to, NEW v, NEW cost
  PROVE  /\ Scans(bs, from, to, v, cost)[0] = [streak |-> 0, free |-> 1, trades |-> <<>>]
         /\ \A i \in 1..Len(bs) :
              Scans(bs, from, to, v, cost)[i]
                = Scan(bs, from, to, v, cost, Scans(bs, from, to, v, cost)[i - 1], i)
<1> DEFINE S == Scans(bs, from, to, v, cost)
<1>1. S = CHOOSE scan : IsScan(bs, from, to, v, cost, Len(bs), scan)
  BY DEF Scans, IsScan
<1>2. IsScan(bs, from, to, v, cost, Len(bs), S)
  BY <1>1, ScanExists
<1> HIDE DEF S
<1>3. S[0] = [streak |-> 0, free |-> 1, trades |-> <<>>]
  BY <1>2 DEF IsScan
<1>4. ASSUME NEW i \in 1..Len(bs)
      PROVE  S[i] = Scan(bs, from, to, v, cost, S[i - 1], i)
  BY <1>2 DEF IsScan
<1> QED BY <1>3, <1>4 DEF S

LEMMA LeastIsLeast ==
  ASSUME NEW S \in SUBSET Nat, S # {}
  PROVE  Least(S) \in S /\ \A m \in S : Least(S) <= m
  BY SmallestNat DEF Least

\* cs are the bars of bs that end by end.
CutAt(bs, cs, end) ==
  /\ Len(bs) \in Nat /\ Len(cs) \in 0..Len(bs)
  /\ \A i \in 1..Len(bs) : bs[i].at \in Int
  /\ \A i \in 1..Len(cs) : cs[i] = bs[i] /\ bs[i].at <= end
  /\ \A i \in Len(cs) + 1..Len(bs) : bs[i].at > end

\* A signal depends on the bars up to it.
LEMMA SignalKnowsThePast ==
  ASSUME NEW bs, NEW cs, NEW end, CutAt(bs, cs, end), NEW i \in 1..Len(cs), NEW v
  PROVE  SignalPasses(cs, i, v) <=> SignalPasses(bs, i, v)
<1>1. \A j \in 1..i : cs[j] = bs[j]
  BY DEF CutAt
<1>2. History(cs, i) = History(bs, i)
  BY <1>1 DEF History, CutAt
<1> DEFINE I == History(bs, i)
<1>3. I \subseteq 1..i
  BY DEF History, CutAt
<1>4. \A j \in I : cs[j] = bs[j]
  BY <1>1, <1>3
<1> HIDE DEF I
<1>5. VolatilityAt(cs, I, v.percentile) = VolatilityAt(bs, I, v.percentile)
  <2>1. \A w : {j \in I : cs[j].volatility <= w} = {j \in I : bs[j].volatility <= w}
    BY <1>4
  <2>2. {j \in I : 100 * Cardinality({k \in I : cs[k].volatility <= cs[j].volatility})
                    >= v.percentile * Cardinality(I)}
          = {j \in I : 100 * Cardinality({k \in I : bs[k].volatility <= bs[j].volatility})
                    >= v.percentile * Cardinality(I)}
    BY <1>4, <2>1
  <2>3. {cs[j].volatility : j \in {l \in I :
            100 * Cardinality({k \in I : cs[k].volatility <= cs[l].volatility})
              >= v.percentile * Cardinality(I)}}
          = {bs[j].volatility : j \in {l \in I :
            100 * Cardinality({k \in I : bs[k].volatility <= bs[l].volatility})
              >= v.percentile * Cardinality(I)}}
    BY <1>4, <2>2
  <2> QED BY <2>3 DEF VolatilityAt
<1> QED BY <1>1, <1>2, <1>5 DEF SignalPasses, I

\* So does an exit before the cut; one that the cut takes away ends the scan.
LEMMA ExitBeforeTheCut ==
  ASSUME NEW bs, NEW cs, NEW end, CutAt(bs, cs, end), NEW e \in 1..Len(cs), NEW to
  PROVE  /\ ExitIndex(cs, e, to) \in e..Len(cs) + 1
         /\ ExitIndex(bs, e, to) \in e..Len(bs) + 1
         /\ ExitIndex(cs, e, to) <= Len(cs) => ExitIndex(bs, e, to) = ExitIndex(cs, e, to)
         /\ ExitIndex(cs, e, to) = Len(cs) + 1 => ExitIndex(bs, e, to) > Len(cs)
<1> DEFINE C == {j \in e..Len(cs) : ScanEnds(cs, e, to, j)} \cup {Len(cs) + 1}
           B == {j \in e..Len(bs) : ScanEnds(bs, e, to, j)} \cup {Len(bs) + 1}
<1>1. \A j \in e..Len(cs) : ScanEnds(cs, e, to, j) <=> ScanEnds(bs, e, to, j)
  <2>1. \A j \in e..Len(cs) : cs[j] = bs[j]
    BY DEF CutAt
  <2>2. cs[e] = bs[e]
    BY DEF CutAt
  <2> QED BY <2>1, <2>2 DEF ScanEnds
<1>2. Len(cs) \in Nat /\ Len(bs) \in Nat /\ Len(cs) <= Len(bs)
  BY DEF CutAt
<1>3. Least(C) \in C /\ \A m \in C : Least(C) <= m
  <2>1. C \in SUBSET Nat /\ C # {}
    BY <1>2
  <2> HIDE DEF C
  <2> QED BY <2>1, LeastIsLeast
<1>4. Least(B) \in B /\ \A m \in B : Least(B) <= m
  <2>1. B \in SUBSET Nat /\ B # {}
    BY <1>2
  <2> HIDE DEF B
  <2> QED BY <2>1, LeastIsLeast
<1>5. ExitIndex(cs, e, to) = Least(C) /\ ExitIndex(bs, e, to) = Least(B)
  BY DEF ExitIndex
<1>6. PICK c \in Int, b \in Int : c = Least(C) /\ b = Least(B)
  <2>1. C \subseteq Int /\ B \subseteq Int
    BY <1>2
  <2> HIDE DEF B, C
  <2> QED BY <1>3, <1>4, <2>1
<1>7. ASSUME NEW j \in e..Len(cs) PROVE j \in C <=> j \in B
  <2>1. j \in e..Len(bs) /\ j # Len(cs) + 1 /\ j # Len(bs) + 1
    BY <1>2
  <2> QED BY <1>1, <2>1
<1>8. c \in C /\ b \in B /\ c \in e..Len(cs) + 1 /\ b \in e..Len(bs) + 1
  BY <1>2, <1>3, <1>4, <1>6
<1>9. c <= Len(cs) => b <= c
  BY <1>2, <1>4, <1>6, <1>7, <1>8
<1>10. b <= Len(cs) => c <= b
  BY <1>2, <1>3, <1>6, <1>7, <1>8
<1> QED BY <1>2, <1>5, <1>6, <1>8, <1>9, <1>10

\* Bar i and the next one are before the cut.
InSight(bs, cs, end, i) == CutAt(bs, cs, end) /\ i \in Int /\ i \in 1..Len(cs) - 1

SameExit(bs, cs, i, to) == ExitIndex(cs, i + 1, to) = ExitIndex(bs, i + 1, to)

\* A trade closed before the cut is the same trade; none is closed behind it.
LEMMA TradeBeforeTheCut ==
  ASSUME NEW bs, NEW cs, NEW end, NEW i, InSight(bs, cs, end, i), NEW to, NEW cost
  PROVE  /\ ExitIndex(cs, i + 1, to) <= Len(cs) => Completed(cs, i, to, cost) = Completed(bs, i, to, cost)
         /\ ExitIndex(cs, i + 1, to) = Len(cs) + 1 => Completed(cs, i, to, cost) = <<>>
<1>0. CutAt(bs, cs, end) /\ i \in Int /\ i \in 1..Len(cs) - 1
  BY DEF InSight
<1>1. Len(cs) \in Nat /\ Len(bs) \in Nat /\ Len(cs) <= Len(bs)
  BY <1>0 DEF CutAt
<1>2. PICK e \in 1..Len(cs) : e = i + 1
  BY <1>0, <1>1
<1>3. PICK j \in e..Len(cs) + 1 : j = ExitIndex(cs, e, to)
  BY <1>0, ExitBeforeTheCut
<1>4. CASE j <= Len(cs)
  <2>1. ExitIndex(bs, e, to) = j
    BY <1>3, <1>0, <1>4, ExitBeforeTheCut
  <2>2. cs[j] = bs[j] /\ cs[e] = bs[e] /\ j <= Len(bs) /\ ~(j > Len(cs)) /\ ~(j > Len(bs))
    BY <1>0, <1>1, <1>4 DEF CutAt
  <2>3. ExitPrice(cs, e, j) = ExitPrice(bs, e, j)
    BY <2>2 DEF ExitPrice
  <2>4. Completed(cs, i, to, cost) = Completed(bs, i, to, cost)
    BY <1>2, <1>3, <2>1, <2>2, <2>3 DEF Completed
  <2> QED BY <1>1, <1>2, <1>3, <1>4, <2>4
<1>5. CASE j = Len(cs) + 1
  <2>1. j > Len(cs) /\ ~(j <= Len(cs))
    BY <1>1, <1>5
  <2>2. Completed(cs, i, to, cost) = <<>>
    BY <1>2, <1>3, <2>1 DEF Completed
  <2> QED BY <1>2, <1>3, <2>1, <2>2
<1> QED BY <1>1, <1>4, <1>5

\* When the phase ends by the cut, a trade that is cut off is none anyway.
LEMMA NoTradeBehindThePhase ==
  ASSUME NEW bs, NEW cs, NEW end, NEW i, InSight(bs, cs, end, i), NEW to, NEW cost,
         to \in Int, end \in Int, to <= end
  PROVE  /\ Completed(cs, i, to, cost) = Completed(bs, i, to, cost)
         /\ SameExit(bs, cs, i, to)
<1>0. CutAt(bs, cs, end) /\ i \in Int /\ i \in 1..Len(cs) - 1
  BY DEF InSight
<1> USE DEF SameExit
<1>1. Len(cs) \in Nat /\ Len(bs) \in Nat /\ Len(cs) <= Len(bs)
  BY <1>0 DEF CutAt
<1>2. PICK e \in 1..Len(cs) : e = i + 1
  BY <1>0, <1>1
<1>3. PICK j \in e..Len(cs) + 1 : j = ExitIndex(cs, e, to)
  BY <1>0, ExitBeforeTheCut
<1>4. PICK k \in e..Len(bs) + 1 : k = ExitIndex(bs, e, to)
  BY <1>0, ExitBeforeTheCut
<1>5. CASE j <= Len(cs)
  <2>1. k = j
    BY <1>3, <1>4, <1>0, <1>5, ExitBeforeTheCut
  <2>2. Completed(cs, i, to, cost) = Completed(bs, i, to, cost)
    BY <1>2, <1>3, <1>5, TradeBeforeTheCut
  <2> QED BY <1>2, <1>3, <1>4, <2>1, <2>2
<1>6. CASE j = Len(cs) + 1
  <2>1. k > Len(cs)
    BY <1>3, <1>4, <1>0, <1>6, ExitBeforeTheCut
  <2>2. Completed(cs, i, to, cost) = <<>>
    BY <1>2, <1>3, <1>6, TradeBeforeTheCut
  <2>3. CASE Len(cs) = Len(bs)
    <3>1. k = j /\ k > Len(bs)
      BY <1>1, <1>6, <2>1, <2>3
    <3>2. Completed(bs, i, to, cost) = <<>>
      BY <1>2, <1>4, <3>1 DEF Completed
    <3> QED BY <1>2, <1>3, <1>4, <2>2, <3>1, <3>2
  <2>4. CASE Len(cs) < Len(bs)
    <3>1. bs[j].at > to /\ j \in e..Len(bs)
      BY <1>1, <1>6, <2>4, <1>0 DEF CutAt
    <3>2. k <= j
      <4>1. ScanEnds(bs, e, to, j)
        BY <3>1 DEF ScanEnds
      <4> DEFINE B == {m \in e..Len(bs) : ScanEnds(bs, e, to, m)} \cup {Len(bs) + 1}
      <4>2. j \in B /\ B \in SUBSET Nat
        BY <1>1, <3>1, <4>1
      <4>3. k = Least(B)
        BY <1>4 DEF ExitIndex
      <4> HIDE DEF B
      <4> QED BY <4>2, <4>3, LeastIsLeast
    <3>3. k = j
      BY <1>1, <1>6, <2>1, <3>2
    <3>4. Completed(bs, i, to, cost) = <<>>
      BY <1>2, <1>4, <3>1, <3>3 DEF Completed
    <3> QED BY <1>2, <1>3, <1>4, <2>2, <3>3, <3>4
  <2> QED BY <1>1, <2>3, <2>4
<1> QED BY <1>1, <1>5, <1>6

\* What a bar decides, by cases.
LEMMA ScanCases ==
  ASSUME NEW bs, NEW from, NEW to, NEW v, NEW cost, NEW s, NEW i
  PROVE  LET t == Scan(bs, from, to, v, cost, s, i) IN
         \/ t = s
         \/ t.trades = s.trades
         \/ /\ i # Len(bs) /\ bs[i + 1].at <= to
            /\ t = [streak |-> 0, free |-> ExitIndex(bs, i + 1, to) + 1,
                    trades |-> s.trades \o Completed(bs, i, to, cost)]
  BY DEF Scan

\* The scan behind the trade that bar i starts.
Entered(ds, i, to, cost, s) ==
  [streak |-> 0, free |-> ExitIndex(ds, i + 1, to) + 1,
   trades |-> s.trades \o Completed(ds, i, to, cost)]

\* A bar before the last one in sight decides the same, up to the trade it starts.
LEMMA ScanBeforeTheCut ==
  ASSUME NEW bs, NEW cs, NEW end, NEW i, InSight(bs, cs, end, i),
         NEW from, NEW to, NEW v, NEW cost, NEW s
  PROVE  \/ Scan(cs, from, to, v, cost, s, i) = Scan(bs, from, to, v, cost, s, i)
         \/ /\ Scan(cs, from, to, v, cost, s, i) = Entered(cs, i, to, cost, s)
            /\ Scan(bs, from, to, v, cost, s, i) = Entered(bs, i, to, cost, s)
            /\ ~(i < s.free)
<1>0. CutAt(bs, cs, end) /\ i \in Int /\ i \in 1..Len(cs) - 1
  BY DEF InSight
<1>1. /\ cs[i] = bs[i] /\ cs[i + 1] = bs[i + 1]
      /\ i > 1 => cs[i - 1] = bs[i - 1]
      /\ i # Len(cs) /\ i # Len(bs) /\ i \in 1..Len(cs)
  BY <1>0 DEF CutAt
<1>2. SignalPasses(cs, i, v) <=> SignalPasses(bs, i, v)
  BY <1>0, <1>1, SignalKnowsThePast
<1>3. Follows(cs, i + 1) <=> Follows(bs, i + 1)
  BY <1>0, <1>1 DEF Follows
<1>4. i > 1 => (Follows(cs, i) <=> Follows(bs, i))
  BY <1>1 DEF Follows
<1> DEFINE streakIn(ds) == IF ~SignalPasses(ds, i, v) THEN 0
                           ELSE IF i > 1 /\ Follows(ds, i) THEN s.streak + 1 ELSE 1
<1>5. streakIn(cs) = streakIn(bs)
  BY <1>2, <1>4
<1>6. ASSUME NEW ds, i # Len(ds)
      PROVE  Scan(ds, from, to, v, cost, s, i) =
               IF i < s.free \/ ds[i].at <= from \/ ds[i].at > to THEN s
               ELSE IF ~(/\ streakIn(ds) >= v.confirm /\ Follows(ds, i + 1)
                         /\ ds[i + 1].at <= to /\ ds[i + 1].usable)
                    THEN [streak |-> streakIn(ds), free |-> s.free, trades |-> s.trades]
               ELSE Entered(ds, i, to, cost, s)
  BY <1>6 DEF Scan, Entered
<1> HIDE DEF streakIn
<1> QED BY <1>1, <1>3, <1>5, <1>6

\* When the phase ends by the cut, it decides the same.
LEMMA BarBeforeTheCut ==
  ASSUME NEW bs, NEW cs, NEW end \in Int, NEW i, InSight(bs, cs, end, i),
         NEW from, NEW to \in Int, to <= end, NEW v, NEW cost, NEW s
  PROVE  Scan(cs, from, to, v, cost, s, i) = Scan(bs, from, to, v, cost, s, i)
<1>1. Completed(cs, i, to, cost) = Completed(bs, i, to, cost)
  BY NoTradeBehindThePhase
<1>2. SameExit(bs, cs, i, to)
  BY NoTradeBehindThePhase
<1>3. Entered(cs, i, to, cost, s) = Entered(bs, i, to, cost, s)
  BY <1>1, <1>2 DEF SameExit, Entered
<1> QED BY <1>3, ScanBeforeTheCut

\* A simulation whose phase ends by the cut does not see the bars behind it.
LEMMA PhaseBeforeTheCut ==
  ASSUME NEW bs, NEW cs, NEW end \in Int, CutAt(bs, cs, end),
         NEW from, NEW to \in Int, to <= end, NEW v, NEW cost
  PROVE  Scans(cs, from, to, v, cost)[Len(cs)].trades = Scans(bs, from, to, v, cost)[Len(bs)].trades
<1> DEFINE C == Scans(cs, from, to, v, cost)
           B == Scans(bs, from, to, v, cost)
<1>1. PICK n \in Nat, m \in Nat : n = Len(cs) /\ m = Len(bs) /\ n <= m
  BY DEF CutAt
<1>2. /\ C[0] = B[0] /\ B[0].trades = <<>>
      /\ \A i \in 1..n : C[i] = Scan(cs, from, to, v, cost, C[i - 1], i)
      /\ \A i \in 1..m : B[i] = Scan(bs, from, to, v, cost, B[i - 1], i)
  BY <1>1, ScansFollow
<1> HIDE DEF C, B
<1>3. \A i \in 0..n - 1 : C[i] = B[i]
  <2> DEFINE T == {i \in 0..n - 1 : C[i] # B[i]}
  <2>1. ASSUME T # {} PROVE FALSE
    <3>1. PICK i \in T : \A k \in T : i <= k
      <4>1. T \in SUBSET Nat
        OBVIOUS
      <4> HIDE DEF T
      <4> QED BY <2>1, <4>1, SmallestNat
    <3>2. i \in 1..n - 1 /\ i - 1 \in 0..n - 1 /\ i \in 1..m
      BY <1>1, <1>2, <3>1
    <3>3. C[i - 1] = B[i - 1]
      BY <3>1, <3>2
    <3>4. i \in 1..Len(cs) - 1
      BY <1>1, <3>2
    <3>5. Scan(cs, from, to, v, cost, B[i - 1], i) = Scan(bs, from, to, v, cost, B[i - 1], i)
      <4>1. InSight(bs, cs, end, i)
        BY <3>2, <3>4 DEF InSight
      <4> QED BY <4>1, BarBeforeTheCut
    <3>6. C[i] = B[i]
      BY <1>2, <3>2, <3>3, <3>5
    <3> QED BY <3>1, <3>6
  <2> QED BY <2>1
<1>4. C[n].trades = IF n = 0 THEN <<>> ELSE B[n - 1].trades
  <2>1. CASE n = 0
    BY <1>2, <2>1
  <2>2. CASE n # 0
    <3>1. Scan(cs, from, to, v, cost, C[n - 1], n) = C[n - 1]
      BY <1>1 DEF Scan
    <3> QED BY <1>2, <1>3, <2>2, <3>1
  <2> QED BY <2>1, <2>2
<1>5. ASSUME NEW i \in n..m, i # 0 PROVE B[i].trades = B[i - 1].trades
  <2>1. i = m \/ bs[i + 1].at > to
    BY <1>1 DEF CutAt
  <2>2. \/ B[i] = B[i - 1]
        \/ B[i].trades = B[i - 1].trades
        \/ i # m /\ bs[i + 1].at <= to
    <3>0. i \in 1..m
      BY <1>1, <1>5
    <3>1. B[i] = Scan(bs, from, to, v, cost, B[i - 1], i)
      BY <1>2, <3>0
    <3> QED BY <1>1, <3>1, ScanCases
  <2>3. i # m => bs[i + 1].at \in Int
    BY <1>1 DEF CutAt
  <2> QED BY <2>1, <2>2, <2>3
<1>6. \A i \in n..m : B[i].trades = C[n].trades
  <2> DEFINE T == {i \in n..m : B[i].trades # C[n].trades}
  <2>1. ASSUME T # {} PROVE FALSE
    <3>1. PICK i \in T : \A k \in T : i <= k
      <4>1. T \in SUBSET Nat
        OBVIOUS
      <4> HIDE DEF T
      <4> QED BY <2>1, <4>1, SmallestNat
    <3>2. i # 0
      BY <1>1, <1>2, <1>4, <3>1
    <3>3. B[i].trades = B[i - 1].trades
      BY <1>5, <3>1, <3>2
    <3>4. CASE i = n
      BY <1>4, <3>1, <3>2, <3>3, <3>4
    <3>5. CASE i > n
      <4>1. i - 1 \in n..m /\ i - 1 \notin T
        BY <3>1, <3>5
      <4> QED BY <3>1, <3>3, <4>1
    <3> QED BY <3>1, <3>4, <3>5
  <2> QED BY <2>1
<1>7. B[m].trades = C[n].trades
  BY <1>1, <1>6
<1> QED BY <1>1, <1>7 DEF B, C

BeginsAs(s, t) == Len(s) <= Len(t) /\ \A i \in 1..Len(s) : s[i] = t[i]

\* The trades that a scan of bs may take.
TradesOf(bs, to, cost) == {Completed(bs, i, to, cost)[1] : i \in Int}

LEMMA CompletedIsSeq ==
  ASSUME NEW bs, NEW i \in Int, NEW to, NEW cost
  PROVE  Completed(bs, i, to, cost) \in Seq(TradesOf(bs, to, cost))
<1> DEFINE X == TradesOf(bs, to, cost)
           r == [entry |-> bs[i + 1].at, exit |-> bs[ExitIndex(bs, i + 1, to)].at, signal |-> i,
                 net |-> ExitPrice(bs, i + 1, ExitIndex(bs, i + 1, to)) - bs[i + 1].open - cost]
<1>1. Completed(bs, i, to, cost) = <<>> \/ Completed(bs, i, to, cost) = <<r>>
  BY DEF Completed
<1> HIDE DEF r
<1>2. Completed(bs, i, to, cost)[1] \in X
  BY DEF TradesOf
<1> HIDE DEF X
<1>3. PICK c : c = Completed(bs, i, to, cost)
  OBVIOUS
<1>4. CASE c = <<>>
  BY <1>3, <1>4 DEF X
<1>5. CASE c = <<r>>
  <2>1. r \in X
    BY <1>2, <1>3, <1>5
  <2>2. <<r>> \in Seq(X)
    BY <2>1
  <2> QED BY <1>3, <1>5, <2>2 DEF X
<1> QED BY <1>1, <1>3, <1>4, <1>5

LEMMA BeginsJoined ==
  ASSUME NEW X, NEW s \in Seq(X), NEW t \in Seq(X), NEW u \in Seq(X), BeginsAs(s, t)
  PROVE  t \o u \in Seq(X) /\ BeginsAs(s, t \o u)
  BY DEF BeginsAs

LEMMA BeginsItself == ASSUME NEW X, NEW s \in Seq(X) PROVE BeginsAs(s, s)
  BY DEF BeginsAs

LEMMA BeginsOnwards ==
  ASSUME NEW X, NEW s \in Seq(X), NEW t \in Seq(X), NEW u \in Seq(X), BeginsAs(s, t), BeginsAs(t, u)
  PROVE  BeginsAs(s, u)
  BY DEF BeginsAs

\* A bar adds at most a trade.
LEMMA TradesGrow ==
  ASSUME NEW bs, NEW from, NEW to, NEW v, NEW cost, NEW s, NEW i \in Int,
         s.trades \in Seq(TradesOf(bs, to, cost))
  PROVE  /\ Scan(bs, from, to, v, cost, s, i).trades \in Seq(TradesOf(bs, to, cost))
         /\ BeginsAs(s.trades, Scan(bs, from, to, v, cost, s, i).trades)
<1> DEFINE X == TradesOf(bs, to, cost)
<1>1. PICK t : t = Scan(bs, from, to, v, cost, s, i)
  OBVIOUS
<1>2. \/ t.trades = s.trades
      \/ t.trades = s.trades \o Completed(bs, i, to, cost)
  BY <1>1, ScanCases
<1>3. Completed(bs, i, to, cost) \in Seq(X)
  BY CompletedIsSeq
<1> HIDE DEF X
<1>4. BeginsAs(s.trades, s.trades)
  BY BeginsItself
<1>5. s.trades \in Seq(X)
  BY DEF X
<1>6. CASE t.trades = s.trades
  BY <1>1, <1>4, <1>5, <1>6 DEF X
<1>7. CASE t.trades = s.trades \o Completed(bs, i, to, cost)
  <2>1. /\ s.trades \o Completed(bs, i, to, cost) \in Seq(X)
        /\ BeginsAs(s.trades, s.trades \o Completed(bs, i, to, cost))
    BY <1>3, <1>4, <1>5, BeginsJoined
  <2> QED BY <1>1, <1>7, <2>1 DEF X
<1> QED BY <1>2, <1>6, <1>7

\* c, the scan of the bars up to the cut, is the scan b of all bars, or it
\* waits for the exit from a position that it enters as b does.
Behind(c, b, n) == c = b \/ (c.free \in Int /\ c.free > n /\ BeginsAs(c.trades, b.trades))

LEMMA BehindStep ==
  ASSUME NEW bs, NEW cs, NEW end, NEW i, InSight(bs, cs, end, i),
         NEW from, NEW to, NEW v, NEW cost, NEW c, NEW b,
         b.trades \in Seq(TradesOf(bs, to, cost)), c.trades \in Seq(TradesOf(bs, to, cost)),
         Behind(c, b, Len(cs))
  PROVE  /\ Scan(cs, from, to, v, cost, c, i).trades \in Seq(TradesOf(bs, to, cost))
         /\ Behind(Scan(cs, from, to, v, cost, c, i), Scan(bs, from, to, v, cost, b, i), Len(cs))
<1> DEFINE X == TradesOf(bs, to, cost)
<1>0. CutAt(bs, cs, end) /\ i \in Int /\ i \in 1..Len(cs) - 1
  BY DEF InSight
<1>1. PICK c1, b1 : c1 = Scan(cs, from, to, v, cost, c, i) /\ b1 = Scan(bs, from, to, v, cost, b, i)
  OBVIOUS
<1>2. b1.trades \in Seq(X) /\ BeginsAs(b.trades, b1.trades)
  BY <1>0, <1>1, TradesGrow
<1>3. PICK n \in Nat : n = Len(cs)
  BY <1>0 DEF CutAt
<1>4. CASE c # b
  <2>1. c.free \in Int /\ c.free > n /\ BeginsAs(c.trades, b.trades)
    BY <1>3, <1>4 DEF Behind
  <2>2. i < c.free
    BY <1>0, <1>3, <2>1
  <2>3. c1 = c
    BY <1>1, <2>2 DEF Scan
  <2>4. BeginsAs(c.trades, b1.trades)
    BY <1>2, <2>1, BeginsOnwards
  <2> QED BY <1>1, <1>3, <2>1, <2>3, <2>4 DEF Behind
<1>5. CASE c = b
  <2>1. CASE c1 = b1
    BY <1>1, <1>2, <2>1 DEF Behind
  <2>2. CASE c1 # b1
    <3>1. c1 = Entered(cs, i, to, cost, b) /\ b1 = Entered(bs, i, to, cost, b)
      BY <1>1, <1>5, <2>2, ScanBeforeTheCut
    <3>2. PICK e \in 1..Len(cs) : e = i + 1
      BY <1>0, <1>3
    <3>3. PICK j \in e..n + 1 : j = ExitIndex(cs, e, to)
      BY <1>0, <1>3, ExitBeforeTheCut
    <3>4. j = n + 1
      <4>1. SUFFICES ASSUME j <= n PROVE FALSE
        BY <1>3, <3>2, <3>3
      <4>2. ExitIndex(bs, e, to) = j
        BY <1>0, <1>3, <3>3, <4>1, ExitBeforeTheCut
      <4>3. Completed(cs, i, to, cost) = Completed(bs, i, to, cost)
        BY <1>3, <3>2, <3>3, <4>1, TradeBeforeTheCut
      <4> QED BY <2>2, <3>1, <3>2, <3>3, <4>2, <4>3 DEF Entered
    <3>5. Completed(cs, i, to, cost) = <<>>
      BY <1>3, <3>2, <3>3, <3>4, TradeBeforeTheCut
    <3>6. c1.free = n + 2 /\ c1.trades = b.trades \o <<>>
      BY <1>3, <3>1, <3>2, <3>3, <3>4, <3>5 DEF Entered
    <3>7. b.trades \o <<>> = b.trades
      <4> HIDE DEF X
      <4>1. b.trades \in Seq(X)
        BY DEF X
      <4> QED BY <4>1
    <3> QED BY <1>1, <1>2, <1>3, <3>6, <3>7 DEF Behind
  <2> QED BY <2>1, <2>2
<1> QED BY <1>4, <1>5

\* The trades of the bars before the cut are the first ones.
LEMMA TradesBeforeTheCut ==
  ASSUME NEW bs, NEW cs, NEW end, CutAt(bs, cs, end), NEW from, NEW to, NEW v, NEW cost
  PROVE  IsPrefix(Scans(cs, from, to, v, cost)[Len(cs)].trades, Scans(bs, from, to, v, cost)[Len(bs)].trades)
<1> DEFINE C == Scans(cs, from, to, v, cost)
           B == Scans(bs, from, to, v, cost)
           X == TradesOf(bs, to, cost)
<1>1. PICK n \in Nat, m \in Nat : n = Len(cs) /\ m = Len(bs) /\ n <= m
  BY DEF CutAt
<1>2. /\ C[0] = B[0] /\ B[0].trades = <<>>
      /\ \A i \in 1..n : C[i] = Scan(cs, from, to, v, cost, C[i - 1], i)
      /\ \A i \in 1..m : B[i] = Scan(bs, from, to, v, cost, B[i - 1], i)
  BY <1>1, ScansFollow
<1> HIDE DEF C, B, X
<1>3. \A i \in 0..m : B[i].trades \in Seq(X)
  <2> DEFINE T == {i \in 0..m : B[i].trades \notin Seq(X)}
  <2>1. ASSUME T # {} PROVE FALSE
    <3>1. PICK i \in T : \A k \in T : i <= k
      <4>1. T \in SUBSET Nat
        OBVIOUS
      <4> HIDE DEF T
      <4> QED BY <2>1, <4>1, SmallestNat
    <3>0. i # 0
      <4>1. <<>> \in Seq(X)
        OBVIOUS
      <4> QED BY <1>2, <3>1, <4>1
    <3>2. i \in 1..m /\ i - 1 \in 0..m /\ i - 1 \notin T
      BY <1>1, <3>0, <3>1
    <3>3. i \in Int /\ B[i - 1].trades \in Seq(X)
      BY <3>2
    <3>4. B[i].trades \in Seq(X)
      BY <1>2, <3>2, <3>3, TradesGrow DEF X
    <3> QED BY <3>1, <3>4
  <2> QED BY <2>1
<1>4. \A i \in 0..n - 1 : C[i].trades \in Seq(X) /\ Behind(C[i], B[i], n)
  <2> DEFINE T == {i \in 0..n - 1 : ~(C[i].trades \in Seq(X) /\ Behind(C[i], B[i], n))}
  <2>1. ASSUME T # {} PROVE FALSE
    <3>1. PICK i \in T : \A k \in T : i <= k
      <4>1. T \in SUBSET Nat
        OBVIOUS
      <4> HIDE DEF T
      <4> QED BY <2>1, <4>1, SmallestNat
    <3>2. i # 0
      BY <1>1, <1>2, <1>3, <3>1 DEF Behind
    <3>3. i \in 1..n - 1 /\ i - 1 \in 0..n - 1 /\ i - 1 \in 0..m /\ i \in 1..m /\ i \in 1..n /\ i - 1 \notin T
      BY <1>1, <3>1, <3>2
    <3>4. C[i - 1].trades \in Seq(X) /\ Behind(C[i - 1], B[i - 1], n) /\ B[i - 1].trades \in Seq(X)
      BY <1>3, <3>3
    <3>5. InSight(bs, cs, end, i)
      BY <1>1, <3>3 DEF InSight
    <3>6. PICK c, b : c = C[i - 1] /\ b = B[i - 1]
      OBVIOUS
    <3>7. C[i] = Scan(cs, from, to, v, cost, c, i) /\ B[i] = Scan(bs, from, to, v, cost, b, i)
      BY <1>2, <3>3, <3>6
    <3>8. C[i].trades \in Seq(X) /\ Behind(C[i], B[i], n)
      <4> HIDE DEF T
      <4> QED BY <1>1, <3>4, <3>5, <3>6, <3>7, BehindStep DEF X
    <3> QED BY <3>1, <3>8
  <2> QED BY <2>1
<1>5. \A k \in 0..m : \A i \in k..m : BeginsAs(B[k].trades, B[i].trades)
  <2> TAKE k \in 0..m
  <2> DEFINE T == {i \in k..m : ~BeginsAs(B[k].trades, B[i].trades)}
  <2>1. ASSUME T # {} PROVE FALSE
    <3>1. PICK i \in T : \A l \in T : i <= l
      <4>1. T \in SUBSET Nat
        OBVIOUS
      <4> HIDE DEF T
      <4> QED BY <2>1, <4>1, SmallestNat
    <3>2. i # k
      BY <1>3, <3>1, BeginsItself
    <3>3. i \in 1..m /\ i - 1 \in k..m /\ i - 1 \in 0..m /\ i - 1 \notin T /\ i \in Int /\ i \in 0..m
      BY <1>1, <3>1, <3>2
    <3>4. BeginsAs(B[k].trades, B[i - 1].trades)
      BY <3>3
    <3>5. BeginsAs(B[i - 1].trades, B[i].trades)
      BY <1>2, <1>3, <3>3, TradesGrow DEF X
    <3>6. BeginsAs(B[k].trades, B[i].trades)
      BY <1>3, <3>3, <3>4, <3>5, BeginsOnwards
    <3> QED BY <3>1, <3>6
  <2> QED BY <2>1
<1>6. C[n].trades \in Seq(X) /\ BeginsAs(C[n].trades, B[m].trades)
  <2>1. CASE n = 0
    BY <1>1, <1>2, <1>3, <1>5, <2>1
  <2>2. CASE n # 0
    <3>1. C[n] = C[n - 1]
      <4>1. Scan(cs, from, to, v, cost, C[n - 1], n) = C[n - 1]
        BY <1>1 DEF Scan
      <4> QED BY <1>2, <2>2, <4>1
    <3>2. n - 1 \in 0..n - 1 /\ n - 1 \in 0..m /\ m \in n - 1..m /\ m \in 0..m
      BY <1>1, <2>2
    <3>3. C[n - 1].trades \in Seq(X) /\ BeginsAs(C[n - 1].trades, B[n - 1].trades)
      BY <1>3, <1>4, <3>2, BeginsItself DEF Behind
    <3>4. BeginsAs(B[n - 1].trades, B[m].trades)
      BY <1>5, <3>2
    <3>5. BeginsAs(C[n - 1].trades, B[m].trades)
      BY <1>3, <3>2, <3>3, <3>4, BeginsOnwards
    <3> QED BY <3>1, <3>3, <3>5
  <2> QED BY <2>1, <2>2
<1>7. PICK s \in Seq(X), t \in Seq(X) : s = C[n].trades /\ t = B[m].trades
  BY <1>1, <1>3, <1>6
<1>8. IsPrefix(s, t)
  <2>1. Len(s) <= Len(t) /\ \A i \in 1..Len(s) : s[i] = t[i]
    BY <1>6, <1>7 DEF BeginsAs
  <2>2. SubSeq(s, 1, Len(s)) = SubSeq(t, 1, Len(s))
    BY <2>1
  <2> QED BY <2>1, <2>2 DEF IsPrefix
<1> QED BY <1>1, <1>7, <1>8 DEF B, C

\* Bars are in order of time.
InOrder(bs) ==
  /\ \E S : bs \in Seq(S)
  /\ \A i \in 1..Len(bs) : bs[i].at \in Int
  /\ \A i, j \in 1..Len(bs) : i < j => bs[i].at < bs[j].at

LEMMA InTimeCuts ==
  ASSUME NEW bs, InOrder(bs), NEW end \in Int
  PROVE  CutAt(bs, InTime(bs, end), end)
<1>1. PICK S : bs \in Seq(S)
  BY DEF InOrder
<1>2. PICK m \in Nat : m = Len(bs) /\ DOMAIN bs = 1..m
  BY <1>1
<1> DEFINE T == {i \in 1..m + 1 : i = m + 1 \/ bs[i].at > end}
<1>3. PICK f \in T : \A i \in T : f <= i
  <2>1. T \in SUBSET Nat /\ m + 1 \in T
    OBVIOUS
  <2> HIDE DEF T
  <2> QED BY <2>1, SmallestNat
<1>4. PICK k \in 0..m : f = k + 1
  <2>1. f - 1 \in 0..m /\ f = (f - 1) + 1
    BY <1>3
  <2> QED BY <2>1
<1>5. \A i \in 1..k : bs[i].at <= end
  <2> TAKE i \in 1..k
  <2>1. i \in 1..m + 1 /\ i # m + 1 /\ i \notin T
    BY <1>3, <1>4
  <2>2. bs[i].at \in Int
    BY <1>2, <2>1 DEF InOrder
  <2> QED BY <2>1, <2>2
<1>6. \A i \in k + 1..m : bs[i].at > end
  <2> TAKE i \in k + 1..m
  <2>1. f \in 1..m /\ bs[f].at > end
    BY <1>3, <1>4
  <2>2. f <= i /\ i \in 1..m
    BY <1>3, <1>4
  <2>3. bs[f].at <= bs[i].at /\ bs[f].at \in Int /\ bs[i].at \in Int
    BY <1>2, <2>1, <2>2 DEF InOrder
  <2> QED BY <2>1, <2>3
<1> HIDE DEF T
<1>7. {i \in DOMAIN bs : bs[i].at <= end} = 1..k
  <2>1. \A i \in 1..m : bs[i].at \in Int
    BY <1>2 DEF InOrder
  <2>2. ASSUME NEW i PROVE i \in {j \in DOMAIN bs : bs[j].at <= end} <=> i \in 1..k
    BY <1>2, <1>4, <1>5, <1>6, <2>1
  <2> QED BY <2>2
<1>8. Cardinality(1..k) = k
  BY FS_Interval
<1>9. PICK cs : cs = InTime(bs, end)
  OBVIOUS
<1>10. cs = SubSeq(bs, 1, k)
  BY <1>7, <1>8, <1>9 DEF InTime
<1>11. Len(cs) = k /\ \A i \in 1..k : cs[i] = bs[i]
  BY <1>1, <1>2, <1>4, <1>10
<1>12. \A i \in 1..m : bs[i].at \in Int
  BY <1>2 DEF InOrder
<1> QED BY <1>2, <1>5, <1>6, <1>9, <1>11, <1>12 DEF CutAt

LEMMA CutOfACut ==
  ASSUME NEW fs, NEW bs, NEW cs, NEW end \in Int, NEW last \in Int, end <= last,
         CutAt(fs, bs, last), CutAt(fs, cs, end)
  PROVE  CutAt(bs, cs, end)
<1>1. PICK m \in Nat, n \in Nat, k \in Nat : m = Len(fs) /\ n = Len(bs) /\ k = Len(cs) /\ n <= m /\ k <= m
  BY DEF CutAt
<1>2. k <= n
  <2>1. SUFFICES ASSUME n < k PROVE FALSE
    BY <1>1
  <2>2. PICK i \in 1..m : i = n + 1 /\ i \in n + 1..m /\ i \in 1..k
    BY <1>1, <2>1
  <2>3. fs[i].at \in Int /\ fs[i].at > last /\ fs[i].at <= end
    BY <1>1, <2>2 DEF CutAt
  <2> QED BY <2>3
<1>3. \A i \in 1..n : i \in 1..m /\ bs[i] = fs[i] /\ bs[i].at \in Int
  BY <1>1 DEF CutAt
<1>4. \A i \in 1..k : cs[i] = bs[i] /\ bs[i].at <= end
  BY <1>1, <1>2, <1>3 DEF CutAt
<1>5. \A i \in k + 1..n : bs[i].at > end
  BY <1>1, <1>3 DEF CutAt
<1> QED BY <1>1, <1>2, <1>3, <1>4, <1>5 DEF CutAt

\* The variant that is chosen depends on the bars up to the end of validation.
LEMMA SelectKnowsNoHoldout ==
  ASSUME NEW bs, NEW cs, CutAt(bs, cs, ValidationEnd)
  PROVE  Select(bs) = Select(cs)
<1>1. ValidationEnd \in Int /\ DevelopmentEnd \in Int /\ DevelopmentEnd <= ValidationEnd
  BY ResearchAssumption
<1>2. \A v : Development(bs, v) = Development(cs, v)
  BY <1>1, PhaseBeforeTheCut DEF Development, Simulate, LastBar
<1>3. \A v : Validation(bs, v) = Validation(cs, v)
  BY <1>1, PhaseBeforeTheCut DEF Validation, Simulate, LastBar
<1>4. [k \in DOMAIN Variants |-> Validation(bs, Variants[k])]
        = [k \in DOMAIN Variants |-> Validation(cs, Variants[k])]
  BY <1>3
<1>5. \A O : {k \in DOMAIN Variants : Qualified(Development(bs, Variants[k])) /\ Qualified(O[k])}
        = {k \in DOMAIN Variants : Qualified(Development(cs, Variants[k])) /\ Qualified(O[k])}
  BY <1>2
<1> QED BY <1>4, <1>5 DEF Select

FlowInv ==
  /\ quarter \in Nat
  /\ InOrder(flow)
  /\ \A i \in 1..Len(flow) : flow[i].at <= quarter

LEMMA FlowInvInit == ResearchInit => FlowInv
<1> SUFFICES ASSUME ResearchInit PROVE FlowInv
  OBVIOUS
<1>1. flow = <<>> /\ quarter = 0 /\ Len(flow) = 0
  BY DEF ResearchInit
<1>2. flow \in Seq({})
  BY <1>1
<1> QED BY <1>1, <1>2 DEF FlowInv, InOrder

LEMMA FlowInvNext == FlowInv /\ [ResearchNext]_researchVars => FlowInv'
<1> SUFFICES ASSUME FlowInv, [ResearchNext]_researchVars PROVE FlowInv'
  OBVIOUS
<1> USE DEF FlowInv
<1>1. ASSUME NEW kind, NextBar(kind) PROVE FlowInv'
  <2>1. quarter' = quarter + 1
    BY <1>1 DEF NextBar
  <2>2. CASE flow' = flow
    BY <2>1, <2>2 DEF InOrder
  <2>3. CASE flow' # flow
    <3>1. PICK b : flow' = Append(flow, b) /\ b.at = quarter'
      <4> DEFINE b == [at |-> quarter', usable |-> kind.usable, volatility |-> kind.volatility,
                       trade |-> kind.trade, depth |-> kind.depth,
                       open |-> price, close |-> price', low |-> Least({price, price'})]
      <4>1. flow' = Append(flow, b)
        BY <1>1, <2>3 DEF NextBar
      <4>2. b.at = quarter'
        OBVIOUS
      <4> HIDE DEF b
      <4> QED BY <4>1, <4>2
    <3>2. PICK S : flow \in Seq(S)
      BY DEF InOrder
    <3>3. PICK R : R = S \cup {b}
      OBVIOUS
    <3>4. flow \in Seq(R) /\ b \in R
      BY <3>2, <3>3
    <3>5. /\ flow' \in Seq(R) /\ Len(flow') = Len(flow) + 1 /\ Len(flow) \in Nat
          /\ flow'[Len(flow) + 1] = b
          /\ \A i \in 1..Len(flow) : flow'[i] = flow[i]
      BY <3>1, <3>4
    <3>6. PICK n \in Nat, q \in Nat : n = Len(flow) /\ q = quarter
      BY <3>5
    <3>7. \A i \in 1..n : flow'[i].at \in Int /\ flow'[i].at <= q
      BY <3>5, <3>6 DEF InOrder
    <3>8. flow'[n + 1].at = q + 1
      BY <2>1, <3>1, <3>5, <3>6
    <3>9. ASSUME NEW i \in 1..n + 1
          PROVE  flow'[i].at \in Int /\ flow'[i].at <= quarter'
      <4>1. CASE i \in 1..n
        BY <2>1, <3>6, <3>7, <4>1
      <4>2. CASE i = n + 1
        BY <2>1, <3>6, <3>8, <4>2
      <4> QED BY <4>1, <4>2
    <3>10. ASSUME NEW i \in 1..n + 1, NEW j \in 1..n + 1, i < j
           PROVE  flow'[i].at < flow'[j].at
      <4>1. i \in 1..n
        BY <3>10
      <4>2. CASE j \in 1..n
        BY <3>5, <3>6, <3>10, <4>1, <4>2 DEF InOrder
      <4>3. CASE j = n + 1
        BY <3>7, <3>8, <4>1, <4>3
      <4> QED BY <4>2, <4>3
    <3>11. Len(flow') = n + 1
      BY <3>5, <3>6
    <3>12. InOrder(flow)'
      BY <3>5, <3>9, <3>10, <3>11 DEF InOrder
    <3>13. quarter' \in Nat /\ \A i \in 1..Len(flow') : flow'[i].at <= quarter'
      BY <2>1, <3>9, <3>11
    <3> QED BY <3>12, <3>13
  <2> QED BY <2>2, <2>3
<1>2. CASE ChangeStrategies
  BY <1>2 DEF ChangeStrategies
<1>3. ASSUME NEW resampled, NEW stops, Evaluate(resampled, stops) PROVE FlowInv'
  BY <1>3 DEF Evaluate
<1>4. CASE UNCHANGED researchVars
  BY <1>4 DEF researchVars
<1> QED BY <1>1, <1>2, <1>3, <1>4 DEF ResearchNext

LEMMA EvaluationLooksBack ==
  ASSUME FlowInv, NEW resampled, NEW stops, Evaluate(resampled, stops)
  PROVE  /\ verdict'.variant = Select(InTime(flow, ValidationEnd))
         /\ \A k \in DOMAIN Variants, end \in ValidationEnd..Cutoff :
              IsPrefix(Holdout(InTime(flow, end), Variants[k], Cost),
                       Holdout(InTime(flow, Cutoff), Variants[k], Cost))
<1>1. ValidationEnd \in Int /\ Cutoff \in Int /\ ValidationEnd <= Cutoff
  BY ResearchAssumption
<1>2. \A end \in Int : CutAt(flow, InTime(flow, end), end)
  BY InTimeCuts DEF FlowInv
<1>3. ASSUME NEW end \in Int, end <= Cutoff
      PROVE  CutAt(InTime(flow, Cutoff), InTime(flow, end), end)
  BY <1>1, <1>2, <1>3, CutOfACut
<1>4. verdict'.variant = Select(InTime(flow, Cutoff))
  BY DEF Evaluate
<1>5. Select(InTime(flow, Cutoff)) = Select(InTime(flow, ValidationEnd))
  BY <1>1, <1>3, SelectKnowsNoHoldout
<1>6. ASSUME NEW k \in DOMAIN Variants, NEW end \in ValidationEnd..Cutoff
      PROVE  IsPrefix(Holdout(InTime(flow, end), Variants[k], Cost),
                      Holdout(InTime(flow, Cutoff), Variants[k], Cost))
  <2>1. end \in Int /\ end <= Cutoff
    BY <1>1
  <2>2. CutAt(InTime(flow, Cutoff), InTime(flow, end), end)
    BY <1>3, <2>1
  <2> QED BY <2>2, TradesBeforeTheCut DEF Holdout, Simulate
<1> QED BY <1>4, <1>5, <1>6

\* No look-ahead (evaluateBitcoinOrderFlowResearch, simulateVariant): for any
\* bars, variants and lengths of the phases, the variant is chosen as if the
\* holdout were not there, and the holdout's trades up to any bar are the first
\* of all its trades.
THEOREM LooksBack == ResearchSpec => NoLookAhead
<1> DEFINE Step == verdict' # verdict =>
       /\ verdict'.variant = Select(InTime(flow, ValidationEnd))
       /\ \A k \in DOMAIN Variants, end \in ValidationEnd..Cutoff :
            IsPrefix(Holdout(InTime(flow, end), Variants[k], Cost),
                     Holdout(InTime(flow, Cutoff), Variants[k], Cost))
<1>1. ASSUME FlowInv, [ResearchNext]_researchVars PROVE [Step]_researchVars
  <2>1. CASE verdict' = verdict
    BY <2>1
  <2>2. CASE verdict' # verdict
    <3>1. PICK resampled, stops \in BOOLEAN : Evaluate(resampled, stops)
      BY <1>1, <2>2 DEF ResearchNext, NextBar, ChangeStrategies, researchVars
    <3> QED BY <1>1, <3>1, EvaluationLooksBack
  <2> QED BY <2>1, <2>2
<1> HIDE DEF Step
<1>2. ResearchSpec => [][Step]_researchVars
  BY <1>1, FlowInvInit, FlowInvNext, PTL DEF ResearchSpec
<1> QED BY <1>2 DEF NoLookAhead, Step

-----------------------------------------------------------------------------
(* OrderFlow: bars.                                                        *)

\* a * d lies at least d below b * d when a < b.
LEMMA OneApart ==
  ASSUME NEW a \in Nat, NEW b \in Nat, NEW d \in Nat, a < b
  PROVE  a * d + d <= b * d
<1>1. PICK c \in Nat : b = a + 1 + c
  <2>1. b - a - 1 \in Nat /\ b = a + 1 + (b - a - 1)
    OBVIOUS
  <2> QED BY <2>1
<1>2. b * d = a * d + d + c * d
  BY <1>1
<1>3. c * d \in Nat /\ a * d \in Nat
  OBVIOUS
<1> QED BY <1>2, <1>3

LEMMA Quotient ==
  ASSUME NEW n \in Nat, NEW d \in Nat \ {0}
  PROVE  n \div d \in Nat /\ (n \div d) * d <= n /\ n < (n \div d) * d + d
  OBVIOUS

LEMMA QuotientIs ==
  ASSUME NEW n \in Nat, NEW d \in Nat \ {0}, NEW k \in Nat, k * d <= n, n < k * d + d
  PROVE  n \div d = k
<1>1. PICK q \in Nat : q = n \div d /\ q * d <= n /\ n < q * d + d
  BY Quotient
<1>2. ~(q < k)
  <2>1. SUFFICES ASSUME q < k PROVE FALSE
    OBVIOUS
  <2>2. q * d + d <= k * d
    BY <2>1, OneApart
  <2>3. q * d \in Nat /\ k * d \in Nat
    OBVIOUS
  <2> QED BY <1>1, <2>2, <2>3
<1>3. ~(k < q)
  <2>1. SUFFICES ASSUME k < q PROVE FALSE
    OBVIOUS
  <2>2. k * d + d <= q * d
    BY <2>1, OneApart
  <2>3. q * d \in Nat /\ k * d \in Nat
    OBVIOUS
  <2> QED BY <1>1, <2>2, <2>3
<1> QED BY <1>1, <1>2, <1>3

LEMMA BucketBounds ==
  ASSUME NEW t \in Nat
  PROVE  BucketStart(t) \in Nat /\ BucketStart(t) <= t /\ t < BucketStart(t) + BarTicks
<1>1. BarTicks \in Nat \ {0}
  BY FlowAssumption
<1>2. PICK q \in Nat : q = t \div BarTicks /\ q * BarTicks <= t /\ t < q * BarTicks + BarTicks
  BY <1>1, Quotient
<1> QED BY <1>1, <1>2 DEF BucketStart

LEMMA SameBucket ==
  ASSUME NEW t \in Nat, NEW u \in Nat, BucketStart(t) <= u, u < BucketStart(t) + BarTicks
  PROVE  BucketStart(u) = BucketStart(t)
<1>1. BarTicks \in Nat \ {0}
  BY FlowAssumption
<1>2. PICK q \in Nat : q = t \div BarTicks
  BY <1>1, Quotient
<1>3. u \div BarTicks = q
  BY <1>1, <1>2, QuotientIs DEF BucketStart
<1> QED BY <1>2, <1>3 DEF BucketStart

LEMMA NextBucket ==
  ASSUME NEW t \in Nat
  PROVE  BucketStart(BucketStart(t) + BarTicks) = BucketStart(t) + BarTicks
<1>1. BarTicks \in Nat \ {0}
  BY FlowAssumption
<1>2. PICK q \in Nat : q = t \div BarTicks
  BY <1>1, Quotient
<1>3. PICK k \in Nat : k = q + 1
  OBVIOUS
<1>4. k * BarTicks = q * BarTicks + BarTicks /\ k * BarTicks \in Nat
  BY <1>1, <1>3
<1>5. (k * BarTicks) \div BarTicks = k
  BY <1>1, <1>4, QuotientIs
<1> QED BY <1>2, <1>4, <1>5 DEF BucketStart

\* Bars of any start, and the builder's record.
AnyBar == [start : Int, trades : SUBSET Trade, heard : BOOLEAN, quality : SUBSET Quality]
Obs == [kind : {"trade", "gap", "message"}, ts : Nat \ {0}, trade : Trade \cup {""}]
Builder == [bar : AnyBar \cup {NoBar}, clock : Int, up : BOOLEAN, ever : BOOLEAN,
            buffered : SUBSET Obs, maxTs : Nat, sealed : SUBSET AnyBar]

\* c differs from b at most in the bars and the clock.
SameBesides(c, b) ==
  c.up = b.up /\ c.ever = b.ever /\ c.buffered = b.buffered /\ c.maxTs = b.maxTs

LEMMA BarIsNone == \A bar \in AnyBar : bar # NoBar
<1>1. ASSUME NEW bar \in AnyBar PROVE "heard" \in DOMAIN bar
  BY DEF AnyBar
<1>2. "heard" \notin DOMAIN NoBar
  BY DEF NoBar
<1> QED BY <1>1, <1>2

LEMMA NewBarIs ==
  ASSUME NEW s \in Int, NEW Q \in SUBSET Quality
  PROVE  /\ NewBar(s, Q) \in AnyBar
         /\ NewBar(s, Q).start = s /\ NewBar(s, Q).trades = {} /\ NewBar(s, Q).quality = Q
  BY DEF NewBar, AnyBar

LEMMA WithBar ==
  ASSUME NEW b \in Builder, NEW x \in AnyBar, NEW t \in Int,
         NEW c, c = [b EXCEPT !.bar = x, !.clock = t]
  PROVE  c \in Builder /\ c.bar = x /\ c.clock = t /\ c.sealed = b.sealed /\ SameBesides(c, b)
<1>1. c = [bar |-> x, clock |-> t, up |-> b.up, ever |-> b.ever, buffered |-> b.buffered,
           maxTs |-> b.maxTs, sealed |-> b.sealed]
  BY DEF Builder
<1>2. c.bar = x /\ c.clock = t /\ c.sealed = b.sealed /\ SameBesides(c, b)
  BY <1>1 DEF SameBesides
<1>3. c \in Builder
  BY <1>1 DEF Builder
<1> QED BY <1>2, <1>3

LEMMA WithClock ==
  ASSUME NEW b \in Builder, NEW t \in Int
  PROVE  LET c == [b EXCEPT !.clock = t]
         IN  c \in Builder /\ c.bar = b.bar /\ c.clock = t /\ c.sealed = b.sealed /\ SameBesides(c, b)
  BY DEF Builder, SameBesides

\* x is bar y, perhaps with more flags.
Flagged(x, y) ==
  /\ x \in AnyBar /\ x.start = y.start /\ x.trades = y.trades
  /\ y.quality \subseteq x.quality

LEMMA FlagIs ==
  ASSUME NEW b \in Builder, b.bar \in AnyBar, NEW q \in Quality
  PROVE  /\ Flag(b, q) \in Builder /\ Flag(b, q).clock = b.clock
         /\ Flag(b, q).sealed = b.sealed /\ SameBesides(Flag(b, q), b)
         /\ Flagged(Flag(b, q).bar, b.bar) /\ q \in Flag(b, q).bar.quality
  BY DEF Flag, Builder, AnyBar, SameBesides, Flagged

LEMMA AccrueIs ==
  ASSUME NEW b \in Builder, b.bar \in AnyBar, NEW t \in Int
  PROVE  /\ AccrueUntil(b, t) \in Builder
         /\ AccrueUntil(b, t).clock = IF t <= b.clock THEN b.clock ELSE t
         /\ AccrueUntil(b, t).sealed = b.sealed /\ SameBesides(AccrueUntil(b, t), b)
         /\ Flagged(AccrueUntil(b, t).bar, b.bar)
<1>1. CASE t <= b.clock
  BY <1>1 DEF AccrueUntil, SameBesides, Flagged
<1>2. CASE ~(t <= b.clock)
  <2>1. PICK c : c = IF b.up THEN b ELSE Flag(b, "disconnect")
    OBVIOUS
  <2>2. /\ c \in Builder /\ c.clock = b.clock /\ c.sealed = b.sealed /\ SameBesides(c, b)
        /\ Flagged(c.bar, b.bar)
    BY <2>1, FlagIs DEF Quality, SameBesides, Flagged
  <2>3. AccrueUntil(b, t) = [c EXCEPT !.clock = t]
    BY <1>2, <2>1 DEF AccrueUntil
  <2> QED BY <1>2, <2>2, <2>3, WithClock DEF SameBesides
<1> QED BY <1>1, <1>2

LEMMA FinalizedIs ==
  ASSUME NEW x \in AnyBar
  PROVE  Flagged(Finalized(x), x)
<1> DEFINE Q == x.quality \cup (IF x.heard THEN {} ELSE {"no_messages"})
                          \cup (IF x.trades = {} THEN {"no_trades"} ELSE {})
<1>1. Finalized(x) = [x EXCEPT !.quality = Q]
  BY DEF Finalized, AnyBar
<1>2. Q \in SUBSET Quality /\ x.quality \subseteq Q
  BY DEF AnyBar, Quality
<1> HIDE DEF Q
<1> QED BY <1>1, <1>2 DEF Flagged, AnyBar

LEMMA SealIs ==
  ASSUME NEW b \in Builder, b.bar \in AnyBar, NEW end \in Int
  PROVE  \E x : /\ Flagged(x, b.bar)
                /\ Seal(b, end) \in Builder /\ Seal(b, end).clock = end
                /\ Seal(b, end).sealed = b.sealed \cup {x} /\ SameBesides(Seal(b, end), b)
                /\ Seal(b, end).bar \in AnyBar
                /\ Seal(b, end).bar.start = end /\ Seal(b, end).bar.trades = {}
<1>1. PICK c : c = AccrueUntil(b, end)
  OBVIOUS
<1>2. c \in Builder /\ c.sealed = b.sealed /\ SameBesides(c, b) /\ Flagged(c.bar, b.bar)
  BY <1>1, AccrueIs
<1>3. PICK x : x = Finalized(c.bar)
  OBVIOUS
<1>4. Flagged(x, b.bar)
  BY <1>2, <1>3, FinalizedIs DEF Flagged
<1>5. PICK y : y = NewBar(end, IF c.up THEN {} ELSE {"disconnect"})
  OBVIOUS
<1>6. y \in AnyBar /\ y.start = end /\ y.trades = {}
  BY <1>5, NewBarIs DEF Quality
<1>7. Seal(b, end) = [c EXCEPT !.sealed = @ \cup {x}, !.bar = y, !.clock = end]
  BY <1>1, <1>3, <1>5 DEF Seal
<1>8. Seal(b, end) = [bar |-> y, clock |-> end, up |-> c.up, ever |-> c.ever, buffered |-> c.buffered,
                      maxTs |-> c.maxTs, sealed |-> c.sealed \cup {x}]
  BY <1>2, <1>7 DEF Builder
<1>9. x \in AnyBar
  BY <1>4 DEF Flagged
<1>10. Seal(b, end) \in Builder
  BY <1>2, <1>6, <1>8, <1>9 DEF Builder
<1>11. /\ Seal(b, end).clock = end /\ Seal(b, end).sealed = b.sealed \cup {x}
       /\ SameBesides(Seal(b, end), b) /\ Seal(b, end).bar = y
  BY <1>2, <1>8 DEF SameBesides
<1> QED BY <1>4, <1>6, <1>10, <1>11

-----------------------------------------------------------------------------
\* The bars of quarters that are not stored yet.
Unstored(s) == s \in Starts /\ bars[s] = NoBar

TradesIn(R) == {o.trade : o \in {p \in R : p.kind = "trade"}}

\* The bar counts the trades A of its quarter but for those still in R.
Counts(bar, A, R) ==
  Unstored(bar.start) /\ bar.quality = {} =>
    /\ \A t \in bar.trades : t \in A /\ InBucket(t, bar.start)
    /\ \A t \in A : InBucket(t, bar.start) => t \in bar.trades \/ t \in TradesIn(R)

\* What a builder with observations R ahead of it knows of the trades A.
Fit(b, A, R) ==
  /\ b \in Builder /\ b.bar \in AnyBar
  /\ b.clock \in Nat /\ b.bar.start = BucketStart(b.clock)
  /\ Counts(b.bar, A, R)
  /\ \A x \in b.sealed : Counts(x, A, {})
  /\ \A t \in A : Unstored(BucketStart(src[t])) /\ src[t] >= b.bar.start + BarTicks => t \in TradesIn(R)
  /\ \A o \in R : o.kind = "trade" /\ Unstored(BucketStart(o.ts)) /\ o.ts >= b.bar.start => o.trade \in A

\* What is observed did happen.
Given(A, R) ==
  /\ \A t \in A : src[t] \in Nat \ {0}
  /\ NoTime \notin Nat
  /\ R \subseteq Obs
  /\ \A o \in R : o.kind = "trade" => o.trade \in Trade /\ src[o.trade] = o.ts

LEMMA FlaggedCounts ==
  ASSUME NEW x, NEW y, Flagged(x, y), NEW A, NEW R, Counts(y, A, R)
  PROVE  Counts(x, A, R)
  BY DEF Flagged, Counts, AnyBar

LEMMA TradeOfBucket ==
  ASSUME NEW A, NEW R, Given(A, R), NEW t \in A, NEW s
  PROVE  InBucket(t, s) <=> BucketStart(src[t]) = s
  BY DEF Given, InBucket, NoTime

\* A bar is sealed when every trade of its quarter that the builder has been
\* given is worked off.
LEMMA SealFits ==
  ASSUME NEW b, NEW A, NEW R, Given(A, R), Fit(b, A, R),
         \A o \in R : o.ts >= b.bar.start + BarTicks
  PROVE  /\ Fit(Seal(b, b.bar.start + BarTicks), A, R)
         /\ SameBesides(Seal(b, b.bar.start + BarTicks), b)
         /\ Seal(b, b.bar.start + BarTicks).bar.start = b.bar.start + BarTicks
         /\ Seal(b, b.bar.start + BarTicks).clock = b.bar.start + BarTicks
<1>1. BarTicks \in Nat \ {0}
  BY FlowAssumption
<1>2. PICK s \in Nat : s = b.bar.start
  BY BucketBounds DEF Fit
<1>3. PICK end \in Nat : end = s + BarTicks
  BY <1>1
<1>4. b \in Builder /\ b.bar \in AnyBar /\ Counts(b.bar, A, R)
  BY DEF Fit
<1>5. PICK c : c = Seal(b, end)
  OBVIOUS
<1>6. PICK x : /\ Flagged(x, b.bar)
               /\ c \in Builder /\ c.clock = end /\ c.sealed = b.sealed \cup {x} /\ SameBesides(c, b)
               /\ c.bar \in AnyBar /\ c.bar.start = end /\ c.bar.trades = {}
  BY <1>4, <1>5, SealIs
<1>7. BucketStart(end) = end
  BY <1>2, <1>3, NextBucket DEF Fit
<1>8. Counts(x, A, R) /\ x.start = s
  BY <1>2, <1>4, <1>6, FlaggedCounts DEF Flagged
<1>9. ASSUME NEW t \in A, t \in TradesIn(R) PROVE ~InBucket(t, s)
  <2>1. PICK o \in R : o.kind = "trade" /\ o.trade = t
    BY <1>9 DEF TradesIn
  <2>2. src[t] = o.ts /\ src[t] \in Nat /\ src[t] >= end
    BY <1>2, <1>3, <2>1 DEF Given
  <2>3. src[t] < BucketStart(src[t]) + BarTicks /\ BucketStart(src[t]) \in Nat
    BY <2>2, BucketBounds
  <2>4. BucketStart(src[t]) # s
    BY <1>1, <1>3, <2>2, <2>3
  <2> QED BY <2>4 DEF InBucket
<1>10. Counts(x, A, {})
  BY <1>8, <1>9 DEF Counts
<1>11. \A y \in c.sealed : Counts(y, A, {})
  BY <1>6, <1>10 DEF Fit
<1>12. Counts(c.bar, A, R)
  <2>1. ASSUME NEW t \in A, InBucket(t, end), Unstored(end) PROVE t \in TradesIn(R)
    <3>1. BucketStart(src[t]) = end /\ src[t] \in Nat
      BY <2>1 DEF InBucket, Given
    <3>2. src[t] >= end
      BY <3>1, BucketBounds
    <3> QED BY <1>2, <1>3, <2>1, <3>1, <3>2 DEF Fit
  <2> QED BY <1>6, <2>1 DEF Counts
<1>13. \A t \in A : Unstored(BucketStart(src[t])) /\ src[t] >= end + BarTicks => t \in TradesIn(R)
  <2> TAKE t \in A
  <2>1. src[t] \in Nat
    BY DEF Given
  <2>2. src[t] >= end + BarTicks => src[t] >= s + BarTicks
    BY <1>1, <1>3, <2>1
  <2> QED BY <1>2, <2>2 DEF Fit
<1>14. \A o \in R : o.kind = "trade" /\ Unstored(BucketStart(o.ts)) /\ o.ts >= end => o.trade \in A
  <2> TAKE o \in R
  <2>1. o.ts \in Nat
    BY DEF Given, Obs
  <2>2. o.ts >= end => o.ts >= s
    BY <1>1, <1>3, <2>1
  <2> QED BY <1>2, <2>2 DEF Fit
<1>15. Fit(c, A, R)
  BY <1>6, <1>7, <1>11, <1>12, <1>13, <1>14 DEF Fit
<1> QED BY <1>2, <1>3, <1>5, <1>6, <1>15

IsSeals(b, n, seals) ==
  seals = [i \in 0..n |-> IF i = 0 THEN b ELSE Seal(seals[i - 1], b.bar.start + i * BarTicks)]

LEMMA SealsExist ==
  ASSUME NEW b, NEW n \in Nat
  PROVE  \E seals : IsSeals(b, n, seals)
<1> DEFINE T == {k \in Nat : ~ \E seals : IsSeals(b, k, seals)}
<1>1. ASSUME T # {} PROVE FALSE
  <2>1. PICK k \in T : \A m \in T : k <= m
    <3>1. T \in SUBSET Nat
      OBVIOUS
    <3> HIDE DEF T
    <3> QED BY <1>1, <3>1, SmallestNat
  <2>2. k # 0
    <3>1. IsSeals(b, 0, [i \in 0..0 |-> b])
      BY DEF IsSeals
    <3> QED BY <2>1, <3>1
  <2>3. PICK c : IsSeals(b, k - 1, c)
    <3>1. k - 1 \in Nat /\ k - 1 \notin T
      BY <2>1, <2>2
    <3> QED BY <3>1
  <2> DEFINE d == [i \in 0..k |-> IF i = k THEN Seal(c[k - 1], b.bar.start + k * BarTicks) ELSE c[i]]
  <2>4. ASSUME NEW i \in 0..k
        PROVE  d[i] = IF i = 0 THEN b ELSE Seal(d[i - 1], b.bar.start + i * BarTicks)
    <3>1. CASE i = k
      <4>1. d[i - 1] = c[k - 1]
        BY <2>1, <2>2, <3>1
      <4> QED BY <2>2, <3>1, <4>1
    <3>2. CASE i # k
      <4>1. i \in 0..k - 1
        BY <2>1, <3>2
      <4>2. c[i] = IF i = 0 THEN b ELSE Seal(c[i - 1], b.bar.start + i * BarTicks)
        BY <2>3, <4>1 DEF IsSeals
      <4>3. d[i] = c[i] /\ (i # 0 => d[i - 1] = c[i - 1])
        BY <2>1, <3>2
      <4> QED BY <4>2, <4>3
    <3> QED BY <3>1, <3>2
  <2>5. d = [i \in 0..k |-> d[i]]
    OBVIOUS
  <2> HIDE DEF d
  <2>6. IsSeals(b, k, d)
    BY <2>4, <2>5 DEF IsSeals
  <2> QED BY <2>1, <2>6
<1> QED BY <1>1

LEMMA SealsFollow ==
  ASSUME NEW b, NEW n \in Nat
  PROVE  /\ Seals(b, n)[0] = b
         /\ \A i \in 1..n : Seals(b, n)[i] = Seal(Seals(b, n)[i - 1], b.bar.start + i * BarTicks)
<1> DEFINE S == Seals(b, n)
<1>1. S = CHOOSE seals : IsSeals(b, n, seals)
  BY DEF Seals, IsSeals
<1>2. IsSeals(b, n, S)
  BY <1>1, SealsExist
<1> HIDE DEF S
<1>3. S[0] = b
  BY <1>2 DEF IsSeals
<1>4. ASSUME NEW i \in 1..n
      PROVE  S[i] = Seal(S[i - 1], b.bar.start + i * BarTicks)
  BY <1>2 DEF IsSeals
<1> QED BY <1>3, <1>4 DEF S

\* Quarters that are over are sealed one after the other.
LEMMA SealsFit ==
  ASSUME NEW b, NEW A, NEW R, Given(A, R), Fit(b, A, R), NEW n \in Nat,
         \A o \in R : o.ts >= b.bar.start + n * BarTicks
  PROVE  /\ Fit(Seals(b, n)[n], A, R) /\ SameBesides(Seals(b, n)[n], b)
         /\ Seals(b, n)[n].bar.start = b.bar.start + n * BarTicks
         /\ Seals(b, n)[n].clock = IF n = 0 THEN b.clock ELSE b.bar.start + n * BarTicks
<1>1. BarTicks \in Nat \ {0}
  BY FlowAssumption
<1>2. PICK s \in Nat : s = b.bar.start
  BY BucketBounds DEF Fit
<1>3. PICK S : S = Seals(b, n)
  OBVIOUS
<1>4. S[0] = b /\ \A i \in 1..n : S[i] = Seal(S[i - 1], s + i * BarTicks)
  BY <1>2, <1>3, SealsFollow
<1> DEFINE Ok(i) == /\ Fit(S[i], A, R) /\ SameBesides(S[i], b)
                    /\ S[i].bar.start = s + i * BarTicks
                    /\ S[i].clock = IF i = 0 THEN b.clock ELSE s + i * BarTicks
           T == {i \in 0..n : ~Ok(i)}
<1>5. Ok(0)
  <2>1. 0 * BarTicks = 0 /\ s + 0 = s
    BY <1>1
  <2> QED BY <1>2, <1>4, <2>1 DEF SameBesides
<1>6. ASSUME NEW i \in Nat, i \in 1..n, Ok(i - 1) PROVE Ok(i)
  <2>1. PICK c : c = S[i - 1]
    OBVIOUS
  <2>2. PICK e \in Nat, f \in Nat, g \in Nat : e = (i - 1) * BarTicks /\ f = i * BarTicks /\ g = n * BarTicks
    <3>1. i - 1 \in Nat
      BY <1>6
    <3> QED BY <1>1, <3>1
  <2>3. f = e + BarTicks
    BY <1>1, <2>2
  <2>4. f <= g
    <3>1. CASE i = n
      BY <2>2, <3>1
    <3>2. CASE i < n
      BY <1>1, <2>2, <3>2, OneApart
    <3> QED BY <1>6, <3>1, <3>2
  <2>5. Fit(c, A, R) /\ SameBesides(c, b) /\ c.bar.start = s + e
    BY <1>6, <2>1, <2>2
  <2>6. c.bar.start + BarTicks = s + f
    BY <1>1, <1>2, <2>2, <2>3, <2>5
  <2>7. \A o \in R : o.ts >= c.bar.start + BarTicks
    <3> TAKE o \in R
    <3>1. o.ts \in Nat /\ o.ts >= s + g
      BY <1>2, <2>2 DEF Given, Obs
    <3> QED BY <2>2, <2>4, <2>6, <3>1
  <2>8. PICK d : d = Seal(c, c.bar.start + BarTicks)
    OBVIOUS
  <2>9. Fit(d, A, R) /\ SameBesides(d, c) /\ d.bar.start = s + f /\ d.clock = s + f
    BY <2>5, <2>6, <2>7, <2>8, SealFits
  <2>10. S[i] = d
    BY <1>4, <1>6, <2>1, <2>2, <2>6, <2>8
  <2> QED BY <1>6, <2>2, <2>5, <2>9, <2>10 DEF SameBesides
<1> HIDE DEF Ok
<1>7. ASSUME T # {} PROVE FALSE
  <2>1. PICK i \in T : \A m \in T : i <= m
    <3>1. T \in SUBSET Nat
      OBVIOUS
    <3> HIDE DEF T
    <3> QED BY <1>7, <3>1, SmallestNat
  <2>2. i \in Nat /\ i \in 1..n /\ i - 1 \in 0..n /\ i - 1 \notin T
    BY <1>5, <2>1
  <2> QED BY <1>6, <2>1, <2>2
<1>8. Ok(n)
  BY <1>7
<1> QED BY <1>2, <1>3, <1>8 DEF Ok

\* The clock moves within the bar.
LEMMA AccrueFits ==
  ASSUME NEW b, NEW A, NEW R, Fit(b, A, R), NEW t \in Nat, t < b.bar.start + BarTicks
  PROVE  /\ Fit(AccrueUntil(b, t), A, R) /\ SameBesides(AccrueUntil(b, t), b)
         /\ AccrueUntil(b, t).clock = IF t <= b.clock THEN b.clock ELSE t
         /\ Flagged(AccrueUntil(b, t).bar, b.bar)
<1>1. PICK c : c = AccrueUntil(b, t)
  OBVIOUS
<1>2. b \in Builder /\ b.bar \in AnyBar /\ b.clock \in Nat /\ b.bar.start = BucketStart(b.clock)
  BY DEF Fit
<1>3. /\ c \in Builder /\ c.clock = (IF t <= b.clock THEN b.clock ELSE t)
      /\ c.sealed = b.sealed /\ SameBesides(c, b) /\ Flagged(c.bar, b.bar)
  BY <1>1, <1>2, AccrueIs
<1>4. c.clock \in Nat /\ BucketStart(c.clock) = c.bar.start
  <2>1. CASE t <= b.clock
    BY <1>2, <1>3, <2>1 DEF Flagged
  <2>2. CASE ~(t <= b.clock)
    <3>1. BucketStart(b.clock) <= t /\ t < BucketStart(b.clock) + BarTicks
      BY <1>2, <2>2, BucketBounds
    <3> QED BY <1>2, <1>3, <2>2, <3>1, SameBucket DEF Flagged
  <2> QED BY <2>1, <2>2
<1>5. Counts(c.bar, A, R) /\ c.bar \in AnyBar /\ c.bar.start = b.bar.start
  BY <1>3, FlaggedCounts DEF Fit, Flagged
<1>6. Fit(c, A, R)
  BY <1>3, <1>4, <1>5 DEF Fit
<1> QED BY <1>1, <1>3, <1>6

LEMMA FlagFits ==
  ASSUME NEW b, NEW A, NEW R, Fit(b, A, R), NEW q \in Quality
  PROVE  /\ Fit(Flag(b, q), A, R) /\ SameBesides(Flag(b, q), b)
         /\ Flag(b, q).clock = b.clock /\ q \in Flag(b, q).bar.quality
         /\ Flag(b, q).bar.start = b.bar.start
<1>1. PICK c : c = Flag(b, q)
  OBVIOUS
<1>2. b \in Builder /\ b.bar \in AnyBar
  BY DEF Fit
<1>3. /\ c \in Builder /\ c.clock = b.clock
      /\ c.sealed = b.sealed /\ SameBesides(c, b)
      /\ Flagged(c.bar, b.bar) /\ q \in c.bar.quality
  BY <1>1, <1>2, FlagIs
<1>4. Counts(c.bar, A, R) /\ c.bar \in AnyBar /\ c.bar.start = b.bar.start
  BY <1>3, FlaggedCounts DEF Fit, Flagged
<1>5. Fit(c, A, R)
  BY <1>3, <1>4 DEF Fit
<1> QED BY <1>1, <1>3, <1>4, <1>5

\* The clock of a builder with a bar moves to t, or t is noted as a reversal.
LEMMA AdvanceFits ==
  ASSUME NEW b, NEW A, NEW R, Given(A, R), Fit(b, A, R), NEW t \in Nat, t # 0,
         \A o \in R : o.ts >= t
  PROVE  /\ Fit(AdvanceTo(b, t), A, R) /\ SameBesides(AdvanceTo(b, t), b)
         /\ AdvanceTo(b, t).clock >= t
         /\ AdvanceTo(b, t).clock = t \/ AdvanceTo(b, t).bar.quality # {}
<1>1. BarTicks \in Nat \ {0}
  BY FlowAssumption
<1>2. b \in Builder /\ b.bar \in AnyBar /\ b.clock \in Nat /\ b.bar.start = BucketStart(b.clock)
  BY DEF Fit
<1>3. EnsureCurrent(b, t) = b
  BY <1>2, BarIsNone DEF EnsureCurrent
<1>4. PICK s \in Nat : s = b.bar.start /\ s <= b.clock /\ b.clock < s + BarTicks
  BY <1>2, BucketBounds
<1>5. CASE t < b.clock
  <2>1. PICK d : d = Flag(b, "timestamp_reversal")
    OBVIOUS
  <2>2. /\ Fit(d, A, R) /\ SameBesides(d, b) /\ d.clock = b.clock
        /\ "timestamp_reversal" \in d.bar.quality /\ d.bar.start = s
    BY <1>4, <2>1, FlagFits DEF Quality
  <2>3. (b.clock - s) \div BarTicks = 0
    BY <1>1, <1>2, <1>4, QuotientIs
  <2>4. Seals(d, 0)[0] = d
    BY SealsFollow
  <2>5. AdvanceTo(b, t) = AccrueUntil(d, b.clock)
    BY <1>3, <1>5, <2>1, <2>2, <2>3, <2>4 DEF AdvanceTo
  <2>6. AccrueUntil(d, b.clock) = d
    BY <1>2, <2>2 DEF AccrueUntil
  <2> QED BY <1>2, <1>5, <2>2, <2>5, <2>6
<1>6. CASE ~(t < b.clock)
  <2>1. PICK n \in Nat : n = (t - s) \div BarTicks
    BY <1>1, <1>2, <1>4, <1>6, Quotient
  <2>2. PICK g \in Nat : g = n * BarTicks /\ s + g <= t /\ t < s + g + BarTicks
    <3>1. t - s \in Nat
      BY <1>2, <1>4, <1>6
    <3>2. n * BarTicks \in Nat /\ n * BarTicks <= t - s /\ t - s < n * BarTicks + BarTicks
      BY <1>1, <2>1, <3>1, Quotient
    <3> QED BY <3>1, <3>2, <1>1
  <2>3. PICK c : c = Seals(b, n)[n]
    OBVIOUS
  <2>4. \A o \in R : o.ts >= b.bar.start + n * BarTicks
    <3> TAKE o \in R
    <3>1. o.ts \in Nat /\ o.ts >= t
      BY DEF Given, Obs
    <3>2. o.ts >= s + g
      BY <2>2, <3>1
    <3> QED BY <1>4, <2>2, <3>2
  <2>5. /\ Fit(c, A, R) /\ SameBesides(c, b) /\ c.bar.start = s + g
        /\ c.clock = IF n = 0 THEN b.clock ELSE s + g
    BY <1>4, <2>2, <2>3, <2>4, SealsFit
  <2>6. c.clock \in Nat /\ c.clock <= t
    BY <1>2, <1>6, <2>2, <2>5
  <2>7. PICK d : d = AccrueUntil(c, t)
    OBVIOUS
  <2>8. Fit(d, A, R) /\ SameBesides(d, c) /\ d.clock = IF t <= c.clock THEN c.clock ELSE t
    BY <2>2, <2>5, <2>7, AccrueFits
  <2>9. d.clock = t
    BY <2>6, <2>8
  <2>10. AdvanceTo(b, t) = d
    BY <1>3, <1>4, <1>6, <2>1, <2>3, <2>7 DEF AdvanceTo
  <2> QED BY <2>5, <2>8, <2>9, <2>10 DEF SameBesides
<1> QED BY <1>5, <1>6

\* An observation none of the others precedes goes to the bar of its time, or
\* the bar it goes to is flagged.
LEMMA ObserveFits ==
  ASSUME NEW b, NEW A, NEW R, Given(A, R), Fit(b, A, R),
         NEW o \in R, \A p \in R : p.ts >= o.ts
  PROVE  /\ Fit(Observe(b, o), A, R \ {o}) /\ SameBesides(Observe(b, o), b)
         /\ Observe(b, o).clock \in Nat /\ Observe(b, o).clock >= o.ts
<1>1. BarTicks \in Nat \ {0}
  BY FlowAssumption
<1>2. o \in Obs /\ o.ts \in Nat /\ o.ts # 0
  BY DEF Given, Obs
<1>3. PICK c : c = AdvanceTo(b, o.ts)
  OBVIOUS
<1>4. /\ Fit(c, A, R) /\ SameBesides(c, b) /\ c.clock >= o.ts
      /\ c.clock = o.ts \/ c.bar.quality # {}
  BY <1>2, <1>3, AdvanceFits
<1>5. c \in Builder /\ c.bar \in AnyBar /\ c.clock \in Nat /\ c.bar.start = BucketStart(c.clock)
  BY <1>4 DEF Fit
<1>6. PICK s \in Nat : s = c.bar.start /\ s <= c.clock /\ c.clock < s + BarTicks
  BY <1>5, BucketBounds
<1>7. PICK e : e = Observe(b, o)
  OBVIOUS
<1>8. CASE o.kind = "trade"
  <2>1. e = [c EXCEPT !.bar.trades = @ \cup {o.trade}]
    BY <1>3, <1>7, <1>8 DEF Observe
  <2>2. o.trade \in Trade /\ src[o.trade] = o.ts
    BY <1>8 DEF Given
  <2>3. /\ e \in Builder /\ e.clock = c.clock /\ e.sealed = c.sealed /\ SameBesides(e, c)
        /\ e.bar \in AnyBar /\ e.bar.start = s /\ e.bar.quality = c.bar.quality
        /\ e.bar.trades = c.bar.trades \cup {o.trade}
    BY <1>5, <1>6, <2>1, <2>2 DEF Builder, AnyBar, SameBesides
  <2>4. ASSUME NEW t \in A, t \in TradesIn(R), t # o.trade \/ src[t] >= s + BarTicks
        PROVE  t \in TradesIn(R \ {o})
    <3>1. PICK p \in R : p.kind = "trade" /\ p.trade = t
      BY <2>4 DEF TradesIn
    <3>2. p # o
      <4>1. SUFFICES ASSUME p = o PROVE FALSE
        OBVIOUS
      <4>2. src[t] = o.ts /\ o.ts <= c.clock
        BY <1>2, <1>4, <1>5, <2>2, <3>1, <4>1
      <4> QED BY <1>1, <1>2, <1>5, <1>6, <2>4, <3>1, <4>1, <4>2
    <3> QED BY <3>1, <3>2 DEF TradesIn
  <2>5. Counts(e.bar, A, R \ {o})
    <3>1. SUFFICES ASSUME Unstored(s), e.bar.quality = {}
                   PROVE  /\ \A t \in e.bar.trades : t \in A /\ InBucket(t, s)
                          /\ \A t \in A : InBucket(t, s) => t \in e.bar.trades \/ t \in TradesIn(R \ {o})
      BY <2>3 DEF Counts
    <3>2. c.clock = o.ts /\ s = BucketStart(o.ts)
      BY <1>4, <1>5, <1>6, <2>3, <3>1
    <3>3. /\ \A t \in c.bar.trades : t \in A /\ InBucket(t, s)
          /\ \A t \in A : InBucket(t, s) => t \in c.bar.trades \/ t \in TradesIn(R)
      BY <1>4, <1>6, <2>3, <3>1 DEF Fit, Counts
    <3>4. o.trade \in A
      BY <1>4, <1>6, <1>8, <3>1, <3>2 DEF Fit
    <3>5. InBucket(o.trade, s)
      BY <2>2, <3>2, <3>4, TradeOfBucket
    <3> QED BY <2>3, <2>4, <3>3, <3>4, <3>5
  <2>6. \A t \in A : Unstored(BucketStart(src[t])) /\ src[t] >= e.bar.start + BarTicks =>
          t \in TradesIn(R \ {o})
    BY <1>4, <1>6, <2>3, <2>4 DEF Fit
  <2>7. Fit(e, A, R \ {o})
    BY <1>4, <1>5, <1>6, <2>3, <2>5, <2>6 DEF Fit
  <2> QED BY <1>2, <1>4, <1>5, <1>7, <2>3, <2>7 DEF SameBesides
<1>9. CASE o.kind # "trade"
  <2>1. /\ e \in Builder /\ e.clock = c.clock /\ e.sealed = c.sealed /\ SameBesides(e, c)
        /\ Flagged(e.bar, c.bar)
    <3>1. CASE o.kind = "gap"
      BY <1>3, <1>5, <1>7, <3>1, FlagIs DEF Observe, Quality
    <3>2. CASE o.kind = "message"
      <4>1. e = [c EXCEPT !.bar.heard = TRUE]
        BY <1>3, <1>7, <3>2 DEF Observe
      <4> QED BY <1>5, <4>1 DEF Builder, AnyBar, SameBesides, Flagged
    <3> QED BY <1>2, <1>9, <3>1, <3>2 DEF Obs
  <2>2. TradesIn(R \ {o}) = TradesIn(R)
    BY <1>9 DEF TradesIn
  <2>3. Counts(e.bar, A, R) /\ e.bar \in AnyBar /\ e.bar.start = c.bar.start
    BY <1>4, <2>1, FlaggedCounts DEF Fit, Flagged
  <2>4. Fit(e, A, R \ {o})
    BY <1>4, <2>1, <2>2, <2>3 DEF Fit, Counts
  <2> QED BY <1>4, <1>5, <1>7, <2>1, <2>4 DEF SameBesides
<1> QED BY <1>8, <1>9

-----------------------------------------------------------------------------
\* A bounded set of numbers has a greatest one.
LEMMA GreatestNat ==
  ASSUME NEW S \in SUBSET Nat, S # {}, NEW n \in Nat, \A x \in S : x <= n
  PROVE  \E m \in S : \A x \in S : x <= m
<1> DEFINE T == {k \in Nat : \A x \in S : x <= k}
<1>1. PICK k \in T : \A m \in T : k <= m
  <2>1. T \in SUBSET Nat /\ T # {}
    OBVIOUS
  <2> HIDE DEF T
  <2> QED BY <2>1, SmallestNat
<1>2. k \in S
  <2>1. SUFFICES ASSUME k \notin S PROVE FALSE
    OBVIOUS
  <2>2. \A x \in S : x < k
    BY <1>1, <2>1
  <2>3. k # 0
    <3>1. PICK x \in S : x < k
      BY <2>2
    <3>2. x \in Nat /\ k \in Nat
      BY <1>1
    <3> QED BY <3>1, <3>2
  <2>4. k - 1 \in T
    BY <1>1, <2>2, <2>3
  <2> QED BY <1>1, <2>4
<1> QED BY <1>1, <1>2

LEMMA LatestIs ==
  ASSUME NEW D, D # {}, NEW w \in Int, \A o \in D : o.ts \in Nat /\ o.ts <= w
  PROVE  Latest(D) \in D /\ \A p \in D : p.ts <= Latest(D).ts
<1> DEFINE S == {o.ts : o \in D}
<1>1. w \in Nat
  OBVIOUS
<1>2. PICK m \in S : \A x \in S : x <= m
  <2>1. S \in SUBSET Nat /\ S # {} /\ \A x \in S : x <= w
    OBVIOUS
  <2> HIDE DEF S
  <2> QED BY <1>1, <2>1, GreatestNat
<1>3. \E o \in D : \A p \in D : p.ts <= o.ts
  BY <1>2
<1> QED BY <1>3 DEF Latest

IsObserved(b, S, f) ==
  f = [D \in SUBSET S |-> IF D = {} THEN b ELSE Observe(f[D \ {Latest(D)}], Latest(D))]

Bounded(S, w) == w \in Int /\ \A o \in S : o.ts \in Nat /\ o.ts <= w

LEMMA ObservedUnique ==
  ASSUME NEW b, NEW S, IsFiniteSet(S), NEW w, Bounded(S, w),
         NEW f, IsObserved(b, S, f), NEW g, IsObserved(b, S, g)
  PROVE  f[S] = g[S]
<1> DEFINE T == {D \in SUBSET S : f[D] # g[D]}
<1>1. ASSUME T # {} PROVE FALSE
  <2>1. PICK D \in T : \A E \in SUBSET D : E # D => E \notin T
    <3>1. T \in SUBSET SUBSET S
      OBVIOUS
    <3> HIDE DEF T
    <3> QED BY <1>1, <3>1, SmallestSubset
  <2>2. D # {}
    BY <2>1 DEF IsObserved
  <2>3. PICK o : o = Latest(D) /\ o \in D
    <3>1. \A p \in D : p.ts \in Nat /\ p.ts <= w
      BY <2>1 DEF Bounded
    <3> QED BY <2>2, <3>1, LatestIs DEF Bounded
  <2>4. f[D \ {o}] = g[D \ {o}]
    BY <2>1, <2>3
  <2>5. f[D] = Observe(f[D \ {o}], o) /\ g[D] = Observe(g[D \ {o}], o)
    BY <2>1, <2>2, <2>3 DEF IsObserved
  <2> QED BY <2>1, <2>4, <2>5
<1> QED BY <1>1

LEMMA ObservedOfSubset ==
  ASSUME NEW b, NEW S, NEW f, IsObserved(b, S, f), NEW D \in SUBSET S,
         IsFiniteSet(S), NEW w, Bounded(S, w)
  PROVE  IsObserved(b, D, [E \in SUBSET D |-> f[E]])
<1> DEFINE g == [E \in SUBSET D |-> f[E]]
<1>1. ASSUME NEW E \in SUBSET D
      PROVE  g[E] = IF E = {} THEN b ELSE Observe(g[E \ {Latest(E)}], Latest(E))
  <2>1. E \in SUBSET S /\ E \ {Latest(E)} \in SUBSET D
    OBVIOUS
  <2>2. f[E] = IF E = {} THEN b ELSE Observe(f[E \ {Latest(E)}], Latest(E))
    BY <2>1 DEF IsObserved
  <2> QED BY <2>1, <2>2
<1>2. g = [E \in SUBSET D |-> g[E]]
  OBVIOUS
<1> HIDE DEF g
<1>3. IsObserved(b, D, g)
  BY <1>1, <1>2 DEF IsObserved
<1> QED BY <1>3 DEF g

\* what the recursion gives for all of D
After(b, D) == (CHOOSE f : IsObserved(b, D, f))[D]

LEMMA ObservedExists ==
  ASSUME NEW b, NEW S, IsFiniteSet(S), NEW w, Bounded(S, w)
  PROVE  \E f : IsObserved(b, S, f)
<1> DEFINE T == {D \in SUBSET S : ~ \E f : IsObserved(b, D, f)}
<1>1. ASSUME T # {} PROVE FALSE
  <2>1. PICK D \in T : \A E \in SUBSET D : E # D => E \notin T
    <3>1. T \in SUBSET SUBSET S
      OBVIOUS
    <3> HIDE DEF T
    <3> QED BY <1>1, <3>1, SmallestSubset
  <2>2. D \in SUBSET S /\ ~ \E f : IsObserved(b, D, f)
    BY <2>1
  <2>3. ASSUME NEW E \in SUBSET D, E # D
        PROVE  \E f : IsObserved(b, E, f)
    BY <2>1, <2>3
  <2> HIDE DEF T
  <2>4. ASSUME NEW E \in SUBSET D
        PROVE  E \in SUBSET S /\ IsFiniteSet(E) /\ Bounded(E, w)
    BY <2>2, FS_Subset DEF Bounded
  <2> DEFINE d == [E \in SUBSET D |->
                     IF E = {} THEN b
                     ELSE IF E = D THEN Observe(After(b, D \ {Latest(D)}), Latest(D)) ELSE After(b, E)]
  <2>5. ASSUME NEW E \in SUBSET D, E # {}
        PROVE  Latest(E) \in E
    BY <2>4, <2>5, LatestIs DEF Bounded
  <2>6. ASSUME NEW E \in SUBSET D, E # {}, E # D
        PROVE  After(b, E) = Observe(After(b, E \ {Latest(E)}), Latest(E))
    <3>1. PICK f : f = CHOOSE g : IsObserved(b, E, g)
      OBVIOUS
    <3>2. IsObserved(b, E, f)
      BY <2>3, <2>6, <3>1
    <3>3. PICK F : F = E \ {Latest(E)}
      OBVIOUS
    <3>4. F \in SUBSET E /\ F \in SUBSET D /\ F # D
      BY <2>5, <2>6, <3>3
    <3>5. IsObserved(b, F, [G \in SUBSET F |-> f[G]])
      BY <2>4, <3>2, <3>4, ObservedOfSubset
    <3>6. PICK h : h = CHOOSE g : IsObserved(b, F, g)
      OBVIOUS
    <3>7. IsObserved(b, F, h)
      BY <2>3, <3>4, <3>6
    <3>8. h[F] = [G \in SUBSET F |-> f[G]][F]
      BY <2>4, <3>4, <3>5, <3>7, ObservedUnique
    <3>9. After(b, F) = f[F]
      BY <3>6, <3>8 DEF After
    <3>10. f[E] = Observe(f[F], Latest(E))
      BY <2>6, <3>2, <3>3 DEF IsObserved
    <3> QED BY <3>1, <3>3, <3>9, <3>10 DEF After
  <2>7. After(b, {}) = b
    <3>1. IsObserved(b, {}, [E \in SUBSET {} |-> b])
      BY DEF IsObserved
    <3>2. IsObserved(b, {}, CHOOSE f : IsObserved(b, {}, f))
      BY <3>1
    <3> QED BY <3>2 DEF After, IsObserved
  <2>8. D # {}
    <3>1. IsObserved(b, {}, [E \in SUBSET {} |-> b])
      BY DEF IsObserved
    <3> QED BY <2>2, <3>1
  <2>9. ASSUME NEW E \in SUBSET D, E # D
        PROVE  d[E] = After(b, E)
    BY <2>7, <2>9
  <2>10. ASSUME NEW E \in SUBSET D
         PROVE  d[E] = IF E = {} THEN b ELSE Observe(d[E \ {Latest(E)}], Latest(E))
    <3>1. CASE E = {}
      BY <3>1
    <3>2. CASE E # {}
      <4>1. PICK F : F = E \ {Latest(E)}
        OBVIOUS
      <4>2. F \in SUBSET D /\ F # D
        BY <2>5, <3>2, <4>1
      <4>3. d[F] = After(b, F)
        BY <2>9, <4>2
      <4>4. d[E] = Observe(After(b, F), Latest(E))
        <5>1. CASE E = D
          BY <2>8, <4>1, <5>1
        <5>2. CASE E # D
          BY <2>6, <2>9, <3>2, <4>1, <5>2
        <5> QED BY <5>1, <5>2
      <4> QED BY <3>2, <4>1, <4>3, <4>4
    <3> QED BY <3>1, <3>2
  <2>11. d = [E \in SUBSET D |-> d[E]]
    OBVIOUS
  <2> HIDE DEF d
  <2>12. IsObserved(b, D, d)
    BY <2>10, <2>11 DEF IsObserved
  <2> QED BY <2>2, <2>12
<1>2. S \in SUBSET S
  OBVIOUS
<1> QED BY <1>1, <1>2

OneByOne(O, b, S) ==
  /\ O[{}] = b
  /\ \A D \in SUBSET S : D # {} => O[D] = Observe(O[D \ {Latest(D)}], Latest(D))

LEMMA ObservedFollow ==
  ASSUME NEW b, NEW S, IsFiniteSet(S), NEW w, Bounded(S, w)
  PROVE  OneByOne(Observed(b, S), b, S)
<1> DEFINE O == Observed(b, S)
<1>1. O = CHOOSE f : IsObserved(b, S, f)
  BY DEF Observed, IsObserved
<1>2. IsObserved(b, S, O)
  BY <1>1, ObservedExists
<1> HIDE DEF O
<1>3. O[{}] = b
  BY <1>2 DEF IsObserved
<1>4. ASSUME NEW D \in SUBSET S, D # {}
      PROVE  O[D] = Observe(O[D \ {Latest(D)}], Latest(D))
  BY <1>2, <1>4 DEF IsObserved
<1> QED BY <1>3, <1>4 DEF O, OneByOne

\* A builder whose buffer is what it has ahead of it.
BuilderFits(b, A) ==
  Fit(b, A, b.buffered) /\ Given(A, b.buffered) /\ IsFiniteSet(b.buffered)

LEMMA UpdatedFits ==
  ASSUME NEW b, NEW A, NEW R, Fit(b, A, R), NEW c \in Builder,
         c.bar = b.bar, c.clock = b.clock, c.sealed = b.sealed
  PROVE  Fit(c, A, R)
  BY DEF Fit

LEMMA GivenLess ==
  ASSUME NEW A, NEW R, Given(A, R), NEW D
  PROVE  Given(A, R \ D)
  BY DEF Given

\* The observations that are due are worked off, the oldest first.
LEMMA ObservedFit ==
  ASSUME NEW b, NEW A, NEW R, Given(A, R), Fit(b, A, R), NEW w \in Int,
         NEW S, IsFiniteSet(S), S = {o \in R : o.ts <= w}
  PROVE  Fit(Observed(b, S)[S], A, R \ S) /\ SameBesides(Observed(b, S)[S], b)
<1>1. PICK O : O = Observed(b, S)
  OBVIOUS
<1>2. S \subseteq R /\ Bounded(S, w)
  BY DEF Given, Obs, Bounded
<1>3. O[{}] = b /\ \A D \in SUBSET S : D # {} => O[D] = Observe(O[D \ {Latest(D)}], Latest(D))
  <2>1. OneByOne(Observed(b, S), b, S)
    BY <1>2, ObservedFollow
  <2> QED BY <1>1, <2>1 DEF OneByOne
<1> DEFINE Oldest(D) == \A o \in D, p \in S \ D : o.ts <= p.ts
           Ok(D) == Fit(O[D], A, R \ D) /\ SameBesides(O[D], b)
           T == {D \in SUBSET S : Oldest(D) /\ ~Ok(D)}
<1>4. ASSUME T # {} PROVE FALSE
  <2>1. PICK D \in T : \A E \in SUBSET D : E # D => E \notin T
    <3>1. T \in SUBSET SUBSET S
      OBVIOUS
    <3> HIDE DEF T
    <3> QED BY <1>4, <3>1, SmallestSubset
  <2>2. D \in SUBSET S /\ Oldest(D) /\ ~Ok(D)
    BY <2>1
  <2>3. D # {}
    <3>1. R \ {} = R
      OBVIOUS
    <3>2. Ok({})
      BY <1>3, <3>1 DEF SameBesides
    <3> QED BY <2>2, <3>2
  <2>4. PICK o : o = Latest(D) /\ o \in D /\ \A p \in D : p.ts <= o.ts
    <3>1. \A p \in D : p.ts \in Nat /\ p.ts <= w
      BY <1>2, <2>2 DEF Bounded
    <3> QED BY <2>3, <3>1, LatestIs
  <2>5. PICK E : E = D \ {o}
    OBVIOUS
  <2>6. E \in SUBSET D /\ E # D /\ E \in SUBSET S
    BY <2>2, <2>4, <2>5
  <2>7. Oldest(E)
    <3>1. ASSUME NEW p \in E, NEW q \in S \ E PROVE p.ts <= q.ts
      <4>1. q = o \/ q \in S \ D
        BY <2>5
      <4> QED BY <2>2, <2>4, <2>6, <4>1
    <3> QED BY <3>1
  <2>8. Ok(E)
    <3>1. E \notin T
      BY <2>1, <2>6
    <3> QED BY <2>6, <2>7, <3>1
  <2>9. o \in R \ E /\ \A p \in R \ E : p.ts >= o.ts
    <3>1. o \in R \ E
      BY <1>2, <2>2, <2>4, <2>5
    <3>2. ASSUME NEW p \in R \ E PROVE p.ts >= o.ts
      <4>1. p.ts \in Nat /\ o.ts \in Nat /\ o.ts <= w
        BY <1>2, <2>2, <2>4 DEF Given, Obs, Bounded
      <4>2. CASE p \in S
        <5>1. p = o \/ p \in S \ D
          BY <2>5, <4>2
        <5> QED BY <2>2, <2>4, <4>1, <5>1
      <4>3. CASE p \notin S
        BY <4>1, <4>3
      <4> QED BY <4>2, <4>3
    <3> QED BY <3>1, <3>2
  <2>10. PICK c : c = O[E]
    OBVIOUS
  <2>11. Fit(c, A, R \ E) /\ SameBesides(c, b) /\ Given(A, R \ E)
    BY <2>8, <2>10, GivenLess
  <2>12. Fit(Observe(c, o), A, (R \ E) \ {o}) /\ SameBesides(Observe(c, o), c)
    BY <2>9, <2>11, ObserveFits
  <2>13. (R \ E) \ {o} = R \ D /\ O[D] = Observe(c, o)
    BY <1>3, <2>2, <2>3, <2>4, <2>5, <2>10
  <2> QED BY <2>2, <2>11, <2>12, <2>13 DEF SameBesides
<1>5. Oldest(S)
  OBVIOUS
<1>6. Ok(S)
  BY <1>4, <1>5
<1> QED BY <1>1, <1>6

LEMMA DrainFits ==
  ASSUME NEW b, NEW A, BuilderFits(b, A), NEW w \in Int
  PROVE  BuilderFits(DrainBuffered(b, w), A)
<1>1. CASE w <= 0
  BY <1>1 DEF DrainBuffered
<1>2. CASE ~(w <= 0)
  <2>1. PICK R : R = b.buffered
    OBVIOUS
  <2>2. PICK due : due = {o \in R : o.ts <= w}
    OBVIOUS
  <2>3. PICK e : e = [b EXCEPT !.buffered = @ \ due]
    OBVIOUS
  <2>4. b \in Builder /\ R \subseteq Obs /\ IsFiniteSet(R) /\ IsFiniteSet(due) /\ Given(A, R)
    BY <2>1, <2>2, FS_Subset DEF BuilderFits, Fit, Given
  <2>5. /\ e \in Builder /\ e.buffered = R \ due /\ e.bar = b.bar /\ e.clock = b.clock
        /\ e.sealed = b.sealed
    BY <2>1, <2>3, <2>4 DEF Builder
  <2>6. Fit(e, A, R)
    BY <2>1, <2>5, UpdatedFits DEF BuilderFits
  <2>7. PICK c : c = Observed(e, due)[due]
    OBVIOUS
  <2>8. Fit(c, A, R \ due) /\ c.buffered = R \ due
    <3>1. Fit(Observed(e, due)[due], A, R \ due) /\ SameBesides(Observed(e, due)[due], e)
      BY <2>2, <2>4, <2>6, ObservedFit
    <3> QED BY <2>5, <2>7, <3>1 DEF SameBesides
  <2>9. Given(A, R \ due) /\ IsFiniteSet(R \ due)
    BY <2>4, GivenLess, FS_Subset
  <2>10. PICK d : d = DrainBuffered(b, w)
    OBVIOUS
  <2>11. d = IF c.clock = NoTime \/ w >= c.clock THEN AdvanceTo(c, w) ELSE c
    BY <1>2, <2>1, <2>2, <2>3, <2>7, <2>10 DEF DrainBuffered
  <2>12. Fit(AdvanceTo(c, w), A, R \ due) /\ AdvanceTo(c, w).buffered = R \ due
    <3>1. \A o \in R \ due : o.ts >= w
      <4> TAKE o \in R \ due
      <4>1. o.ts \in Nat /\ o \in R /\ ~(o.ts <= w)
        BY <2>2, <2>4 DEF Obs
      <4> QED BY <4>1
    <3>2. w \in Nat /\ w # 0
      BY <1>2
    <3> QED BY <2>8, <2>9, <3>1, <3>2, AdvanceFits DEF SameBesides
  <2>13. Fit(d, A, R \ due) /\ d.buffered = R \ due
    BY <2>8, <2>11, <2>12
  <2> QED BY <2>9, <2>10, <2>13 DEF BuilderFits
<1> QED BY <1>1, <1>2

-----------------------------------------------------------------------------
\* The builder before its first bar.
Empty(b, A) ==
  /\ b \in [bar : {NoBar}, clock : {NoTime}, up : BOOLEAN, ever : {FALSE},
            buffered : {{}}, maxTs : Nat, sealed : {{}}]
  /\ \A t \in A : src[t] \in Nat \ {0} /\ ~Unstored(BucketStart(src[t]))

\* Whatever flags the first bar has, no trade of its quarter can be missing.
LEMMA FirstBar ==
  ASSUME NEW b, NEW A, Empty(b, A), NEW c \in Builder,
         NEW t \in Nat, NEW Q \in SUBSET Quality,
         c.bar = NewBar(BucketStart(t), Q), c.clock \in Nat, BucketStart(c.clock) = BucketStart(t),
         c.buffered = {}, c.sealed = {}
  PROVE  BuilderFits(c, A)
<1>1. BucketStart(t) \in Nat
  BY BucketBounds
<1>2. c.bar \in AnyBar /\ c.bar.start = BucketStart(t) /\ c.bar.trades = {}
  BY <1>1, NewBarIs
<1>3. Given(A, {}) /\ IsFiniteSet({})
  BY FS_EmptySet DEF Given, Empty, NoTime
<1>4. Counts(c.bar, A, {})
  BY <1>2, <1>3, TradeOfBucket DEF Counts, Empty
<1>5. Fit(c, A, {})
  BY <1>2, <1>4 DEF Fit, Empty
<1> QED BY <1>3, <1>5 DEF BuilderFits

LEMMA BucketOfStart ==
  ASSUME NEW t \in Nat
  PROVE  BucketStart(BucketStart(t)) = BucketStart(t)
<1>1. BarTicks \in Nat \ {0}
  BY FlowAssumption
<1>2. BucketStart(t) \in Nat /\ BucketStart(t) < BucketStart(t) + BarTicks
  BY <1>1, BucketBounds
<1> QED BY <1>2, SameBucket

Fine(b, A) == BuilderFits(b, A) \/ Empty(b, A)

LEMMA BuilderUpdated ==
  ASSUME NEW b, NEW A, BuilderFits(b, A), NEW c \in Builder,
         c.bar = b.bar, c.clock = b.clock, c.sealed = b.sealed, c.buffered = b.buffered
  PROVE  BuilderFits(c, A)
  BY UpdatedFits DEF BuilderFits

\* A builder with no bar takes its first one from the watermark.
LEMMA EmptyDrains ==
  ASSUME NEW b, NEW A, Empty(b, A), NEW w \in Int
  PROVE  Fine(DrainBuffered(b, w), A)
<1>1. CASE w <= 0
  BY <1>1 DEF DrainBuffered, Fine
<1>2. CASE ~(w <= 0)
  <2>1. w \in Nat /\ w # 0
    BY <1>2
  <2>2. PICK e : e = [b EXCEPT !.buffered = @ \ {}]
    OBVIOUS
  <2>3. e = b
    BY <2>2 DEF Empty
  <2>4. Observed(b, {})[{}] = b
    <3>1. IsFiniteSet({}) /\ Bounded({}, w)
      BY FS_EmptySet DEF Bounded
    <3> QED BY <3>1, ObservedFollow DEF OneByOne
  <2>5. {o \in b.buffered : o.ts <= w} = {}
    BY DEF Empty
  <2>6. DrainBuffered(b, w) = AdvanceTo(b, w)
    BY <1>2, <2>2, <2>3, <2>4, <2>5 DEF DrainBuffered, Empty
  <2>7. PICK x : x = NewBar(BucketStart(w), {"partial_start"})
    OBVIOUS
  <2>8. PICK d : d = [b EXCEPT !.bar = x, !.clock = w]
    OBVIOUS
  <2>9. BucketStart(w) \in Nat /\ BucketStart(w) <= w /\ w < BucketStart(w) + BarTicks
    BY <2>1, BucketBounds
  <2>10. x \in AnyBar /\ x.start = BucketStart(w)
    BY <2>7, <2>9, NewBarIs DEF Quality
  <2>11. /\ d = [bar |-> x, clock |-> w, up |-> b.up, ever |-> b.ever, buffered |-> b.buffered,
                 maxTs |-> b.maxTs, sealed |-> b.sealed]
         /\ b.buffered = {} /\ b.sealed = {}
    BY <2>8 DEF Empty
  <2>12. /\ d \in Builder /\ d.bar = x /\ d.clock = w /\ d.buffered = {} /\ d.sealed = {}
    BY <2>10, <2>11 DEF Empty, Builder
  <2>13. EnsureCurrent(b, w) = d
    BY <2>7, <2>8 DEF EnsureCurrent, Empty
  <2>14. (w - BucketStart(w)) \div BarTicks = 0
    <3>1. BarTicks \in Nat \ {0}
      BY FlowAssumption
    <3> QED BY <2>1, <2>9, <3>1, QuotientIs
  <2>15. Seals(d, 0)[0] = d
    BY SealsFollow
  <2>16. AdvanceTo(b, w) = AccrueUntil(d, w)
    BY <1>2, <2>10, <2>12, <2>13, <2>14, <2>15 DEF AdvanceTo
  <2>17. AccrueUntil(d, w) = d
    BY <2>12 DEF AccrueUntil
  <2>18. BuilderFits(d, A)
    <3>1. {"partial_start"} \in SUBSET Quality
      BY DEF Quality
    <3> QED BY <2>1, <2>7, <2>12, <3>1, FirstBar
  <2> QED BY <2>6, <2>16, <2>17, <2>18 DEF Fine
<1> QED BY <1>1, <1>2

LEMMA FlushFits ==
  ASSUME NEW b, NEW A, Fine(b, A), now \in Nat
  PROVE  Fine(FlushBuffered(b), A) /\ (BuilderFits(b, A) => BuilderFits(FlushBuffered(b), A))
<1>1. PICK c : c = [b EXCEPT !.maxTs = IF now > @ THEN now ELSE @]
  OBVIOUS
<1>2. now - Window \in Int
  BY FlowAssumption
<1>3. FlushBuffered(b) = DrainBuffered(c, now - Window)
  BY <1>1 DEF FlushBuffered
<1>4. CASE BuilderFits(b, A)
  <2>1. b \in Builder
    BY <1>4 DEF BuilderFits, Fit
  <2>2. /\ c \in Builder /\ c.bar = b.bar /\ c.clock = b.clock /\ c.sealed = b.sealed
        /\ c.buffered = b.buffered
    BY <1>1, <2>1 DEF Builder
  <2>3. BuilderFits(c, A)
    BY <1>4, <2>2, BuilderUpdated
  <2> QED BY <1>2, <1>3, <2>3, DrainFits DEF Fine
<1>5. CASE ~BuilderFits(b, A)
  <2>1. Empty(c, A)
    BY <1>1, <1>5 DEF Fine, Empty
  <2> QED BY <1>2, <1>3, <1>5, <2>1, EmptyDrains
<1> QED BY <1>4, <1>5 DEF Fine

LEMMA DisconnectFits ==
  ASSUME NEW b, NEW A, BuilderFits(b, A), now \in Nat
  PROVE  BuilderFits(MarkDisconnected(b), A)
<1>1. PICK c : c = DrainBuffered(b, now)
  OBVIOUS
<1>2. BuilderFits(c, A) /\ c \in Builder
  <2>1. BuilderFits(c, A)
    BY <1>1, DrainFits
  <2> QED BY <2>1 DEF BuilderFits, Fit
<1>3. PICK d : d = [c EXCEPT !.up = FALSE]
  OBVIOUS
<1>4. /\ d \in Builder /\ d.bar = c.bar /\ d.clock = c.clock /\ d.sealed = c.sealed
      /\ d.buffered = c.buffered
  BY <1>2, <1>3 DEF Builder
<1>5. BuilderFits(d, A)
  BY <1>2, <1>4, BuilderUpdated
<1>6. PICK e : e = Flag(d, "disconnect")
  OBVIOUS
<1>7. Fit(e, A, d.buffered) /\ e.buffered = d.buffered
  BY <1>5, <1>6, FlagFits DEF BuilderFits, Quality, SameBesides
<1>8. BuilderFits(e, A)
  BY <1>5, <1>7 DEF BuilderFits
<1> QED BY <1>1, <1>3, <1>6, <1>8 DEF MarkDisconnected

LEMMA ConnectFits ==
  ASSUME NEW b, NEW A, Fine(b, A), now \in Nat, now # 0
  PROVE  BuilderFits(MarkConnected(b), A)
<1>1. CASE Empty(b, A)
  <2>1. PICK Q \in SUBSET Quality : Q = IF now = BucketStart(now) THEN {} ELSE {"partial_start"}
    BY DEF Quality
  <2>2. PICK start \in Nat : start = BucketStart(now)
    BY BucketBounds
  <2>3. PICK x : x = NewBar(start, Q)
    OBVIOUS
  <2>4. x \in AnyBar
    BY <2>3, NewBarIs
  <2>5. PICK d : d = MarkConnected(b)
    OBVIOUS
  <2>6. d = [b EXCEPT !.up = TRUE, !.ever = TRUE, !.bar = x, !.clock = start]
    BY <1>1, <2>1, <2>2, <2>3, <2>5 DEF MarkConnected, Empty
  <2>7. /\ d = [bar |-> x, clock |-> start, up |-> TRUE, ever |-> TRUE, buffered |-> b.buffered,
                maxTs |-> b.maxTs, sealed |-> b.sealed]
        /\ b.buffered = {} /\ b.sealed = {}
    BY <1>1, <2>6 DEF Empty
  <2>8. d \in Builder /\ d.bar = x /\ d.clock = start /\ d.buffered = {} /\ d.sealed = {}
    BY <1>1, <2>4, <2>7 DEF Empty, Builder
  <2>9. BucketStart(start) = BucketStart(now)
    BY <2>2, BucketOfStart
  <2> QED BY <1>1, <2>1, <2>2, <2>3, <2>5, <2>8, <2>9, FirstBar
<1>2. CASE BuilderFits(b, A)
  <2>1. b.bar # NoBar
    BY <1>2, BarIsNone DEF BuilderFits, Fit
  <2>2. PICK c : c = DrainBuffered(b, now)
    OBVIOUS
  <2>3. BuilderFits(c, A)
    BY <1>2, <2>2, DrainFits
  <2>4. PICK d : d = IF c.ever THEN Flag(c, "reconnect") ELSE c
    OBVIOUS
  <2>5. BuilderFits(d, A) /\ d \in Builder
    <3>1. CASE c.ever
      <4>1. Fit(d, A, c.buffered) /\ d.buffered = c.buffered
        BY <2>3, <2>4, <3>1, FlagFits DEF BuilderFits, Quality, SameBesides
      <4> QED BY <2>3, <4>1 DEF BuilderFits, Fit
    <3>2. CASE ~c.ever
      BY <2>3, <2>4, <3>2 DEF BuilderFits, Fit
    <3> QED BY <3>1, <3>2
  <2>6. PICK e : e = [d EXCEPT !.up = TRUE, !.ever = TRUE]
    OBVIOUS
  <2>7. /\ e \in Builder /\ e.bar = d.bar /\ e.clock = d.clock /\ e.sealed = d.sealed
        /\ e.buffered = d.buffered
    BY <2>5, <2>6 DEF Builder
  <2>8. e = MarkConnected(b)
    BY <2>1, <2>2, <2>4, <2>6 DEF MarkConnected
  <2> QED BY <2>5, <2>7, <2>8, BuilderUpdated
<1> QED BY <1>1, <1>2 DEF Fine

LEMMA NewsIs ==
  ASSUME NEW N \in SUBSET Trade, NEW missed, now \in Nat \ {0},
         \A t \in N : src[t] \in Nat \ {0}
  PROVE  /\ News(N, missed) \subseteq Obs /\ IsFiniteSet(News(N, missed))
         /\ \A o \in News(N, missed) : o.kind = "trade" => o.trade \in N /\ src[o.trade] = o.ts
         /\ N \subseteq TradesIn(News(N, missed))
         /\ \A o \in News(N, missed) : o.ts = now \/ \E t \in N : o.ts = src[t]
<1>1. PICK X : X = {Observation("trade", src[t], t) : t \in N}
  OBVIOUS
<1>2. PICK Y : Y = (IF missed THEN {Observation("gap", now, "")} ELSE {})
                     \cup {Observation("message", now, "")}
  OBVIOUS
<1>3. News(N, missed) = X \cup Y
  BY <1>1, <1>2 DEF News
<1>4. IsFiniteSet(X)
  <2>1. IsFiniteSet(Trade) /\ IsFiniteSet(N)
    BY FlowAssumption, FS_Subset
  <2> DEFINE f == [t \in N |-> Observation("trade", src[t], t)]
  <2>2. f \in Surjection(N, X)
    BY <1>1 DEF Surjection
  <2> QED BY <2>1, <2>2, FS_Surjection
<1>5. IsFiniteSet(Y)
  <2>1. \A x : IsFiniteSet({x})
    BY FS_Singleton
  <2> QED BY <1>2, <2>1, FS_EmptySet, FS_Union
<1>6. IsFiniteSet(News(N, missed))
  BY <1>3, <1>4, <1>5, FS_Union
<1>7. ASSUME NEW o \in X
      PROVE  /\ o \in Obs /\ o.kind = "trade" /\ o.trade \in N /\ src[o.trade] = o.ts
             /\ \E t \in N : o.ts = src[t]
  <2>1. PICK t \in N : o = Observation("trade", src[t], t)
    BY <1>1
  <2>2. o = [kind |-> "trade", ts |-> src[t], trade |-> t] /\ src[t] \in Nat \ {0} /\ t \in Trade
    BY <2>1 DEF Observation
  <2> QED BY <2>2 DEF Obs
<1>8. ASSUME NEW o \in Y
      PROVE  o \in Obs /\ o.kind # "trade" /\ o.ts = now
  <2>1. PICK k \in {"gap", "message"} : o = [kind |-> k, ts |-> now, trade |-> ""]
    BY <1>2 DEF Observation
  <2> QED BY <2>1 DEF Obs
<1>9. ASSUME NEW t \in N PROVE t \in TradesIn(News(N, missed))
  <2>1. PICK o : o = Observation("trade", src[t], t)
    OBVIOUS
  <2>2. o \in News(N, missed) /\ o.kind = "trade" /\ o.trade = t
    BY <1>1, <1>3, <2>1 DEF Observation
  <2> QED BY <2>2 DEF TradesIn
<1> QED BY <1>3, <1>6, <1>7, <1>8, <1>9

\* The trades of a message that the builder is given in time.
InTimeFor(b, N) ==
  {t \in N : bars[BucketStart(src[t])] = NoBar /\ (b.clock = NoTime \/ b.bar.start <= src[t])}

LEMMA IngestFits ==
  ASSUME NEW b, NEW A, BuilderFits(b, A), NEW N \in SUBSET Trade, NEW missed,
         now \in Nat \ {0}, \A t \in N : src[t] \in Nat \ {0} /\ src[t] <= MaxTime + Ahead,
         b.sealed = {}, now <= MaxTime
  PROVE  BuilderFits(IngestFrame(b, N, missed), A \cup InTimeFor(b, N))
<1>1. PICK W : W = News(N, missed)
  OBVIOUS
<1>2. /\ W \subseteq Obs /\ IsFiniteSet(W)
      /\ \A o \in W : o.kind = "trade" => o.trade \in N /\ src[o.trade] = o.ts
      /\ N \subseteq TradesIn(W)
      /\ \A o \in W : o.ts = now \/ \E t \in N : o.ts = src[t]
  BY <1>1, NewsIs
<1>3. PICK A1 : A1 = A \cup InTimeFor(b, N)
  OBVIOUS
<1>4. PICK R : R = b.buffered \cup W
  OBVIOUS
<1>5. /\ b \in Builder /\ b.bar \in AnyBar /\ b.clock \in Nat /\ b.bar.start \in Nat
      /\ b.bar.start = BucketStart(b.clock)
  BY BucketBounds DEF BuilderFits, Fit
<1>6. Given(A1, R)
  BY <1>2, <1>3, <1>4 DEF BuilderFits, Given, InTimeFor
<1>7. IsFiniteSet(R)
  BY <1>2, <1>4, FS_Union DEF BuilderFits
<1>8. TradesIn(R) = TradesIn(b.buffered) \cup TradesIn(W)
  BY <1>4 DEF TradesIn
<1>9. A \subseteq A1 /\ \A t \in A1 : t \in A \/ t \in N
  BY <1>3 DEF InTimeFor
<1>10. Counts(b.bar, A1, R)
  BY <1>2, <1>8, <1>9 DEF BuilderFits, Fit, Counts
<1>11. \A t \in A1 : Unstored(BucketStart(src[t])) /\ src[t] >= b.bar.start + BarTicks => t \in TradesIn(R)
  BY <1>2, <1>8, <1>9 DEF BuilderFits, Fit
<1>12. ASSUME NEW o \in R, o.kind = "trade", Unstored(BucketStart(o.ts)), o.ts >= b.bar.start
       PROVE  o.trade \in A1
  <2>1. CASE o \in b.buffered
    BY <1>9, <1>12, <2>1 DEF BuilderFits, Fit
  <2>2. CASE o \in W
    <3>1. o.trade \in N /\ src[o.trade] = o.ts /\ o.ts \in Nat
      BY <1>2, <1>12, <2>2 DEF Obs
    <3>2. o.trade \in InTimeFor(b, N)
      BY <1>5, <1>12, <3>1 DEF InTimeFor, Unstored
    <3> QED BY <1>3, <3>2
  <2> QED BY <1>4, <2>1, <2>2
<1>13. Fit(b, A1, R)
  BY <1>5, <1>10, <1>11, <1>12 DEF Fit
<1>14. PICK S : S = {b.maxTs} \cup {o.ts : o \in W}
  OBVIOUS
<1>15. Max(S) \in Nat
  <2>1. S \in SUBSET Nat /\ S # {}
    <3>1. b.maxTs \in Nat
      BY <1>5 DEF Builder
    <3>2. \A o \in W : o.ts \in Nat
      BY <1>2 DEF Obs
    <3> QED BY <1>14, <3>1, <3>2
  <2>2. PICK n \in Nat : n = b.maxTs + MaxTime + Ahead
    BY <1>5, FlowAssumption DEF Builder
  <2>3. \A x \in S : x <= n
    <3>1. ASSUME NEW x \in S PROVE x <= n
      <4>1. x \in Nat /\ b.maxTs \in Nat
        BY <1>5, <2>1 DEF Builder
      <4>2. x = b.maxTs \/ x <= MaxTime + Ahead
        <5>1. ASSUME NEW o \in W PROVE o.ts <= MaxTime + Ahead
          BY <1>2, FlowAssumption
        <5> QED BY <1>14, <5>1
      <4> QED BY <2>2, <4>1, <4>2, FlowAssumption
    <3> QED BY <3>1
  <2>4. PICK m \in S : \A x \in S : x <= m
    BY <2>1, <2>2, <2>3, GreatestNat
  <2>5. \A x \in S : m >= x
    BY <2>1, <2>4
  <2> QED BY <2>1, <2>5 DEF Max
<1>16. PICK c : c = [b EXCEPT !.buffered = @ \cup W, !.maxTs = Max(S)]
  OBVIOUS
<1>17. /\ c = [bar |-> b.bar, clock |-> b.clock, up |-> b.up, ever |-> b.ever, buffered |-> R,
               maxTs |-> Max(S), sealed |-> b.sealed]
       /\ R \subseteq Obs
  BY <1>4, <1>5, <1>6, <1>16 DEF Builder, Given
<1>18. /\ c \in Builder /\ c.bar = b.bar /\ c.clock = b.clock /\ c.sealed = b.sealed
       /\ c.buffered = R
  BY <1>5, <1>15, <1>17 DEF Builder
<1>19. BuilderFits(c, A1)
  BY <1>6, <1>7, <1>13, <1>18, UpdatedFits DEF BuilderFits
<1>20. IngestFrame(b, N, missed) = DrainBuffered(c, Max(S) - Window)
  BY <1>1, <1>5, <1>14, <1>16, <1>17 DEF IngestFrame, Builder
<1>21. Max(S) - Window \in Int
  BY <1>15, FlowAssumption
<1> QED BY <1>3, <1>19, <1>20, <1>21, DrainFits

-----------------------------------------------------------------------------
\* OrderFlow: the stored bars are exact, the builder fits the trades it was
\* given, and only what has happened is on the wire.
Happened == {t \in Trade : src[t] # NoTime}
FlowMessage(T) == [seq : Nat, trades : SUBSET T]

BarsInv ==
  /\ now \in 1..MaxTime
  /\ src \in [Trade -> (1..MaxTime + Ahead) \cup {NoTime}]
  /\ nextSeq \in Nat
  /\ wire \in Seq(FlowMessage(Happened))
  /\ arrived \subseteq Happened
  /\ socket # "down" => builder.bar # NoBar
  /\ builder.sealed = {}
  /\ Fine(builder, arrived)
  /\ EligibleBarIsExact

LEMMA FlowStarts == FlowInit => BarsInv
<1> SUFFICES ASSUME FlowInit PROVE BarsInv
  OBVIOUS
<1>1. now \in 1..MaxTime
  BY FlowAssumption DEF FlowInit
<1>2. wire \in Seq(FlowMessage(Happened)) /\ src \in [Trade -> (1..MaxTime + Ahead) \cup {NoTime}]
  BY DEF FlowInit
<1>3. Fine(builder, arrived)
  BY DEF FlowInit, NewBuilder, Fine, Empty
<1>4. EligibleBarIsExact
  BY DEF FlowInit, EligibleBarIsExact, Eligible
<1> QED BY <1>1, <1>2, <1>3, <1>4 DEF FlowInit, BarsInv, NewBuilder

\* A trade on the wire gets no other time, so the bars stay what they are.
LEMMA BarsStay ==
  ASSUME BarsInv, builder' = builder, bars' = bars, arrived' = arrived,
         \A t \in Happened : src'[t] = src[t] /\ t \in Happened'
  PROVE  Fine(builder, arrived)' /\ EligibleBarIsExact'
<1>1. \A t \in arrived : src'[t] = src[t] /\ t \in Trade
  BY DEF BarsInv, Happened
<1>2. \A s : Unstored(s)' <=> Unstored(s)
  BY DEF Unstored
<1>3. \A t \in arrived : \A s : InBucket(t, s)' <=> InBucket(t, s)
  BY <1>1 DEF InBucket
<1>4. EligibleBarIsExact'
  <2> SUFFICES ASSUME NEW s \in Starts, Eligible(bars[s])
               PROVE  bars[s].trades = {t \in arrived : InBucket(t, s)'}
    BY DEF EligibleBarIsExact, Eligible
  <2>1. bars[s].trades = {t \in arrived : InBucket(t, s)}
    BY DEF BarsInv, EligibleBarIsExact
  <2> QED BY <1>3, <2>1
<1>5. CASE Empty(builder, arrived)
  <2>1. Empty(builder, arrived)'
    BY <1>1, <1>2, <1>5 DEF Empty
  <2> QED BY <1>4, <2>1 DEF Fine
<1>6. CASE BuilderFits(builder, arrived)
  <2>1. Given(arrived, builder.buffered)'
    <3>1. ASSUME NEW o \in builder.buffered, o.kind = "trade"
          PROVE  o.trade \in Trade /\ src'[o.trade] = o.ts
      <4>1. o.trade \in Trade /\ src[o.trade] = o.ts /\ o.ts \in Nat /\ NoTime \notin Nat
        BY <1>6, <3>1 DEF BuilderFits, Given, Obs
      <4>2. o.trade \in Happened
        BY <4>1 DEF Happened
      <4> QED BY <4>1, <4>2
    <3> QED BY <1>1, <1>6, <3>1 DEF BuilderFits, Given
  <2>2. Fit(builder, arrived, builder.buffered)'
    <3>1. Fit(builder, arrived, builder.buffered)
      BY <1>6 DEF BuilderFits
    <3>2. ASSUME NEW x, NEW R, Counts(x, arrived, R)
          PROVE  Counts(x, arrived, R)'
      BY <1>2, <1>3, <3>2 DEF Counts
    <3>3. Counts(builder.bar, arrived, builder.buffered)'
      BY <3>1, <3>2 DEF Fit
    <3>4. (\A x \in builder.sealed : Counts(x, arrived, {}))'
      BY DEF BarsInv
    <3> QED BY <1>1, <1>2, <3>1, <3>3, <3>4 DEF Fit
  <2> QED BY <1>4, <1>6, <2>1, <2>2 DEF Fine, BuilderFits
<1> QED BY <1>5, <1>6 DEF BarsInv, Fine

LEMMA MoreStored ==
  ASSUME NEW b, PersistBars(b), NEW s, Unstored(s)'
  PROVE  Unstored(s)
  BY DEF PersistBars, Unstored

\* Storing the sealed bars keeps what is known of the builder.
LEMMA PersistKeeps ==
  ASSUME NEW b, NEW A, Fine(b, A), PersistBars(b), src' = src
  PROVE  Fine(builder, A)' /\ builder'.sealed = {} /\ builder'.bar = b.bar
<1>1. builder' = [b EXCEPT !.sealed = {}]
  BY DEF PersistBars
<1> DEFINE More == \A s : Unstored(s)' => Unstored(s)
<1>2. More
  BY MoreStored
<1> HIDE DEF More
<1>3. CASE Empty(b, A)
  <2>1. builder' = b /\ b.sealed = {}
    BY <1>1, <1>3 DEF Empty
  <2>2. Empty(builder, A)'
    BY <1>3, <2>1, <1>2 DEF More, Empty
  <2> QED BY <2>1, <2>2 DEF Fine
<1>4. CASE BuilderFits(b, A)
  <2>1. b \in Builder
    BY <1>4 DEF BuilderFits, Fit
  <2>2. /\ builder' \in Builder /\ builder'.bar = b.bar /\ builder'.clock = b.clock
        /\ builder'.sealed = {} /\ builder'.buffered = b.buffered
    BY <1>1, <2>1 DEF Builder
  <2>3. Given(A, b.buffered)'
    BY <1>4 DEF BuilderFits, Given
  <2>4. Counts(b.bar, A, b.buffered)'
    <3>1. Counts(b.bar, A, b.buffered)
      BY <1>4 DEF BuilderFits, Fit
    <3> QED BY <3>1, <1>2 DEF More, Counts, InBucket
  <2>5. Fit(builder, A, b.buffered)'
    BY <1>4, <2>2, <2>4, <1>2 DEF More, BuilderFits, Fit
  <2>6. BuilderFits(builder, A)'
    BY <1>4, <2>2, <2>3, <2>5 DEF BuilderFits
  <2> QED BY <2>2, <2>6 DEF Fine
<1> QED BY <1>3, <1>4 DEF Fine

\* A sealed bar is stored as it was counted; a stored bar gets no more trades.
LEMMA PersistIsExact ==
  ASSUME BarsInv, NEW b, NEW A, Fine(b, A), PersistBars(b), src' = src, arrived' = A,
         arrived \subseteq A, \A t \in A : t \in arrived \/ bars[BucketStart(src[t])] = NoBar
  PROVE  EligibleBarIsExact'
<1> SUFFICES ASSUME NEW s \in Starts, Eligible(bars'[s])
             PROVE  bars'[s].trades = {t \in A : InBucket(t, s)}
  BY DEF EligibleBarIsExact, Eligible, InBucket
<1>1. CASE bars[s] # NoBar
  <2>1. bars'[s] = bars[s]
    BY <1>1 DEF PersistBars
  <2>2. bars[s].trades = {t \in arrived : InBucket(t, s)}
    BY <2>1 DEF BarsInv, EligibleBarIsExact, Eligible
  <2>3. ASSUME NEW t \in A, InBucket(t, s) PROVE t \in arrived
    BY <1>1, <2>3 DEF InBucket
  <2> QED BY <2>1, <2>2, <2>3
<1>2. CASE bars[s] = NoBar
  <2>1. PICK new : new = {bar \in b.sealed : bar.start = s}
    OBVIOUS
  <2>2. bars'[s] = IF new = {} THEN NoBar ELSE CHOOSE bar \in new : TRUE
    BY <1>2, <2>1 DEF PersistBars
  <2>3. bars'[s] \in new
    BY <2>2 DEF Eligible
  <2>4. PICK x : x = bars'[s] /\ x \in b.sealed /\ x.start = s /\ x.quality = {}
    BY <2>1, <2>3 DEF Eligible
  <2>5. BuilderFits(b, A)
    BY <2>4 DEF Fine, Empty
  <2>6. Counts(x, A, {}) /\ Unstored(s)
    BY <1>2, <2>4, <2>5 DEF BuilderFits, Fit, Unstored
  <2>7. \A t \in x.trades : t \in A /\ InBucket(t, s)
    BY <2>4, <2>6 DEF Counts
  <2>8. \A t \in A : InBucket(t, s) => t \in x.trades
    BY <2>4, <2>6 DEF Counts, TradesIn
  <2> QED BY <2>4, <2>7, <2>8
<1> QED BY <1>1, <1>2

LEMMA SeqOfMore ==
  ASSUME NEW S, NEW T, S \subseteq T, NEW q \in Seq(S)
  PROVE  q \in Seq(T)
  OBVIOUS

LEMMA HappenedGrows ==
  ASSUME BarsInv, NEW t \in Trade, NEW ahead \in 0..Ahead, TradeHappens(t, ahead)
  PROVE  /\ src' \in [Trade -> (1..MaxTime + Ahead) \cup {NoTime}]
         /\ \A u \in Happened : src'[u] = src[u] /\ u \in Happened'
         /\ t \in Happened'
<1>1. now + ahead \in 1..MaxTime + Ahead /\ NoTime \notin 1..MaxTime + Ahead
  BY FlowAssumption DEF BarsInv, NoTime
<1>2. src' = [src EXCEPT ![t] = now + ahead] /\ src[t] = NoTime
  BY DEF TradeHappens
<1> QED BY <1>1, <1>2 DEF BarsInv, Happened

LEMMA TradeHappensKeeps ==
  ASSUME BarsInv, NEW t \in Trade, NEW ahead \in 0..Ahead, TradeHappens(t, ahead)
  PROVE  BarsInv'
<1>1. /\ src' \in [Trade -> (1..MaxTime + Ahead) \cup {NoTime}]
      /\ \A u \in Happened : src'[u] = src[u] /\ u \in Happened'
      /\ t \in Happened'
  BY HappenedGrows
<1>2. /\ now' = now /\ socket' = socket /\ builder' = builder /\ bars' = bars
      /\ arrived' = arrived
  BY DEF TradeHappens
<1>3. Fine(builder, arrived)' /\ EligibleBarIsExact'
  BY <1>1, <1>2, BarsStay
<1>4. FlowMessage(Happened) \subseteq FlowMessage(Happened')
  BY <1>1 DEF FlowMessage
<1>5. wire \in Seq(FlowMessage(Happened'))
  BY <1>4, SeqOfMore DEF BarsInv
<1>6. nextSeq' \in Nat /\ wire' \in Seq(FlowMessage(Happened'))
  <2>1. CASE UNCHANGED <<wire, nextSeq>>
    BY <1>5, <2>1 DEF BarsInv
  <2>2. CASE Send({t})
    <3>1. [seq |-> nextSeq, trades |-> {t}] \in FlowMessage(Happened')
      BY <1>1 DEF FlowMessage, BarsInv
    <3> QED BY <1>5, <2>2, <3>1 DEF Send, BarsInv
  <2> QED BY <2>1, <2>2 DEF TradeHappens
<1> QED BY <1>1, <1>2, <1>3, <1>6 DEF BarsInv

\* A step that leaves the builder, the bars and the trades alone.
LEMMA WireKeeps ==
  ASSUME BarsInv, now' \in 1..MaxTime, src' = src, builder' = builder, bars' = bars, arrived' = arrived,
         socket' # "down" => socket # "down",
         nextSeq' \in Nat, wire' \in Seq(FlowMessage(Happened))
  PROVE  BarsInv'
<1>1. \A u \in Happened : src'[u] = src[u] /\ u \in Happened'
  BY DEF Happened
<1>2. Fine(builder, arrived)' /\ EligibleBarIsExact'
  BY <1>1, BarsStay
<1>3. Happened' = Happened
  BY DEF Happened
<1> QED BY <1>2, <1>3 DEF BarsInv

\* A step of the builder that is given no trade.
LEMMA BuilderStep ==
  ASSUME BarsInv, NEW b, Fine(b, arrived), PersistBars(b),
         UNCHANGED <<now, src, arrived>>, nextSeq' \in Nat, wire' \in Seq(FlowMessage(Happened)),
         socket' # "down" => b.bar # NoBar
  PROVE  BarsInv'
<1>1. PICK A : A = arrived
  OBVIOUS
<1>2. Fine(builder, A)' /\ builder'.sealed = {} /\ builder'.bar = b.bar
  BY <1>1, PersistKeeps
<1>3. EligibleBarIsExact'
  BY <1>1, PersistIsExact
<1>4. Happened' = Happened
  BY DEF Happened
<1>5. Fine(builder, arrived)'
  BY <1>1, <1>2
<1> QED BY <1>2, <1>3, <1>4, <1>5 DEF BarsInv

LEMMA FitHasBar ==
  ASSUME NEW b, NEW A, BuilderFits(b, A)
  PROVE  b.bar # NoBar
  BY BarIsNone DEF BuilderFits, Fit

LEMMA UpHasBuilder ==
  ASSUME BarsInv, socket # "down"
  PROVE  BuilderFits(builder, arrived)
  BY DEF BarsInv, Fine, Empty

LEMMA TakeKeeps ==
  ASSUME BarsInv, socket = "up", wire # <<>>, Take(Head(wire)), wire' = Tail(wire),
         UNCHANGED <<now, src, nextSeq>>
  PROVE  BarsInv'
<1>1. PICK m \in FlowMessage(Happened) : m = Head(wire)
  BY DEF BarsInv
<1>2. PICK N : N = m.trades \ seen
  OBVIOUS
<1>3. N \in SUBSET Trade /\ N \subseteq Happened
  BY <1>1, <1>2 DEF FlowMessage, Happened
<1>4. \A t \in N : src[t] \in Nat \ {0} /\ src[t] <= MaxTime + Ahead
  BY <1>3, FlowAssumption DEF BarsInv, Happened
<1>5. now \in Nat \ {0} /\ now <= MaxTime
  BY FlowAssumption DEF BarsInv
<1>6. PICK missed : missed = (lastSeq # NoTime /\ m.seq > lastSeq + 1)
  OBVIOUS
<1>7. PICK A : A = arrived \cup InTimeFor(builder, N)
  OBVIOUS
<1>8. PICK b : b = IngestFrame(builder, N, missed)
  OBVIOUS
<1>9. BuilderFits(b, A)
  <2>1. BuilderFits(builder, arrived) /\ builder.sealed = {}
    BY UpHasBuilder DEF BarsInv
  <2> QED BY <1>3, <1>4, <1>5, <1>7, <1>8, <2>1, IngestFits
<1>10. /\ PersistBars(b) /\ arrived' = A /\ socket' = socket
  BY <1>1, <1>2, <1>6, <1>7, <1>8 DEF Take, InTimeFor
<1>11. Fine(builder, A)' /\ builder'.sealed = {} /\ builder'.bar = b.bar
  BY <1>9, <1>10, PersistKeeps DEF Fine
<1>12. EligibleBarIsExact'
  <2>1. arrived \subseteq A /\ \A t \in A : t \in arrived \/ bars[BucketStart(src[t])] = NoBar
    BY <1>7 DEF InTimeFor
  <2>2. Fine(b, A)
    BY <1>9 DEF Fine
  <2> QED BY <1>10, <2>1, <2>2, PersistIsExact
<1>13. b.bar # NoBar
  BY <1>9, FitHasBar
<1>14. Happened' = Happened
  BY DEF Happened
<1>15. A \subseteq Happened
  BY <1>3, <1>7 DEF BarsInv, InTimeFor
<1>16. wire' \in Seq(FlowMessage(Happened))
  BY DEF BarsInv
<1>17. Fine(builder, arrived)'
  BY <1>10, <1>11
<1> QED BY <1>10, <1>11, <1>12, <1>13, <1>14, <1>15, <1>16, <1>17 DEF BarsInv

\* A crash forgets the builder, and with it the trades whose bar is not stored.
LEMMA RestartKeeps ==
  ASSUME BarsInv, CollectorRestarts
  PROVE  BarsInv'
<1>1. /\ builder' = NewBuilder /\ bars' = bars /\ src' = src /\ now' = now /\ nextSeq' = nextSeq
      /\ wire' = <<>> /\ socket' = "down"
      /\ arrived' = {t \in arrived : bars[BucketStart(src[t])] # NoBar}
  BY DEF CollectorRestarts
<1>2. \A t \in arrived : src[t] \in Nat \ {0}
  BY FlowAssumption DEF BarsInv, Happened
<1>3. Fine(builder, arrived)'
  BY <1>1, <1>2 DEF Fine, Empty, NewBuilder, Unstored
<1>4. EligibleBarIsExact'
  <2> SUFFICES ASSUME NEW s \in Starts, Eligible(bars[s])
               PROVE  bars[s].trades = {t \in arrived' : InBucket(t, s)}
    BY <1>1 DEF EligibleBarIsExact, Eligible, InBucket
  <2>1. bars[s].trades = {t \in arrived : InBucket(t, s)} /\ bars[s] # NoBar
    BY DEF BarsInv, EligibleBarIsExact, Eligible
  <2>2. \A t \in arrived : InBucket(t, s) => t \in arrived'
    BY <1>1, <2>1 DEF InBucket
  <2> QED BY <1>1, <2>1, <2>2
<1>5. Happened' = Happened
  BY <1>1 DEF Happened
<1>6. wire' \in Seq(FlowMessage(Happened))
  BY <1>1
<1>7. builder'.sealed = {} /\ arrived' \subseteq Happened
  BY <1>1 DEF NewBuilder, BarsInv
<1> QED BY <1>1, <1>3, <1>4, <1>5, <1>6, <1>7 DEF BarsInv

LEMMA BarsInvKept == BarsInv /\ [FlowNext]_flowVars => BarsInv'
<1> SUFFICES ASSUME BarsInv, [FlowNext]_flowVars PROVE BarsInv'
  OBVIOUS
<1> USE DEF exchangeVars, batchVars
<1>1. now \in 1..MaxTime /\ now \in Nat \ {0} /\ nextSeq \in Nat /\ wire \in Seq(FlowMessage(Happened))
  BY FlowAssumption DEF BarsInv
<1>2. wire # <<>> => Head(wire) \in FlowMessage(Happened) /\ Tail(wire) \in Seq(FlowMessage(Happened))
  BY <1>1
<1>3. CASE Clock
  <2>1. now' \in 1..MaxTime
    BY <1>1, <1>3, FlowAssumption DEF Clock
  <2> QED BY <1>1, <1>3, <2>1, WireKeeps DEF Clock
<1>4. CASE \E t \in Trade, ahead \in 0..Ahead : TradeHappens(t, ahead)
  BY <1>4, TradeHappensKeeps
<1>5. ASSUME NEW trades \in {{}, {t \in Trade : src[t] # NoTime}}, Snapshot(trades)
      PROVE  BarsInv'
  <2>1. [seq |-> nextSeq, trades |-> trades] \in FlowMessage(Happened)
    BY <1>1 DEF FlowMessage, Happened
  <2>2. nextSeq' \in Nat /\ wire' \in Seq(FlowMessage(Happened))
    BY <1>1, <1>5, <2>1 DEF Snapshot, Send
  <2> QED BY <1>1, <1>5, <2>2, WireKeeps DEF Snapshot
<1>6. CASE LoseMessage
  BY <1>1, <1>2, <1>6, WireKeeps DEF LoseMessage
<1>7. CASE Deliver
  <2>1. wire' \in Seq(FlowMessage(Happened))
    BY <1>2, <1>7 DEF Deliver
  <2>2. CASE Take(Head(wire))
    BY <1>7, <2>2, TakeKeeps DEF Deliver
  <2>3. CASE UNCHANGED <<socket, lastSeq, seen, batchVars, builder, bars, arrived, flowFaults>>
    BY <1>1, <1>7, <2>1, <2>3, WireKeeps DEF Deliver
  <2>4. CASE DropFrame(Head(wire))
    BY <1>1, <1>7, <2>1, <2>4, WireKeeps DEF Deliver, DropFrame
  <2> QED BY <1>7, <2>2, <2>3, <2>4 DEF Deliver
<1>8. CASE Repeat
  <2>1. <<Head(wire)>> \o wire \in Seq(FlowMessage(Happened))
    BY <1>1, <1>2, <1>8 DEF Repeat
  <2> QED BY <1>1, <1>8, <2>1, WireKeeps DEF Repeat
<1>9. CASE FlushTimer
  BY <1>1, <1>9, WireKeeps DEF FlushTimer
<1>10. CASE SocketCloses
  <2>1. PICK b : b = MarkDisconnected(builder)
    OBVIOUS
  <2>2. BuilderFits(b, arrived)
    <3>1. BuilderFits(builder, arrived)
      BY <1>10, UpHasBuilder DEF SocketCloses
    <3> QED BY <1>1, <2>1, <3>1, DisconnectFits
  <2>3. /\ PersistBars(b) /\ UNCHANGED <<now, src, arrived>>
        /\ nextSeq' = nextSeq /\ wire' = <<>> /\ socket' = "down"
    BY <1>10, <2>1 DEF SocketCloses
  <2> QED BY <1>1, <2>2, <2>3, BuilderStep DEF Fine
<1>11. CASE SocketOpens
  <2>1. PICK b : b = MarkConnected(builder)
    OBVIOUS
  <2>2. BuilderFits(b, arrived)
    BY <1>1, <2>1, ConnectFits DEF BarsInv
  <2>3. b.bar # NoBar
    BY <2>2, FitHasBar
  <2>4. PersistBars(b) /\ UNCHANGED <<now, src, arrived>> /\ nextSeq' = 0 /\ wire' = wire
    BY <1>11, <2>1 DEF SocketOpens
  <2> QED BY <1>1, <2>2, <2>3, <2>4, BuilderStep DEF Fine
<1>12. CASE Watchdog
  <2>1. PICK b : b = FlushBuffered(builder)
    OBVIOUS
  <2>2. Fine(b, arrived)
    BY <1>1, <2>1, FlushFits DEF BarsInv
  <2>3. /\ PersistBars(b) /\ UNCHANGED <<now, src, arrived>>
        /\ nextSeq' = nextSeq /\ wire' = wire /\ socket' = socket
    BY <1>12, <2>1 DEF Watchdog
  <2>4. socket # "down" => b.bar # NoBar
    <3>1. SUFFICES ASSUME socket # "down" PROVE b.bar # NoBar
      OBVIOUS
    <3>2. BuilderFits(builder, arrived)
      BY <3>1, UpHasBuilder
    <3>3. BuilderFits(b, arrived)
      BY <1>1, <2>1, <3>2, FlushFits DEF Fine
    <3> QED BY <3>3, FitHasBar
  <2> QED BY <1>1, <2>2, <2>3, <2>4, BuilderStep
<1>13. CASE CollectorRestarts
  BY <1>13, RestartKeeps
<1>14. CASE UNCHANGED flowVars
  BY <1>1, <1>14, WireKeeps DEF flowVars
<1> QED
  BY <1>3, <1>4, <1>5, <1>6, <1>7, <1>8, <1>9, <1>10, <1>11, <1>12, <1>13, <1>14 DEF FlowNext

\* Each stored bar that research may use counts exactly the trades of its
\* quarter that came in time, for any number of trades and faults and any
\* reorder window: the reorder buffer, the reversal flag and persistBars.
THEOREM BarsAreExact == FlowSpec => []EligibleBarIsExact
<1>1. FlowInit => BarsInv
  BY FlowStarts
<1>2. BarsInv /\ [FlowNext]_flowVars => BarsInv'
  BY BarsInvKept
<1>3. BarsInv => EligibleBarIsExact
  BY DEF BarsInv
<1> QED BY <1>1, <1>2, <1>3, PTL DEF FlowSpec
=============================================================================
