--------------------------- MODULE DecisionProofs ---------------------------
(***************************************************************************)
(* Theorems about how a signal is decided: Approvals for every set of      *)
(* signals and every number of clicks and restarts, Committee for every    *)
(* panel, every value of the Markov signal and every bound on attempts     *)
(* and refusals, EntrySizing for every book, NAV, strategy and chart, and  *)
(* MarketCalendar for every day of the years 1900 to 2199.                 *)
(***************************************************************************)
EXTENDS Approvals, Committee, EntrySizing, MarketCalendar, SumTheorems

-----------------------------------------------------------------------------
(* Approvals.                                                              *)

\* The claim on the row of trader_approvals is what counts the runs: one for an
\* approval, none for any other answer or before one.
RunsFollowAnswer ==
  /\ answer \in [Signal -> Answer \cup {"none"}]
  /\ runs \in [Signal -> Nat]
  /\ \A g \in Signal : runs[g] = (IF answer[g] = "approve" THEN 1 ELSE 0)

LEMMA RunsInit == ApprovalInit => RunsFollowAnswer
  BY DEF ApprovalInit, RunsFollowAnswer

\* Only a message that wins the claim starts a run.
LEMMA ReceiveKeepsRuns ==
  ASSUME RunsFollowAnswer,
         NEW g \in Signal, NEW a \in Answer,
         Receive(g, a)
  PROVE  RunsFollowAnswer'
<1>1. CASE ~Claims(g)
  BY <1>1 DEF Receive, RunsFollowAnswer
<1>2. CASE Claims(g) /\ a = "approve"
  BY <1>2 DEF Receive, RunsFollowAnswer, Claims
<1>3. CASE Claims(g) /\ a # "approve"
  BY <1>3 DEF Receive, RunsFollowAnswer, Claims, Answer
<1> QED BY <1>1, <1>2, <1>3

LEMMA OthersKeepRuns ==
  ASSUME [ApprovalNext]_approvalVars,
         \A g \in Signal, a \in Answer : ~Receive(g, a)
  PROVE  UNCHANGED <<answer, runs>>
  BY DEF ApprovalNext, approvalVars, botVars, desk, CopyReachesDashboard, Restart, AutoPlace,
    AutoDeclines, Emit, EngineAccepts, RecordOrder, SubmitThrows, AutoClaim, Click,
    BlockedByCap, PanelApproves, PanelFails, PanelAbstains, BlockedByBook, BlockedByGate

LEMMA NextKeepsRuns ==
  ASSUME RunsFollowAnswer,
         [ApprovalNext]_approvalVars
  PROVE  RunsFollowAnswer'
<1>1. CASE \E g \in Signal, a \in Answer : Receive(g, a)
  BY <1>1, ReceiveKeepsRuns
<1>2. CASE \A g \in Signal, a \in Answer : ~Receive(g, a)
  BY <1>2, OthersKeepRuns DEF RunsFollowAnswer
<1> QED BY <1>1, <1>2

\* handleTraderSignalAction lets one answer to a signal through, however often
\* the operator clicks on a stale copy, in whatever order the messages come and
\* whenever the bot restarts: an approval is run at most once, and never after
\* another answer.
THEOREM OneAnswer == ApprovalSpec => []AnsweredOnce
<1>1. RunsFollowAnswer => AnsweredOnce
  BY DEF RunsFollowAnswer, AnsweredOnce
<1> QED BY <1>1, RunsInit, NextKeepsRuns, PTL DEF ApprovalSpec

-----------------------------------------------------------------------------
(* Committee.                                                              *)

Types ==
  /\ stage \in {"idle", "round1", "coordinator", "round2", "risk", "trader", "judge"}
  /\ opinions \subseteq Specialist
  /\ officer \in Verdict
  /\ result = [action |-> result.action, halves |-> result.halves, by |-> result.by]

\* Nothing refused goes on: a refusal ends the run, and ends it undecided.
RefusalEndsRun ==
  /\ stage # "idle" => ~refused
  /\ RefusalConsumesNothing

\* What the officer's answer must be for the panel to approve.
OfficerPasses ==
  /\ officer.usable
  /\ officer.veto /\ ~cand.rule =>
       officer.category = "disagreement" /\ cand.markov # NoMarkov /\ ~LowConfidence

\* A run behind round 1 has its quorum, one behind the officer his consent.
StagesEarned ==
  /\ stage \in {"coordinator", "round2", "risk", "trader"} => Quorate(opinions)
  /\ stage = "trader" => OfficerPasses
  /\ (stage = "judge" \/ fate = "approved") /\ result.by = "panel" =>
       Quorate(opinions) /\ OfficerPasses
  /\ stage # "idle" => fate # "approved"

CommitteeInv == Types /\ RefusalEndsRun /\ StagesEarned

\* An officer the rules do not stop passes.
LEMMA NotVetoed ==
  ASSUME NEW v \in Verdict,
         ~Vetoed(v)
  PROVE  /\ v.usable
         /\ v.veto /\ ~cand.rule =>
              v.category = "disagreement" /\ cand.markov # NoMarkov /\ ~LowConfidence
<1>1. v.usable
  BY DEF Vetoed
<1>2. ASSUME v.veto, ~cand.rule
      PROVE  v.category = "disagreement" /\ cand.markov # NoMarkov /\ ~LowConfidence
  <2>1. ~GateVerdict(v).veto
    BY <1>2 DEF Vetoed
  <2>2. ~LowConfidence /\ ~Conflicts(ProposedAction)
    BY <2>1 DEF GateVerdict
  <2>3. CASE ~(cand.markov # NoMarkov /\ v.veto /\ v.category = "disagreement")
    <3>1. GateVerdict(v) = [veto |-> v.veto, category |-> v.category]
      BY <2>2, <2>3 DEF GateVerdict
    <3> QED BY <3>1, <2>1, <1>2
  <2> QED BY <2>2, <2>3
<1> QED BY <1>1, <1>2

LEMMA CommitteeInvInit == CommitteeInit => CommitteeInv
  BY DEF CommitteeInit, CommitteeInv, Types, RefusalEndsRun, RefusalConsumesNothing,
    StagesEarned, Verdict, Unanswered, NoDecision

LEMMA BeginKeepsInv == CommitteeInv /\ BeginCommittee => CommitteeInv'
<1> SUFFICES ASSUME CommitteeInv, BeginCommittee PROVE CommitteeInv'
  OBVIOUS
<1>1. Types'
  BY DEF BeginCommittee, CommitteeInv, Types, EndRun, Abstain, Approve, NoDecision,
    Verdict, Unanswered
<1>2. RefusalEndsRun'
  BY DEF BeginCommittee, RefusalEndsRun, RefusalConsumesNothing
<1>3. StagesEarned'
  BY DEF BeginCommittee, CommitteeInv, StagesEarned, EndRun, Abstain, Approve, NoDecision
<1> QED BY <1>1, <1>2, <1>3 DEF CommitteeInv

\* Refused, thrown or cut off: the run is over without a decision.
LEMMA EndKeepsInv ==
  CommitteeInv /\ (Refuse \/ LoseRun \/ (\E recorded \in BOOLEAN : Throw(recorded))) => CommitteeInv'
<1> SUFFICES ASSUME CommitteeInv, Refuse \/ LoseRun \/ (\E recorded \in BOOLEAN : Throw(recorded))
             PROVE  CommitteeInv'
  OBVIOUS
<1>1. UNCHANGED talk /\ stage' = "idle" /\ fate' \in {"pending", "failed"}
  BY DEF Refuse, LoseRun, Throw, EndRun
<1>2. Types'
  BY <1>1 DEF CommitteeInv, Types, talk, Refuse, LoseRun, Throw, EndRun, NoDecision
<1>3. RefusalEndsRun' /\ StagesEarned'
  BY <1>1 DEF RefusalEndsRun, RefusalConsumesNothing, StagesEarned
<1> QED BY <1>2, <1>3 DEF CommitteeInv

\* The rounds up to the risk officer only add opinions.
LEMMA RoundsKeepInv ==
  ASSUME CommitteeInv,
         \/ \E s \in Specialist : Specialist2(s) \/ \E usable \in BOOLEAN : Specialist1(s, usable)
         \/ \E reply \in Synthesis, challenged \in SUBSET Specialist : Coordinate(reply, challenged)
  PROVE  CommitteeInv'
<1>1. ASSUME NEW s \in Specialist, NEW usable \in BOOLEAN, Specialist1(s, usable)
      PROVE  CommitteeInv'
  <2>1. Types'
    BY <1>1 DEF Specialist1, CommitteeInv, Types, Abstain, EndRun, NoDecision
  <2>2. RefusalEndsRun'
    BY <1>1 DEF Specialist1, CommitteeInv, RefusalEndsRun, RefusalConsumesNothing, Abstain, EndRun
  <2>3. cand' = cand
    BY <1>1 DEF Specialist1, given
  <2>4. stage' = "coordinator" => Quorate(opinions)'
    BY <1>1, <2>3 DEF Specialist1, Quorate, Panel, Abstain, EndRun
  <2>5. StagesEarned'
    BY <1>1, <2>4 DEF Specialist1, CommitteeInv, StagesEarned, Abstain, EndRun, NoDecision
  <2> QED BY <2>1, <2>2, <2>5 DEF CommitteeInv
<1>2. ASSUME NEW s \in Specialist, Specialist2(s) PROVE CommitteeInv'
  BY <1>2 DEF Specialist2, CommitteeInv, Types, RefusalEndsRun, RefusalConsumesNothing,
    StagesEarned, OfficerPasses, LowConfidence, Quorate, Panel, given, talk
<1>3. ASSUME NEW reply \in Synthesis, NEW challenged \in SUBSET Specialist,
             Coordinate(reply, challenged)
      PROVE  CommitteeInv'
  BY <1>3 DEF Coordinate, CommitteeInv, Types, RefusalEndsRun, RefusalConsumesNothing,
    StagesEarned, Quorate, Panel, given
<1> QED BY <1>1, <1>2, <1>3

\* The officer, the trader and the judge: an approval takes its officer along.
LEMMA VerdictKeepsInv ==
  ASSUME CommitteeInv,
         NEW verdict \in Verdict,
         Judge(verdict)
  PROVE  CommitteeInv'
<1>1. Types'
  BY DEF Judge, CommitteeInv, Types, Abstain, Approve, EndRun, NoDecision
<1>2. RefusalEndsRun'
  BY DEF Judge, CommitteeInv, RefusalEndsRun, RefusalConsumesNothing, Abstain, Approve, EndRun
<1>3. Quorate(opinions)'
  BY DEF Judge, CommitteeInv, StagesEarned, Quorate, Panel, given
<1>4. CASE Vetoed(verdict)
  BY <1>1, <1>2, <1>4 DEF Judge, Abstain, EndRun, StagesEarned, CommitteeInv, NoDecision
<1>5. CASE ~Vetoed(verdict)
  <2>1. OfficerPasses'
    BY <1>5, NotVetoed DEF Judge, OfficerPasses, LowConfidence, given
  <2>2. stage' # "idle" => fate' # "approved"
    BY <1>5 DEF Judge, Approve, EndRun, CommitteeInv, StagesEarned
  <2> QED BY <1>1, <1>2, <1>3, <2>1, <2>2 DEF StagesEarned, CommitteeInv
<1> QED BY <1>4, <1>5

LEMMA TradeKeepsInv ==
  ASSUME CommitteeInv,
         \/ \E action \in Side \cup {"abstain"}, multiplier \in 0..4 : TraderAnswers(action, multiplier)
         \/ \E veto, halve \in BOOLEAN : JevGate(veto, halve)
  PROVE  CommitteeInv'
<1>1. ASSUME NEW action \in Side \cup {"abstain"}, NEW multiplier \in 0..4,
             TraderAnswers(action, multiplier)
      PROVE  CommitteeInv'
  BY <1>1 DEF TraderAnswers, CommitteeInv, Types, RefusalEndsRun, RefusalConsumesNothing,
    StagesEarned, OfficerPasses, LowConfidence, Quorate, Panel, given, talk, Abstain, Approve,
    EndRun, NoDecision
<1>2. ASSUME NEW veto \in BOOLEAN, NEW halve \in BOOLEAN, JevGate(veto, halve)
      PROVE  CommitteeInv'
  <2>1. UNCHANGED <<cand, opinions, synthesis, officer, refused>> /\ stage = "judge" /\ stage' = "idle"
    BY <1>2 DEF JevGate, given, talk, Abstain, EndRun
  <2>2. ASSUME NEW n
        PROVE  /\ [result EXCEPT !.halves = n].by = result.by
               /\ [result EXCEPT !.halves = n] =
                    [action |-> result.action, halves |-> n, by |-> result.by]
    BY DEF CommitteeInv, Types
  <2>3. Types' /\ fate' \in {"approved", "abstained"} /\ (fate' = "approved" => result'.by = result.by)
    <3>1. CASE veto
      BY <1>2, <2>1, <3>1 DEF JevGate, Abstain, EndRun, NoDecision, CommitteeInv, Types
    <3>2. CASE ~veto /\ halve
      BY <1>2, <2>1, <2>2, <3>2 DEF JevGate, EndRun, CommitteeInv, Types
    <3>3. CASE ~veto /\ ~halve
      BY <1>2, <2>1, <3>3 DEF JevGate, EndRun, CommitteeInv, Types
    <3> QED BY <3>1, <3>2, <3>3
  <2> QED BY <2>1, <2>3 DEF CommitteeInv, Types, RefusalEndsRun, RefusalConsumesNothing,
      StagesEarned, OfficerPasses, LowConfidence, Quorate, Panel
<1> QED BY <1>1, <1>2

LEMMA NextKeepsCommitteeInv ==
  CommitteeInv /\ [CommitteeNext]_committeeVars => CommitteeInv'
<1> SUFFICES ASSUME CommitteeInv, [CommitteeNext]_committeeVars PROVE CommitteeInv'
  OBVIOUS
<1>1. CASE UNCHANGED committeeVars
  BY <1>1 DEF committeeVars, CommitteeInv, Types, RefusalEndsRun, RefusalConsumesNothing,
    StagesEarned, OfficerPasses, LowConfidence, Quorate, Panel
<1>2. CASE CommitteeNext
  BY <1>2, BeginKeepsInv, EndKeepsInv, RoundsKeepInv, VerdictKeepsInv, TradeKeepsInv
  DEF CommitteeNext
<1> QED BY <1>1, <1>2

\* runCommittee approves by its panel only after a quorum of usable opinions
\* and a readable answer of the risk officer, whose veto it passes over for an
\* entry rule, or over a disagreement that the regime answers.
THEOREM VetoStands == CommitteeSpec => []PanelVetoStands
<1>1. CommitteeInv => PanelVetoStands
  BY DEF CommitteeInv, StagesEarned, OfficerPasses, PanelVetoStands
<1> QED BY <1>1, CommitteeInvInit, NextKeepsCommitteeInv, PTL DEF CommitteeSpec

\* A run in which the gate of the models refused a call uses no signal up: the
\* dispatcher abstains only at the end of a run without a refusal.
THEOREM NothingConsumed == CommitteeSpec => []RefusalConsumesNothing
<1>1. CommitteeInv => RefusalConsumesNothing
  BY DEF CommitteeInv, RefusalEndsRun
<1> QED BY <1>1, CommitteeInvInit, NextKeepsCommitteeInv, PTL DEF CommitteeSpec
-----------------------------------------------------------------------------
(* Sizes.                                                                  *)

LEMMA ExposureIsSum ==
  ASSUME NEW book, NEW S PROVE Exposure(book, S) = SumOf(book, S)
BY DEF Exposure, FoldFunctionOnSet, SumOf, MapThenSumSet, MapThenFoldSet

LEMMA ExposureInt ==
  ASSUME NEW book \in [Asset -> Nat], NEW S \in SUBSET Asset
  PROVE  Exposure(book, S) \in Int
<1>1. IsFiniteSet(S)
  BY SizingAssumption, FS_Subset
<1>2. \A x \in S : book[x] \in Int
  OBVIOUS
<1> QED BY <1>1, <1>2, SumOfInt, ExposureIsSum

LEMMA Quotient ==
  ASSUME NEW m \in Nat, NEW d \in Nat \ {0}
  PROVE  m \div d \in Nat /\ (m \div d) * d <= m
<1>1. m \div d \in Int /\ m % d \in Int /\ m = d * (m \div d) + (m % d) /\ 0 <= m % d
  OBVIOUS
<1> QED BY <1>1

LEMMA TimesGrows ==
  ASSUME NEW m \in Nat, NEW n \in Nat, NEW k \in Nat, m <= n
  PROVE  m * k \in Nat /\ n * k \in Nat /\ m * k <= n * k
OBVIOUS

LEMMA StopsAndCaps ==
  /\ \A window \in Windows : StopPct(window) \in 1..20
  /\ \A strategy \in Strategies, nav \in Navs :
       /\ Cap(strategy, nav) \in Nat
       /\ \A path : CapOn(path, strategy, nav) \in Nat
       /\ \A path : CapOn(path, strategy, nav) <= Cap(strategy, nav)
<1>1. ASSUME NEW window \in Windows PROVE StopPct(window) \in 1..20
  BY SizingAssumption DEF StopPct, Lesser, Greater
<1>2. ASSUME NEW strategy \in Strategies, NEW nav \in Navs
      PROVE  /\ Cap(strategy, nav) \in Nat
             /\ \A path : CapOn(path, strategy, nav) \in Nat
             /\ \A path : CapOn(path, strategy, nav) <= Cap(strategy, nav)
  <2> DEFINE own == IF strategy.max > 0 THEN strategy.max
                    ELSE IF nav > 0 THEN (2 * nav) \div 100 ELSE Floor
             least == Lesser(own, Ceiling)
             scale == TierScale(strategy.tier)
             ladder == (RawSize * scale) \div 100
  <2>1. strategy.max \in Nat /\ strategy.weight \in Nat /\ nav \in Nat
        /\ Floor \in Nat /\ Ceiling \in Nat /\ RawSize \in Nat
    BY SizingAssumption
  <2>2. least \in Nat
    BY <2>1 DEF Lesser
  <2>3. scale \in Nat
    BY DEF TierScale
  <2> HIDE DEF least, scale
  <2>4. least * strategy.weight \in Nat /\ RawSize * scale \in Nat
    BY <2>1, <2>2, <2>3, TimesGrows
  <2>5. Cap(strategy, nav) = (least * strategy.weight) \div 100
    BY DEF Cap, least
  <2>6. (least * strategy.weight) \div 100 \in Nat /\ ladder \in Nat
    BY <2>4, Quotient
  <2>7. Cap(strategy, nav) \in Nat
    BY <2>5, <2>6
  <2>8. ASSUME NEW path
        PROVE  \/ CapOn(path, strategy, nav) = Cap(strategy, nav)
               \/ CapOn(path, strategy, nav) = Lesser(Cap(strategy, nav), ladder)
    BY DEF CapOn, scale
  <2> HIDE DEF ladder
  <2>9. Lesser(Cap(strategy, nav), ladder) \in Nat
        /\ Lesser(Cap(strategy, nav), ladder) <= Cap(strategy, nav)
    BY <2>6, <2>7 DEF Lesser
  <2> QED BY <2>7, <2>8, <2>9
<1> QED BY <1>1, <1>2

\* computeRiskBasedSize: floor or no floor, the loss at the stop fits into the
\* heat that is left.
LEMMA RiskBasedFits ==
  ASSUME NEW book \in [Asset -> Nat], NEW nav \in Navs, NEW riskPct \in Nat,
         NEW stop \in 1..20, NEW cap \in Nat
  PROVE  LET size == RiskBasedSize(nav, riskPct, stop, book, cap)
         IN  /\ size \in Nat /\ size <= cap
             /\ nav # 0 => size * stop <= HeatRoom(nav, book, stop)
<1> DEFINE room == HeatRoom(nav, book, stop)
           risk == Lesser((nav * riskPct) \div 10, room)
           share == Lesser(risk \div stop, cap)
           floored == Floored(share, risk, room, stop)
           size == RiskBasedSize(nav, riskPct, stop, book, cap)
<1>1. nav \in Nat /\ Floor \in Nat /\ stop \in Nat \ {0}
  BY SizingAssumption
<1>2. Heat(book, stop) \in Int
  BY <1>1, ExposureInt DEF Heat
<1>3. room \in Nat
  BY <1>1, <1>2 DEF HeatRoom, Greater
<1>4. size = IF nav = 0 THEN Lesser(Floor, cap) ELSE Lesser(floored, cap)
  BY DEF RiskBasedSize
<1> HIDE DEF room, size
<1>5. (nav * riskPct) \div 10 \in Nat
  BY <1>1, TimesGrows, Quotient
<1>6. risk \in Nat /\ risk <= room
  BY <1>3, <1>5 DEF Lesser
<1> HIDE DEF risk
<1>7. risk \div stop \in Nat /\ (risk \div stop) * stop <= risk
  BY <1>1, <1>6, Quotient
<1>8. share \in Nat /\ share <= risk \div stop
  BY <1>7 DEF Lesser
<1> HIDE DEF share
<1>9. share * stop <= room
  <2>1. share * stop \in Nat /\ (risk \div stop) * stop \in Nat
        /\ share * stop <= (risk \div stop) * stop
    BY <1>1, <1>7, <1>8, TimesGrows
  <2> QED BY <2>1, <1>3, <1>6, <1>7
<1>10. floored = share \/ (floored = Floor /\ Floor * stop <= room)
  BY <1>1, <1>8 DEF Floored, Greater
<1> HIDE DEF floored
<1>11. floored \in Nat /\ floored * stop <= room
  BY <1>1, <1>8, <1>9, <1>10
<1>12. size \in Nat /\ size <= cap
  BY <1>1, <1>4, <1>11 DEF Lesser
<1>13. nav # 0 => size * stop <= room
  <2>1. nav # 0 => size <= floored
    BY <1>4, <1>11 DEF Lesser
  <2>2. nav # 0 => size * stop \in Nat /\ floored * stop \in Nat /\ size * stop <= floored * stop
    BY <2>1, <1>1, <1>11, <1>12, TimesGrows
  <2> QED BY <2>2, <1>3, <1>11
<1> QED BY <1>12, <1>13 DEF room, size

\* The trims and the gate only make a size smaller.
LEMMA TrimmedFits ==
  ASSUME NEW path, NEW nav \in Nat, NEW size \in Nat, NEW room \in Nat
  PROVE  /\ Trimmed(path, nav, size, room) \in Nat
         /\ Trimmed(path, nav, size, room) <= size
         /\ nav # 0 => Trimmed(path, nav, size, room) <= room
BY DEF Trimmed

LEMMA GatedFits ==
  ASSUME NEW nav \in Nat, NEW size \in Nat, NEW chart
  PROVE  Gated(nav, size, chart) \in Nat /\ Gated(nav, size, chart) <= size
<1>1. CASE ~chart.bars \/ nav = 0
  BY <1>1 DEF Gated
<1>2. CASE ~(~chart.bars \/ nav = 0) /\ ~RegimeAllows(chart)
  BY <1>2 DEF Gated
<1>3. CASE ~(~chart.bars \/ nav = 0) /\ RegimeAllows(chart)
  <2> DEFINE risk == Lesser(nav \div 100, (6 * nav) \div 100)
             units == (risk * 400) \div chart.sigma
  <2>1. Gated(nav, size, chart) = Lesser(size, Lesser(Lesser(units, Ceiling), nav))
    BY <1>3 DEF Gated, GateSize
  <2>2. chart.sigma \in Nat \ {0}
    BY <1>3 DEF RegimeAllows
  <2>3. nav \div 100 \in Nat /\ (6 * nav) \div 100 \in Nat
    BY Quotient
  <2>4. risk \in Nat
    BY <2>3 DEF Lesser
  <2> HIDE DEF risk
  <2>5. units \in Nat
    BY <2>2, <2>4, Quotient
  <2> HIDE DEF units
  <2>6. Ceiling \in Nat
    BY SizingAssumption
  <2> QED BY <2>1, <2>5, <2>6 DEF Lesser
<1> QED BY <1>1, <1>2, <1>3

LEMMA Rooms ==
  ASSUME NEW book \in [Asset -> Nat], NEW nav \in Nat, NEW a \in Asset
  PROVE  /\ ClusterRoom(nav, book, a) \in Nat /\ SymbolRoom(nav, book, a) \in Nat
         /\ \A size \in Nat \ {0} :
              /\ size <= ClusterRoom(nav, book, a)
                   => 100 * (Exposure(book, Cluster(a)) + size) <= 50 * nav
              /\ size <= SymbolRoom(nav, book, a) => 100 * (book[a] + size) <= 15 * nav
<1>1. Exposure(book, Cluster(a)) \in Int
  BY ExposureInt DEF Cluster
<1>2. book[a] \in Int
  OBVIOUS
<1>3. (50 * nav) \div 100 \in Nat /\ ((50 * nav) \div 100) * 100 <= 50 * nav
      /\ (15 * nav) \div 100 \in Nat /\ ((15 * nav) \div 100) * 100 <= 15 * nav
  BY Quotient
<1> DEFINE exposure == Exposure(book, Cluster(a))
           half == (50 * nav) \div 100
           slice == (15 * nav) \div 100
<1>4. ClusterRoom(nav, book, a) = Greater(0, half - exposure)
      /\ SymbolRoom(nav, book, a) = Greater(0, slice - book[a])
  BY DEF ClusterRoom, SymbolRoom
<1> HIDE DEF exposure, half, slice
<1>5. exposure \in Int /\ half \in Nat /\ half * 100 <= 50 * nav
      /\ slice \in Nat /\ slice * 100 <= 15 * nav
  BY <1>1, <1>3 DEF exposure, half, slice
<1>6. ClusterRoom(nav, book, a) \in Nat /\ SymbolRoom(nav, book, a) \in Nat
  BY <1>2, <1>4, <1>5 DEF Greater
<1>7. ASSUME NEW size \in Nat \ {0}, size <= ClusterRoom(nav, book, a)
      PROVE  100 * (exposure + size) <= 50 * nav
  BY <1>4, <1>5, <1>7 DEF Greater
<1>8. ASSUME NEW size \in Nat \ {0}, size <= SymbolRoom(nav, book, a)
      PROVE  100 * (book[a] + size) <= 15 * nav
  BY <1>2, <1>4, <1>5, <1>8 DEF Greater
<1> QED BY <1>6, <1>7, <1>8 DEF exposure

\* The whole chain of Size, link by link.
LEMMA SizeFits ==
  ASSUME NEW path \in {"auto", "manual"}, NEW book \in [Asset -> Nat], NEW a \in Asset,
         NEW nav \in Navs, NEW strategy \in Strategies, NEW window \in Windows, NEW chart
  PROVE  LET stop == IF path = "auto" THEN StopPct(window) ELSE 8
             size == Size(path, book, a, nav, strategy, window, chart)
         IN  /\ size \in Nat
             /\ size > 0 /\ nav # 0 =>
                  /\ Heat(book, stop) + size * stop <= 6 * nav
                  /\ size <= Cap(strategy, nav)
                  /\ 100 * (Exposure(book, Cluster(a)) + size) <= 50 * nav
                  /\ 100 * (book[a] + size) <= 15 * nav
<1> DEFINE stop == IF path = "auto" THEN StopPct(window) ELSE 8
           riskPct == IF path = "auto" THEN RiskPct ELSE 5
           cap == CapOn(path, strategy, nav)
           bySize == RiskBasedSize(nav, riskPct, stop, book, cap)
           clusterRoom == ClusterRoom(nav, book, a)
           byCluster == Trimmed(path, nav, bySize, clusterRoom)
           symbolRoom == SymbolRoom(nav, book, a)
           bySymbol == Trimmed(path, nav, byCluster, symbolRoom)
           gated == Gated(nav, bySymbol, chart)
           size == Size(path, book, a, nav, strategy, window, chart)
<1>1. size = IF CooledDown(book, a) THEN gated ELSE 0
  BY DEF Size
<1>2. nav \in Nat /\ riskPct \in Nat
  BY SizingAssumption
<1>3. stop \in 1..20
  BY StopsAndCaps
<1>4. cap \in Nat /\ Cap(strategy, nav) \in Nat /\ cap <= Cap(strategy, nav)
  BY StopsAndCaps
<1>5. Heat(book, stop) \in Int
  BY <1>3, ExposureInt DEF Heat
<1> HIDE DEF stop, riskPct, cap, size
<1>6. bySize \in Nat /\ bySize <= cap /\ (nav # 0 => bySize * stop <= HeatRoom(nav, book, stop))
  BY <1>2, <1>3, <1>4, RiskBasedFits
<1> HIDE DEF bySize
<1>7. clusterRoom \in Nat /\ symbolRoom \in Nat
  BY <1>2, Rooms
<1> HIDE DEF clusterRoom, symbolRoom
<1>8. byCluster \in Nat /\ byCluster <= bySize /\ (nav # 0 => byCluster <= clusterRoom)
  BY <1>2, <1>6, <1>7, TrimmedFits
<1> HIDE DEF byCluster
<1>9. bySymbol \in Nat /\ bySymbol <= byCluster /\ (nav # 0 => bySymbol <= symbolRoom)
  BY <1>2, <1>7, <1>8, TrimmedFits
<1> HIDE DEF bySymbol
<1>10. gated \in Nat /\ gated <= bySymbol
  BY <1>2, <1>9, GatedFits
<1> HIDE DEF gated
<1>11. size \in Nat /\ size <= bySymbol
  BY <1>1, <1>9, <1>10
<1>12. ASSUME size > 0, nav # 0
       PROVE  /\ Heat(book, stop) + size * stop <= 6 * nav
              /\ size <= Cap(strategy, nav)
              /\ 100 * (Exposure(book, Cluster(a)) + size) <= 50 * nav
              /\ 100 * (book[a] + size) <= 15 * nav
  <2>1. size <= bySize /\ size <= clusterRoom /\ size <= symbolRoom /\ size \in Nat \ {0}
    BY <1>6, <1>7, <1>8, <1>9, <1>11, <1>12
  <2>2. size <= Cap(strategy, nav)
    BY <2>1, <1>4, <1>6
  <2>3. Heat(book, stop) + size * stop <= 6 * nav
    <3>1. size * stop \in Nat /\ bySize * stop \in Nat /\ size * stop <= bySize * stop
      BY <2>1, <1>3, <1>6, TimesGrows
    <3>2. size * stop > 0
      BY <2>1, <1>3
    <3>3. 6 * nav - Heat(book, stop) \in Int
      BY <1>2, <1>5
    <3>4. HeatRoom(nav, book, stop) = Greater(0, 6 * nav - Heat(book, stop))
      BY DEF HeatRoom
    <3>5. bySize * stop <= HeatRoom(nav, book, stop)
      BY <1>6, <1>12
    <3> HIDE DEF bySize
    <3>6. size * stop <= 6 * nav - Heat(book, stop)
      BY <3>1, <3>2, <3>3, <3>4, <3>5 DEF Greater
    <3> QED BY <3>1, <3>6, <1>2, <1>5
  <2>4. 100 * (Exposure(book, Cluster(a)) + size) <= 50 * nav /\ 100 * (book[a] + size) <= 15 * nav
    BY <2>1, <1>2, Rooms DEF clusterRoom, symbolRoom
  <2> QED BY <2>2, <2>3, <2>4
<1> QED BY <1>11, <1>12 DEF size, stop

LEMMA SizingTypeInv == SizingSpec => []SizingTypeOK
<1>1. SizingInit => SizingTypeOK
  BY SizingAssumption DEF SizingInit, SizingTypeOK, Nothing
<1>2. SizingTypeOK /\ [SizingNext]_sizingVars => SizingTypeOK'
  <2> SUFFICES ASSUME SizingTypeOK, [SizingNext]_sizingVars PROVE SizingTypeOK'
    OBVIOUS
  <2> USE SizingAssumption
  <2>1. CASE BeginSweep
    BY <2>1 DEF BeginSweep, SizingTypeOK
  <2>2. ASSUME NEW a \in Asset, NEW path \in {"auto", "manual"}, Order(path, a)
        PROVE  SizingTypeOK'
    <3>1. Book(path) \in [Asset -> Nat]
      BY DEF SizingTypeOK, Book
    <3>2. PICK nav \in Navs, strategy \in Strategies, window \in Windows, chart \in Charts :
            working' = [working EXCEPT ![a] = Size(path, Book(path), a, nav, strategy, window, chart)]
      BY <2>2 DEF Order
    <3>3. Size(path, Book(path), a, nav, strategy, window, chart) \in Nat
      BY <3>1, SizeFits
    <3>4. working' \in [Asset -> Nat]
      BY <3>2, <3>3 DEF SizingTypeOK
    <3>5. changes' \in 0..MaxOrders
      BY <2>2 DEF Order, SizingTypeOK
    <3> QED BY <2>2, <3>4, <3>5 DEF Order, SizingTypeOK
  <2>3. ASSUME NEW a \in Asset, OrderFills(a) \/ OrderLapses(a) \/ Sell(a) \/ CooldownEnds(a)
        PROVE  SizingTypeOK'
    BY <2>3 DEF OrderFills, OrderLapses, Sell, CooldownEnds, SizingTypeOK
  <2>4. ASSUME NEW a \in Asset, NEW shock \in Shocks, PriceMoves(a, shock)
        PROVE  SizingTypeOK'
    BY <2>4 DEF PriceMoves, SizingTypeOK
  <2>5. CASE UNCHANGED sizingVars
    BY <2>5 DEF sizingVars, SizingTypeOK
  <2> QED BY <2>1, <2>2, <2>3, <2>4, <2>5 DEF SizingNext
<1> QED BY <1>1, <1>2, PTL DEF SizingSpec

\* No link of the chain undoes an earlier one, for any book, NAV, strategy and
\* chart the service can meet (property SizeKeepsHeat).
THEOREM SizeFitsTheBook == SizingSpec => []SizeKeepsHeat
<1>1. SizingTypeOK => SizeKeepsHeat
  <2> SUFFICES ASSUME SizingTypeOK, NEW path \in {"auto", "manual"}, NEW a \in Asset,
                      NEW nav \in Navs \ {0}, NEW strategy \in Strategies,
                      NEW window \in Windows, NEW chart \in Charts
               PROVE  LET book == Book(path)
                          stop == IF path = "auto" THEN StopPct(window) ELSE 8
                          size == Size(path, book, a, nav, strategy, window, chart)
                      IN  size > 0 =>
                            /\ Heat(book, stop) + size * stop <= 6 * nav
                            /\ size <= Cap(strategy, nav)
                            /\ 100 * (Exposure(book, Cluster(a)) + size) <= 50 * nav
                            /\ 100 * (book[a] + size) <= 15 * nav
    BY DEF SizeKeepsHeat
  <2>1. Book(path) \in [Asset -> Nat]
    BY DEF SizingTypeOK, Book
  <2> QED BY <2>1, SizeFits
<1> QED BY <1>1, SizingTypeInv, PTL

-----------------------------------------------------------------------------
(* MarketCalendar.                                                         *)

\* Counts of days are integers and weekdays run from 0 to 6.
LEMMA DayNumberInt ==
  ASSUME NEW y \in Int, NEW m \in 1..12, NEW d \in Int
  PROVE  DayNumber(y, m, d) \in Int
  BY DEF DayNumber

LEMMA WeekdayInt ==
  ASSUME NEW y \in Int, NEW m \in 1..12, NEW d \in Int
  PROVE  Weekday(y, m, d) \in 0..6
<1>1. DayNumber(y, m, d) \in Int
  BY DayNumberInt
<1> QED BY <1>1 DEF Weekday

\* The weekdays of a month follow one another.
LEMMA RestOfSum ==
  ASSUME NEW n \in Int, NEW k \in Int
  PROVE  (n + k) % 7 = ((n % 7) + k) % 7
  OBVIOUS

LEMMA WeekdayWithin ==
  ASSUME NEW y \in Int, NEW m \in 1..12, NEW d \in Int, NEW e \in Int
  PROVE  Weekday(y, m, e) = (Weekday(y, m, d) + (e - d)) % 7
<1>1. PICK n \in Int : n = DayNumber(y, m, d)
  BY DayNumberInt
<1>2. DayNumber(y, m, e) = n + (e - d)
  BY <1>1 DEF DayNumber
<1>3. PICK k \in Int, j \in Int : k = n + 2 /\ j = e - d
  BY <1>1
<1>4. Weekday(y, m, e) = (k + j) % 7 /\ Weekday(y, m, d) = k % 7
  BY <1>1, <1>2, <1>3 DEF Weekday
<1> QED BY <1>3, <1>4, RestOfSum

\* The n-th of a weekday is the one in the n-th seven days of the month.
LEMMA NthIsInWeek ==
  ASSUME NEW y \in Int, NEW m \in 1..12, NEW d \in 1..31, NEW n \in 1..4, NEW w \in 0..6
  PROVE  d = NthWeekday(n, w, m, y) <=> Weekday(y, m, d) = w /\ d \in 7 * n - 6..7 * n
<1>1. PICK first \in 0..6 : first = Weekday(y, m, 1)
  BY WeekdayInt
<1>2. Weekday(y, m, d) = (first + (d - 1)) % 7
  <2>1. \A c, e \in Int : Weekday(y, m, e) = (Weekday(y, m, c) + (e - c)) % 7
    BY WeekdayWithin
  <2> QED BY <1>1, <2>1
<1>3. NthWeekday(n, w, m, y) = 1 + ((w - first + 7) % 7) + (n - 1) * 7
  <2>1. NthWeekday(n, w, m, y) = 1 + ((w - Weekday(y, m, 1) + 7) % 7) + (n - 1) * 7
    BY DEF NthWeekday
  <2> QED BY <1>1, <2>1
<1>4. d = 1 + ((w - first + 7) % 7) + (n - 1) * 7 <=>
        (first + (d - 1)) % 7 = w /\ d \in 7 * n - 6..7 * n
  <2>1. CASE n = 1  BY <2>1
  <2>2. CASE n = 2  BY <2>2
  <2>3. CASE n = 3  BY <2>3
  <2>4. CASE n = 4  BY <2>4
  <2> QED BY <2>1, <2>2, <2>3, <2>4
<1> QED BY <1>2, <1>3, <1>4

\* The last Monday of May is the one in its last seven days.
LEMMA LastIsInMay ==
  ASSUME NEW y \in Int, NEW d \in 1..31
  PROVE  d = LastWeekday(1, 5, y) <=> Weekday(y, 5, d) = 1 /\ d \in 25..31
<1>1. PICK last \in 0..6 : last = Weekday(y, 5, 31)
  BY WeekdayInt
<1>2. Weekday(y, 5, d) = (last + (d - 31)) % 7
  BY <1>1, WeekdayWithin
<1>3. LastWeekday(1, 5, y) = 31 - ((last - 1 + 7) % 7)
  BY <1>1 DEF LastWeekday, DaysIn
<1>4. d = 31 - ((last - 1 + 7) % 7) <=> (last + (d - 31)) % 7 = 1 /\ d \in 25..31
  OBVIOUS
<1> QED BY <1>2, <1>3, <1>4

\* Month m of year y begins after Before(y, m) days of the year.
Before(y, m) ==
  LET leap == IF Leap(y) THEN 1 ELSE 0
  IN  CASE m = 1 -> 0 [] m = 2 -> 31 [] m = 3 -> 59 + leap [] m = 4 -> 90 + leap
        [] m = 5 -> 120 + leap [] m = 6 -> 151 + leap [] m = 7 -> 181 + leap
        [] m = 8 -> 212 + leap [] m = 9 -> 243 + leap [] m = 10 -> 273 + leap
        [] m = 11 -> 304 + leap [] m = 12 -> 334 + leap

\* The leap day is counted from March on.
LEMMA LeapDay ==
  ASSUME NEW y \in Int
  PROVE  y \div 4 - y \div 100 + y \div 400
           = (y - 1) \div 4 - (y - 1) \div 100 + (y - 1) \div 400
               + (IF Leap(y) THEN 1 ELSE 0)
<1>1. y \div 4 = (y - 1) \div 4 + (IF y % 4 = 0 THEN 1 ELSE 0)
  OBVIOUS
<1>2. y \div 100 = (y - 1) \div 100 + (IF y % 100 = 0 THEN 1 ELSE 0)
  OBVIOUS
<1>3. y \div 400 = (y - 1) \div 400 + (IF y % 400 = 0 THEN 1 ELSE 0)
  OBVIOUS
<1>4. (y % 400 = 0 => y % 100 = 0) /\ (y % 100 = 0 => y % 4 = 0)
  OBVIOUS
<1> QED BY <1>1, <1>2, <1>3, <1>4 DEF Leap

\* The formula for a count of days adds up the months.
LEMMA DayOfYear ==
  ASSUME NEW y \in Int, NEW m \in 1..12, NEW d \in Int
  PROVE  DayNumber(y, m, d) = DayNumber(y, 1, 0) + Before(y, m) + d
<1>1. PICK leap \in {0, 1} : leap = IF Leap(y) THEN 1 ELSE 0
  OBVIOUS
<1>2. PICK q \in Int : q = (y - 1) \div 4 - (y - 1) \div 100 + (y - 1) \div 400
  OBVIOUS
<1>3. y \div 4 - y \div 100 + y \div 400 = q + leap
  BY <1>1, <1>2, LeapDay
<1>4. DayNumber(y, 1, 0) = 365 * (y - 1) + q + 306
  BY <1>2 DEF DayNumber
<1>5. m \in {1, 2} => DayNumber(y, m, d) = 365 * (y - 1) + q + (153 * (m + 9) + 2) \div 5 + d
  BY <1>2 DEF DayNumber
<1>6. m \notin {1, 2} => DayNumber(y, m, d) = 365 * y + q + leap + (153 * (m - 3) + 2) \div 5 + d
  BY <1>3 DEF DayNumber
<1>7. Before(y, m) = (IF m \in {1, 2} THEN (153 * (m + 9) + 2) \div 5 - 306
                      ELSE 59 + leap + (153 * (m - 3) + 2) \div 5)
  BY <1>1 DEF Before
<1> QED BY <1>4, <1>5, <1>6, <1>7

\* A month is over before a later one begins.
LEMMA MonthsInOrder ==
  ASSUME NEW y \in Int, NEW m \in 1..12, NEW n \in 1..12, m < n
  PROVE  Before(y, m) + DaysIn(y, m) <= Before(y, n)
<1>1. PICK leap \in {0, 1} : leap = IF Leap(y) THEN 1 ELSE 0
  OBVIOUS
<1>2. Before(y, m) =
        (IF m \in {1, 2} THEN 31 * (m - 1) ELSE 59 + leap + (153 * (m - 3) + 2) \div 5)
  BY <1>1 DEF Before
<1>3. Before(y, n) =
        (IF n \in {1, 2} THEN 31 * (n - 1) ELSE 59 + leap + (153 * (n - 3) + 2) \div 5)
  BY <1>1 DEF Before
<1>4. DaysIn(y, m) = (IF m \in {4, 6, 9, 11} THEN 30
                      ELSE IF m = 2 THEN 28 + leap ELSE 31)
  BY <1>1 DEF DaysIn
<1> QED BY <1>2, <1>3, <1>4

\* The lengths of the months and of what precedes them.
LEMMA BeforeInt ==
  ASSUME NEW y \in Int, NEW m \in 1..12
  PROVE  Before(y, m) \in 0..335 /\ DaysIn(y, m) \in 28..31
  BY DEF Before, DaysIn

\* A count of days belongs to one day of a year.
LEMMA SameDay ==
  ASSUME NEW y \in Int, NEW m, NEW n, m \in 1..12, n \in 1..12,
         NEW d \in 1..DaysIn(y, m), NEW e \in 1..DaysIn(y, n)
  PROVE  DayNumber(y, m, d) = DayNumber(y, n, e) <=> (m = n /\ d = e)
<1>1. /\ Before(y, m) \in Int /\ DaysIn(y, m) \in Int
      /\ Before(y, n) \in Int /\ DaysIn(y, n) \in Int
  <2>1. \A k \in 1..12 : Before(y, k) \in 0..335 /\ DaysIn(y, k) \in 28..31
    BY BeforeInt
  <2> QED BY <2>1
<1>2. d \in Int /\ e \in Int /\ 1 <= d /\ d <= DaysIn(y, m) /\ 1 <= e /\ e <= DaysIn(y, n)
  BY <1>1
<1>3. PICK z \in Int : z = DayNumber(y, 1, 0)
  BY DEF DayNumber
<1>4. DayNumber(y, m, d) = z + Before(y, m) + d /\ DayNumber(y, n, e) = z + Before(y, n) + e
  BY <1>2, <1>3, DayOfYear
<1>5. CASE m = n
  BY <1>1, <1>2, <1>4, <1>5
<1>6. CASE m < n
  BY <1>1, <1>2, <1>4, <1>6, MonthsInOrder
<1>7. CASE m > n
  BY <1>1, <1>2, <1>4, <1>7, MonthsInOrder
<1> QED BY <1>5, <1>6, <1>7

\* A holiday inside its month falls, on a working day, where the exchange keeps it.
LEMMA FixedHoliday ==
  ASSUME NEW y \in Int, NEW m \in Int, m \in 1..12, NEW d \in 1..DaysIn(y, m),
         NEW k \in Int, k \in 1..12, NEW e \in Int, e \in 2..27, Weekday(y, m, d) \in 1..5
  PROVE  Observed(y, k, e) = [month |-> m, day |-> d]
           <=> Kept([year |-> y, month |-> m, day |-> d], k, e)
<1>1. /\ DaysIn(y, k) \in 28..31 /\ DaysIn(y, m) \in 28..31
      /\ d \in 1..31
  <2>1. \A j \in 1..12 : DaysIn(y, j) \in 28..31
    BY BeforeInt
  <2> QED BY <2>1
<1>2. PICK z \in Int : z = DayNumber(y, k, e)
  <2>1. e \in Int
    OBVIOUS
  <2>2. DayNumber(y, k, e) \in Int
    BY <2>1, DayNumberInt
  <2> QED BY <2>2
<1>3. PICK x \in Int : x = DayNumber(y, m, d)
  <2>1. d \in Int
    BY <1>1
  <2>2. DayNumber(y, m, d) \in Int
    BY <2>1, DayNumberInt
  <2> QED BY <2>2
<1>4. /\ x = z <=> (m = k /\ d = e)
      /\ x = z + 1 <=> (m = k /\ d = e + 1)
      /\ x = z - 1 <=> (m = k /\ d = e - 1)
  <2>1. ASSUME NEW j \in 1..DaysIn(y, k)
        PROVE  x = DayNumber(y, k, j) <=> (m = k /\ d = j)
    <3>1. DayNumber(y, m, d) = DayNumber(y, k, j) <=> (m = k /\ d = j)
      BY SameDay
    <3> QED BY <1>3, <3>1
  <2>2. DayNumber(y, k, e + 1) = z + 1 /\ DayNumber(y, k, e - 1) = z - 1
    BY <1>2 DEF DayNumber
  <2>3. e \in 1..DaysIn(y, k) /\ e + 1 \in 1..DaysIn(y, k) /\ e - 1 \in 1..DaysIn(y, k)
    BY <1>1
  <2> QED BY <1>2, <2>1, <2>2, <2>3
<1>5. Weekday(y, k, e) = (z + 2) % 7 /\ Weekday(y, m, d) = (x + 2) % 7
  BY <1>2, <1>3 DEF Weekday
<1>6. Kept([year |-> y, month |-> m, day |-> d], k, e)
        <=> \/ x = z
            \/ x = z + 1 /\ (x + 2) % 7 = 1
            \/ x = z - 1 /\ (x + 2) % 7 = 5
  BY <1>2, <1>3, <1>5 DEF Kept
<1>7. Observed(y, k, e) = [month |-> m, day |-> d]
        <=> (m = k /\ d = e + (IF (z + 2) % 7 = 6 THEN -1 ELSE IF (z + 2) % 7 = 0 THEN 1 ELSE 0))
  <2>1. PICK j \in {-1, 0, 1} :
          j = IF (z + 2) % 7 = 6 THEN -1 ELSE IF (z + 2) % 7 = 0 THEN 1 ELSE 0
    OBVIOUS
  <2>2. Observed(y, k, e) = [month |-> k, day |-> e + j]
    BY <1>5, <2>1 DEF Observed
  <2> QED BY <2>1, <2>2
<1>8. (x + 2) % 7 \in 1..5
  BY <1>5
<1> QED BY <1>4, <1>6, <1>7, <1>8

\* New Year's Day: the code moves one on a Saturday to the end of the year it
\* begins, which is never a working day.
LEMMA NewYear ==
  ASSUME NEW y \in Int, NEW m \in Int, m \in 1..12, NEW d \in 1..DaysIn(y, m),
         Weekday(y, m, d) \in 1..5
  PROVE  Observed(y, 1, 1) = [month |-> m, day |-> d]
           <=> Kept([year |-> y, month |-> m, day |-> d], 1, 1)
<1>1. DaysIn(y, 1) = 31 /\ DaysIn(y, m) \in 28..31 /\ d \in 1..31
  <2>1. \A j \in 1..12 : DaysIn(y, j) \in 28..31
    BY BeforeInt
  <2> QED BY <2>1 DEF DaysIn
<1>2. PICK z \in Int : z = DayNumber(y, 1, 1)
  BY DayNumberInt
<1>3. PICK x \in Int : x = DayNumber(y, m, d)
  <2>1. d \in Int
    BY <1>1
  <2>2. DayNumber(y, m, d) \in Int
    BY <2>1, DayNumberInt
  <2> QED BY <2>2
<1>4. /\ x = z <=> m = 1 /\ d = 1
      /\ x = z + 1 <=> m = 1 /\ d = 2
      /\ x # z - 1
  <2>1. ASSUME NEW j \in 1..31
        PROVE  x = DayNumber(y, 1, j) <=> (m = 1 /\ d = j)
    <3>1. 1 \in 1..12 /\ j \in 1..DaysIn(y, 1)
      BY <1>1
    <3>2. DayNumber(y, m, d) = DayNumber(y, 1, j) <=> (m = 1 /\ d = j)
      BY <3>1, SameDay
    <3> QED BY <1>3, <3>2
  <2>2. DayNumber(y, 1, 2) = z + 1 /\ DayNumber(y, 1, 0) = z - 1
    BY <1>2 DEF DayNumber
  <2>3. x = DayNumber(y, 1, 0) + Before(y, m) + d
    BY <1>1, <1>3, DayOfYear
  <2>4. Before(y, m) \in 0..335
    BY BeforeInt
  <2> QED BY <1>1, <1>2, <2>1, <2>2, <2>3, <2>4
<1>5. Weekday(y, 1, 1) = (z + 2) % 7 /\ Weekday(y, m, d) = (x + 2) % 7
  BY <1>2, <1>3 DEF Weekday
<1>6. Kept([year |-> y, month |-> m, day |-> d], 1, 1)
        <=> x = z \/ (x = z + 1 /\ (x + 2) % 7 = 1)
  BY <1>2, <1>3, <1>4, <1>5 DEF Kept
<1>7. m = 12 /\ d = 31 => x = z + 364 \/ x = z + 365
  <2>1. z = DayNumber(y, 1, 0) + 1
    BY <1>2 DEF DayNumber
  <2>2. m = 12 /\ d = 31 => x = DayNumber(y, 1, 0) + Before(y, 12) + 31
    BY <1>3, DayOfYear
  <2>3. Before(y, 12) \in {334, 335}
    BY DEF Before
  <2>4. DayNumber(y, 1, 0) \in Int
    BY DayNumberInt
  <2> QED BY <2>1, <2>2, <2>3, <2>4
<1>8. Observed(y, 1, 1) = [month |-> m, day |-> d]
        <=> \/ (z + 2) % 7 = 6 /\ m = 12 /\ d = 31
            \/ (z + 2) % 7 = 0 /\ m = 1 /\ d = 2
            \/ (z + 2) % 7 \in 1..5 /\ m = 1 /\ d = 1
  <2>1. PICK w \in 0..6 : w = (z + 2) % 7
    OBVIOUS
  <2>2. Weekday(y, 1, 1) = w
    BY <1>5, <2>1
  <2>3. w = 6 => Observed(y, 1, 1) = [month |-> 12, day |-> 31]
    BY <2>2 DEF Observed
  <2>4. w = 0 => Observed(y, 1, 1) = [month |-> 1, day |-> 2]
    BY <2>2 DEF Observed
  <2>5. w \in 1..5 => Observed(y, 1, 1) = [month |-> 1, day |-> 1]
    BY <2>2 DEF Observed
  <2> QED BY <2>1, <2>3, <2>4, <2>5
<1>9. (x + 2) % 7 \in 1..5
  BY <1>5
<1>10. ~((z + 2) % 7 = 6 /\ m = 12 /\ d = 31)
  BY <1>7, <1>9
<1> QED BY <1>4, <1>6, <1>8, <1>9, <1>10

\* What the computation's numbers have to do with the first of March.
LEMMA MarchOf ==
  ASSUME NEW y \in 1900..2199, NEW b \in Int, NEW c \in Int, b = y \div 100, c = y % 100
  PROVE  DayNumber(y, 3, 0)
           = 146097 * (b \div 4) + 36524 * (b % 4) + 1461 * (c \div 4) + 365 * (c % 4)
<1>1. PICK d \in Int, e \in 0..3 : b = 4 * d + e /\ d = b \div 4 /\ e = b % 4
  OBVIOUS
<1>2. PICK i \in Int, k \in 0..3 : c = 4 * i + k /\ i = c \div 4 /\ k = c % 4
  OBVIOUS
<1>3. y = 100 * b + c /\ c \in 0..99
  OBVIOUS
<1>4. y \div 4 = 25 * b + i
  BY <1>2, <1>3
<1>5. y \div 400 = d
  BY <1>1, <1>3
<1>6. DayNumber(y, 3, 0) = 365 * y + y \div 4 - y \div 100 + y \div 400
  BY DEF DayNumber
<1>7. DayNumber(y, 3, 0) = 365 * (100 * b + c) + (25 * b + i) - b + d
  BY <1>3, <1>4, <1>5, <1>6
<1> QED BY <1>1, <1>2, <1>7

\* Easter, as a count of days, is what the computation adds to the first of March.
LEMMA EasterIsAfterMarch ==
  ASSUME NEW y \in Int, NEW n \in 93..154
  PROVE  LET month == n \div 31
             day == (n % 31) + 1
         IN  DayNumber(y, month, day - 2) = DayNumber(y, 3, 0) + n - 94
<1>1. CASE n \in 93..123
  <2>1. n \div 31 = 3 /\ n % 31 = n - 93
    BY <1>1
  <2> QED BY <2>1 DEF DayNumber
<1>2. CASE n \in 124..154
  <2>1. n \div 31 = 4 /\ n % 31 = n - 124
    BY <1>2
  <2> QED BY <2>1 DEF DayNumber
<1> QED BY <1>1, <1>2

\* The epact's arithmetic agrees with the table of full moons.
LEMMA SundayAfterTheMoon ==
  ASSUME NEW a \in 0..18, NEW h \in Int, h = (19 * a + 24) % 30, NEW l \in 0..6
  PROVE  LET m == (a + 11 * h + 22 * l) \div 451
         IN  h + l - 7 * m + 2 - FullMoon[a + 1] \in 1..7
<1>1. PICK m \in Int : m = (a + 11 * h + 22 * l) \div 451
  OBVIOUS
<1>2. m = IF a + 11 * h + 22 * l >= 451 THEN 1 ELSE 0
  BY <1>1
<1>3. h + l - 7 * m + 2 - FullMoon[a + 1] \in 1..7
  <2>1. CASE a = 0
    <3>1. FullMoon[1] = 25 /\ h = 24
      BY <2>1 DEF FullMoon
    <3> QED BY <1>2, <2>1, <3>1
  <2>2. CASE a = 1
    <3>1. FullMoon[2] = 14 /\ h = 13
      BY <2>2 DEF FullMoon
    <3> QED BY <1>2, <2>2, <3>1
  <2>3. CASE a = 2
    <3>1. FullMoon[3] = 3 /\ h = 2
      BY <2>3 DEF FullMoon
    <3> QED BY <1>2, <2>3, <3>1
  <2>4. CASE a = 3
    <3>1. FullMoon[4] = 22 /\ h = 21
      BY <2>4 DEF FullMoon
    <3> QED BY <1>2, <2>4, <3>1
  <2>5. CASE a = 4
    <3>1. FullMoon[5] = 11 /\ h = 10
      BY <2>5 DEF FullMoon
    <3> QED BY <1>2, <2>5, <3>1
  <2>6. CASE a = 5
    <3>1. FullMoon[6] = 29 /\ h = 29
      BY <2>6 DEF FullMoon
    <3> QED BY <1>2, <2>6, <3>1
  <2>7. CASE a = 6
    <3>1. FullMoon[7] = 19 /\ h = 18
      BY <2>7 DEF FullMoon
    <3> QED BY <1>2, <2>7, <3>1
  <2>8. CASE a = 7
    <3>1. FullMoon[8] = 8 /\ h = 7
      BY <2>8 DEF FullMoon
    <3> QED BY <1>2, <2>8, <3>1
  <2>9. CASE a = 8
    <3>1. FullMoon[9] = 27 /\ h = 26
      BY <2>9 DEF FullMoon
    <3> QED BY <1>2, <2>9, <3>1
  <2>10. CASE a = 9
    <3>1. FullMoon[10] = 16 /\ h = 15
      BY <2>10 DEF FullMoon
    <3> QED BY <1>2, <2>10, <3>1
  <2>11. CASE a = 10
    <3>1. FullMoon[11] = 5 /\ h = 4
      BY <2>11 DEF FullMoon
    <3> QED BY <1>2, <2>11, <3>1
  <2>12. CASE a = 11
    <3>1. FullMoon[12] = 24 /\ h = 23
      BY <2>12 DEF FullMoon
    <3> QED BY <1>2, <2>12, <3>1
  <2>13. CASE a = 12
    <3>1. FullMoon[13] = 13 /\ h = 12
      BY <2>13 DEF FullMoon
    <3> QED BY <1>2, <2>13, <3>1
  <2>14. CASE a = 13
    <3>1. FullMoon[14] = 2 /\ h = 1
      BY <2>14 DEF FullMoon
    <3> QED BY <1>2, <2>14, <3>1
  <2>15. CASE a = 14
    <3>1. FullMoon[15] = 21 /\ h = 20
      BY <2>15 DEF FullMoon
    <3> QED BY <1>2, <2>15, <3>1
  <2>16. CASE a = 15
    <3>1. FullMoon[16] = 10 /\ h = 9
      BY <2>16 DEF FullMoon
    <3> QED BY <1>2, <2>16, <3>1
  <2>17. CASE a = 16
    <3>1. FullMoon[17] = 28 /\ h = 28
      BY <2>17 DEF FullMoon
    <3> QED BY <1>2, <2>17, <3>1
  <2>18. CASE a = 17
    <3>1. FullMoon[18] = 18 /\ h = 17
      BY <2>18 DEF FullMoon
    <3> QED BY <1>2, <2>18, <3>1
  <2>19. CASE a = 18
    <3>1. FullMoon[19] = 7 /\ h = 6
      BY <2>19 DEF FullMoon
    <3> QED BY <1>2, <2>19, <3>1
  <2> QED BY <2>1, <2>2, <2>3, <2>4, <2>5, <2>6, <2>7, <2>8, <2>9, <2>10, <2>11, <2>12, <2>13, <2>14, <2>15, <2>16, <2>17, <2>18, <2>19
<1> QED BY <1>1, <1>3

\* n is the computation's last number, and its day the Sunday in the week after
\* the full moon.
EasterIs(y, n) ==
  /\ n \in 93..154
  /\ EasterSunday(y) = [month |-> n \div 31, day |-> (n % 31) + 1]
  /\ DayNumber(y, 3, 0) + n - 92 - (DayNumber(y, 3, 20) + FullMoon[(y % 19) + 1]) \in 1..7
  /\ (DayNumber(y, 3, 0) + n - 90) % 7 = 0

LEMMA EasterIsKept ==
  ASSUME NEW y \in Int, y \in 1900..2199
  PROVE  \E n \in Int : EasterIs(y, n)
<1>1. PICK a \in 0..18 : a = y % 19
  OBVIOUS
<1>2. PICK b \in 19..21 : b = y \div 100
  OBVIOUS
<1>3. PICK c \in 0..99 : c = y % 100
  OBVIOUS
<1>4. PICK d \in Int, e \in 0..3 : d = b \div 4 /\ e = b % 4
  OBVIOUS
<1>5. PICK i \in 0..24, k \in 0..3 : i = c \div 4 /\ k = c % 4
  OBVIOUS
<1>6. PICK h \in 0..29 : h = (19 * a + 24) % 30
  OBVIOUS
<1>7. PICK x \in Int : x = 32 + 2 * e + 2 * i - h - k
  OBVIOUS
<1>8. PICK l \in 0..6 : l = x % 7
  OBVIOUS
<1>9. PICK q \in Int : q = x \div 7
  OBVIOUS
<1>10. x = 7 * q + l
  BY <1>8, <1>9
<1>11. PICK m \in 0..1 : m = (a + 11 * h + 22 * l) \div 451
  OBVIOUS
<1>12. PICK n \in 93..154 : n = h + l - 7 * m + 114
  OBVIOUS
<1>13. EasterSunday(y) = [month |-> n \div 31, day |-> (n % 31) + 1]
  <2>1. PICK f \in Int, g \in Int : f = (b + 8) \div 25 /\ g = (b - f + 1) \div 3
    OBVIOUS
  <2>2. 19 * a + b - d - g + 15 = 19 * a + 24
    <3>1. CASE b = 19  BY <1>4, <2>1, <3>1
    <3>2. CASE b = 20  BY <1>4, <2>1, <3>2
    <3>3. CASE b = 21  BY <1>4, <2>1, <3>3
    <3> QED BY <3>1, <3>2, <3>3
  <2>3. h = (19 * a + b - d - g + 15) % 30
    BY <1>6, <2>2
  <2>4. l = (32 + 2 * e + 2 * i - h - k) % 7
    BY <1>7, <1>8
  <2>5. EasterSunday(y) =
          LET mm == (a + 11 * h + 22 * l) \div 451
              nn == h + l - 7 * mm + 114
          IN  [month |-> nn \div 31, day |-> (nn % 31) + 1]
    BY <1>1, <1>2, <1>3, <1>4, <1>5, <2>1, <2>3, <2>4, SMTT(30) DEF EasterSunday
  <2> QED BY <1>11, <1>12, <2>5
<1>14. DayNumber(y, 3, 0) + n - 92 - (DayNumber(y, 3, 20) + FullMoon[(y % 19) + 1]) \in 1..7
  <2>1. h + l - 7 * m + 2 - FullMoon[a + 1] \in 1..7
    BY <1>6, <1>11, SundayAfterTheMoon
  <2>2. PICK z \in Int : z = DayNumber(y, 3, 0)
    BY DEF DayNumber
  <2>3. DayNumber(y, 3, 20) = z + 20
    BY <2>2 DEF DayNumber
  <2>4. PICK v \in Int : v = FullMoon[a + 1]
    BY DEF FullMoon
  <2> QED BY <1>1, <1>12, <2>1, <2>2, <2>3, <2>4
<1>15. (DayNumber(y, 3, 0) + n - 90) % 7 = 0
  <2>1. DayNumber(y, 3, 0) = 146097 * d + 36524 * e + 1461 * i + 365 * k
    BY <1>2, <1>3, <1>4, <1>5, MarchOf
  <2>2. PICK r \in Int : r = 20871 * d + 5218 * e + 209 * i + 52 * k + 8 - q - m
    OBVIOUS
  <2>3. DayNumber(y, 3, 0) + n - 90 = 7 * r
    BY <1>7, <1>12, <1>10, <2>1, <2>2
  <2> QED BY <2>3
<1>16. EasterIs(y, n)
  BY <1>13, <1>14, <1>15 DEF EasterIs
<1> QED BY <1>16

\* The code's Good Friday is the exchange's.
LEMMA GoodFridayIsKept ==
  ASSUME NEW y \in Int, y \in 1900..2199, NEW m \in 1..12, NEW d \in Int
  PROVE  LET easter == EasterSunday(y)
         IN  DayNumber(y, m, d) = DayNumber(y, easter.month, easter.day - 2)
               <=> GoodFriday([year |-> y, month |-> m, day |-> d])
<1>1. PICK n \in Int : EasterIs(y, n)
  BY EasterIsKept
<1>2. PICK x \in Int : x = DayNumber(y, m, d)
  BY DEF DayNumber
<1>3. PICK moon \in Int, f \in Int :
        moon = DayNumber(y, 3, 20) + f /\ f = FullMoon[(y % 19) + 1] /\ DayNumber(y, 3, 20) \in Int
  <2>1. PICK a \in 0..18 : a = y % 19
    OBVIOUS
  <2>2. FullMoon[a + 1] \in Int
    BY DEF FullMoon
  <2>3. DayNumber(y, 3, 20) \in Int
    BY DEF DayNumber
  <2> QED BY <2>1, <2>2, <2>3
<1>4. PICK easter \in Int : easter = DayNumber(y, 3, 0) + n - 92
  BY DEF DayNumber
<1>5. easter - moon \in 1..7 /\ (easter + 2) % 7 = 0
  <2>1. DayNumber(y, 3, 0) \in Int
    BY DEF DayNumber
  <2>2. DayNumber(y, 3, 0) + n - 90 = easter + 2
    BY <1>4, <2>1
  <2>3. easter - moon \in 1..7
    <3>1. DayNumber(y, 3, 0) + n - 92 - (DayNumber(y, 3, 20) + FullMoon[(y % 19) + 1]) \in 1..7
      BY <1>1 DEF EasterIs
    <3> QED BY <1>3, <1>4, <2>1, <3>1
  <2>4. (easter + 2) % 7 = 0
    BY <1>1, <2>2 DEF EasterIs
  <2> QED BY <2>3, <2>4
<1>6. DayNumber(y, n \div 31, (n % 31) + 1 - 2) = easter - 2
  <2>1. n \in 93..154
    BY <1>1 DEF EasterIs
  <2>2. DayNumber(y, n \div 31, (n % 31) + 1 - 2) = DayNumber(y, 3, 0) + n - 94
    BY <2>1, EasterIsAfterMarch
  <2>3. DayNumber(y, 3, 0) \in Int
    BY DEF DayNumber
  <2> QED BY <1>4, <2>2, <2>3
<1>7. GoodFriday([year |-> y, month |-> m, day |-> d])
        <=> ((x + 2) % 7 = 5 /\ x + 2 - moon \in 1..7)
  BY <1>2, <1>3 DEF GoodFriday, Weekday
<1>8. x = easter - 2 <=> ((x + 2) % 7 = 5 /\ x + 2 - moon \in 1..7)
  BY <1>5
<1> QED BY <1>1, <1>2, <1>6, <1>7, <1>8 DEF EasterIs

\* On a working day the code's holidays are the days the exchange is closed.
LEMMA HolidaysAreKept ==
  ASSUME NEW y \in Int, y \in 1900..2199, NEW m \in 1..12, NEW d \in 1..DaysIn(y, m),
         Weekday(y, m, d) \in 1..5
  PROVE  IsNyseHoliday(y, m, d) <=> Closed([year |-> y, month |-> m, day |-> d])
<1> DEFINE day == [year |-> y, month |-> m, day |-> d]
<1>1. d \in 1..31
  <2>1. DaysIn(y, m) \in 28..31
    BY BeforeInt
  <2> QED BY <2>1
<1>2. /\ Observed(y, 1, 1) = [month |-> m, day |-> d] <=> Kept(day, 1, 1)
      /\ Observed(y, 6, 19) = [month |-> m, day |-> d] <=> Kept(day, 6, 19)
      /\ Observed(y, 7, 4) = [month |-> m, day |-> d] <=> Kept(day, 7, 4)
      /\ Observed(y, 12, 25) = [month |-> m, day |-> d] <=> Kept(day, 12, 25)
  <2>1. Observed(y, 1, 1) = [month |-> m, day |-> d] <=> Kept(day, 1, 1)
    BY NewYear
  <2>2. Observed(y, 6, 19) = [month |-> m, day |-> d] <=> Kept(day, 6, 19)
    BY FixedHoliday
  <2>3. Observed(y, 7, 4) = [month |-> m, day |-> d] <=> Kept(day, 7, 4)
    BY FixedHoliday
  <2>4. Observed(y, 12, 25) = [month |-> m, day |-> d] <=> Kept(day, 12, 25)
    BY FixedHoliday
  <2> QED BY <2>1, <2>2, <2>3, <2>4
<1>3. /\ m = 1 /\ d = NthWeekday(3, 1, 1, y) <=> m = 1 /\ Weekday(y, m, d) = 1 /\ d \in 15..21
      /\ m = 2 /\ d = NthWeekday(3, 1, 2, y) <=> m = 2 /\ Weekday(y, m, d) = 1 /\ d \in 15..21
      /\ m = 9 /\ d = NthWeekday(1, 1, 9, y) <=> m = 9 /\ Weekday(y, m, d) = 1 /\ d \in 1..7
      /\ m = 11 /\ d = NthWeekday(4, 4, 11, y) <=> m = 11 /\ Weekday(y, m, d) = 4 /\ d \in 22..28
  BY <1>1, NthIsInWeek
<1>4. m = 5 /\ d = LastWeekday(1, 5, y) <=> m = 5 /\ Weekday(y, m, d) = 1 /\ d \in 25..31
  BY <1>1, LastIsInMay
<1>5. LET easter == EasterSunday(y)
      IN  DayNumber(y, m, d) = DayNumber(y, easter.month, easter.day - 2) <=> GoodFriday(day)
  BY <1>1, GoodFridayIsKept
<1>6. Weekday(y, m, d) \notin {0, 6}
  OBVIOUS
<1> QED BY <1>2, <1>3, <1>4, <1>5, <1>6 DEF IsNyseHoliday, Closed

\* The days the calendar reaches: those of its years, and the New Year's Day
\* after the last.
DateOK ==
  /\ date \in [year : Int, month : Int, day : Int]
  /\ date.year \in FirstYear..LastYear + 1
  /\ date.month \in 1..12
  /\ date.day \in 1..DaysIn(date.year, date.month)
  /\ date.year = LastYear + 1 => date.month = 1 /\ date.day = 1

\* DateOK is inductive: a day follows another inside the years of the constants.
LEMMA DateInv == CalendarSpec => []DateOK
<1> USE CalendarAssumption
<1>1. CalendarInit => DateOK
  BY DEF CalendarInit, DateOK, DaysIn
<1>2. DateOK /\ [NextDay]_date => DateOK'
  <2> SUFFICES ASSUME DateOK, NextDay  PROVE DateOK'
    BY DEF DateOK
  <2>1. \A y \in Int, m \in 1..12 : DaysIn(y, m) \in 28..31
    BY BeforeInt
  <2>2. date.year \in Int /\ DaysIn(date.year, date.month) \in 28..31
    BY <2>1 DEF DateOK
  <2>3. date.year <= LastYear
    BY DEF NextDay
  <2>4. CASE date.day # DaysIn(date.year, date.month)
    <3>1. date' = [date EXCEPT !.day = @ + 1]
      BY <2>4 DEF NextDay
    <3> QED BY <2>2, <2>3, <2>4, <3>1 DEF DateOK
  <2>5. CASE date.day = DaysIn(date.year, date.month) /\ date.month < 12
    <3>1. date' = [year |-> date.year, month |-> date.month + 1, day |-> 1]
      BY <2>5 DEF NextDay
    <3>2. DaysIn(date.year, date.month + 1) \in 28..31
      BY <2>1, <2>5 DEF DateOK
    <3> QED BY <2>2, <2>3, <2>5, <3>1, <3>2 DEF DateOK
  <2>6. CASE date.day = DaysIn(date.year, date.month) /\ ~(date.month < 12)
    <3>1. date' = [year |-> date.year + 1, month |-> 1, day |-> 1]
      BY <2>6 DEF NextDay
    <3>2. DaysIn(date.year + 1, 1) \in 28..31
      BY <2>1, <2>2
    <3> QED BY <2>2, <2>3, <2>6, <3>1, <3>2 DEF DateOK
  <2> QED BY <2>4, <2>5, <2>6
<1> QED BY <1>1, <1>2, PTL DEF CalendarSpec

\* On every day of the years 1900 to 2199 equity signals pass exactly while the
\* exchange trades.
THEOREM MarketIsOpen == CalendarSpec => []OpenWithTheExchange
<1> USE CalendarAssumption
<1>1. DateOK => OpenWithTheExchange
  <2> SUFFICES ASSUME DateOK  PROVE OpenWithTheExchange
    OBVIOUS
  <2>1. PICK y \in Int, m \in Int, d \in Int : date = [year |-> y, month |-> m, day |-> d]
    BY DEF DateOK
  <2>2. m \in 1..12 /\ d \in 1..DaysIn(y, m)
    BY <2>1 DEF DateOK
  <2>3. Weekday(y, m, d) \in 0..6
    BY <2>2, WeekdayInt
  <2>4. CASE Weekday(y, m, d) \in {0, 6}
    BY <2>1, <2>4 DEF OpenWithTheExchange, IsEquityMarketHours, Closed
  <2>5. CASE Weekday(y, m, d) \in 1..5 /\ y \in 1900..2199
    <3>1. IsNyseHoliday(y, m, d) <=> Closed(date)
      BY <2>1, <2>2, <2>5, HolidaysAreKept
    <3> QED BY <2>1, <2>5, <3>1 DEF OpenWithTheExchange, IsEquityMarketHours
  <2>6. CASE Weekday(y, m, d) \in 1..5 /\ y \notin 1900..2199
    <3>1. m = 1 /\ d = 1
      BY <2>1, <2>6 DEF DateOK
    <3>2. Observed(y, 1, 1) = [month |-> m, day |-> d] <=> Kept(date, 1, 1)
      BY <2>1, <2>2, <2>6, NewYear
    <3>3. Kept(date, 1, 1)
      <4>1. DayNumber(y, 1, 1) \in Int
        BY DEF DayNumber
      <4> QED BY <2>1, <3>1, <4>1 DEF Kept
    <3>4. IsNyseHoliday(y, m, d) /\ Closed(date)
      BY <2>1, <3>2, <3>3 DEF IsNyseHoliday, Closed
    <3> QED BY <2>1, <3>4 DEF OpenWithTheExchange, IsEquityMarketHours
  <2> QED BY <2>3, <2>4, <2>5, <2>6
<1>2. CalendarSpec => []DateOK
  BY DateInv
<1> QED BY <1>1, <1>2, PTL
=============================================================================
