----------------------------- MODULE Committee -----------------------------
(***************************************************************************)
(* The committee over one signal, and the automatic dispatcher around it.  *)
(*                                                                         *)
(* Specialists, coordinator, risk officer and trader are calls of a model: *)
(* an answer may be unusable, and a call may be refused (kill switch, cost *)
(* cap, expired login), which ends the run.  Between the answers stand the *)
(* rules: a momentum gate before the panel, a Markov gate after the risk   *)
(* officer, entry rules that ignore some vetoes, and a judge of its own.   *)
(* Confidence is low (under 0.30) or not; scores of a Markov regime are in *)
(* hundredths; sizes are in halves of the default.                         *)
(***************************************************************************)
EXTENDS Integers, FiniteSets

CONSTANTS
  Specialist,            \* the roles of a full panel
  Quant,                 \* the one that is asked for a lean asset
  Markov,                \* values of markov_signal, in hundredths
  NoMarkov,
  DefaultHalves,         \* defaultSizeUsd
  MaxHalves,             \* maxSizeUsd
  MaxCommitteeAttempts,  \* MAX_COMMITTEE_ATTEMPTS
  MaxRefusals            \* bound on refused and lost runs

ASSUME CommitteeAssumption ==
  /\ Quant \in Specialist
  /\ Markov \subseteq Int /\ NoMarkov \notin Markov
  /\ {DefaultHalves, MaxHalves, MaxCommitteeAttempts} \subseteq Nat \ {0}
  /\ MaxRefusals \in Nat

VARIABLES
  cand,       \* the signal: [lean, rule, exempt, side, markov, score]
  gateOn,     \* the knob jev_gate
  fate,       \* trader_signals.status
  attempts,   \* committee.run.failed events of the signal
  stage,      \* the call that is awaited
  waiting,    \* specialists whose answer is awaited
  opinions,   \* specialists with a usable opinion
  synthesis,  \* the coordinator's answer
  officer,    \* the risk officer's answer
  result,     \* of the run: [action, halves, by]
  refusals,
  refused     \* history: a call of the last run was refused

committeeVars == <<cand, gateOn, fate, attempts, stage, waiting, opinions, synthesis,
                   officer, result, refusals, refused>>
given == <<cand, gateOn>>
talk == <<opinions, synthesis, officer>>

Side == {"buy", "sell"}
\* The multiple of the threshold; "between" stands for a weak absolute score, too.
Strength == {"below", "between", "clear"}
VetoCategory == {"disagreement", "event_risk", "confidence", "size", "none"}

\* rsi2 and ibs are reversion strategies: they skip the Markov gate as well.  The
\* score is read for a buy of a lean asset by another strategy only.
Candidate ==
  {c \in [lean : BOOLEAN, rule : BOOLEAN, exempt : BOOLEAN, side : Side,
          markov : Markov \cup {NoMarkov}, score : Strength] :
     /\ c.rule => c.exempt
     /\ ~(c.lean /\ c.side = "buy" /\ ~c.rule) => c.score = "clear"}

Unanswered == [usable |-> FALSE]
NoDecision == [action |-> "none", halves |-> 0, by |-> "none"]

CommitteeInit ==
  /\ cand \in Candidate /\ gateOn \in BOOLEAN
  /\ fate = "pending" /\ attempts = 0
  /\ stage = "idle" /\ waiting = {}
  /\ opinions = {} /\ synthesis = Unanswered /\ officer = Unanswered
  /\ result = NoDecision
  /\ refusals = 0 /\ refused = FALSE

-----------------------------------------------------------------------------
(* The rules. *)

Smaller(m, n) == IF m <= n THEN m ELSE n

\* The same test stands before the committee and in its risk gate.
Conflicts(action) ==
  /\ ~cand.exempt /\ cand.markov # NoMarkov
  /\ \/ action = "buy" /\ cand.markov <= -15
     \/ action = "sell" /\ cand.markov >= 15

\* evaluateMomentumGate, asked for a buy of a lean asset.
AsksMomentum == cand.lean /\ cand.side = "buy" /\ ~cand.rule
Momentum ==
  CASE cand.score = "below" -> "abstain"
    [] cand.score # "below" /\ cand.markov # NoMarkov /\ cand.markov < -10 -> "escalate"
    [] OTHER -> IF cand.score = "clear" THEN "approve" ELSE "escalate"

Panel == IF cand.lean THEN {Quant} ELSE Specialist

\* Half of the panel, rounded up.
Quorate(voices) == 2 * Cardinality(voices) >= Cardinality(Panel)

LowConfidence == synthesis.usable /\ synthesis.low

ProposedAction ==
  IF synthesis.usable /\ synthesis.direction \in Side THEN synthesis.direction ELSE cand.side

\* mutant: regime support clears a veto of any category
GateVerdictAny(v) ==
  IF LowConfidence THEN [veto |-> TRUE, category |-> "confidence"]
  ELSE IF Conflicts(ProposedAction) THEN [veto |-> TRUE, category |-> "none"]
  ELSE IF cand.markov # NoMarkov THEN [veto |-> FALSE, category |-> "none"]
  ELSE [veto |-> v.veto, category |-> v.category]

\* applyDeterministicRiskGate over the risk officer's verdict.  A verdict of
\* the gate's own about the regime has no category, and its wording none that
\* classifyVetoCategory knows.
GateVerdict(v) ==
  IF LowConfidence THEN [veto |-> TRUE, category |-> "confidence"]
  ELSE IF Conflicts(ProposedAction) THEN [veto |-> TRUE, category |-> "none"]
  ELSE IF cand.markov # NoMarkov /\ v.veto /\ v.category = "disagreement"
       THEN [veto |-> FALSE, category |-> "none"]
  ELSE [veto |-> v.veto, category |-> v.category]

\* An answer that cannot be read is a veto nothing may clear.
Vetoed(v) ==
  LET g == GateVerdict(v) IN
  ~v.usable \/ (g.veto /\ ~(cand.rule /\ g.category \in {"disagreement", "confidence"}))

-----------------------------------------------------------------------------
(* The dispatcher's side. *)

EndRun(f, r) ==
  /\ fate' = f /\ result' = r
  /\ stage' = "idle" /\ waiting' = {}

Abstain == EndRun("abstained", NoDecision)

\* The judge is asked about every panel, and with its gate on about the
\* momentum gate's approvals; it can only veto an approval or halve it.
Approve(action, halves, by) ==
  IF gateOn
  THEN /\ result' = [action |-> action, halves |-> halves, by |-> by]
       /\ stage' = "judge" /\ waiting' = {} /\ UNCHANGED fate
  ELSE EndRun("approved", [action |-> action, halves |-> halves, by |-> by])

\* Markov pre-gate, then the committee is started.
BeginCommittee ==
  /\ fate = "pending" /\ stage = "idle"
  /\ opinions' = {} /\ synthesis' = Unanswered /\ officer' = Unanswered
  /\ refused' = FALSE
  /\ IF Conflicts(cand.side) THEN EndRun("suppressed", NoDecision)
     ELSE IF AsksMomentum /\ Momentum = "approve"
       THEN Approve("buy", Smaller(MaxHalves, DefaultHalves), "momentum")
     ELSE IF AsksMomentum /\ Momentum = "abstain" THEN Abstain
     ELSE /\ fate' = "dispatching" /\ stage' = "round1" /\ waiting' = Panel
          /\ UNCHANGED result
  /\ UNCHANGED <<given, attempts, refusals>>

\* mutant: a refused call counts as an abstention
RefuseAbstains ==
  /\ stage \notin {"idle", "judge"} /\ refusals < MaxRefusals
  /\ refusals' = refusals + 1 /\ refused' = TRUE
  /\ Abstain
  /\ UNCHANGED <<given, attempts, talk>>

\* CommitteeGatedError: the signal goes back to the queue.
Refuse ==
  /\ stage \notin {"idle", "judge"} /\ refusals < MaxRefusals
  /\ refusals' = refusals + 1 /\ refused' = TRUE
  /\ EndRun("pending", NoDecision)
  /\ UNCHANGED <<given, attempts, talk>>

\* Anything else thrown is counted, and given up when the count is full or
\* cannot be written.
Throw(recorded) ==
  /\ stage \notin {"idle", "judge"}
  /\ attempts' = attempts + (IF recorded THEN 1 ELSE 0)
  /\ EndRun(IF recorded /\ attempts' < MaxCommitteeAttempts THEN "pending" ELSE "failed", NoDecision)
  /\ UNCHANGED <<given, talk, refusals, refused>>

\* The process stops; the boot requeues the signal.
LoseRun ==
  /\ stage # "idle" /\ refusals < MaxRefusals
  /\ refusals' = refusals + 1
  /\ EndRun("pending", NoDecision)
  /\ UNCHANGED <<given, attempts, talk, refused>>

-----------------------------------------------------------------------------
(* The rounds. *)

Specialist1(s, usable) ==
  /\ stage = "round1" /\ s \in waiting
  /\ opinions' = IF usable THEN opinions \cup {s} ELSE opinions
  /\ IF waiting # {s} THEN waiting' = waiting \ {s} /\ UNCHANGED <<fate, stage, result>>
     ELSE IF Quorate(opinions')
          THEN stage' = "coordinator" /\ waiting' = {} /\ UNCHANGED <<fate, result>>
     ELSE Abstain
  /\ UNCHANGED <<given, attempts, synthesis, officer, refusals, refused>>

Synthesis == {Unanswered}
  \cup [usable : {TRUE}, low : BOOLEAN, direction : Side \cup {"mixed"}]

\* Challenges to roles that do not exist are dropped.
Coordinate(answer, challenged) ==
  /\ stage = "coordinator"
  /\ challenged # {} => answer.usable
  /\ synthesis' = answer
  /\ stage' = IF challenged = {} THEN "risk" ELSE "round2"
  /\ waiting' = challenged
  /\ UNCHANGED <<given, fate, attempts, opinions, officer, result, refusals, refused>>

\* Whatever is answered only goes into the transcript.
Specialist2(s) ==
  /\ stage = "round2" /\ s \in waiting
  /\ waiting' = waiting \ {s}
  /\ stage' = IF waiting = {s} THEN "risk" ELSE stage
  /\ UNCHANGED <<given, fate, attempts, talk, result, refusals, refused>>

\* An entry rule sets its own size and action; the others ask the trader.
Judge(verdict) ==
  /\ stage = "risk"
  /\ officer' = verdict
  /\ IF Vetoed(verdict) THEN Abstain
     ELSE IF cand.rule THEN Approve(cand.side, Smaller(MaxHalves, DefaultHalves), "panel")
     ELSE stage' = "trader" /\ UNCHANGED <<fate, waiting, result>>
  /\ UNCHANGED <<given, attempts, opinions, synthesis, refusals, refused>>

Verdict == {Unanswered} \cup [usable : {TRUE}, veto : BOOLEAN, category : VetoCategory]

\* The multiplier, in halves, is clamped to 0..2.
TraderAnswers(action, multiplier) ==
  /\ stage = "trader"
  /\ IF action \notin Side THEN Abstain
     ELSE Approve(action, Smaller(MaxHalves, (DefaultHalves * multiplier) \div 2), "panel")
  /\ UNCHANGED <<given, attempts, talk, refusals, refused>>

\* jevGateVerdict; an error of the judge changes nothing.
JevGate(veto, halve) ==
  /\ stage = "judge"
  /\ IF veto THEN Abstain
     ELSE EndRun("approved", IF halve THEN [result EXCEPT !.halves = @ \div 2] ELSE result)
  /\ UNCHANGED <<given, attempts, talk, refusals, refused>>

CommitteeNext ==
  \/ BeginCommittee \/ Refuse \/ LoseRun
  \/ \E recorded \in BOOLEAN : Throw(recorded)
  \/ \E s \in Specialist : Specialist2(s) \/ \E usable \in BOOLEAN : Specialist1(s, usable)
  \/ \E answer \in Synthesis, challenged \in SUBSET Specialist : Coordinate(answer, challenged)
  \/ \E verdict \in Verdict : Judge(verdict)
  \/ \E action \in Side \cup {"abstain"}, multiplier \in 0..4 : TraderAnswers(action, multiplier)
  \/ \E veto, halve \in BOOLEAN : JevGate(veto, halve)

CommitteeSpec == CommitteeInit /\ [][CommitteeNext]_committeeVars

-----------------------------------------------------------------------------
(* Properties. *)

CommitteeTypeOK ==
  /\ cand \in Candidate /\ gateOn \in BOOLEAN
  /\ fate \in {"pending", "dispatching", "suppressed", "abstained", "approved", "failed"}
  /\ attempts \in 0..MaxCommitteeAttempts
  /\ stage \in {"idle", "round1", "coordinator", "round2", "risk", "trader", "judge"}
  /\ waiting \subseteq Specialist /\ opinions \subseteq Specialist
  /\ synthesis \in Synthesis /\ officer \in Verdict
  /\ result \in [action : Side \cup {"none"}, halves : 0..MaxHalves,
                 by : {"none", "momentum", "panel"}]
  /\ refusals \in 0..MaxRefusals /\ refused \in BOOLEAN

\* A signal is used up (abstained) only by a run whose calls all ran: an
\* outage of the models sends it back to the queue, in whichever of the
\* parallel calls it is met.
RefusalConsumesNothing ==
  fate = "abstained" => ~refused

\* An approval of the panel follows a quorum and a readable answer of the risk
\* officer.  Except for an entry rule, the only veto it can follow is one over
\* disagreement that the regime answers, under an acceptable confidence.
PanelVetoStands ==
  fate = "approved" /\ result.by = "panel" =>
    /\ Quorate(opinions) /\ officer.usable
    /\ officer.veto /\ ~cand.rule =>
         officer.category = "disagreement" /\ cand.markov # NoMarkov /\ ~LowConfidence

\* committee.ts on the vetoes an entry rule ignores: "event, size, data,
\* uncategorized and unknown vetoes still block".  The code breaks this: the
\* gate's veto over a low confidence takes the place of the officer's.
EventVetoStands ==
  fate = "approved" /\ result.by = "panel" /\ officer.veto => officer.category # "event_risk"

\* committee.ts says of the Markov conflict "veto regardless of LLM".
ApprovedWithRegime == fate = "approved" => ~Conflicts(result.action)
=============================================================================
