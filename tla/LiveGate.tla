----------------------------- MODULE LiveGate ------------------------------
(***************************************************************************)
(* The go-live gate: a weekly evaluation, kept in kv_settings, that the    *)
(* tick consults before it lets a live engine take entries.                *)
(*                                                                         *)
(* The evaluation is one long asynchronous function.  It reads the broker, *)
(* the regimes, the cohorts and the equity curve at four different times,  *)
(* and signs the result with a fingerprint of the configuration taken at   *)
(* the end.  Meanwhile the operator's command line may change any of it,   *)
(* or start a new epoch after the paper account was reset.                 *)
(***************************************************************************)
EXTENDS Cohorts

CONSTANTS
  Regime,       \* what the Markov probe of SPY may say
  MinRegimes,   \* regimes the gate asks for
  MaxEpoch      \* bound on the operator's resets

VARIABLES
  epoch,     \* TRADER_EPOCH_KV_KEY
  regimes,   \* GATE_REGIMES_KV_KEY: [state, epoch at the probe]
  run,       \* what the evaluation under way has read: [at, epoch, seen, ready]
  gate,      \* GATE_KV_KEY: [passed, conf, epochs], or no result
  recent     \* the result is less than GATE_RUN_INTERVAL_MS old

gateOnlyVars == <<epoch, regimes, run, gate, recent>>
gateVars == <<cohortVars, gateOnlyVars>>

NoResult == [passed |-> FALSE]
Idle == [at |-> "idle"]

GateInit ==
  /\ CohortInit
  /\ epoch = 0 /\ regimes = {}
  /\ run = Idle
  /\ gate = NoResult /\ recent = FALSE

-----------------------------------------------------------------------------
\* readCohortReadiness: a passed cohort whose configuration still is current.
Ready == \E c \in card : status[c] = "passed" /\ Matches(c)

\* mutant: the fingerprint leaves the scorecards and statuses out
ConfWithoutCards ==
  [active |-> active, params |-> params, limit |-> limit, epoch |-> epoch]

\* gateConfigFingerprint.
Conf == [active |-> active, params |-> params, limit |-> limit,
         status |-> status, frozen |-> frozen, card |-> card, epoch |-> epoch]

\* gateAuthorizesLive.
Authorizes == gate.passed /\ recent /\ gate.conf = Conf

\* gateRunDue.
RunDue == IF gate = NoResult THEN TRUE ELSE gate.conf # Conf \/ ~recent

-----------------------------------------------------------------------------
\* runGoLiveGate: computeBrokerTruth, which gives up when the engine is away.
ReadTruth ==
  /\ run = Idle /\ RunDue
  /\ run' = [at |-> "truth", epoch |-> epoch, seen |-> regimes]
  /\ UNCHANGED <<cohortVars, epoch, regimes, gate, recent>>

\* accumulateRegimes writes the set it read before the probe, and the probe's
\* answer; the cohorts are read next, without a pause.
RecordRegimes(probe) ==
  /\ run.at = "truth"
  /\ regimes' = run.seen \cup {[state |-> r, epoch |-> epoch] : r \in probe}
  /\ run' = [at |-> "evidence", epoch |-> run.epoch, seen |-> regimes', ready |-> Ready]
  /\ UNCHANGED <<cohortVars, epoch, gate, recent>>

\* Equity curve and backtest are read, the other criteria judged, and the
\* result stored under the configuration of this moment.
StoreResult(good) ==
  /\ run.at = "evidence"
  /\ gate' = [passed |-> /\ good /\ run.ready
                         /\ Cardinality({r.state : r \in run.seen}) >= MinRegimes,
              conf |-> Conf,
              epochs |-> {run.epoch} \cup {r.epoch : r \in run.seen}]
  /\ recent' = TRUE
  /\ run' = Idle
  /\ UNCHANGED <<cohortVars, epoch, regimes>>

\* The process stops in the middle of an evaluation.
AbandonRun ==
  /\ run # Idle
  /\ run' = Idle
  /\ UNCHANGED <<cohortVars, epoch, regimes, gate, recent>>

WeekPasses ==
  /\ recent /\ recent' = FALSE
  /\ UNCHANGED <<cohortVars, epoch, regimes, run, gate>>

\* startNewEpoch, the operator's, after the paper account was reset.
StartNewEpoch ==
  /\ epoch < MaxEpoch
  /\ epoch' = epoch + 1
  /\ regimes' = {} /\ gate' = NoResult /\ recent' = FALSE
  /\ UNCHANGED <<cohortVars, run>>

GateOnlyNext ==
  \/ ReadTruth \/ AbandonRun \/ WeekPasses \/ StartNewEpoch
  \/ \E probe \in {{}} \cup {{r} : r \in Regime} : RecordRegimes(probe)
  \/ \E good \in BOOLEAN : StoreResult(good)

GateNext ==
  \/ GateOnlyNext
  \/ (OperatorNext \/ Score \/ SaveScores) /\ UNCHANGED gateOnlyVars

GateSpec == GateInit /\ [][GateNext]_gateVars

-----------------------------------------------------------------------------
(* Properties. *)

GateTypeOK ==
  /\ epoch \in 0..MaxEpoch
  /\ regimes \subseteq [state : Regime, epoch : 0..MaxEpoch]
  /\ run.at \in {"idle", "truth", "evidence"}
  /\ gate.passed \in BOOLEAN /\ recent \in BOOLEAN

\* Live trading ends with the evidence: a step after which no cohort is ready
\* any more leaves a stored result that no longer authorizes.
RevokedWithEvidence == [][Authorizes /\ Ready /\ ~Ready' => ~Authorizes']_gateVars

\* While live trading is authorized, a frozen cohort that passed is there.
AuthorizedOnEvidence == Authorizes => Ready

\* go-live-gate.ts on the epoch: "Everything the global gate scores is filtered
\* to it."
ScoredInEpoch == Authorizes => gate.epochs = {epoch}
=============================================================================
