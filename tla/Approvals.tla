----------------------------- MODULE Approvals -----------------------------
(***************************************************************************)
(* The operator's answers to the signals of one strategy and asset.        *)
(*                                                                         *)
(* The dashboard shows a copy of the bot's tables; a click becomes a       *)
(* message to the bot, which claims the signal's approval row and runs     *)
(* dispatchApproval beside the automatic dispatcher.  An approval takes no *)
(* claim on the signal, sends its order first and writes its decision row  *)
(* when the engine's answer is there.                                      *)
(***************************************************************************)
EXTENDS Integers, FiniteSets

CONSTANTS
  Signal,
  MaxClicks,       \* bound on the answers the operator gives to a signal
  MaxRestarts      \* bound on the restarts of the bot

Answer == {"approve", "skip", "pause"}

ASSUME ApprovalAssumption == {MaxClicks, MaxRestarts} \subseteq Nat

VARIABLES
  signal,     \* trader_signals.status, "none" before it is inserted
  shown,      \* signals the dashboard's copy shows as open
  message,    \* answers on their way to the bot: how many of each kind
  clicks,
  answer,     \* trader_approvals.response
  approval,   \* where dispatchApproval is with a signal
  runs,       \* approvals started for a signal, since ever
  auto,       \* the signal the automatic dispatcher has claimed
  order,      \* orders the engine accepted: [signal, by]
  row,        \* decision rows with an open order: [signal, by]
  told,       \* what the operator was told of an approved signal
  restarts

approvalVars == <<signal, shown, message, clicks, answer, approval, runs, auto,
                  order, row, told, restarts>>
desk == <<shown, clicks>>
botVars == <<answer, approval, runs, auto, row, told>>

NoSignal == "no signal"

ApprovalInit ==
  /\ signal = [g \in Signal |-> "none"]
  /\ shown = {} /\ clicks = [g \in Signal |-> 0]
  /\ message = [g \in Signal |-> [a \in Answer |-> 0]]
  /\ answer = [g \in Signal |-> "none"]
  /\ approval = [g \in Signal |-> "idle"]
  /\ runs = [g \in Signal |-> 0]
  /\ auto = NoSignal
  /\ order = {} /\ row = {}
  /\ told = [g \in Signal |-> "nothing"]
  /\ restarts = 0

-----------------------------------------------------------------------------
\* The partial unique index keeps one signal in the queue.
Emit(g) ==
  /\ signal[g] = "none"
  /\ \A h \in Signal : signal[h] \notin {"pending", "dispatching"}
  /\ signal' = [signal EXCEPT ![g] = "pending"]
  /\ UNCHANGED <<desk, message, botVars, order, restarts>>

CopyReachesDashboard ==
  /\ shown' = {g \in Signal : signal[g] = "pending" /\ answer[g] = "none"}
  /\ UNCHANGED <<signal, message, clicks, botVars, order, restarts>>

\* POST /signals/:id/action checks the copy and broadcasts.
Click(g, a) ==
  /\ g \in shown /\ clicks[g] < MaxClicks
  /\ clicks' = [clicks EXCEPT ![g] = @ + 1]
  /\ message' = [message EXCEPT ![g][a] = @ + 1]
  /\ UNCHANGED <<signal, shown, botVars, order, restarts>>

\* mutant: every answer counts
ClaimsAlways(g) == TRUE

\* handleTraderSignalAction: the first answer counts, the others are dropped.
Claims(g) == answer[g] = "none"

\* bulkSkipMatchingSignals and sweepPendingForPausedStrategy: the queue of
\* this strategy and asset.
QueueBecomes(s) == [h \in Signal |-> IF signal[h] = "pending" THEN s ELSE signal[h]]

\* dispatchApproval pauses the strategy and empties its queue.
StrategyPaused(g) == [QueueBecomes("suppressed") EXCEPT ![g] = "paused"]

Receive(g, a) ==
  /\ message[g][a] > 0
  /\ message' = [message EXCEPT ![g][a] = @ - 1]
  /\ IF ~Claims(g) THEN UNCHANGED <<answer, signal, approval, runs>>
     ELSE /\ answer' = [answer EXCEPT ![g] = a]
          /\ signal' = CASE a = "skip" -> QueueBecomes("skipped")
                         [] a = "pause" -> StrategyPaused(g)
                         [] a = "approve" -> signal
          /\ approval' = IF a = "approve" THEN [approval EXCEPT ![g] = "asked"] ELSE approval
          /\ runs' = IF a = "approve" THEN [runs EXCEPT ![g] = @ + 1] ELSE runs
  /\ UNCHANGED <<desk, auto, row, told, order, restarts>>

-----------------------------------------------------------------------------
(* dispatchApproval. *)

Answers(g, text) ==
  /\ approval' = [approval EXCEPT ![g] = "idle"]
  /\ told' = [told EXCEPT ![g] = text]

\* No running cohort, its caps, or the daily cap.
BlockedByCap(g) ==
  /\ approval[g] = "asked"
  /\ signal' = [signal EXCEPT ![g] = "suppressed"]
  /\ Answers(g, "no order placed")
  /\ UNCHANGED <<desk, message, answer, runs, auto, row, order, restarts>>

\* The committee approves, or is bypassed.
PanelApproves(g) ==
  /\ approval[g] = "asked"
  /\ approval' = [approval EXCEPT ![g] = "judged"]
  /\ UNCHANGED <<signal, desk, message, answer, runs, auto, row, told, order, restarts>>

\* The committee throws: the signal stays as it is.
PanelFails(g) ==
  /\ approval[g] = "asked"
  /\ Answers(g, "no order placed")
  /\ UNCHANGED <<signal, desk, message, answer, runs, auto, row, order, restarts>>

\* The committee abstains: the siblings are closed, too.
PanelAbstains(g) ==
  /\ approval[g] = "asked"
  /\ signal' = [QueueBecomes("suppressed") EXCEPT ![g] = "decided"]
  /\ Answers(g, "no order placed")
  /\ UNCHANGED <<desk, message, answer, runs, auto, row, order, restarts>>

\* Without positions, or with an unexpected short, the signal stays as it is.
BlockedByBook(g) ==
  /\ approval[g] = "judged"
  /\ Answers(g, "no order placed")
  /\ UNCHANGED <<signal, desk, message, answer, runs, auto, row, order, restarts>>

\* Heat, cluster, cooldown, symbol or the strategy's gate.
BlockedByGate(g) ==
  /\ approval[g] = "judged"
  /\ signal' = [signal EXCEPT ![g] = "suppressed"]
  /\ Answers(g, "no order placed")
  /\ UNCHANGED <<desk, message, answer, runs, auto, row, order, restarts>>

\* The order reaches the engine, which accepts it.
EngineAccepts(g) ==
  /\ approval[g] = "judged"
  /\ order' = order \cup {[signal |-> g, by |-> "manual"]}
  /\ approval' = [approval EXCEPT ![g] = "sent"]
  /\ UNCHANGED <<signal, desk, message, answer, runs, auto, row, told, restarts>>

\* Its reply arrives: the row is written and the siblings are closed.
RecordOrder(g) ==
  /\ approval[g] = "sent"
  /\ row' = row \cup {[signal |-> g, by |-> "manual"]}
  /\ signal' = [QueueBecomes("suppressed") EXCEPT ![g] = "decided"]
  /\ Answers(g, "order placed")
  /\ UNCHANGED <<desk, message, answer, runs, auto, order, restarts>>

\* The request is refused, or it times out before or after it was accepted.
SubmitThrows(g) ==
  /\ approval[g] \in {"judged", "sent"}
  /\ Answers(g, "no order placed")
  /\ UNCHANGED <<signal, desk, message, answer, runs, auto, row, order, restarts>>

-----------------------------------------------------------------------------
(* The automatic dispatcher, as far as it meets the approvals. *)

AutoClaim(g) ==
  /\ auto = NoSignal /\ signal[g] = "pending"
  /\ signal' = [signal EXCEPT ![g] = "dispatching"]
  /\ auto' = g
  /\ UNCHANGED <<desk, message, answer, approval, runs, row, told, order, restarts>>

\* The row comes first; an open row of the asset suppresses the signal.
AutoPlace ==
  /\ auto # NoSignal
  /\ IF row # {}
     THEN /\ signal' = [signal EXCEPT ![auto] = "suppressed"]
          /\ UNCHANGED <<row, order>>
     ELSE /\ row' = row \cup {[signal |-> auto, by |-> "auto"]}
          /\ order' = order \cup {[signal |-> auto, by |-> "auto"]}
          /\ signal' = [signal EXCEPT ![auto] = "executed"]
  /\ auto' = NoSignal
  /\ UNCHANGED <<desk, message, answer, approval, runs, told, restarts>>

AutoDeclines(s) ==
  /\ auto # NoSignal
  /\ signal' = [signal EXCEPT ![auto] = s]
  /\ auto' = NoSignal
  /\ UNCHANGED <<desk, message, answer, approval, runs, row, told, order, restarts>>

\* What ran is lost; initTrader puts claimed signals back into the queue.
Restart ==
  /\ restarts < MaxRestarts
  /\ restarts' = restarts + 1
  /\ approval' = [g \in Signal |-> "idle"]
  /\ message' = [g \in Signal |-> [a \in Answer |-> 0]]
  /\ auto' = NoSignal
  /\ signal' = [g \in Signal |-> IF signal[g] = "dispatching" THEN "pending" ELSE signal[g]]
  /\ UNCHANGED <<desk, answer, runs, row, told, order>>

-----------------------------------------------------------------------------
ApprovalNext ==
  \/ CopyReachesDashboard \/ Restart \/ AutoPlace
  \/ \E s \in {"pending", "suppressed"} : AutoDeclines(s)
  \/ \E g \in Signal :
       \/ Emit(g) \/ EngineAccepts(g) \/ RecordOrder(g) \/ SubmitThrows(g) \/ AutoClaim(g)
       \/ \E a \in Answer : Click(g, a) \/ Receive(g, a)
       \/ BlockedByCap(g) \/ PanelApproves(g) \/ PanelFails(g) \/ PanelAbstains(g)
       \/ BlockedByBook(g) \/ BlockedByGate(g)

ApprovalSpec == ApprovalInit /\ [][ApprovalNext]_approvalVars

-----------------------------------------------------------------------------
(* Properties. *)

ApprovalTypeOK ==
  /\ signal \in [Signal -> {"none", "pending", "dispatching", "decided", "executed",
                            "suppressed", "skipped", "paused"}]
  /\ shown \subseteq Signal
  /\ message \in [Signal -> [Answer -> 0..MaxClicks]]
  /\ answer \in [Signal -> Answer \cup {"none"}]
  /\ approval \in [Signal -> {"idle", "asked", "judged", "sent"}]
  /\ auto \in Signal \cup {NoSignal}
  /\ order \subseteq [signal : Signal, by : {"auto", "manual"}]
  /\ row \subseteq order
  /\ told \in [Signal -> {"nothing", "no order placed", "order placed"}]

\* However often the operator clicks on a copy that lags behind, and whenever
\* the bot restarts, an approval sends at most one order for a signal, and none
\* after another answer was taken.
AnsweredOnce ==
  \A g \in Signal : runs[g] <= 1 /\ (answer[g] # "approve" => runs[g] = 0)

\* decision-dispatcher.ts answers a failed submission with "No order placed."
RefusalIsTrue ==
  \A g \in Signal :
    told[g] = "no order placed" => [signal |-> g, by |-> "manual"] \notin order

\* decision-dispatcher.ts takes an "Atomic claim" on a signal, against another
\* dispatch of it.
OneOrderPerApprovedSignal ==
  \A g \in Signal : Cardinality({o \in order : o.signal = g}) <= 1
=============================================================================
