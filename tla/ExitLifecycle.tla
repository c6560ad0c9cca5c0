---------------------------- MODULE ExitLifecycle ----------------------------
(***************************************************************************)
(* From a filled entry to its verdict: the exit sweep, the reconciliation  *)
(* and the recovery of exit rows, and the close-out that grades an entry.  *)
(*                                                                         *)
(* A tick reconciles rows against GET /orders, closes out entries on flat  *)
(* assets, recovers exits whose acceptance is unknown and sweeps the open  *)
(* entries for exits.  An exit order sells the whole broker position of    *)
(* the asset, whoever bought it.  Meanwhile the engine accepts requests,   *)
(* fills in parts, cancels, lets a bracket leg sell on its own, and        *)
(* refreshes its positions snapshot late; the process may stop anywhere.   *)
(*                                                                         *)
(* Entries are long lots of LotQty units, bought in the order of their     *)
(* numbers; how they come to be filled is module EntryLifecycle.  Its gate *)
(* on a same-day exit only delays the next buy and is left out.            *)
(***************************************************************************)
EXTENDS Integers, FiniteSets, FiniteSetsExt

CONSTANTS
  Entry,               \* entry decisions: 1..n, the order they are bought in
  Exit,                \* ids for exit decisions
  Asset, AssetOf,      \* the asset of every entry
  LotQty,              \* units bought by one entry
  HoldSettle,          \* HOLD_SETTLE_MS, 30 min
  ExitOrphanHorizon,   \* EXIT_ORPHAN_HORIZON_MS, 15 min
  DriftAge,            \* DRIFT_TERMINAL_AGE_MS, 7 days
  AgeCap,              \* where ages saturate, above every horizon
  MaxRestarts,         \* bound on process restarts
  Unreliable,          \* requests may be lost
  LateArrival,         \* a request may outlive the tick that sent it
  Brackets,            \* bracket legs may sell a lot
  OutsideSales,        \* a lot may be sold past the engine's orders
  Rollover             \* an entry's orders may leave the GET /orders window

NoEntry == 0
NoExit  == 0

ASSUME EntryAssumption ==
  /\ Entry \subseteq Nat \ {0}
  /\ IsFiniteSet(Entry)
  /\ NoExit \notin Exit
  /\ IsFiniteSet(Exit)
  /\ AssetOf \in [Entry -> Asset]

ASSUME BoundAssumption ==
  /\ LotQty \in Nat \ {0}
  /\ {HoldSettle, ExitOrphanHorizon, DriftAge, AgeCap, MaxRestarts} \subseteq Nat
  /\ {Unreliable, LateArrival, Brackets, OutsideSales, Rollover} \subseteq BOOLEAN

VARIABLES
  \* trader_decisions (entries), trader_verdicts
  entry,      \* status; "free" before the buy
  age,        \* time since decided_at
  verdicts,   \* verdict rows of the entry
  ungraded,   \* ungraded_at is set
  due,        \* an exit rule of the entry fires on fresh data
  \* trader_decisions (exits)
  exit,       \* status; "free" before the INSERT and after the DELETE
  parent,     \* parent_decision_id
  exitAge,
  \* trader_fills: units sold, per exit and per bracket leg, as recorded
  exitFill, legFill,
  \* the engine and the broker
  lot,        \* units of the entry still held
  leg,        \* units sold by the entry's bracket leg
  order,      \* order of an exit id
  sold,       \* units it sold
  victim,     \* the entry whose lot it sells
  inflight,   \* exit requests sent and not yet processed
  window,     \* filled entries whose orders GET /orders still lists
  snapHeld,   \* assets with a position in the engine's snapshot
  \* the running tick
  pc, todoE, todoX, curE, curX, seen, posSnap,
  restarts

entryVars  == <<entry, age, verdicts, ungraded, due>>
exitVars   == <<exit, parent, exitAge>>
fillVars   == <<exitFill, legFill>>
engineVars == <<lot, leg, order, sold, victim, inflight, window, snapHeld>>
tickVars   == <<pc, todoE, todoX, curE, curX, seen, posSnap>>
vars == <<entryVars, exitVars, fillVars, engineVars, tickVars, restarts>>

EntryStatus == {"free", "pending_fill", "executed", "closed"}
ExitStatus  == {"free", "exit_submitted", "exit_unknown", "closed", "failed"}
OrderStatus == {"none", "working", "filled", "canceled"}
Phase == {"idle", "reconciling", "closeout", "closing", "graded", "recover",
          "recovering", "sweep", "sweeping", "exiting"}

InFlightExit == {"exit_submitted", "exit_unknown"}

SameAsset(e)   == {f \in Entry : AssetOf[f] = AssetOf[e]}
ExitsOf(e)     == {x \in Exit : parent[x] = e}
BrokerHeld     == {AssetOf[e] : e \in {f \in Entry : lot[f] > 0}}
NothingSeen    == [x \in Exit |-> [status |-> "none", qty |-> 0]]
OrderView      == [x \in Exit |-> [status |-> order[x], qty |-> sold[x]]]
Older(a)       == IF a < AgeCap THEN a + 1 ELSE a

TypeOK ==
  /\ entry \in [Entry -> EntryStatus]
  /\ age \in [Entry -> Nat]
  /\ verdicts \in [Entry -> Nat]
  /\ ungraded \in [Entry -> BOOLEAN]
  /\ due \in [Entry -> BOOLEAN]
  /\ exit \in [Exit -> ExitStatus]
  /\ parent \in [Exit -> Entry \cup {NoEntry}]
  /\ exitAge \in [Exit -> Nat]
  /\ exitFill \in [Exit -> 0..LotQty]
  /\ legFill \in [Entry -> 0..LotQty]
  /\ lot \in [Entry -> 0..LotQty]
  /\ leg \in [Entry -> 0..LotQty]
  /\ order \in [Exit -> OrderStatus]
  /\ sold \in [Exit -> 0..LotQty]
  /\ victim \in [Exit -> Entry \cup {NoEntry}]
  /\ inflight \subseteq Exit
  /\ window \subseteq Entry
  /\ snapHeld \subseteq Asset
  /\ pc \in Phase
  /\ todoE \subseteq Entry
  /\ todoX \subseteq Exit
  /\ curE \in Entry \cup {NoEntry}
  /\ curX \in Exit \cup {NoExit}
  /\ seen \in [Exit -> [status : OrderStatus, qty : 0..LotQty]]
  /\ posSnap \subseteq Asset
  /\ restarts \in Nat

Init ==
  /\ entry = [e \in Entry |-> "free"]
  /\ age = [e \in Entry |-> 0]
  /\ verdicts = [e \in Entry |-> 0]
  /\ ungraded = [e \in Entry |-> FALSE]
  /\ due = [e \in Entry |-> FALSE]
  /\ exit = [x \in Exit |-> "free"]
  /\ parent = [x \in Exit |-> NoEntry]
  /\ exitAge = [x \in Exit |-> 0]
  /\ exitFill = [x \in Exit |-> 0]
  /\ legFill = [e \in Entry |-> 0]
  /\ lot = [e \in Entry |-> 0]
  /\ leg = [e \in Entry |-> 0]
  /\ order = [x \in Exit |-> "none"]
  /\ sold = [x \in Exit |-> 0]
  /\ victim = [x \in Exit |-> NoEntry]
  /\ inflight = {}
  /\ window = {}
  /\ snapHeld = {}
  /\ pc = "idle"
  /\ todoE = {}
  /\ todoX = {}
  /\ curE = NoEntry
  /\ curX = NoExit
  /\ seen = NothingSeen
  /\ posSnap = {}
  /\ restarts = 0

-----------------------------------------------------------------------------
(* The entry path.  It buys an asset only while no row of the asset is an  *)
(* open entry and none counts as holding it (gates -2 and -1); it runs     *)
(* before the close-out of the same tick.                                  *)

\* isAssetHeld: a holding row outranks a flat snapshot until it has settled.
Holds(e) ==
  \/ entry[e] = "executed" /\ verdicts[e] = 0
       /\ (AssetOf[e] \in snapHeld \/ age[e] <= HoldSettle)
  \/ \E x \in ExitsOf(e) : exit[x] = "exit_submitted"
       /\ (AssetOf[e] \in snapHeld \/ exitAge[x] <= HoldSettle)

Buy(e) ==
  /\ pc = "closeout"
  /\ entry[e] = "free"
  /\ AssetOf[e] \notin snapHeld
  /\ \A f \in SameAsset(e) :
       /\ f < e => entry[f] # "free"
       /\ entry[f] # "pending_fill" /\ lot[f] = 0 /\ ~Holds(f)
  /\ entry' = [entry EXCEPT ![e] = "pending_fill"]
  /\ UNCHANGED <<age, verdicts, ungraded, due, exitVars, fillVars, engineVars,
                 tickVars, restarts>>

FillBuy(e) ==
  /\ entry[e] = "pending_fill"
  /\ e \notin window
  /\ lot' = [lot EXCEPT ![e] = LotQty]
  /\ window' = window \cup {e}
  /\ UNCHANGED <<entryVars, exitVars, fillVars, leg, order, sold, victim, inflight,
                 snapHeld, tickVars, restarts>>

\* The price or the calendar moves on: an exit rule of the entry now fires.
BecomeDue(e) ==
  /\ entry[e] = "executed"
  /\ ~due[e]
  /\ due' = [due EXCEPT ![e] = TRUE]
  /\ UNCHANGED <<entry, age, verdicts, ungraded, exitVars, fillVars, engineVars,
                 tickVars, restarts>>

-----------------------------------------------------------------------------
(* Reconcile (phase 1c), for filled entries and for exits.                 *)

BeginReconcile ==
  /\ pc = "idle"
  /\ LateArrival \/ inflight = {}
  /\ pc' = "reconciling"
  /\ todoE' = {e \in window : entry[e] = "pending_fill"}
  /\ todoX' = {x \in Exit : exit[x] \in InFlightExit}
  /\ seen' = OrderView
  /\ UNCHANGED <<entryVars, exitVars, fillVars, engineVars, curE, curX, posSnap, restarts>>

\* Halted reconciler or GET /orders failed.
SkipReconcile ==
  /\ pc = "idle"
  /\ LateArrival \/ inflight = {}
  /\ pc' = "closeout"
  /\ UNCHANGED <<entryVars, exitVars, fillVars, engineVars,
                 todoE, todoX, curE, curX, seen, posSnap, restarts>>

ReconcileEntry(e) ==
  /\ pc = "reconciling"
  /\ e \in todoE
  /\ todoE' = todoE \ {e}
  /\ entry' = [entry EXCEPT ![e] = "executed"]
  /\ UNCHANGED <<age, verdicts, ungraded, due, exitVars, fillVars, engineVars,
                 pc, todoX, curE, curX, seen, posSnap, restarts>>

\* mutant: an exit that left the window is given up and replaced
ReconciledReplaced(x) ==
  CASE seen[x].status = "none" ->
         IF exitAge[x] >= ExitOrphanHorizon THEN "failed" ELSE exit[x]
    [] seen[x].status = "filled"   -> "closed"
    [] seen[x].status = "canceled" -> "failed"
    [] OTHER -> IF seen[x].qty > 0 THEN "exit_submitted" ELSE exit[x]

\* mutant: an exit that left the window is waited for
ReconciledWaits(x) ==
  CASE seen[x].status = "none" -> exit[x]
    [] seen[x].status = "filled"   -> "closed"
    [] seen[x].status = "canceled" -> "failed"
    [] OTHER -> IF seen[x].qty > 0 THEN "exit_submitted" ELSE exit[x]

\* An exit that is missing keeps its id for recovery; a working exit keeps its
\* guard, also after a partial fill; only a terminal failure may be retried.
ReconciledExit(x) ==
  CASE seen[x].status = "none" ->
         IF exitAge[x] >= ExitOrphanHorizon THEN "exit_unknown" ELSE exit[x]
    [] seen[x].status = "filled"   -> "closed"
    [] seen[x].status = "canceled" -> "failed"
    [] OTHER -> IF seen[x].qty > 0 THEN "exit_submitted" ELSE exit[x]

Larger(m, n) == IF m > n THEN m ELSE n

ReconcileExit(x) ==
  /\ pc = "reconciling"
  /\ x \in todoX
  /\ todoX' = todoX \ {x}
  /\ exit' = [exit EXCEPT ![x] = ReconciledExit(x)]
  /\ exitFill' = [exitFill EXCEPT ![x] = Larger(@, seen[x].qty)]
  /\ UNCHANGED <<entryVars, parent, exitAge, legFill, engineVars,
                 pc, todoE, curE, curX, seen, posSnap, restarts>>

EndReconcile ==
  /\ pc = "reconciling"
  /\ todoE = {} /\ todoX = {}
  /\ seen' = NothingSeen
  /\ pc' = "closeout"
  /\ UNCHANGED <<entryVars, exitVars, fillVars, engineVars,
                 todoE, todoX, curE, curX, posSnap, restarts>>

-----------------------------------------------------------------------------
(* Close-out sweep (phase 4).                                              *)

\* mutant: entries that have a verdict already are looked at again
OpenDecisionsAll == {e \in Entry : entry[e] = "executed"}

OpenDecisions == {e \in Entry : entry[e] = "executed" /\ verdicts[e] = 0}

\* Positions and orders are read once; the order fills are archived first.
BeginCloseOut ==
  /\ pc = "closeout"
  /\ OpenDecisions # {}
  /\ pc' = "closing"
  /\ todoE' = OpenDecisions
  /\ posSnap' = snapHeld
  /\ exitFill' = [x \in Exit |-> Larger(exitFill[x], sold[x])]
  /\ legFill' = [e \in Entry |-> IF e \in window THEN leg[e] ELSE legFill[e]]
  /\ UNCHANGED <<entryVars, exitVars, engineVars, todoX, curE, curX, seen, restarts>>

\* Nothing open, or the engine does not answer.
SkipCloseOut ==
  /\ pc = "closeout"
  /\ pc' = "recover"
  /\ todoX' = {x \in Exit : exit[x] = "exit_unknown"}
  /\ UNCHANGED <<entryVars, exitVars, fillVars, engineVars,
                 todoE, curE, curX, seen, posSnap, restarts>>

\* matchLotsFifo over the recorded fills of the asset: what it gives entry e.
RecordedSales(e) ==
  MapThenSumSet(LAMBDA x : exitFill[x], {x \in Exit : victim[x] \in SameAsset(e)})
    + MapThenSumSet(LAMBDA f : legFill[f], SameAsset(e))

MatchedLots(e) ==
  LET before == LotQty * Cardinality({f \in SameAsset(e) : f < e})
      left   == RecordedSales(e) - before
  IN IF left < 0 THEN 0 ELSE IF left > LotQty THEN LotQty ELSE left

\* rollUpFills over the listed orders of the asset since the decision.
BoughtSince(e) == LotQty * Cardinality({f \in SameAsset(e) \cap window : f >= e})

SoldSince(e) ==
  MapThenSumSet(LAMBDA x : exitFill[x], {x \in Exit : victim[x] \in SameAsset(e) /\ victim[x] >= e})
    + MapThenSumSet(LAMBDA f : legFill[f], {f \in SameAsset(e) \cap window : f >= e})

\* mutant: a flat snapshot is believed although the buy is not sold
ClosureTrustsSnapshot(e) ==
  IF AssetOf[e] \in posSnap THEN "still-open"
  ELSE IF MatchedLots(e) = LotQty THEN "closed"
  ELSE IF MatchedLots(e) > 0 THEN "partial"
  ELSE IF BoughtSince(e) = 0 /\ SoldSince(e) = 0
    THEN (IF age[e] > DriftAge THEN "closed-drift" ELSE "no-fills")
  ELSE "no-realized-lots"

\* mutant: an entry that still nets open is waited for without end
ClosureNeverDrifts(e) ==
  IF AssetOf[e] \in posSnap THEN "still-open"
  ELSE IF MatchedLots(e) = LotQty THEN "closed"
  ELSE IF MatchedLots(e) > 0 THEN "partial"
  ELSE IF BoughtSince(e) = 0 /\ SoldSince(e) = 0
    THEN (IF age[e] > DriftAge THEN "closed-drift" ELSE "no-fills")
  ELSE IF BoughtSince(e) > SoldSince(e) THEN "still-open"
  ELSE "no-realized-lots"

\* What processClosure says of an entry.
Closure(e) ==
  IF AssetOf[e] \in posSnap THEN "still-open"
  ELSE IF MatchedLots(e) = LotQty THEN "closed"
  ELSE IF MatchedLots(e) > 0 THEN "partial"
  ELSE IF BoughtSince(e) = 0 /\ SoldSince(e) = 0
    THEN (IF age[e] > DriftAge THEN "closed-drift" ELSE "no-fills")
  ELSE IF BoughtSince(e) > SoldSince(e) /\ age[e] <= DriftAge THEN "still-open"
  ELSE "no-realized-lots"

\* The entry stays open for the next tick.
LeaveOpen(e) ==
  /\ pc = "closing"
  /\ e \in todoE
  /\ \/ Closure(e) \in {"still-open", "no-fills"}
     \/ Closure(e) = "partial" /\ age[e] <= DriftAge
  /\ todoE' = todoE \ {e}
  /\ UNCHANGED <<entryVars, exitVars, fillVars, engineVars,
                 pc, todoX, curE, curX, seen, posSnap, restarts>>

CloseUngraded(e) ==
  /\ pc = "closing"
  /\ e \in todoE
  /\ \/ Closure(e) \in {"closed-drift", "no-realized-lots"}
     \/ Closure(e) = "partial" /\ age[e] > DriftAge
  /\ todoE' = todoE \ {e}
  /\ entry' = [entry EXCEPT ![e] = "closed"]
  /\ ungraded' = [ungraded EXCEPT ![e] = TRUE]
  /\ UNCHANGED <<age, verdicts, due, exitVars, fillVars, engineVars,
                 pc, todoX, curE, curX, seen, posSnap, restarts>>

\* Two statements, two commits: the verdict, then the status of the entry.
InsertVerdict(e) ==
  /\ pc = "closing"
  /\ e \in todoE
  /\ Closure(e) = "closed"
  /\ verdicts' = [verdicts EXCEPT ![e] = @ + 1]
  /\ todoE' = todoE \ {e}
  /\ curE' = e
  /\ pc' = "graded"
  /\ UNCHANGED <<entry, age, ungraded, due, exitVars, fillVars, engineVars,
                 todoX, curX, seen, posSnap, restarts>>

CloseGraded ==
  /\ pc = "graded"
  /\ entry' = [entry EXCEPT ![curE] = "closed"]
  /\ curE' = NoEntry
  /\ pc' = "closing"
  /\ UNCHANGED <<age, verdicts, ungraded, due, exitVars, fillVars, engineVars,
                 todoE, todoX, curX, seen, posSnap, restarts>>

\* On to the exit sweep: it first lists the exits whose acceptance is unknown.
EndCloseOut ==
  /\ pc = "closing"
  /\ todoE = {}
  /\ posSnap' = {}
  /\ pc' = "recover"
  /\ todoX' = {x \in Exit : exit[x] = "exit_unknown"}
  /\ UNCHANGED <<entryVars, exitVars, fillVars, engineVars,
                 todoE, curE, curX, seen, restarts>>

-----------------------------------------------------------------------------
(* Exit sweep (phase 4b), first the recovery of uncertain exits.           *)

RecoverSend(x) ==
  /\ pc = "recover"
  /\ x \in todoX
  /\ todoX' = todoX \ {x}
  /\ inflight' = inflight \cup {x}
  /\ curX' = x
  /\ pc' = "recovering"
  /\ UNCHANGED <<entryVars, exitVars, fillVars, lot, leg, order, sold, victim,
                 window, snapHeld, todoE, curE, seen, posSnap, restarts>>

RecoverAccepted ==
  /\ pc = "recovering"
  /\ curX \notin inflight
  /\ order[curX] # "none"
  /\ exit' = [exit EXCEPT ![curX] = "exit_submitted"]
  /\ curX' = NoExit
  /\ pc' = "recover"
  /\ UNCHANGED <<entryVars, parent, exitAge, fillVars, engineVars,
                 todoE, todoX, curE, seen, posSnap, restarts>>

\* A timeout, any error (no_position too), or an answer with status unknown.
RecoverFailed ==
  /\ pc = "recovering"
  /\ curX' = NoExit
  /\ pc' = "recover"
  /\ UNCHANGED <<entryVars, exitVars, fillVars, engineVars,
                 todoE, todoX, curE, seen, posSnap, restarts>>

\* mutant: any open exit row is looked for under the wrong status
CandidatesIgnoreUnknown ==
  {e \in Entry : entry[e] = "executed" /\ \A x \in ExitsOf(e) : exit[x] # "exit_submitted"}

\* findOpenExitCandidates: only a failed exit is followed by another one.
ExitCandidates ==
  {e \in Entry : entry[e] = "executed"
                 /\ \A x \in ExitsOf(e) : exit[x] \notin InFlightExit \cup {"closed"}}

\* The rows left over are skipped while the market is closed.
BeginSweep ==
  /\ pc = "recover"
  /\ ExitCandidates # {}
  /\ todoE' = ExitCandidates
  /\ todoX' = {}
  /\ posSnap' = snapHeld
  /\ pc' = "sweeping"
  /\ UNCHANGED <<entryVars, exitVars, fillVars, engineVars, curE, curX, seen, restarts>>

\* No candidates, reconciler halted, or positions unavailable.
SkipSweep ==
  /\ pc = "recover"
  /\ todoX' = {}
  /\ pc' = "idle"
  /\ UNCHANGED <<entryVars, exitVars, fillVars, engineVars,
                 todoE, curE, curX, seen, posSnap, restarts>>

\* Market closed, asset flat in the snapshot, or no exit rule fires.
HoldEntry(e) ==
  /\ pc = "sweeping"
  /\ e \in todoE
  /\ todoE' = todoE \ {e}
  /\ UNCHANGED <<entryVars, exitVars, fillVars, engineVars,
                 pc, todoX, curE, curX, seen, posSnap, restarts>>

\* The exit row is inserted before the request is sent.
SubmitExit(e, x) ==
  /\ pc = "sweeping"
  /\ e \in todoE
  /\ AssetOf[e] \in posSnap
  /\ due[e]
  /\ exit[x] = "free"
  /\ todoE' = todoE \ {e}
  /\ exit' = [exit EXCEPT ![x] = "exit_submitted"]
  /\ parent' = [parent EXCEPT ![x] = e]
  /\ inflight' = inflight \cup {x}
  /\ curX' = x
  /\ pc' = "exiting"
  /\ UNCHANGED <<entryVars, exitAge, fillVars, lot, leg, order, sold, victim,
                 window, snapHeld, todoX, curE, seen, posSnap, restarts>>

ExitAccepted ==
  /\ pc = "exiting"
  /\ curX \notin inflight
  /\ order[curX] # "none"
  /\ curX' = NoExit
  /\ pc' = "sweeping"
  /\ UNCHANGED <<entryVars, exitVars, fillVars, engineVars,
                 todoE, todoX, curE, seen, posSnap, restarts>>

\* 422 no_position: the row is deleted.
ExitNoPosition ==
  /\ pc = "exiting"
  /\ curX \in inflight
  /\ AssetOf[parent[curX]] \notin BrokerHeld
  /\ inflight' = inflight \ {curX}
  /\ exit' = [exit EXCEPT ![curX] = "free"]
  /\ parent' = [parent EXCEPT ![curX] = NoEntry]
  /\ exitAge' = [exitAge EXCEPT ![curX] = 0]
  /\ curX' = NoExit
  /\ pc' = "sweeping"
  /\ UNCHANGED <<entryVars, fillVars, lot, leg, order, sold, victim, window,
                 snapHeld, todoE, todoX, curE, seen, posSnap, restarts>>

ExitUncertain ==
  /\ pc = "exiting"
  /\ exit' = [exit EXCEPT ![curX] = "exit_unknown"]
  /\ curX' = NoExit
  /\ pc' = "sweeping"
  /\ UNCHANGED <<entryVars, parent, exitAge, fillVars, engineVars,
                 todoE, todoX, curE, seen, posSnap, restarts>>

EndSweep ==
  /\ pc = "sweeping"
  /\ todoE = {}
  /\ posSnap' = {}
  /\ pc' = "idle"
  /\ UNCHANGED <<entryVars, exitVars, fillVars, engineVars,
                 todoE, todoX, curE, curX, seen, restarts>>

-----------------------------------------------------------------------------
(* The engine and the broker.                                              *)

Closing(a) == \E x \in Exit : order[x] = "working" /\ AssetOf[victim[x]] = a

\* A request is idempotent by id.  A new one sells whatever lot the asset holds;
\* the broker refuses it while another order is closing the position.
EngineAccept(x, e) ==
  /\ x \in inflight
  /\ order[x] = "none"
  /\ AssetOf[e] = AssetOf[parent[x]]
  /\ lot[e] > 0
  /\ ~Closing(AssetOf[e])
  /\ inflight' = inflight \ {x}
  /\ order' = [order EXCEPT ![x] = "working"]
  /\ victim' = [victim EXCEPT ![x] = e]
  /\ UNCHANGED <<entryVars, exitVars, fillVars, lot, leg, sold, window, snapHeld,
                 tickVars, restarts>>

EngineRepeats(x) ==
  /\ x \in inflight
  /\ order[x] # "none"
  /\ inflight' = inflight \ {x}
  /\ UNCHANGED <<entryVars, exitVars, fillVars, lot, leg, order, sold, victim,
                 window, snapHeld, tickVars, restarts>>

\* The request never arrives, or is refused for anything but no_position.
LoseRequest(x) ==
  /\ x \in inflight
  /\ \/ Unreliable
     \/ order[x] = "none" /\ AssetOf[parent[x]] \notin BrokerHeld
     \/ order[x] = "none" /\ Closing(AssetOf[parent[x]])
  /\ inflight' = inflight \ {x}
  /\ UNCHANGED <<entryVars, exitVars, fillVars, lot, leg, order, sold, victim,
                 window, snapHeld, tickVars, restarts>>

FillUnit(x) ==
  /\ order[x] = "working"
  /\ lot' = [lot EXCEPT ![victim[x]] = @ - 1]
  /\ sold' = [sold EXCEPT ![x] = @ + 1]
  /\ order' = [order EXCEPT ![x] = IF lot[victim[x]] = 1 THEN "filled" ELSE @]
  /\ UNCHANGED <<entryVars, exitVars, fillVars, leg, victim, inflight, window,
                 snapHeld, tickVars, restarts>>

\* The broker gives up a working exit.  Bound: a spare id for the next exit is left.
CancelExit(x) ==
  /\ order[x] = "working"
  /\ Cardinality({y \in Exit : exit[y] = "free"})
       > Cardinality({e \in Entry : ExitsOf(e) = {}})
  /\ order' = [order EXCEPT ![x] = "canceled"]
  /\ UNCHANGED <<entryVars, exitVars, fillVars, lot, leg, sold, victim, inflight,
                 window, snapHeld, tickVars, restarts>>

LegSells(e) ==
  /\ Brackets
  /\ lot[e] > 0
  /\ ~Closing(AssetOf[e])
  /\ leg' = [leg EXCEPT ![e] = lot[e]]
  /\ lot' = [lot EXCEPT ![e] = 0]
  /\ UNCHANGED <<entryVars, exitVars, fillVars, order, sold, victim, inflight,
                 window, snapHeld, tickVars, restarts>>

SoldOutside(e) ==
  /\ OutsideSales
  /\ lot[e] > 0
  /\ ~Closing(AssetOf[e])
  /\ lot' = [lot EXCEPT ![e] = 0]
  /\ UNCHANGED <<entryVars, exitVars, fillVars, leg, order, sold, victim, inflight,
                 window, snapHeld, tickVars, restarts>>

\* The window is long: the orders of an entry stay in it for a time unit at least.
RollOff(e) ==
  /\ Rollover
  /\ entry[e] \notin {"free", "pending_fill"}
  /\ age[e] > 0
  /\ e \in window
  /\ window' = window \ {e}
  /\ UNCHANGED <<entryVars, exitVars, fillVars, lot, leg, order, sold, victim,
                 inflight, snapHeld, tickVars, restarts>>

RefreshSnapshot ==
  /\ snapHeld # BrokerHeld
  /\ snapHeld' = BrokerHeld
  /\ UNCHANGED <<entryVars, exitVars, fillVars, lot, leg, order, sold, victim,
                 inflight, window, tickVars, restarts>>

\* A time unit passes between ticks.  Requests in flight are settled by then and
\* the engine has refreshed its snapshot.
PassTime ==
  /\ pc = "idle"
  /\ inflight = {}
  /\ age' = [e \in Entry |-> IF entry[e] = "executed" THEN Older(age[e]) ELSE age[e]]
  /\ exitAge' = [x \in Exit |-> IF exit[x] \in InFlightExit THEN Older(exitAge[x]) ELSE exitAge[x]]
  /\ snapHeld' = BrokerHeld
  /\ UNCHANGED <<entry, verdicts, ungraded, due, exit, parent, fillVars, lot, leg,
                 order, sold, victim, inflight, window, tickVars, restarts>>

\* The process stops anywhere.  Nothing at boot looks at exits or executed rows.
Restart ==
  /\ restarts < MaxRestarts
  /\ restarts' = restarts + 1
  /\ pc' = "idle"
  /\ todoE' = {} /\ todoX' = {}
  /\ curE' = NoEntry /\ curX' = NoExit
  /\ seen' = NothingSeen
  /\ posSnap' = {}
  /\ UNCHANGED <<entryVars, exitVars, fillVars, engineVars>>

-----------------------------------------------------------------------------
Reconcile ==
  \/ SkipReconcile \/ BeginReconcile \/ EndReconcile
  \/ \E e \in Entry : ReconcileEntry(e)
  \/ \E x \in Exit : ReconcileExit(x)

CloseOut ==
  \/ SkipCloseOut \/ BeginCloseOut \/ CloseGraded \/ EndCloseOut
  \/ \E e \in Entry : LeaveOpen(e) \/ CloseUngraded(e) \/ InsertVerdict(e)

Sweep ==
  \/ \E x \in Exit : RecoverSend(x)
  \/ RecoverAccepted \/ RecoverFailed
  \/ SkipSweep \/ BeginSweep \/ EndSweep
  \/ \E e \in Entry : HoldEntry(e)
  \/ \E e \in Entry, x \in Exit : SubmitExit(e, x)
  \/ ExitAccepted \/ ExitNoPosition \/ ExitUncertain

Tick == Reconcile \/ CloseOut \/ Sweep

Engine ==
  \/ \E x \in Exit, e \in Entry : EngineAccept(x, e)
  \/ \E x \in Exit : EngineRepeats(x) \/ LoseRequest(x) \/ FillUnit(x) \/ CancelExit(x)
  \/ \E e \in Entry : FillBuy(e) \/ LegSells(e) \/ SoldOutside(e) \/ RollOff(e)
  \/ RefreshSnapshot

Next ==
  \/ Tick \/ Engine \/ PassTime \/ Restart
  \/ \E e \in Entry : Buy(e) \/ BecomeDue(e)

Spec == Init /\ [][Next]_vars

(* Fairness.  Ticks keep starting and keep going.  GET /orders, GET        *)
(* /positions and POST /decisions succeed again and again, and the market  *)
(* opens again and again.  Time passes; a time stop makes every entry due. *)
(* The engine drops what it refuses and fills or cancels every order.      *)
Fairness ==
  /\ WF_vars(Tick)
  /\ SF_vars(PassTime)
  /\ SF_vars(BeginReconcile)
  /\ SF_vars(BeginCloseOut)
  /\ SF_vars(\E x \in Exit : RecoverSend(x))
  /\ SF_vars(RecoverAccepted)
  /\ SF_vars(BeginSweep)
  /\ \A e \in Entry : SF_vars(\E x \in Exit : SubmitExit(e, x))
  /\ \A e \in Entry : WF_vars(BecomeDue(e))
  /\ \A x \in Exit : SF_vars((\E e \in Entry : EngineAccept(x, e)) \/ EngineRepeats(x))
  /\ \A x \in Exit : WF_vars(LoseRequest(x))
  /\ \A x \in Exit : WF_vars(FillUnit(x) \/ CancelExit(x))
  /\ \A e \in Entry : WF_vars(FillBuy(e))

FairSpec == Spec /\ Fairness

-----------------------------------------------------------------------------
(* Properties *)

\* At most one exit of an entry is in flight: lost replies, orders that left the
\* window, partial fills and restarts never make the sweep start a second exit
\* next to one that may still sell (the guard of findOpenExitCandidates).
OneExitInFlight ==
  \A x, y \in Exit :
    /\ exit[x] \in InFlightExit /\ exit[y] \in InFlightExit /\ parent[x] = parent[y]
    => x = y

\* An exit that can still sell is tracked: whatever the sweep, the reconciler or a
\* restart do, no exit row is failed, closed or deleted while a first request of it
\* is under way or its order is working, so no second full close can be placed next to it.
LiveExitIsTracked ==
  \A x \in Exit :
    order[x] = "working" \/ (order[x] = "none" /\ x \in inflight) => exit[x] \in InFlightExit

\* An entry is closed or graded only when nothing of its lot is left at the broker,
\* although the positions snapshot lags behind fills (XLK, 2026-10-13), exits fill
\* in parts and orders leave the window: no live position loses its row.
ClosedOnlyWhenSold ==
  \A e \in Entry : entry[e] = "closed" \/ verdicts[e] > 0 => lot[e] = 0

\* Every entry is accounted for once: it never gets two verdicts, nor a verdict and
\* an ungraded stamp, and no entry is closed with neither (a win rate over a hidden
\* subset), also when the process stops between the verdict and the status.
AccountedOnce ==
  \A e \in Entry :
    LET records == verdicts[e] + (IF ungraded[e] THEN 1 ELSE 0)
    IN records <= 1 /\ (entry[e] = "closed" => records = 1)

\* A held entry whose exit rule fires is sold in the end, through lost requests,
\* uncertain acceptance, canceled and partial exits, closed markets and restarts.
DuePositionIsSold == \A e \in Entry : due[e] /\ lot[e] > 0 ~> lot[e] = 0

\* An entry whose lot is gone is accounted for in the end, however it was sold and
\* also after a crash: it never stays open for ever because no fill of it can be
\* matched (the stranded QQQ lots).
SoldEntryIsAccounted ==
  \A e \in Entry : entry[e] = "executed" /\ lot[e] = 0 ~> verdicts[e] > 0 \/ ungraded[e]

\* What close-out-watcher.ts says of a crash in the middle of a sweep: the next tick
\* picks up, so an entry with a verdict is closed in the end.
GradedEntryIsClosed == \A e \in Entry : verdicts[e] > 0 ~> entry[e] = "closed"

\* What exit-evaluator.ts says of exits whose parent is done: no exit of an entry is
\* started at the broker after the entry was closed.
NoExitForClosedEntry ==
  [][\A x \in Exit : order[x] = "none" /\ order'[x] = "working"
                    => entry[parent[x]] # "closed"]_vars

\* What the dispatcher says of one position per symbol: an exit decided for one
\* entry does not sell the lot of another.
ExitSellsOwnLot == \A x \in Exit : order[x] # "none" => victim[x] = parent[x]
=============================================================================
