--------------------------- MODULE EntryLifecycle ---------------------------
(***************************************************************************)
(* The life of an automatic entry: a polled signal, the decision row the   *)
(* dispatcher opens for it, the order the engine places, and the fill.     *)
(*                                                                         *)
(* The trader process runs one tick at a time.  A tick polls, reconciles   *)
(* rows against GET /orders, retries parked rows, converges signals onto   *)
(* rows, dispatches pending signals and closes out finished rows.  The     *)
(* engine works on its own: it accepts requests (also ones whose reply was *)
(* lost), fills, cancels, and refreshes its positions snapshot late.  The  *)
(* process may stop between any two steps and start again.                 *)
(*                                                                         *)
(* Only buy entries are modelled (the strategies are long only).  A fill   *)
(* is one event.  Ages count time units and saturate.            *)
(***************************************************************************)
EXTENDS Integers, FiniteSets

CONSTANTS
  Signal, Decision, Asset, Strategy,
  AssetOf, StrategyOf,       \* the asset and the strategy of every signal
  NoSignal, NoDecision,      \* "nothing" for cur, owner and curDec
  Protected,                 \* rows with a valid entry, stop and target price
  RetryBackoff,              \* next_retry_at = now + 5 min
  ReclaimGrace,              \* RECLAIM_GRACE_MS, 10 min
  RetryAge,                  \* MAX_RETRY_SIGNAL_AGE_MS, 30 min
  HoldSettle,                \* HOLD_SETTLE_MS, 30 min
  OrphanHorizon,             \* RECONCILE_ORPHAN_HORIZON_MS, 6 h
  SignalAgeCap, AgeCap,      \* where the ages of signals and rows saturate, above
                             \* the horizons they are compared with
  FillWindow,                \* the engine fills no order of an older decision
  SweepTime,                 \* bound on the time one dispatch loop takes
  MaxSubmitRetries,          \* MAX_SUBMIT_RETRIES
  MaxCommitteeAttempts,      \* MAX_COMMITTEE_ATTEMPTS
  MaxRestarts,               \* bound on process restarts
  Pausable,                  \* strategies that may be paused
  LateArrival,               \* a request may outlive a backoff or a restart
  Rollover                   \* an order may leave the GET /orders window

ASSUME SignalAssumption ==
  /\ AssetOf \in [Signal -> Asset]
  /\ StrategyOf \in [Signal -> Strategy]
  /\ NoSignal \notin Signal
  /\ NoDecision \notin Decision
  /\ Protected \subseteq Decision
  /\ Pausable \subseteq Strategy

ASSUME BoundAssumption ==
  /\ RetryBackoff \in Nat \ {0}
  /\ {ReclaimGrace, RetryAge, HoldSettle, OrphanHorizon, SignalAgeCap, AgeCap,
      FillWindow, SweepTime} \subseteq Nat
  /\ MaxSubmitRetries \in Nat \ {0}
  /\ MaxCommitteeAttempts \in Nat \ {0}
  /\ MaxRestarts \in Nat
  /\ LateArrival \in BOOLEAN
  /\ Rollover \in BOOLEAN

VARIABLES
  \* trader_signals
  sig,        \* status of every signal; "none" before it is polled
  sigAge,     \* time since generated_at
  failures,   \* committee.run.failed events of the signal
  active,     \* trader_strategies.status = 'active'
  \* trader_decisions
  dec,        \* status of every row; "free" before the INSERT
  owner,      \* signal_id
  acked,      \* engine_order_id is not null
  attempts,   \* submit_attempts
  wait,       \* time until next_retry_at
  decAge,     \* time since decided_at
  \* the engine and the broker
  order,      \* the order of a decision id; "sold" once its lot was exited
  inflight,   \* submissions sent and not yet processed
  listed,     \* orders inside the GET /orders window
  snapHeld,   \* assets with a position in the engine's snapshot
  changed,    \* assets whose position changed within this time unit
  \* the running tick
  pc, cur, curDec, todo, queue, seen, posSnap,
  snapAge,    \* time since posSnap was read
  restarts

sigVars    == <<sig, sigAge, failures>>
decVars    == <<dec, owner, acked, attempts, wait, decAge>>
engineVars == <<order, inflight, listed, snapHeld, changed>>
tickVars   == <<pc, cur, curDec, todo, queue, seen, posSnap, snapAge>>
vars == <<sigVars, active, decVars, engineVars, tickVars, restarts>>

SignalStatus == {"none", "pending", "dispatching", "submitted", "executed",
                 "failed", "suppressed"}
DecisionStatus == {"free", "submitting", "submitted", "pending_fill",
                   "retry_pending", "engine_down", "executed", "closed", "failed"}
OrderStatus == {"none", "working", "filled", "dead", "sold"}
Phase == {"idle", "reconcile", "reconciling", "retry", "retrying", "resubmit",
          "sync", "dispatch", "dispatching", "committee", "submit", "announce",
          "closeout"}

OpenAtBroker == {"submitted", "pending_fill"}
Intent       == {"submitting", "retry_pending", "engine_down"}
OpenEntry    == OpenAtBroker \cup Intent

EntriesOf(s) == {d \in Decision : owner[d] = s}
IsFor(d, a)  == owner[d] \in Signal /\ AssetOf[owner[d]] = a

\* What GET /orders answers: a sold lot's entry order still reads filled.
OrderView == [d \in Decision |->
                IF order[d] = "none" \/ d \notin listed THEN "none"
                ELSE IF order[d] = "sold" THEN "filled" ELSE order[d]]

NoOrders == [d \in Decision |-> "none"]

\* The assets with a position at the broker itself.
BrokerHeld == {a \in Asset : \E d \in Decision : IsFor(d, a) /\ order[d] = "filled"}

Older(age, cap) == IF age < cap THEN age + 1 ELSE age

Sooner(w) == IF w = 0 THEN 0 ELSE w - 1

TypeOK ==
  /\ sig \in [Signal -> SignalStatus]
  /\ sigAge \in [Signal -> Nat]
  /\ failures \in [Signal -> Nat]
  /\ active \in [Strategy -> BOOLEAN]
  /\ dec \in [Decision -> DecisionStatus]
  /\ owner \in [Decision -> Signal \cup {NoSignal}]
  /\ acked \in [Decision -> BOOLEAN]
  /\ attempts \in [Decision -> Nat]
  /\ wait \in [Decision -> Nat]
  /\ decAge \in [Decision -> Nat]
  /\ order \in [Decision -> OrderStatus]
  /\ inflight \subseteq Decision
  /\ listed \subseteq Decision
  /\ snapHeld \subseteq Asset
  /\ changed \subseteq Asset
  /\ pc \in Phase
  /\ cur \in Signal \cup {NoSignal}
  /\ curDec \in Decision \cup {NoDecision}
  /\ todo \subseteq Decision
  /\ queue \subseteq Signal
  /\ seen \in [Decision -> OrderStatus]
  /\ posSnap \subseteq Asset
  /\ snapAge \in Nat
  /\ restarts \in Nat

Init ==
  /\ sig = [s \in Signal |-> "none"]
  /\ sigAge = [s \in Signal |-> 0]
  /\ failures = [s \in Signal |-> 0]
  /\ active = [t \in Strategy |-> TRUE]
  /\ dec = [d \in Decision |-> "free"]
  /\ owner = [d \in Decision |-> NoSignal]
  /\ acked = [d \in Decision |-> FALSE]
  /\ attempts = [d \in Decision |-> 0]
  /\ wait = [d \in Decision |-> 0]
  /\ decAge = [d \in Decision |-> 0]
  /\ order = NoOrders
  /\ inflight = {}
  /\ listed = {}
  /\ snapHeld = {}
  /\ changed = {}
  /\ pc = "idle"
  /\ cur = NoSignal
  /\ curDec = NoDecision
  /\ todo = {}
  /\ queue = {}
  /\ seen = NoOrders
  /\ posSnap = {}
  /\ snapAge = 0
  /\ restarts = 0

-----------------------------------------------------------------------------
(* Poll (phase 1): one transaction inserts candidates whose slot is free.  *)

SameSlot(s, t) == AssetOf[s] = AssetOf[t] /\ StrategyOf[s] = StrategyOf[t]

SlotTaken(s) == \E t \in Signal : sig[t] \in {"pending", "dispatching"} /\ SameSlot(s, t)

StartTick(new) ==
  /\ pc = "idle"
  /\ \A s \in new : sig[s] = "none" /\ ~SlotTaken(s)
  /\ \A s, t \in new : SameSlot(s, t) => s = t
  /\ pc' = "reconcile"
  /\ sig' = [s \in Signal |-> IF s \in new THEN "pending" ELSE sig[s]]
  /\ UNCHANGED <<sigAge, failures, active, decVars, engineVars, restarts,
                 cur, curDec, todo, queue, seen, posSnap, snapAge>>

-----------------------------------------------------------------------------
(* Reconcile (phase 1c): reconcileOpenOrders.                              *)

TrackedRows == {d \in Decision : dec[d] \in OpenAtBroker}

\* Halted reconciler, no open rows, or GET /orders failed: no mutation.
SkipReconcile ==
  /\ pc = "reconcile"
  /\ pc' = "retry"
  /\ UNCHANGED <<sigVars, active, decVars, engineVars, restarts,
                 cur, curDec, todo, queue, seen, posSnap, snapAge>>

BeginReconcile ==
  /\ pc = "reconcile"
  /\ TrackedRows # {}
  /\ pc' = "reconciling"
  /\ todo' = TrackedRows
  /\ seen' = OrderView
  /\ UNCHANGED <<sigVars, active, decVars, engineVars, restarts,
                 cur, curDec, queue, posSnap, snapAge>>

\* mutant: the orphan horizon is looked at before the order
ReconciledAgeFirst(d) ==
  IF decAge[d] >= OrphanHorizon THEN "failed"
  ELSE IF seen[d] = "filled" THEN "executed"
  ELSE IF seen[d] = "dead" THEN "failed"
  ELSE IF seen[d] = "working" THEN "pending_fill"
  ELSE dec[d]

\* Where one row goes, given what the snapshot says of its order.
ReconciledStatus(d) ==
  CASE seen[d] = "filled" -> "executed"
    [] seen[d] = "dead"   -> "failed"
    [] seen[d] = "working" -> "pending_fill"
    [] OTHER -> IF decAge[d] < OrphanHorizon THEN dec[d] ELSE "failed"

ReconcileRow(d) ==
  /\ pc = "reconciling"
  /\ d \in todo
  /\ todo' = todo \ {d}
  /\ dec' = [dec EXCEPT ![d] = ReconciledStatus(d)]
  /\ UNCHANGED <<sigVars, active, owner, acked, attempts, wait, decAge,
                 engineVars, restarts, pc, cur, curDec, queue, seen, posSnap, snapAge>>

EndReconcile ==
  /\ pc = "reconciling"
  /\ todo = {}
  /\ seen' = NoOrders
  /\ pc' = "retry"
  /\ UNCHANGED <<sigVars, active, decVars, engineVars, restarts,
                 cur, curDec, todo, queue, posSnap, snapAge>>

-----------------------------------------------------------------------------
(* Retry sweep (phase 1d): runRetrySweep.                                  *)

\* mutant: engine_down is a grave
ResumedNever(healthy) == {}

Resumed(healthy) == {d \in Decision : healthy /\ dec[d] = "engine_down"}

\* mutant: a parked row is due again at once
DueRowsNoBackoff(healthy) ==
  {d \in Decision : dec[d] = "retry_pending"} \cup Resumed(healthy)

DueRows(healthy) ==
  {d \in Decision : dec[d] = "retry_pending" /\ wait[d] = 0} \cup Resumed(healthy)

\* The rows after the resume statement, those in `parked' moved on to engine_down.
SweptDec(healthy, parked) ==
  [d \in Decision |-> IF d \in parked THEN "engine_down"
                      ELSE IF d \in Resumed(healthy) THEN "retry_pending" ELSE dec[d]]

SweptWait(healthy) == [d \in Decision |-> IF d \in Resumed(healthy) THEN 0 ELSE wait[d]]

\* Entries blocked, reconciler halted, or the market closed.
SkipRetry ==
  /\ pc = "retry"
  /\ pc' = "sync"
  /\ UNCHANGED <<sigVars, active, decVars, engineVars, restarts,
                 cur, curDec, todo, queue, seen, posSnap, snapAge>>

\* GET /orders fails: every due row parks at engine_down.
RetryUnreachable(healthy) ==
  /\ pc = "retry"
  /\ DueRows(healthy) # {}
  /\ dec' = SweptDec(healthy, DueRows(healthy))
  /\ wait' = SweptWait(healthy)
  /\ pc' = "sync"
  /\ UNCHANGED <<sigVars, active, owner, acked, attempts, decAge, engineVars,
                 restarts, cur, curDec, todo, queue, seen, posSnap, snapAge>>

BeginRetry(healthy) ==
  /\ pc = "retry"
  /\ DueRows(healthy) # {}
  /\ dec' = SweptDec(healthy, {})
  /\ wait' = SweptWait(healthy)
  /\ todo' = DueRows(healthy)
  /\ seen' = OrderView
  /\ pc' = "retrying"
  /\ UNCHANGED <<sigVars, active, owner, acked, attempts, decAge, engineVars,
                 restarts, cur, curDec, queue, posSnap, snapAge>>

\* The order is already at the broker: reconcile owns the row again.
RetryMatched(d) ==
  /\ pc = "retrying"
  /\ d \in todo
  /\ seen[d] # "none"
  /\ dec' = [dec EXCEPT ![d] = "submitted"]
  /\ todo' = todo \ {d}
  /\ UNCHANGED <<sigVars, active, owner, acked, attempts, wait, decAge,
                 engineVars, restarts, pc, cur, curDec, queue, seen, posSnap, snapAge>>

\* Budget exhausted, strategy not active, signal expired or row unprotected.
RetryInvalid(d) ==
  \/ attempts[d] >= MaxSubmitRetries
  \/ ~active[StrategyOf[owner[d]]]
  \/ sigAge[owner[d]] > RetryAge
  \/ d \notin Protected

RetryStopped(d) ==
  /\ pc = "retrying"
  /\ d \in todo
  /\ seen[d] = "none"
  /\ RetryInvalid(d)
  /\ dec' = [dec EXCEPT ![d] = "failed"]
  /\ todo' = todo \ {d}
  /\ UNCHANGED <<sigVars, active, owner, acked, attempts, wait, decAge,
                 engineVars, restarts, pc, cur, curDec, queue, seen, posSnap, snapAge>>

RetrySend(d) ==
  /\ pc = "retrying"
  /\ d \in todo
  /\ seen[d] = "none"
  /\ ~RetryInvalid(d)
  /\ inflight' = inflight \cup {d}
  /\ curDec' = d
  /\ todo' = todo \ {d}
  /\ pc' = "resubmit"
  /\ UNCHANGED <<sigVars, active, decVars, order, listed, snapHeld, changed,
                 restarts, cur, queue, seen, posSnap, snapAge>>

\* The reply of a resubmission: accepted (its broker id may be null),
\* refused for good, or nothing usable.
ResubmitAccepted(id) ==
  /\ pc = "resubmit"
  /\ curDec \notin inflight
  /\ order[curDec] # "none"
  /\ dec' = [dec EXCEPT ![curDec] = "submitted"]
  /\ acked' = [acked EXCEPT ![curDec] = id]
  /\ attempts' = [attempts EXCEPT ![curDec] = @ + 1]
  /\ pc' = "retrying"
  /\ curDec' = NoDecision
  /\ UNCHANGED <<sigVars, active, owner, wait, decAge, engineVars, restarts,
                 cur, todo, queue, seen, posSnap, snapAge>>

ResubmitRefused ==
  /\ pc = "resubmit"
  /\ curDec \in inflight
  /\ order[curDec] = "none"
  /\ inflight' = inflight \ {curDec}
  /\ dec' = [dec EXCEPT ![curDec] = "failed"]
  /\ pc' = "retrying"
  /\ curDec' = NoDecision
  /\ UNCHANGED <<sigVars, active, owner, acked, attempts, wait, decAge, order, listed,
                 snapHeld, changed, restarts, cur, todo, queue, seen, posSnap, snapAge>>

ResubmitTransient ==
  /\ pc = "resubmit"
  /\ attempts' = [attempts EXCEPT ![curDec] = @ + 1]
  /\ wait' = [wait EXCEPT ![curDec] = RetryBackoff]
  /\ pc' = "retrying"
  /\ curDec' = NoDecision
  /\ UNCHANGED <<sigVars, active, dec, owner, acked, decAge, engineVars, restarts,
                 cur, todo, queue, seen, posSnap, snapAge>>

EndRetry ==
  /\ pc = "retrying"
  /\ todo = {}
  /\ seen' = NoOrders
  /\ pc' = "sync"
  /\ UNCHANGED <<sigVars, active, decVars, engineVars, restarts,
                 cur, curDec, todo, queue, posSnap, snapAge>>

-----------------------------------------------------------------------------
(* Signal sync (phase 1e): the four statements of syncSignalStatuses.      *)

HasEntry(s, statuses) == \E d \in EntriesOf(s) : dec[d] \in statuses

\* mutant: an old dispatching signal is reclaimed although it owns a row
SyncedReclaimsOwned(s) ==
  IF sig[s] \notin {"dispatching", "submitted"} THEN sig[s]
  ELSE IF HasEntry(s, {"executed"}) THEN "executed"
  ELSE IF sig[s] = "dispatching" /\ HasEntry(s, OpenAtBroker) THEN "submitted"
  ELSE IF HasEntry(s, {"failed"}) /\ ~HasEntry(s, DecisionStatus \ {"failed"}) THEN "failed"
  ELSE IF sig[s] = "dispatching" /\ sigAge[s] > ReclaimGrace THEN "pending"
  ELSE sig[s]

\* mutant: a signal whose rows all failed stays dispatching
SyncedKeepsFailed(s) ==
  IF sig[s] \notin {"dispatching", "submitted"} THEN sig[s]
  ELSE IF HasEntry(s, {"executed"}) THEN "executed"
  ELSE IF sig[s] = "dispatching" /\ HasEntry(s, OpenAtBroker) THEN "submitted"
  ELSE IF sig[s] = "dispatching" /\ sigAge[s] > ReclaimGrace /\ EntriesOf(s) = {} THEN "pending"
  ELSE sig[s]

SyncedStatus(s) ==
  IF sig[s] \notin {"dispatching", "submitted"} THEN sig[s]
  ELSE IF HasEntry(s, {"executed"}) THEN "executed"
  ELSE IF sig[s] = "dispatching" /\ HasEntry(s, OpenAtBroker) THEN "submitted"
  ELSE IF HasEntry(s, {"failed"}) /\ ~HasEntry(s, DecisionStatus \ {"failed"}) THEN "failed"
  ELSE IF sig[s] = "dispatching" /\ sigAge[s] > ReclaimGrace /\ EntriesOf(s) = {} THEN "pending"
  ELSE sig[s]

SyncSignals ==
  /\ pc = "sync"
  /\ sig' = [s \in Signal |-> SyncedStatus(s)]
  /\ pc' = "dispatch"
  /\ UNCHANGED <<sigAge, failures, active, decVars, engineVars, restarts,
                 cur, curDec, todo, queue, seen, posSnap, snapAge>>

-----------------------------------------------------------------------------
(* Auto-dispatch (phase 2): autoDispatchPendingSignals.                    *)

\* Halted, blocked, market closed, no positions, or an unexpected short.
SkipDispatch ==
  /\ pc = "dispatch"
  /\ pc' = "closeout"
  /\ UNCHANGED <<sigVars, active, decVars, engineVars, restarts,
                 cur, curDec, todo, queue, seen, posSnap, snapAge>>

BeginDispatch ==
  /\ pc = "dispatch"
  /\ \E s \in Signal : sig[s] = "pending"
  /\ queue' = {s \in Signal : sig[s] = "pending"}
  /\ posSnap' = snapHeld
  /\ pc' = "dispatching"
  /\ UNCHANGED <<sigVars, active, decVars, engineVars, restarts,
                 cur, curDec, todo, seen, snapAge>>

\* Somebody moved the signal on since the queue was read: the claim fails.
ClaimLost(s) ==
  /\ pc = "dispatching"
  /\ s \in queue
  /\ sig[s] # "pending"
  /\ queue' = queue \ {s}
  /\ UNCHANGED <<sigVars, active, decVars, engineVars, restarts,
                 pc, cur, curDec, todo, seen, posSnap, snapAge>>

OpenEntryFor(a) == \E d \in Decision : IsFor(d, a) /\ dec[d] \in OpenEntry

\* mutant: the positions snapshot alone decides
HeldBySnapshot(a) == a \in posSnap

\* brokerHolds or isAssetHeld: a fresh holding row outranks a flat snapshot.
Held(a) ==
  \/ a \in posSnap
  \/ \E d \in Decision : /\ IsFor(d, a)
                         /\ dec[d] \in OpenEntry \cup {"executed"}
                         /\ decAge[d] <= HoldSettle

\* Gate -2, gate -1 and the pause check let the signal through.
GatesPass(s) ==
  /\ active[StrategyOf[s]]
  /\ ~OpenEntryFor(AssetOf[s])
  /\ ~Held(AssetOf[s])

\* A gate holds the signal back.  The gates on data this model leaves out
\* (staleness, cohort, re-entry, earnings, regime, caps) may each do so.
ClaimSuppressed(s) ==
  /\ pc = "dispatching"
  /\ s \in queue
  /\ sig[s] = "pending"
  /\ sig' = [sig EXCEPT ![s] = "suppressed"]
  /\ queue' = queue \ {s}
  /\ UNCHANGED <<sigAge, failures, active, decVars, engineVars, restarts,
                 pc, cur, curDec, todo, seen, posSnap, snapAge>>

ClaimPassed(s) ==
  /\ pc = "dispatching"
  /\ s \in queue
  /\ sig[s] = "pending"
  /\ GatesPass(s)
  /\ sig' = [sig EXCEPT ![s] = "dispatching"]
  /\ queue' = queue \ {s}
  /\ cur' = s
  /\ pc' = "committee"
  /\ UNCHANGED <<sigAge, failures, active, decVars, engineVars, restarts,
                 curDec, todo, seen, posSnap, snapAge>>

\* The committee run is refused for everybody: requeue and stop the loop.
CommitteeGated ==
  /\ pc = "committee"
  /\ sig' = [sig EXCEPT ![cur] = "pending"]
  /\ cur' = NoSignal
  /\ queue' = {}
  /\ posSnap' = {}
  /\ snapAge' = 0
  /\ pc' = "closeout"
  /\ UNCHANGED <<sigAge, failures, active, decVars, engineVars, restarts,
                 curDec, todo, seen>>

CommitteeThrew ==
  /\ pc = "committee"
  /\ failures' = [failures EXCEPT ![cur] = @ + 1]
  /\ sig' = [sig EXCEPT ![cur] =
               IF failures[cur] + 1 >= MaxCommitteeAttempts THEN "failed" ELSE "pending"]
  /\ cur' = NoSignal
  /\ pc' = "dispatching"
  /\ UNCHANGED <<sigAge, active, decVars, engineVars, restarts,
                 curDec, todo, queue, seen, posSnap, snapAge>>

\* An abstain or a sizing gate suppresses the signal; a throw fails it.
CommitteeDropped(outcome) ==
  /\ pc = "committee"
  /\ outcome \in {"suppressed", "failed"}
  /\ sig' = [sig EXCEPT ![cur] = outcome]
  /\ cur' = NoSignal
  /\ pc' = "dispatching"
  /\ UNCHANGED <<sigAge, failures, active, decVars, engineVars, restarts,
                 curDec, todo, queue, seen, posSnap, snapAge>>

\* The duplicate guard: the broker acknowledged an order of this signal.
AlreadyAcked(s) == \E d \in EntriesOf(s) : acked[d]

DuplicateGuardHit ==
  /\ pc = "committee"
  /\ AlreadyAcked(cur)
  /\ sig' = [sig EXCEPT ![cur] = "executed"]
  /\ cur' = NoSignal
  /\ pc' = "dispatching"
  /\ UNCHANGED <<sigAge, failures, active, decVars, engineVars, restarts,
                 curDec, todo, queue, seen, posSnap, snapAge>>

\* INSERT the row as submitting, then send it.
InsertAndSubmit(d) ==
  /\ pc = "committee"
  /\ ~AlreadyAcked(cur)
  /\ dec[d] = "free"
  /\ dec' = [dec EXCEPT ![d] = "submitting"]
  /\ owner' = [owner EXCEPT ![d] = cur]
  /\ inflight' = inflight \cup {d}
  /\ curDec' = d
  /\ pc' = "submit"
  /\ UNCHANGED <<sigVars, active, acked, attempts, wait, decAge, order, listed,
                 snapHeld, changed, restarts, cur, todo, queue, seen, posSnap, snapAge>>

\* The reply of the submission is written to the row first.
SubmitAccepted(id) ==
  /\ pc = "submit"
  /\ curDec \notin inflight
  /\ order[curDec] # "none"
  /\ dec' = [dec EXCEPT ![curDec] = "submitted"]
  /\ acked' = [acked EXCEPT ![curDec] = id]
  /\ pc' = "announce"
  /\ UNCHANGED <<sigVars, active, owner, attempts, wait, decAge, engineVars,
                 restarts, cur, curDec, todo, queue, seen, posSnap, snapAge>>

SubmitRefused ==
  /\ pc = "submit"
  /\ curDec \in inflight
  /\ order[curDec] = "none"
  /\ inflight' = inflight \ {curDec}
  /\ dec' = [dec EXCEPT ![curDec] = "failed"]
  /\ pc' = "announce"
  /\ UNCHANGED <<sigVars, active, owner, acked, attempts, wait, decAge, order, listed,
                 snapHeld, changed, restarts, cur, curDec, todo, queue, seen, posSnap, snapAge>>

\* Then the signal follows.  If the execution alert cannot be sent, that throw
\* lands in the catch that fails the signal of the accepted order.
Announce(sent) ==
  /\ pc = "announce"
  /\ sig' = [sig EXCEPT ![cur] =
               IF dec[curDec] = "submitted" /\ sent THEN "submitted" ELSE "failed"]
  /\ pc' = "dispatching"
  /\ cur' = NoSignal
  /\ curDec' = NoDecision
  /\ UNCHANGED <<sigAge, failures, active, decVars, engineVars, restarts,
                 todo, queue, seen, posSnap, snapAge>>

SubmitTransient ==
  /\ pc = "submit"
  /\ dec' = [dec EXCEPT ![curDec] = "retry_pending"]
  /\ attempts' = [attempts EXCEPT ![curDec] = 1]
  /\ wait' = [wait EXCEPT ![curDec] = RetryBackoff]
  /\ pc' = "dispatching"
  /\ cur' = NoSignal
  /\ curDec' = NoDecision
  /\ UNCHANGED <<sigVars, active, owner, acked, decAge, engineVars, restarts,
                 todo, queue, seen, posSnap, snapAge>>

EndDispatch ==
  /\ pc = "dispatching"
  /\ queue = {}
  /\ posSnap' = {}
  /\ snapAge' = 0
  /\ pc' = "closeout"
  /\ UNCHANGED <<sigVars, active, decVars, engineVars, restarts,
                 cur, curDec, todo, queue, seen>>

-----------------------------------------------------------------------------
(* Close-out (phase 4), as far as entries see it: a confirmed entry whose  *)
(* lot was sold, on an asset the snapshot shows flat, is closed.           *)

CloseOut(d) ==
  /\ pc = "closeout"
  /\ dec[d] = "executed"
  /\ order[d] = "sold"
  /\ AssetOf[owner[d]] \notin snapHeld
  /\ dec' = [dec EXCEPT ![d] = "closed"]
  /\ UNCHANGED <<sigVars, active, owner, acked, attempts, wait, decAge,
                 engineVars, tickVars, restarts>>

EndTick ==
  /\ pc = "closeout"
  /\ pc' = "idle"
  /\ UNCHANGED <<sigVars, active, decVars, engineVars, restarts,
                 cur, curDec, todo, queue, seen, posSnap, snapAge>>

-----------------------------------------------------------------------------
(* A strategy is paused at any await of the tick; its queue is swept.      *)

PauseStrategy(t) ==
  /\ t \in Pausable
  /\ active[t]
  /\ active' = [active EXCEPT ![t] = FALSE]
  /\ sig' = [s \in Signal |-> IF StrategyOf[s] = t /\ sig[s] = "pending"
                              THEN "suppressed" ELSE sig[s]]
  /\ UNCHANGED <<sigAge, failures, decVars, engineVars, tickVars, restarts>>

-----------------------------------------------------------------------------
(* The engine.  Submissions are idempotent by decision id.                 *)

EngineAccept(d) ==
  /\ d \in inflight
  /\ inflight' = inflight \ {d}
  /\ order' = [order EXCEPT ![d] = IF @ = "none" THEN "working" ELSE @]
  /\ listed' = listed \cup {d}
  /\ UNCHANGED <<sigVars, active, decVars, snapHeld, changed, tickVars, restarts>>

LoseRequest(d) ==
  /\ d \in inflight
  /\ inflight' = inflight \ {d}
  /\ UNCHANGED <<sigVars, active, decVars, order, listed, snapHeld, changed,
                 tickVars, restarts>>

Fill(d) ==
  /\ order[d] = "working"
  /\ decAge[d] <= FillWindow
  /\ order' = [order EXCEPT ![d] = "filled"]
  /\ changed' = changed \cup {AssetOf[owner[d]]}
  /\ UNCHANGED <<sigVars, active, decVars, inflight, listed, snapHeld, tickVars, restarts>>

Cancel(d) ==
  /\ order[d] = "working"
  /\ order' = [order EXCEPT ![d] = "dead"]
  /\ UNCHANGED <<sigVars, active, decVars, inflight, listed, snapHeld, changed,
                 tickVars, restarts>>

RollOff(d) ==
  /\ Rollover
  /\ d \in listed
  /\ listed' = listed \ {d}
  /\ UNCHANGED <<sigVars, active, decVars, order, inflight, snapHeld, changed,
                 tickVars, restarts>>

\* An exit sells the whole position of an asset.
SellPosition(a) ==
  /\ a \in BrokerHeld
  /\ order' = [d \in Decision |-> IF IsFor(d, a) /\ order[d] = "filled"
                                  THEN "sold" ELSE order[d]]
  /\ changed' = changed \cup {a}
  /\ UNCHANGED <<sigVars, active, decVars, inflight, listed, snapHeld, tickVars, restarts>>

RefreshSnapshot ==
  /\ snapHeld # BrokerHeld
  /\ snapHeld' = BrokerHeld
  /\ UNCHANGED <<sigVars, active, decVars, order, inflight, listed, changed,
                 tickVars, restarts>>

-----------------------------------------------------------------------------
(* One time unit passes between ticks or during a committee run.  Requests *)
(* in flight are settled by then, unless LateArrival; positions that       *)
(* changed before the current unit are in the snapshot by then.            *)

\* The age of a signal is read while it waits and while a row of it may be retried.
AgeRead(s) ==
  \/ sig[s] \in {"pending", "dispatching"}
  \/ \E d \in EntriesOf(s) : dec[d] \in Intent

PassTime ==
  /\ pc \in {"idle", "committee"}
  /\ LateArrival \/ inflight = {}
  /\ pc = "committee" => snapAge < SweepTime
  /\ snapAge' = IF pc = "committee" THEN snapAge + 1 ELSE 0
  /\ sigAge' = [s \in Signal |-> IF AgeRead(s) THEN Older(sigAge[s], SignalAgeCap) ELSE sigAge[s]]
  /\ decAge' = [d \in Decision |-> IF dec[d] \in OpenEntry \cup {"executed"}
                                   THEN Older(decAge[d], AgeCap) ELSE decAge[d]]
  /\ wait' = [d \in Decision |-> Sooner(wait[d])]
  /\ snapHeld' = (snapHeld \cap changed) \cup (BrokerHeld \ changed)
  /\ changed' = {}
  /\ UNCHANGED <<sig, failures, active, dec, owner, acked, attempts,
                 order, inflight, listed, restarts,
                 pc, cur, curDec, todo, queue, seen, posSnap>>

-----------------------------------------------------------------------------
(* The process stops anywhere and recoverAfterRestart runs at boot.        *)

\* mutant: only parked rows keep their signal out of the queue
OwnedByParkedRow(s) == HasEntry(s, {"retry_pending", "engine_down"})

OwnedByRow(s) == HasEntry(s, OpenEntry)

Restart ==
  /\ restarts < MaxRestarts
  /\ LateArrival \/ inflight = {}
  /\ restarts' = restarts + 1
  /\ sig' = [s \in Signal |-> IF sig[s] = "dispatching" /\ ~OwnedByRow(s)
                              THEN "pending" ELSE sig[s]]
  /\ dec' = [d \in Decision |-> IF dec[d] \in {"submitting", "engine_down"}
                                THEN "retry_pending" ELSE dec[d]]
  /\ wait' = [d \in Decision |-> IF dec[d] \in {"submitting", "engine_down"}
                                 THEN 0 ELSE wait[d]]
  /\ pc' = "idle"
  /\ cur' = NoSignal
  /\ curDec' = NoDecision
  /\ todo' = {}
  /\ queue' = {}
  /\ seen' = NoOrders
  /\ posSnap' = {}
  /\ snapAge' = 0
  /\ UNCHANGED <<sigAge, failures, active, owner, acked, attempts, decAge, engineVars>>

-----------------------------------------------------------------------------
ReconcilePhase ==
  \/ SkipReconcile \/ BeginReconcile \/ EndReconcile
  \/ \E d \in Decision : ReconcileRow(d)

RetryPhase ==
  \/ SkipRetry \/ EndRetry \/ ResubmitRefused \/ ResubmitTransient
  \/ \E healthy \in BOOLEAN : RetryUnreachable(healthy) \/ BeginRetry(healthy)
  \/ \E d \in Decision : RetryMatched(d) \/ RetryStopped(d) \/ RetrySend(d)
  \/ \E id \in BOOLEAN : ResubmitAccepted(id)

DispatchPhase ==
  \/ SkipDispatch \/ BeginDispatch \/ EndDispatch
  \/ \E s \in Signal : ClaimLost(s) \/ ClaimSuppressed(s) \/ ClaimPassed(s)
  \/ CommitteeGated \/ CommitteeThrew \/ DuplicateGuardHit
  \/ \E outcome \in {"suppressed", "failed"} : CommitteeDropped(outcome)
  \/ \E d \in Decision : InsertAndSubmit(d)
  \/ \E id \in BOOLEAN : SubmitAccepted(id)
  \/ \E sent \in BOOLEAN : Announce(sent)
  \/ SubmitRefused \/ SubmitTransient

Tick ==
  \/ \E new \in SUBSET Signal : StartTick(new)
  \/ ReconcilePhase \/ RetryPhase \/ SyncSignals \/ DispatchPhase
  \/ \E d \in Decision : CloseOut(d)
  \/ EndTick

Engine ==
  \/ \E d \in Decision : EngineAccept(d) \/ LoseRequest(d) \/ Fill(d) \/ Cancel(d) \/ RollOff(d)
  \/ \E a \in Asset : SellPosition(a)
  \/ RefreshSnapshot

Next ==
  \/ Tick \/ Engine \/ PassTime \/ Restart
  \/ \E t \in Strategy : PauseStrategy(t)

Spec == Init /\ [][Next]_vars

(* Fairness.  The interval timer keeps starting ticks and a tick keeps     *)
(* going (every await returns or times out).  Time passes between ticks.   *)
(* The engine answers or drops every request, refreshes its snapshot and   *)
(* fills or cancels every order (it cancels stale ones).  The halt clears, *)
(* the market opens and GET /orders answers again and again.               *)
Fairness ==
  /\ WF_vars(Tick)
  /\ SF_vars(PassTime)
  /\ SF_vars(BeginReconcile)
  /\ SF_vars(BeginRetry(TRUE))
  /\ \A d \in Decision : WF_vars(EngineAccept(d) \/ LoseRequest(d))
  /\ \A d \in Decision : WF_vars(Fill(d) \/ Cancel(d))

FairSpec == Spec /\ Fairness

-----------------------------------------------------------------------------
(* Properties *)

\* One open entry order per asset: the row the dispatcher opens, the retries of
\* a parked row and the recovery of a crashed submission never leave two rows of
\* one asset that may both be (or become) live orders (gate -2 of the dispatcher).
OneOpenEntryPerAsset ==
  \A d, e \in Decision :
    /\ dec[d] \in OpenEntry /\ dec[e] \in OpenEntry
    /\ AssetOf[owner[d]] = AssetOf[owner[e]]
    => d = e

\* A row written off as failed or closed has no order working or filled at the
\* broker: whatever the retry sweep, the reconciler, a refusal or a restart give
\* up on really is dead, so no position is left without a row that manages it.
FailedMeansNoExposure ==
  \A d \in Decision :
    dec[d] \in {"free", "failed", "closed"} => order[d] \notin {"working", "filled"}

\* A row that will be sent (again) keeps its signal dispatching, whatever sync
\* and crash recovery do: that status holds the slot of the unique index, so no
\* second signal of the same asset and strategy is stored next to the retries.
IntentKeepsSlot ==
  \A d \in Decision : dec[d] \in Intent => sig[owner[d]] = "dispatching"

\* At most one order per signal ever has exposure: a requeued signal (a crash, a
\* gated committee, a reclaim) never buys again.
OneOrderPerSignal ==
  \A d, e \in Decision :
    /\ owner[d] = owner[e]
    /\ order[d] \notin {"none", "dead"} /\ order[e] \notin {"none", "dead"}
    => d = e

\* One lot per asset at the broker, across all strategies: the positions
\* snapshot, the settling window and the open rows together keep the dispatcher
\* from buying an asset again while it is held or being bought.
OneLotPerAsset ==
  \A d, e \in Decision :
    /\ order[d] \in {"working", "filled"} /\ order[e] \in {"working", "filled"}
    /\ AssetOf[owner[d]] = AssetOf[owner[e]]
    => d = e

\* The rows and orders of this module, read as the abstract contract's.
ContractPhase ==
  [d \in Decision |->
     CASE dec[d] = "free" -> "unused"
       [] dec[d] \in Intent -> "intent"
       [] dec[d] \in OpenAtBroker -> "tracked"
       [] dec[d] = "executed" -> "held"
       [] OTHER -> "over"]

Contract == INSTANCE OrderContract WITH phase <- ContractPhase, broker <- order

\* Every step of the tick, the engine and a restart keeps the order contract:
\* rows only move forward, a fill is recorded only if it happened, a row is given
\* up only when its order cannot fill any more.
KeepsContract == Contract!Spec

\* A claimed signal never stays claimed (the pipeline freeze signal-state-sync.ts
\* was written for): the slot it blocks is freed, by a submission, a failure or a
\* requeue.
SlotIsFreed == \A s \in Signal : sig[s] = "dispatching" ~> sig[s] # "dispatching"

\* A row that may be live at the broker is settled in the end: confirmed filled,
\* failed or closed, however often the submission, the retries or GET /orders fail.
OpenEntrySettles ==
  \A d \in Decision : dec[d] \in OpenEntry ~> dec[d] \in {"executed", "failed", "closed"}

\* What signal-state-sync.ts says of convergence: once a row is executed and the
\* tick has synced, its signal is executed.
ExecutedRowHasExecutedSignal ==
  \A d \in Decision :
    dec[d] = "executed" /\ pc = "dispatch" => sig[owner[d]] = "executed"

=============================================================================
