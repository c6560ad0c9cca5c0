----------------------- MODULE EntryLifecycleProofs -----------------------
(***************************************************************************)
(* Theorems about EntryLifecycle for every set of signals, rows, assets    *)
(* and strategies and every value of the bounds.                           *)
(***************************************************************************)
EXTENDS EntryLifecycleInv, TLAPS

\* The steps of Next outside the three sweeps and the engine.
OtherStep ==
  \/ \E new \in SUBSET Signal : StartTick(new)
  \/ SyncSignals \/ EndTick \/ PassTime \/ Restart
  \/ \E d \in Decision : CloseOut(d)
  \/ \E t \in Strategy : PauseStrategy(t)

LEMMA NextSplit ==
  Next => ReconcilePhase \/ RetryPhase \/ DispatchPhase \/ Engine \/ OtherStep
  BY Zenon DEF Next, Tick, OtherStep

\* Nothing is open at the start.
LEMMA EntryInvInit == Init => EntryInv
  BY SignalAssumption, BoundAssumption
  DEF Init, EntryInv, TypeOK, RowsOwned, CursorOK, TodoOK, GateStillClear,
      OneOpenEntryPerAsset, OpenEntry, OpenAtBroker, Intent, NoOrders,
      SignalStatus, DecisionStatus, OrderStatus, Phase

\* The reconciler only moves tracked rows, to executed, failed or pending_fill.
LEMMA ReconcileKeepsEntryInv ==
  ASSUME EntryInv,
         ReconcilePhase
  PROVE  EntryInv'
<1> USE SignalAssumption, BoundAssumption
    DEF EntryInv, TypeOK, RowsOwned, CursorOK, TodoOK, GateStillClear,
        OneOpenEntryPerAsset, OpenEntry, OpenAtBroker, Intent,
        sigVars, decVars, engineVars, tickVars
<1>1. CASE SkipReconcile
  BY <1>1 DEF SkipReconcile, Phase
<1>2. CASE BeginReconcile
  BY <1>2 DEF BeginReconcile, Phase, TrackedRows, OrderView, OrderStatus
<1>3. CASE EndReconcile
  BY <1>3 DEF EndReconcile, Phase, NoOrders, OrderStatus
<1>4. ASSUME NEW d \in Decision, ReconcileRow(d) PROVE EntryInv'
  BY <1>4 DEF ReconcileRow, ReconciledStatus, DecisionStatus
<1> QED BY <1>1, <1>2, <1>3, <1>4
  DEF ReconcilePhase

\* The retry sweep moves parked rows; every one it sends was open before.
LEMMA RetryKeepsEntryInv ==
  ASSUME EntryInv,
         RetryPhase
  PROVE  EntryInv'
<1> USE SignalAssumption, BoundAssumption
    DEF EntryInv, TypeOK, RowsOwned, CursorOK, TodoOK, GateStillClear,
        OneOpenEntryPerAsset, OpenEntry, OpenAtBroker, Intent,
        sigVars, decVars, engineVars, tickVars
<1>1. CASE SkipRetry
  BY <1>1 DEF SkipRetry, Phase
<1>2. CASE EndRetry
  BY <1>2 DEF EndRetry, Phase, NoOrders, OrderStatus
<1>3. CASE ResubmitRefused
  BY <1>3 DEF ResubmitRefused, Phase, DecisionStatus
<1>4. CASE ResubmitTransient
  BY <1>4 DEF ResubmitTransient, Phase
<1>5. ASSUME NEW healthy \in BOOLEAN, RetryUnreachable(healthy) PROVE EntryInv'
  BY <1>5 DEF RetryUnreachable, Phase, DecisionStatus, SweptDec, SweptWait,
    DueRows, Resumed
<1>6. ASSUME NEW healthy \in BOOLEAN, BeginRetry(healthy) PROVE EntryInv'
  BY <1>6 DEF BeginRetry, Phase, DecisionStatus, OrderStatus, OrderView,
    SweptDec, SweptWait, DueRows, Resumed
<1>7. ASSUME NEW d \in Decision, RetryMatched(d) PROVE EntryInv'
  BY <1>7 DEF RetryMatched, DecisionStatus
<1>8. ASSUME NEW d \in Decision, RetryStopped(d) PROVE EntryInv'
  BY <1>8 DEF RetryStopped, DecisionStatus
<1>9. ASSUME NEW d \in Decision, RetrySend(d) PROVE EntryInv'
  BY <1>9 DEF RetrySend, Phase
<1>10. ASSUME NEW id \in BOOLEAN, ResubmitAccepted(id) PROVE EntryInv'
  BY <1>10 DEF ResubmitAccepted, Phase, DecisionStatus
<1> QED BY <1>1, <1>2, <1>3, <1>4, <1>5, <1>6, <1>7, <1>8, <1>9, <1>10
  DEF RetryPhase

\* The dispatcher is the only one to open a row, and only after its gates.
LEMMA DispatchKeepsEntryInv ==
  ASSUME EntryInv,
         DispatchPhase
  PROVE  EntryInv'
<1> USE SignalAssumption, BoundAssumption
    DEF EntryInv, TypeOK, RowsOwned, CursorOK, TodoOK, GateStillClear,
        OneOpenEntryPerAsset, OpenEntry, OpenAtBroker, Intent,
        sigVars, decVars, engineVars, tickVars
<1>1. CASE SkipDispatch
  BY <1>1 DEF SkipDispatch, Phase
<1>2. CASE BeginDispatch
  BY <1>2 DEF BeginDispatch, Phase
<1>3. CASE EndDispatch
  BY <1>3 DEF EndDispatch, Phase
<1>4. ASSUME NEW s \in Signal, ClaimLost(s) PROVE EntryInv'
  BY <1>4 DEF ClaimLost
<1>5. ASSUME NEW s \in Signal, ClaimSuppressed(s) PROVE EntryInv'
  BY <1>5 DEF ClaimSuppressed, SignalStatus
<1>6. ASSUME NEW s \in Signal, ClaimPassed(s) PROVE EntryInv'
  BY <1>6 DEF ClaimPassed, Phase, SignalStatus, GatesPass, OpenEntryFor, IsFor
<1>7. CASE CommitteeGated
  BY <1>7 DEF CommitteeGated, Phase, SignalStatus
<1>8. CASE CommitteeThrew
  BY <1>8 DEF CommitteeThrew, Phase, SignalStatus
<1>9. CASE DuplicateGuardHit
  BY <1>9 DEF DuplicateGuardHit, Phase, SignalStatus
<1>10. ASSUME NEW outcome \in {"suppressed", "failed"}, CommitteeDropped(outcome) PROVE EntryInv'
  BY <1>10 DEF CommitteeDropped, Phase, SignalStatus
<1>11. ASSUME NEW d \in Decision, InsertAndSubmit(d) PROVE EntryInv'
  BY <1>11 DEF InsertAndSubmit, Phase, DecisionStatus
<1>12. ASSUME NEW id \in BOOLEAN, SubmitAccepted(id) PROVE EntryInv'
  BY <1>12 DEF SubmitAccepted, Phase, DecisionStatus
<1>13. ASSUME NEW sent \in BOOLEAN, Announce(sent) PROVE EntryInv'
  BY <1>13 DEF Announce, Phase, SignalStatus
<1>14. CASE SubmitRefused
  BY <1>14 DEF SubmitRefused, Phase, DecisionStatus
<1>15. CASE SubmitTransient
  BY <1>15 DEF SubmitTransient, Phase, DecisionStatus
<1> QED BY <1>1, <1>2, <1>3, <1>4, <1>5, <1>6, <1>7, <1>8, <1>9, <1>10, <1>11,
  <1>12, <1>13, <1>14, <1>15
  DEF DispatchPhase

\* The engine touches no row.
LEMMA EngineKeepsEntryInv ==
  ASSUME EntryInv,
         Engine
  PROVE  EntryInv'
<1> USE SignalAssumption, BoundAssumption
    DEF EntryInv, TypeOK, RowsOwned, CursorOK, TodoOK, GateStillClear,
        OneOpenEntryPerAsset, OpenEntry, OpenAtBroker, Intent,
        sigVars, decVars, engineVars, tickVars
<1>1. ASSUME NEW d \in Decision, EngineAccept(d) PROVE EntryInv'
  BY <1>1 DEF EngineAccept, OrderStatus
<1>2. ASSUME NEW d \in Decision, LoseRequest(d) PROVE EntryInv'
  BY <1>2 DEF LoseRequest
<1>3. ASSUME NEW d \in Decision, Fill(d) PROVE EntryInv'
  BY <1>3 DEF Fill, OrderStatus
<1>4. ASSUME NEW d \in Decision, Cancel(d) PROVE EntryInv'
  BY <1>4 DEF Cancel, OrderStatus
<1>5. ASSUME NEW d \in Decision, RollOff(d) PROVE EntryInv'
  BY <1>5 DEF RollOff
<1>6. ASSUME NEW a \in Asset, SellPosition(a) PROVE EntryInv'
  BY <1>6 DEF SellPosition, OrderStatus
<1>7. CASE RefreshSnapshot
  BY <1>7 DEF RefreshSnapshot, BrokerHeld
<1> QED BY <1>1, <1>2, <1>3, <1>4, <1>5, <1>6, <1>7
  DEF Engine

\* Ages and backoffs stay natural numbers as time passes.
LEMMA PassTimeTypes ==
  ASSUME TypeOK, PassTime
  PROVE  TypeOK'
  BY BoundAssumption DEF TypeOK, PassTime, tickVars, Older, Sooner, BrokerHeld

\* Polling, sync, close-out, time, pauses and a crash open no row.
LEMMA OtherKeepsEntryInv ==
  ASSUME EntryInv,
         OtherStep
  PROVE  EntryInv'
<1> USE SignalAssumption, BoundAssumption
    DEF EntryInv, TypeOK, RowsOwned, CursorOK, TodoOK, GateStillClear,
        OneOpenEntryPerAsset, OpenEntry, OpenAtBroker, Intent,
        sigVars, decVars, engineVars, tickVars
<1>1. ASSUME NEW new \in SUBSET Signal, StartTick(new) PROVE EntryInv'
  BY <1>1 DEF StartTick, Phase, SignalStatus
<1>2. CASE SyncSignals
  BY <1>2 DEF SyncSignals, Phase, SignalStatus, SyncedStatus
<1>3. ASSUME NEW d \in Decision, CloseOut(d) PROVE EntryInv'
  BY <1>3 DEF CloseOut, DecisionStatus
<1>4. CASE EndTick
  BY <1>4 DEF EndTick, Phase
<1>5. CASE PassTime
  <2>1. TypeOK'
    BY <1>5, PassTimeTypes
  <2>2. RowsOwned' /\ CursorOK' /\ TodoOK'
    BY <1>5 DEF PassTime
  <2>3. GateStillClear' /\ OneOpenEntryPerAsset'
    BY <1>5 DEF PassTime
  <2> QED BY <2>1, <2>2, <2>3
<1>6. CASE Restart
  BY <1>6 DEF Restart, Phase, SignalStatus, DecisionStatus, NoOrders,
    OrderStatus
<1>7. ASSUME NEW t \in Strategy, PauseStrategy(t) PROVE EntryInv'
  BY <1>7 DEF PauseStrategy, SignalStatus
<1> QED BY <1>1, <1>2, <1>3, <1>4, <1>5, <1>6, <1>7
  DEF OtherStep

\* Every step of the specification keeps EntryInv.
LEMMA EntryInvNext == EntryInv /\ [Next]_vars => EntryInv'
<1> SUFFICES ASSUME EntryInv, [Next]_vars PROVE EntryInv'
  OBVIOUS
<1>1. CASE ReconcilePhase  BY <1>1, ReconcileKeepsEntryInv
<1>2. CASE RetryPhase  BY <1>2, RetryKeepsEntryInv
<1>3. CASE DispatchPhase  BY <1>3, DispatchKeepsEntryInv
<1>4. CASE Engine  BY <1>4, EngineKeepsEntryInv
<1>5. CASE OtherStep  BY <1>5, OtherKeepsEntryInv
<1>6. CASE UNCHANGED vars
  BY <1>6 DEF vars, sigVars, decVars, engineVars, tickVars, EntryInv, TypeOK,
     RowsOwned, CursorOK, TodoOK, GateStillClear, OneOpenEntryPerAsset
<1> QED BY <1>1, <1>2, <1>3, <1>4, <1>5, <1>6, NextSplit DEF vars

THEOREM EntryInvariant == Spec => []EntryInv
  BY EntryInvInit, EntryInvNext, PTL DEF Spec

\* Types are right in every reachable state.
THEOREM TypeCorrect == Spec => []TypeOK
<1>1. EntryInv => TypeOK  BY DEF EntryInv
<1> QED BY <1>1, EntryInvariant, PTL

\* The dispatcher, the retries and crash recovery never have two open entry rows
\* on one asset (gate -2 of autoDispatchPendingSignals), whatever the engine does
\* and however often the process crashes.
THEOREM OneOpenEntry == Spec => []OneOpenEntryPerAsset
<1>1. EntryInv => OneOpenEntryPerAsset  BY DEF EntryInv
<1> QED BY <1>1, EntryInvariant, PTL

-----------------------------------------------------------------------------
(* The order contract, when requests settle within a backoff and orders     *)
(* stay in the GET /orders window.                                          *)

\* A request is settled before its row is due again and before a restart is
\* over, and GET /orders shows every order of the rows that are open.
Settled == ~LateArrival /\ ~Rollover

-----------------------------------------------------------------------------
\* No orders, no requests, no rows at the start.
LEMMA OrderInvInit == Init => OrderInv
<1>1. Init => EntryInv  BY EntryInvInit
<1>2. Init => OrdersKnown
  BY DEF Init, OrdersKnown, InflightOK, StatusMatchesOrder, AllListed, SeenOK,
     OpenAtBroker, NoOrders
<1> QED BY <1>1, <1>2 DEF OrderInv

\* The reconciler records what the snapshot shows, and the snapshot is not wrong.
LEMMA ReconcileKeepsOrders ==
  ASSUME OrderInv, Settled,
         ReconcilePhase
  PROVE  OrdersKnown'
<1> USE SignalAssumption, BoundAssumption, Settled
    DEF Settled, OrderInv, EntryInv, TypeOK, RowsOwned, CursorOK, TodoOK,
        OrdersKnown, InflightOK, StatusMatchesOrder, AllListed, SeenOK,
        OpenAtBroker, Intent, sigVars, decVars, engineVars, tickVars
<1>1. CASE SkipReconcile
  BY <1>1 DEF SkipReconcile
<1>2. CASE BeginReconcile
  BY <1>2 DEF BeginReconcile, TrackedRows, OrderView, OrderStatus
<1>3. CASE EndReconcile
  BY <1>3 DEF EndReconcile, NoOrders, OrderStatus
<1>4. ASSUME NEW d \in Decision, ReconcileRow(d) PROVE OrdersKnown'
  BY <1>4 DEF ReconcileRow, ReconciledStatus, OrderStatus
<1> QED BY <1>1, <1>2, <1>3, <1>4
  DEF ReconcilePhase

\* The sweep gives a row up only when the snapshot shows no order and none is
\* in flight; a reply moves the row only with its order there.
LEMMA RetryKeepsOrders ==
  ASSUME OrderInv, Settled,
         RetryPhase
  PROVE  OrdersKnown'
<1> USE SignalAssumption, BoundAssumption, Settled
    DEF Settled, OrderInv, EntryInv, TypeOK, RowsOwned, CursorOK, TodoOK,
        OrdersKnown, InflightOK, StatusMatchesOrder, AllListed, SeenOK,
        OpenAtBroker, Intent, sigVars, decVars, engineVars, tickVars
<1>1. CASE SkipRetry
  BY <1>1 DEF SkipRetry
<1>2. CASE EndRetry
  BY <1>2 DEF EndRetry, NoOrders, OrderStatus
<1>3. CASE ResubmitRefused
  BY <1>3 DEF ResubmitRefused
<1>4. CASE ResubmitTransient
  BY <1>4 DEF ResubmitTransient
<1>5. ASSUME NEW healthy \in BOOLEAN, RetryUnreachable(healthy) PROVE OrdersKnown'
  BY <1>5 DEF RetryUnreachable, SweptDec, SweptWait, DueRows, Resumed
<1>6. ASSUME NEW healthy \in BOOLEAN, BeginRetry(healthy) PROVE OrdersKnown'
  BY <1>6 DEF BeginRetry, OrderStatus, OrderView, SweptDec, SweptWait,
    DueRows, Resumed
<1>7. ASSUME NEW d \in Decision, RetryMatched(d) PROVE OrdersKnown'
  BY <1>7 DEF RetryMatched
<1>8. ASSUME NEW d \in Decision, RetryStopped(d) PROVE OrdersKnown'
  BY <1>8 DEF RetryStopped
<1>9. ASSUME NEW d \in Decision, RetrySend(d) PROVE OrdersKnown'
  BY <1>9 DEF RetrySend
<1>10. ASSUME NEW id \in BOOLEAN, ResubmitAccepted(id) PROVE OrdersKnown'
  BY <1>10 DEF ResubmitAccepted
<1> QED BY <1>1, <1>2, <1>3, <1>4, <1>5, <1>6, <1>7, <1>8, <1>9, <1>10
  DEF RetryPhase

\* A submission is in flight until its reply, or until its row backs off.
LEMMA DispatchKeepsOrders ==
  ASSUME OrderInv, Settled,
         DispatchPhase
  PROVE  OrdersKnown'
<1> USE SignalAssumption, BoundAssumption, Settled
    DEF Settled, OrderInv, EntryInv, TypeOK, RowsOwned, CursorOK, TodoOK,
        OrdersKnown, InflightOK, StatusMatchesOrder, AllListed, SeenOK,
        OpenAtBroker, Intent, sigVars, decVars, engineVars, tickVars
<1>1. CASE SkipDispatch
  BY <1>1 DEF SkipDispatch
<1>2. CASE BeginDispatch
  BY <1>2 DEF BeginDispatch
<1>3. CASE EndDispatch
  BY <1>3 DEF EndDispatch
<1>4. ASSUME NEW s \in Signal, ClaimLost(s) PROVE OrdersKnown'
  BY <1>4 DEF ClaimLost
<1>5. ASSUME NEW s \in Signal, ClaimSuppressed(s) PROVE OrdersKnown'
  BY <1>5 DEF ClaimSuppressed
<1>6. ASSUME NEW s \in Signal, ClaimPassed(s) PROVE OrdersKnown'
  BY <1>6 DEF ClaimPassed, GatesPass, OpenEntryFor, IsFor
<1>7. CASE CommitteeGated
  BY <1>7 DEF CommitteeGated
<1>8. CASE CommitteeThrew
  BY <1>8 DEF CommitteeThrew
<1>9. CASE DuplicateGuardHit
  BY <1>9 DEF DuplicateGuardHit
<1>10. ASSUME NEW outcome \in {"suppressed", "failed"}, CommitteeDropped(outcome) PROVE OrdersKnown'
  BY <1>10 DEF CommitteeDropped
<1>11. ASSUME NEW d \in Decision, InsertAndSubmit(d) PROVE OrdersKnown'
  BY <1>11 DEF InsertAndSubmit
<1>12. ASSUME NEW id \in BOOLEAN, SubmitAccepted(id) PROVE OrdersKnown'
  BY <1>12 DEF SubmitAccepted
<1>13. ASSUME NEW sent \in BOOLEAN, Announce(sent) PROVE OrdersKnown'
  BY <1>13 DEF Announce
<1>14. CASE SubmitRefused
  BY <1>14 DEF SubmitRefused
<1>15. CASE SubmitTransient
  BY <1>15 DEF SubmitTransient
<1> QED BY <1>1, <1>2, <1>3, <1>4, <1>5, <1>6, <1>7, <1>8, <1>9, <1>10, <1>11,
  <1>12, <1>13, <1>14, <1>15
  DEF DispatchPhase

\* The engine moves orders forward only.
LEMMA EngineKeepsOrders ==
  ASSUME OrderInv, Settled,
         Engine
  PROVE  OrdersKnown'
<1> USE SignalAssumption, BoundAssumption, Settled
    DEF Settled, OrderInv, EntryInv, TypeOK, RowsOwned, CursorOK, TodoOK,
        OrdersKnown, InflightOK, StatusMatchesOrder, AllListed, SeenOK,
        OpenAtBroker, Intent, sigVars, decVars, engineVars, tickVars
<1>1. ASSUME NEW d \in Decision, EngineAccept(d) PROVE OrdersKnown'
  BY <1>1 DEF EngineAccept, OrderStatus
<1>2. ASSUME NEW d \in Decision, LoseRequest(d) PROVE OrdersKnown'
  BY <1>2 DEF LoseRequest
<1>3. ASSUME NEW d \in Decision, Fill(d) PROVE OrdersKnown'
  BY <1>3 DEF Fill, OrderStatus
<1>4. ASSUME NEW d \in Decision, Cancel(d) PROVE OrdersKnown'
  BY <1>4 DEF Cancel, OrderStatus
<1>5. ASSUME NEW d \in Decision, RollOff(d) PROVE OrdersKnown'
  BY <1>5 DEF RollOff
<1>6. ASSUME NEW a \in Asset, SellPosition(a) PROVE OrdersKnown'
  BY <1>6 DEF SellPosition, OrderStatus
<1>7. CASE RefreshSnapshot
  BY <1>7 DEF RefreshSnapshot, BrokerHeld
<1> QED BY <1>1, <1>2, <1>3, <1>4, <1>5, <1>6, <1>7
  DEF Engine

\* Time passes and the process restarts only with nothing in flight.
LEMMA OtherKeepsOrders ==
  ASSUME OrderInv, Settled,
         OtherStep
  PROVE  OrdersKnown'
<1> USE SignalAssumption, BoundAssumption, Settled
    DEF Settled, OrderInv, EntryInv, TypeOK, RowsOwned, CursorOK, TodoOK,
        OrdersKnown, InflightOK, StatusMatchesOrder, AllListed, SeenOK,
        OpenAtBroker, Intent, sigVars, decVars, engineVars, tickVars
<1>1. ASSUME NEW new \in SUBSET Signal, StartTick(new) PROVE OrdersKnown'
  BY <1>1 DEF StartTick
<1>2. CASE SyncSignals
  BY <1>2 DEF SyncSignals, SyncedStatus
<1>3. ASSUME NEW d \in Decision, CloseOut(d) PROVE OrdersKnown'
  BY <1>3 DEF CloseOut
<1>4. CASE EndTick
  BY <1>4 DEF EndTick
<1>5. CASE PassTime
  BY <1>5 DEF PassTime, Older, Sooner, BrokerHeld
<1>6. CASE Restart
  BY <1>6 DEF Restart, NoOrders, OrderStatus
<1>7. ASSUME NEW t \in Strategy, PauseStrategy(t) PROVE OrdersKnown'
  BY <1>7 DEF PauseStrategy
<1> QED BY <1>1, <1>2, <1>3, <1>4, <1>5, <1>6, <1>7
  DEF OtherStep

\* Every step keeps OrderInv.
LEMMA OrderInvNext == OrderInv /\ Settled /\ [Next]_vars => OrderInv'
<1> SUFFICES ASSUME OrderInv, Settled, [Next]_vars PROVE OrderInv'
  OBVIOUS
<1>1. EntryInv'  BY EntryInvNext DEF OrderInv
<1>2. OrdersKnown'
  <2>1. CASE ReconcilePhase  BY <2>1, ReconcileKeepsOrders
  <2>2. CASE RetryPhase  BY <2>2, RetryKeepsOrders
  <2>3. CASE DispatchPhase  BY <2>3, DispatchKeepsOrders
  <2>4. CASE Engine  BY <2>4, EngineKeepsOrders
  <2>5. CASE OtherStep  BY <2>5, OtherKeepsOrders
  <2>6. CASE UNCHANGED vars
    BY <2>6 DEF vars, decVars, engineVars, tickVars, OrderInv, OrdersKnown,
       InflightOK, StatusMatchesOrder, AllListed, SeenOK
  <2> QED BY <2>1, <2>2, <2>3, <2>4, <2>5, <2>6, NextSplit DEF vars
<1> QED BY <1>1, <1>2 DEF OrderInv

THEOREM OrderInvariant == Settled => (Spec => []OrderInv)
<1> SUFFICES ASSUME Settled PROVE Spec => []OrderInv
  OBVIOUS
<1>1. OrderInv /\ [Next]_vars => OrderInv'  BY OrderInvNext
<1> QED BY <1>1, OrderInvInit, PTL DEF Spec

\* Under Settled, a row given up as failed or closed has nothing working or
\* filled at the broker: the retry sweep, the reconciler, a refused submission
\* and crash recovery never lose a position.
THEOREM NoLostExposure == Settled => (Spec => []FailedMeansNoExposure)
<1> SUFFICES ASSUME Settled PROVE Spec => []FailedMeansNoExposure
  OBVIOUS
<1>1. OrderInv => FailedMeansNoExposure
  BY DEF OrderInv, EntryInv, RowsOwned, OrdersKnown, StatusMatchesOrder,
     FailedMeansNoExposure
<1> QED BY <1>1, OrderInvariant, PTL

-----------------------------------------------------------------------------
\* The step of the order contract a step of the program is.
ContractStep == Contract!Next \/ UNCHANGED <<ContractPhase, order>>

\* A step that moves neither rows nor orders is a stutter of the contract.
LEMMA QuietStep ==
  ASSUME UNCHANGED <<dec, order>>
  PROVE  UNCHANGED <<ContractPhase, order>>
  BY DEF ContractPhase

\* A reconciled row is confirmed, dropped or left where it is.
LEMMA ReconcileKeepsContract ==
  ASSUME OrderInv, Settled,
         ReconcilePhase
  PROVE  ContractStep
<1> USE SignalAssumption, Settled
    DEF Settled, OrderInv, EntryInv, TypeOK, RowsOwned, CursorOK, TodoOK, OrdersKnown,
        InflightOK, StatusMatchesOrder, SeenOK, ContractStep,
        sigVars, decVars, engineVars, tickVars
<1>1. CASE SkipReconcile
  BY <1>1, QuietStep DEF SkipReconcile
<1>2. CASE BeginReconcile
  BY <1>2, QuietStep DEF BeginReconcile
<1>3. CASE EndReconcile
  BY <1>3, QuietStep DEF EndReconcile
<1>4. ASSUME NEW d \in Decision, ReconcileRow(d) PROVE ContractStep
  <2>1. CASE seen[d] = "filled"
    <3>1. Contract!Confirm(d)
      BY <1>4, <2>1 DEF Contract!Confirm, Contract!Move, ContractPhase,
        OpenAtBroker, Intent, ReconcileRow, ReconciledStatus
    <3> QED BY <3>1 DEF Contract!Next
  <2>2. CASE seen[d] = "dead"
    <3>1. Contract!Drop(d)
      BY <1>4, <2>2 DEF Contract!Drop, Contract!Move, ContractPhase,
        OpenAtBroker, Intent, ReconcileRow, ReconciledStatus
    <3> QED BY <3>1 DEF Contract!Next
  <2>3. CASE seen[d] \in {"working", "none"}
    BY <1>4, <2>3 DEF ReconcileRow, ReconciledStatus, ContractPhase,
      OpenAtBroker, Intent, StatusMatchesOrder
  <2> QED BY <1>4, <2>1, <2>2, <2>3 DEF ReconcileRow, OrderStatus
<1> QED BY <1>1, <1>2, <1>3, <1>4
  DEF ReconcilePhase

\* A retried row is tracked when its order is there and dropped only without one.
LEMMA RetryKeepsContract ==
  ASSUME OrderInv, Settled,
         RetryPhase
  PROVE  ContractStep
<1> USE SignalAssumption, Settled
    DEF Settled, OrderInv, EntryInv, TypeOK, RowsOwned, CursorOK, TodoOK, OrdersKnown,
        InflightOK, StatusMatchesOrder, SeenOK, ContractStep,
        sigVars, decVars, engineVars, tickVars
<1>1. CASE SkipRetry
  BY <1>1, QuietStep DEF SkipRetry
<1>2. CASE EndRetry
  BY <1>2, QuietStep DEF EndRetry
<1>3. CASE ResubmitRefused
  <2>1. Contract!Drop(curDec)
    BY <1>3 DEF ResubmitRefused, Contract!Drop, Contract!Move, ContractPhase,
      OpenAtBroker, Intent
  <2> QED BY <2>1, <1>3 DEF Contract!Next, ResubmitRefused
<1>4. CASE ResubmitTransient
  BY <1>4, QuietStep DEF ResubmitTransient
<1>5. ASSUME NEW healthy \in BOOLEAN, RetryUnreachable(healthy) PROVE ContractStep
  BY <1>5 DEF RetryUnreachable, DueRows, Resumed, SweptDec, ContractPhase,
    OpenAtBroker, Intent
<1>6. ASSUME NEW healthy \in BOOLEAN, BeginRetry(healthy) PROVE ContractStep
  BY <1>6 DEF BeginRetry, Resumed, SweptDec, ContractPhase, OpenAtBroker,
    Intent
<1>7. ASSUME NEW d \in Decision, RetryMatched(d) PROVE ContractStep
  <2>1. Contract!Track(d)
    BY <1>7 DEF RetryMatched, Contract!Track, Contract!Move, ContractPhase,
      OpenAtBroker, Intent
  <2> QED BY <2>1 DEF Contract!Next
<1>8. ASSUME NEW d \in Decision, RetryStopped(d) PROVE ContractStep
  <2>1. Contract!Drop(d)
    BY <1>8 DEF RetryStopped, Contract!Drop, Contract!Move, ContractPhase,
      OpenAtBroker, Intent
  <2> QED BY <2>1 DEF Contract!Next
<1>9. ASSUME NEW d \in Decision, RetrySend(d) PROVE ContractStep
  BY <1>9, QuietStep DEF RetrySend
<1>10. ASSUME NEW id \in BOOLEAN, ResubmitAccepted(id) PROVE ContractStep
  <2>1. Contract!Track(curDec)
    BY <1>10 DEF ResubmitAccepted, Contract!Track, Contract!Move,
      ContractPhase, OpenAtBroker, Intent
  <2> QED BY <2>1, <1>10 DEF Contract!Next, ResubmitAccepted
<1> QED BY <1>1, <1>2, <1>3, <1>4, <1>5, <1>6, <1>7, <1>8, <1>9, <1>10
  DEF RetryPhase

\* The dispatcher opens a row, and tracks or drops it by the engine's reply.
LEMMA DispatchKeepsContract ==
  ASSUME OrderInv, Settled,
         DispatchPhase
  PROVE  ContractStep
<1> USE SignalAssumption, Settled
    DEF Settled, OrderInv, EntryInv, TypeOK, RowsOwned, CursorOK, TodoOK, OrdersKnown,
        InflightOK, StatusMatchesOrder, SeenOK, ContractStep,
        sigVars, decVars, engineVars, tickVars
<1>1. CASE SkipDispatch
  BY <1>1, QuietStep DEF SkipDispatch
<1>2. CASE BeginDispatch
  BY <1>2, QuietStep DEF BeginDispatch
<1>3. CASE EndDispatch
  BY <1>3, QuietStep DEF EndDispatch
<1>4. ASSUME NEW s \in Signal, ClaimLost(s) PROVE ContractStep
  BY <1>4, QuietStep DEF ClaimLost
<1>5. ASSUME NEW s \in Signal, ClaimSuppressed(s) PROVE ContractStep
  BY <1>5, QuietStep DEF ClaimSuppressed
<1>6. ASSUME NEW s \in Signal, ClaimPassed(s) PROVE ContractStep
  BY <1>6, QuietStep DEF ClaimPassed
<1>7. CASE CommitteeGated
  BY <1>7, QuietStep DEF CommitteeGated
<1>8. CASE CommitteeThrew
  BY <1>8, QuietStep DEF CommitteeThrew
<1>9. CASE DuplicateGuardHit
  BY <1>9, QuietStep DEF DuplicateGuardHit
<1>10. ASSUME NEW outcome \in {"suppressed", "failed"}, CommitteeDropped(outcome) PROVE ContractStep
  BY <1>10, QuietStep DEF CommitteeDropped
<1>11. ASSUME NEW d \in Decision, InsertAndSubmit(d) PROVE ContractStep
  <2>1. Contract!Open(d)
    BY <1>11 DEF InsertAndSubmit, Contract!Open, Contract!Move, ContractPhase,
      OpenAtBroker, Intent
  <2> QED BY <2>1 DEF Contract!Next
<1>12. ASSUME NEW id \in BOOLEAN, SubmitAccepted(id) PROVE ContractStep
  <2>1. Contract!Track(curDec)
    BY <1>12 DEF SubmitAccepted, Contract!Track, Contract!Move, ContractPhase,
      OpenAtBroker, Intent
  <2> QED BY <2>1, <1>12 DEF Contract!Next, SubmitAccepted
<1>13. ASSUME NEW sent \in BOOLEAN, Announce(sent) PROVE ContractStep
  BY <1>13, QuietStep DEF Announce
<1>14. CASE SubmitRefused
  <2>1. Contract!Drop(curDec)
    BY <1>14 DEF SubmitRefused, Contract!Drop, Contract!Move, ContractPhase,
      OpenAtBroker, Intent
  <2> QED BY <2>1, <1>14 DEF Contract!Next, SubmitRefused
<1>15. CASE SubmitTransient
  BY <1>15 DEF SubmitTransient, ContractPhase, OpenAtBroker, Intent
<1> QED BY <1>1, <1>2, <1>3, <1>4, <1>5, <1>6, <1>7, <1>8, <1>9, <1>10, <1>11,
  <1>12, <1>13, <1>14, <1>15
  DEF DispatchPhase

\* The engine places, fills, cancels and sells.
LEMMA EngineKeepsContract ==
  ASSUME OrderInv, Settled,
         Engine
  PROVE  ContractStep
<1> USE SignalAssumption, Settled
    DEF Settled, OrderInv, EntryInv, TypeOK, RowsOwned, CursorOK, TodoOK, OrdersKnown,
        InflightOK, StatusMatchesOrder, SeenOK, ContractStep,
        sigVars, decVars, engineVars, tickVars
<1>1. ASSUME NEW d \in Decision, EngineAccept(d) PROVE ContractStep
  <2>1. CASE order[d] = "none"
    <3>1. Contract!Place(d)
      BY <1>1, <2>1 DEF Contract!Place, Contract!Turn, ContractPhase,
        EngineAccept, InflightOK, Intent
    <3> QED BY <3>1 DEF Contract!Next
  <2>2. CASE order[d] # "none"
    BY <1>1, <2>2 DEF EngineAccept, ContractPhase
  <2> QED BY <2>1, <2>2
<1>2. ASSUME NEW d \in Decision, LoseRequest(d) PROVE ContractStep
  BY <1>2, QuietStep DEF LoseRequest
<1>3. ASSUME NEW d \in Decision, Fill(d) PROVE ContractStep
  <2>1. Contract!Fill(d)
    BY <1>3 DEF Fill, Contract!Fill, Contract!Turn, ContractPhase
  <2> QED BY <2>1 DEF Contract!Next
<1>4. ASSUME NEW d \in Decision, Cancel(d) PROVE ContractStep
  <2>1. Contract!Cancel(d)
    BY <1>4 DEF Cancel, Contract!Cancel, Contract!Turn, ContractPhase
  <2> QED BY <2>1 DEF Contract!Next
<1>5. ASSUME NEW d \in Decision, RollOff(d) PROVE ContractStep
  BY <1>5, QuietStep DEF RollOff
<1>6. ASSUME NEW a \in Asset, SellPosition(a) PROVE ContractStep
  <2>1. Contract!Sell({d \in Decision : IsFor(d, a) /\ order[d] = "filled"})
    BY <1>6 DEF Contract!Sell, SellPosition, ContractPhase
  <2> QED BY <2>1 DEF Contract!Next
<1>7. CASE RefreshSnapshot
  BY <1>7, QuietStep DEF RefreshSnapshot
<1> QED BY <1>1, <1>2, <1>3, <1>4, <1>5, <1>6, <1>7
  DEF Engine

\* Close-out closes rows whose lot was sold; the rest moves no row.
LEMMA OtherKeepsContract ==
  ASSUME OrderInv, Settled,
         OtherStep
  PROVE  ContractStep
<1> USE SignalAssumption, Settled
    DEF Settled, OrderInv, EntryInv, TypeOK, RowsOwned, CursorOK, TodoOK, OrdersKnown,
        InflightOK, StatusMatchesOrder, SeenOK, ContractStep,
        sigVars, decVars, engineVars, tickVars
<1>1. ASSUME NEW new \in SUBSET Signal, StartTick(new) PROVE ContractStep
  BY <1>1, QuietStep DEF StartTick
<1>2. CASE SyncSignals
  BY <1>2, QuietStep DEF SyncSignals
<1>3. ASSUME NEW d \in Decision, CloseOut(d) PROVE ContractStep
  <2>1. Contract!Close(d)
    BY <1>3 DEF CloseOut, Contract!Close, Contract!Move, ContractPhase,
      OpenAtBroker, Intent
  <2> QED BY <2>1 DEF Contract!Next
<1>4. CASE EndTick
  BY <1>4, QuietStep DEF EndTick
<1>5. CASE PassTime
  BY <1>5, QuietStep DEF PassTime
<1>6. CASE Restart
  BY <1>6 DEF Restart, ContractPhase, OpenAtBroker, Intent
<1>7. ASSUME NEW t \in Strategy, PauseStrategy(t) PROVE ContractStep
  BY <1>7, QuietStep DEF PauseStrategy
<1> QED BY <1>1, <1>2, <1>3, <1>4, <1>5, <1>6, <1>7
  DEF OtherStep

\* Under Settled the entry path implements the order contract: whatever the
\* sweeps, the engine and restarts do, rows only move forward and always for a
\* reason the broker confirms.
THEOREM EntryKeepsContract == Settled => (Spec => KeepsContract)
<1> SUFFICES ASSUME Settled PROVE Spec => KeepsContract
  OBVIOUS
<1>1. Init => Contract!Init
  <2> SUFFICES ASSUME Init PROVE Contract!Init
    OBVIOUS
  <2>1. \A d \in Decision : dec[d] = "free"  BY DEF Init
  <2>2. ContractPhase = [d \in Decision |-> "unused"]
    BY <2>1 DEF ContractPhase, OpenAtBroker, Intent
  <2> QED BY <2>2 DEF Init, Contract!Init, NoOrders
<1>2. OrderInv /\ [Next]_vars => [Contract!Next]_<<ContractPhase, order>>
  <2> SUFFICES ASSUME OrderInv, [Next]_vars PROVE ContractStep
    BY DEF ContractStep
  <2>1. CASE ReconcilePhase  BY <2>1, ReconcileKeepsContract
  <2>2. CASE RetryPhase  BY <2>2, RetryKeepsContract
  <2>3. CASE DispatchPhase  BY <2>3, DispatchKeepsContract
  <2>4. CASE Engine  BY <2>4, EngineKeepsContract
  <2>5. CASE OtherStep  BY <2>5, OtherKeepsContract
  <2>6. CASE UNCHANGED vars
    BY <2>6, QuietStep DEF vars, decVars, engineVars, ContractStep
  <2> QED BY <2>1, <2>2, <2>3, <2>4, <2>5, <2>6, NextSplit DEF vars
<1> QED BY <1>1, <1>2, OrderInvariant, PTL
  DEF Spec, KeepsContract, Contract!Spec
-----------------------------------------------------------------------------
(* One crash.  IntentKeepsSlot and OneOrderPerSignal hold until the process *)
(* has crashed twice.                                                       *)

\* No rows, so no signal that could lag.
LEMMA SlotInvInit == Init => SlotInv
  BY DEF Init, SlotInv, IntentKeepsSlot, SignalFollowsRow, ClaimHeld, OneLiveRow,
     Intent, OpenAtBroker

\* The reconciler moves a row whose signal has followed it, or the one crash
\* has let lag.
LEMMA ReconcileKeepsSlot ==
  ASSUME EntryInv, SlotInv,
         ReconcilePhase
  PROVE  SlotInv'
<1> SUFFICES ASSUME restarts' <= 1 PROVE SlotInv'
  BY DEF SlotInv
<1> USE SignalAssumption
    DEF EntryInv, TypeOK, RowsOwned, CursorOK, TodoOK, GateStillClear,
        OneOpenEntryPerAsset, SlotInv, IntentKeepsSlot, SignalFollowsRow, MayLag,
        BeforeSync, ClaimHeld, OneLiveRow, OpenEntry, OpenAtBroker, Intent,
        sigVars, decVars, engineVars, tickVars
<1>1. CASE SkipReconcile
  BY <1>1 DEF SkipReconcile
<1>2. CASE BeginReconcile
  BY <1>2 DEF BeginReconcile, TrackedRows, OrderView, OrderStatus
<1>3. CASE EndReconcile
  BY <1>3 DEF EndReconcile, NoOrders, OrderStatus
<1>4. ASSUME NEW d \in Decision, ReconcileRow(d) PROVE SlotInv'
  BY <1>4 DEF ReconcileRow, ReconciledStatus, OrderStatus
<1> QED BY <1>1, <1>2, <1>3, <1>4
  DEF ReconcilePhase

\* The sweep moves rows of dispatching signals, which sync then converges.
LEMMA RetryKeepsSlot ==
  ASSUME EntryInv, SlotInv,
         RetryPhase
  PROVE  SlotInv'
<1> SUFFICES ASSUME restarts' <= 1 PROVE SlotInv'
  BY DEF SlotInv
<1> USE SignalAssumption
    DEF EntryInv, TypeOK, RowsOwned, CursorOK, TodoOK, GateStillClear,
        OneOpenEntryPerAsset, SlotInv, IntentKeepsSlot, SignalFollowsRow, MayLag,
        BeforeSync, ClaimHeld, OneLiveRow, OpenEntry, OpenAtBroker, Intent,
        sigVars, decVars, engineVars, tickVars
<1>1. CASE SkipRetry
  BY <1>1 DEF SkipRetry
<1>2. CASE EndRetry
  BY <1>2 DEF EndRetry, NoOrders, OrderStatus
<1>3. CASE ResubmitRefused
  BY <1>3 DEF ResubmitRefused
<1>4. CASE ResubmitTransient
  BY <1>4 DEF ResubmitTransient
<1>5. ASSUME NEW healthy \in BOOLEAN, RetryUnreachable(healthy) PROVE SlotInv'
  BY <1>5 DEF RetryUnreachable, SweptDec, SweptWait, DueRows, Resumed
<1>6. ASSUME NEW healthy \in BOOLEAN, BeginRetry(healthy) PROVE SlotInv'
  BY <1>6 DEF BeginRetry, OrderStatus, OrderView, SweptDec, SweptWait,
    DueRows, Resumed
<1>7. ASSUME NEW d \in Decision, RetryMatched(d) PROVE SlotInv'
  BY <1>7 DEF RetryMatched
<1>8. ASSUME NEW d \in Decision, RetryStopped(d) PROVE SlotInv'
  BY <1>8 DEF RetryStopped
<1>9. ASSUME NEW d \in Decision, RetrySend(d) PROVE SlotInv'
  BY <1>9 DEF RetrySend
<1>10. ASSUME NEW id \in BOOLEAN, ResubmitAccepted(id) PROVE SlotInv'
  BY <1>10 DEF ResubmitAccepted
<1> QED BY <1>1, <1>2, <1>3, <1>4, <1>5, <1>6, <1>7, <1>8, <1>9, <1>10
  DEF RetryPhase

\* The dispatcher requeues a signal only before it has opened a row for it.
LEMMA DispatchKeepsSlot ==
  ASSUME EntryInv, SlotInv,
         DispatchPhase
  PROVE  SlotInv'
<1> SUFFICES ASSUME restarts' <= 1 PROVE SlotInv'
  BY DEF SlotInv
<1> USE SignalAssumption
    DEF EntryInv, TypeOK, RowsOwned, CursorOK, TodoOK, GateStillClear,
        OneOpenEntryPerAsset, SlotInv, IntentKeepsSlot, SignalFollowsRow, MayLag,
        BeforeSync, ClaimHeld, OneLiveRow, OpenEntry, OpenAtBroker, Intent,
        sigVars, decVars, engineVars, tickVars
<1>1. CASE SkipDispatch
  BY <1>1 DEF SkipDispatch
<1>2. CASE BeginDispatch
  BY <1>2 DEF BeginDispatch
<1>3. CASE EndDispatch
  BY <1>3 DEF EndDispatch
<1>4. ASSUME NEW s \in Signal, ClaimLost(s) PROVE SlotInv'
  BY <1>4 DEF ClaimLost
<1>5. ASSUME NEW s \in Signal, ClaimSuppressed(s) PROVE SlotInv'
  BY <1>5 DEF ClaimSuppressed
<1>6. ASSUME NEW s \in Signal, ClaimPassed(s) PROVE SlotInv'
  BY <1>6 DEF ClaimPassed, GatesPass, OpenEntryFor, IsFor
<1>7. CASE CommitteeGated
  BY <1>7 DEF CommitteeGated
<1>8. CASE CommitteeThrew
  BY <1>8 DEF CommitteeThrew
<1>9. CASE DuplicateGuardHit
  BY <1>9 DEF DuplicateGuardHit
<1>10. ASSUME NEW outcome \in {"suppressed", "failed"}, CommitteeDropped(outcome) PROVE SlotInv'
  BY <1>10 DEF CommitteeDropped
<1>11. ASSUME NEW d \in Decision, InsertAndSubmit(d) PROVE SlotInv'
  <2> USE DEF InsertAndSubmit
  <2>1. \A e \in Decision : owner[e] = cur => dec[e] \in {"free", "failed"}
    BY <1>11 DEF DecisionStatus
  <2>2. IntentKeepsSlot'  BY <1>11
  <2>3. SignalFollowsRow' /\ ClaimHeld'  BY <1>11
  <2>4. OneLiveRow'  BY <1>11, <2>1
  <2> QED BY <2>2, <2>3, <2>4
<1>12. ASSUME NEW id \in BOOLEAN, SubmitAccepted(id) PROVE SlotInv'
  <2> USE DEF SubmitAccepted
  <2>1. IntentKeepsSlot' /\ OneLiveRow'  BY <1>12
  <2>2. SignalFollowsRow'  BY <1>12
  <2>3. ClaimHeld'  BY <1>12
  <2> QED BY <2>1, <2>2, <2>3
<1>13. ASSUME NEW sent \in BOOLEAN, Announce(sent) PROVE SlotInv'
  BY <1>13 DEF Announce
<1>14. CASE SubmitRefused
  BY <1>14 DEF SubmitRefused
<1>15. CASE SubmitTransient
  BY <1>15 DEF SubmitTransient
<1> QED BY <1>1, <1>2, <1>3, <1>4, <1>5, <1>6, <1>7, <1>8, <1>9, <1>10, <1>11,
  <1>12, <1>13, <1>14, <1>15
  DEF DispatchPhase

\* The engine moves neither rows nor signals.
LEMMA EngineKeepsSlot ==
  ASSUME EntryInv, SlotInv,
         Engine
  PROVE  SlotInv'
<1> SUFFICES ASSUME restarts' <= 1 PROVE SlotInv'
  BY DEF SlotInv
<1> USE SignalAssumption
    DEF EntryInv, TypeOK, RowsOwned, CursorOK, TodoOK, GateStillClear,
        OneOpenEntryPerAsset, SlotInv, IntentKeepsSlot, SignalFollowsRow, MayLag,
        BeforeSync, ClaimHeld, OneLiveRow, OpenEntry, OpenAtBroker, Intent,
        sigVars, decVars, engineVars, tickVars
<1>1. ASSUME NEW d \in Decision, EngineAccept(d) PROVE SlotInv'
  BY <1>1 DEF EngineAccept, OrderStatus
<1>2. ASSUME NEW d \in Decision, LoseRequest(d) PROVE SlotInv'
  BY <1>2 DEF LoseRequest
<1>3. ASSUME NEW d \in Decision, Fill(d) PROVE SlotInv'
  BY <1>3 DEF Fill, OrderStatus
<1>4. ASSUME NEW d \in Decision, Cancel(d) PROVE SlotInv'
  BY <1>4 DEF Cancel, OrderStatus
<1>5. ASSUME NEW d \in Decision, RollOff(d) PROVE SlotInv'
  BY <1>5 DEF RollOff
<1>6. ASSUME NEW a \in Asset, SellPosition(a) PROVE SlotInv'
  BY <1>6 DEF SellPosition, OrderStatus
<1>7. CASE RefreshSnapshot
  BY <1>7 DEF RefreshSnapshot, BrokerHeld
<1> QED BY <1>1, <1>2, <1>3, <1>4, <1>5, <1>6, <1>7
  DEF Engine

\* Sync converges every signal, and the first crash finds each of them in step.
LEMMA OtherKeepsSlot ==
  ASSUME EntryInv, SlotInv,
         OtherStep
  PROVE  SlotInv'
<1> SUFFICES ASSUME restarts' <= 1 PROVE SlotInv'
  BY DEF SlotInv
<1> USE SignalAssumption
    DEF EntryInv, TypeOK, RowsOwned, CursorOK, TodoOK, GateStillClear,
        OneOpenEntryPerAsset, SlotInv, IntentKeepsSlot, SignalFollowsRow, MayLag,
        BeforeSync, ClaimHeld, OneLiveRow, OpenEntry, OpenAtBroker, Intent,
        sigVars, decVars, engineVars, tickVars
<1>1. ASSUME NEW new \in SUBSET Signal, StartTick(new) PROVE SlotInv'
  BY <1>1 DEF StartTick
<1>2. CASE SyncSignals
  <2> USE DEF SyncSignals, SyncedStatus, HasEntry, EntriesOf, DecisionStatus
  <2>1. IntentKeepsSlot'
    <3> SUFFICES ASSUME NEW d \in Decision, dec[d] \in Intent
                 PROVE  SyncedStatus(owner[d]) = "dispatching"
      BY <1>2
    <3>1. owner[d] \in Signal /\ sig[owner[d]] = "dispatching" /\ d \in EntriesOf(owner[d])
      BY <1>2
    <3>2. \A e \in EntriesOf(owner[d]) : dec[e] # "executed" /\ dec[e] \notin OpenAtBroker
      BY <1>2, <3>1
    <3>3. HasEntry(owner[d], DecisionStatus \ {"failed"})
      BY <3>1
    <3> QED BY <3>1, <3>2, <3>3
  <2>2. SignalFollowsRow'  BY <1>2
  <2>3. ClaimHeld' /\ OneLiveRow'  BY <1>2
  <2> QED BY <2>1, <2>2, <2>3
<1>3. ASSUME NEW d \in Decision, CloseOut(d) PROVE SlotInv'
  BY <1>3 DEF CloseOut
<1>4. CASE EndTick
  BY <1>4 DEF EndTick
<1>5. CASE PassTime
  BY <1>5 DEF PassTime, Older, Sooner, BrokerHeld
<1>6. CASE Restart
  <2> USE DEF Restart, OwnedByRow, HasEntry, EntriesOf
  <2>1. restarts = 0  BY <1>6
  <2>2. IntentKeepsSlot'  BY <1>6, <2>1
  <2>3. SignalFollowsRow'  BY <1>6, <2>1
  <2>4. ClaimHeld' /\ OneLiveRow'  BY <1>6, <2>1
  <2> QED BY <2>2, <2>3, <2>4
<1>7. ASSUME NEW t \in Strategy, PauseStrategy(t) PROVE SlotInv'
  BY <1>7 DEF PauseStrategy
<1> QED BY <1>1, <1>2, <1>3, <1>4, <1>5, <1>6, <1>7
  DEF OtherStep

\* Every step keeps SlotInv.
LEMMA SlotInvNext == EntryInv /\ SlotInv /\ [Next]_vars => SlotInv'
<1> SUFFICES ASSUME EntryInv, SlotInv, [Next]_vars PROVE SlotInv'
  OBVIOUS
<1>1. CASE ReconcilePhase  BY <1>1, ReconcileKeepsSlot
<1>2. CASE RetryPhase  BY <1>2, RetryKeepsSlot
<1>3. CASE DispatchPhase  BY <1>3, DispatchKeepsSlot
<1>4. CASE Engine  BY <1>4, EngineKeepsSlot
<1>5. CASE OtherStep  BY <1>5, OtherKeepsSlot
<1>6. CASE UNCHANGED vars
  BY <1>6 DEF vars, sigVars, decVars, tickVars, SlotInv, IntentKeepsSlot,
     SignalFollowsRow, MayLag, ClaimHeld, OneLiveRow
<1> QED BY <1>1, <1>2, <1>3, <1>4, <1>5, <1>6, NextSplit DEF vars

THEOREM SlotInvariant == Spec => []SlotInv
  BY EntryInvariant, SlotInvInit, SlotInvNext, PTL DEF Spec

\* Until the second crash a row that will be sent (again) keeps its signal
\* dispatching, whatever sync, recovery, the engine and the network do, so the slot
\* of the unique index on trader_signals stays taken.
THEOREM OneCrashKeepsSlot == Spec => [](restarts <= 1 => IntentKeepsSlot)
<1>1. SlotInv => (restarts <= 1 => IntentKeepsSlot)  BY DEF SlotInv
<1> QED BY <1>1, SlotInvariant, PTL

\* Under Settled, until the second crash, a signal never has two orders with
\* exposure: what requeues it (a gated committee, a reclaim, recovery) finds at
\* most rows whose orders are dead.
THEOREM OneCrashOneOrder ==
  Settled => (Spec => [](restarts <= 1 => OneOrderPerSignal))
<1> SUFFICES ASSUME Settled PROVE Spec => [](restarts <= 1 => OneOrderPerSignal)
  OBVIOUS
<1>1. OrderInv /\ SlotInv => (restarts <= 1 => OneOrderPerSignal)
  BY DEF OrderInv, EntryInv, RowsOwned, OrdersKnown, StatusMatchesOrder, SlotInv,
     OneLiveRow, OneOrderPerSignal
<1> QED BY <1>1, OrderInvariant, SlotInvariant, PTL

-----------------------------------------------------------------------------
(* One lot.  The held check takes a fresh row over a flat snapshot, so that *)
(* the snapshot has to know of a lot only once its row is HoldSettle old.   *)

\* A dispatch loop that reads its snapshot while a lot is missing from it is over
\* before the row of the lot stops counting as fresh.
Prompt == FillWindow + SweepTime < HoldSettle

\* No rows, no lots.
LEMMA LotInvInit == Init => LotInv
  BY BoundAssumption
  DEF Init, LotInv, OneHolding, Holding, StillFlat, SnapshotCatchesUp, SweepSees,
      OpenEntry, Intent, OpenAtBroker, NoOrders

\* The reconciler confirms a lot whose row held the asset already.
LEMMA ReconcileKeepsLots ==
  ASSUME OrderInv, LotInv, Settled,
         ReconcilePhase
  PROVE  LotInv'
<1> USE SignalAssumption, BoundAssumption
    DEF OrderInv, EntryInv, TypeOK, RowsOwned, CursorOK, TodoOK, GateStillClear,
        OneOpenEntryPerAsset, OrdersKnown, StatusMatchesOrder, LotInv, OneHolding,
        Holding, StillFlat, SnapshotCatchesUp, SweepSees, OpenEntry, OpenAtBroker,
        Intent, sigVars, decVars, engineVars, tickVars
<1>1. CASE SkipReconcile
  BY <1>1 DEF SkipReconcile
<1>2. CASE BeginReconcile
  BY <1>2 DEF BeginReconcile, TrackedRows, OrderView, OrderStatus
<1>3. CASE EndReconcile
  BY <1>3 DEF EndReconcile, NoOrders, OrderStatus
<1>4. ASSUME NEW d \in Decision, ReconcileRow(d) PROVE LotInv'
  BY <1>4 DEF ReconcileRow, ReconciledStatus, OrderStatus
<1> QED BY <1>1, <1>2, <1>3, <1>4
  DEF ReconcilePhase

\* The sweep neither opens a row nor moves an order.
LEMMA RetryKeepsLots ==
  ASSUME OrderInv, LotInv, Settled,
         RetryPhase
  PROVE  LotInv'
<1> USE SignalAssumption, BoundAssumption
    DEF OrderInv, EntryInv, TypeOK, RowsOwned, CursorOK, TodoOK, GateStillClear,
        OneOpenEntryPerAsset, OrdersKnown, StatusMatchesOrder, LotInv, OneHolding,
        Holding, StillFlat, SnapshotCatchesUp, SweepSees, OpenEntry, OpenAtBroker,
        Intent, sigVars, decVars, engineVars, tickVars
<1>1. CASE SkipRetry
  BY <1>1 DEF SkipRetry
<1>2. CASE EndRetry
  BY <1>2 DEF EndRetry, NoOrders, OrderStatus
<1>3. CASE ResubmitRefused
  BY <1>3 DEF ResubmitRefused
<1>4. CASE ResubmitTransient
  BY <1>4 DEF ResubmitTransient
<1>5. ASSUME NEW healthy \in BOOLEAN, RetryUnreachable(healthy) PROVE LotInv'
  BY <1>5 DEF RetryUnreachable, SweptDec, SweptWait, DueRows, Resumed
<1>6. ASSUME NEW healthy \in BOOLEAN, BeginRetry(healthy) PROVE LotInv'
  BY <1>6 DEF BeginRetry, OrderStatus, OrderView, SweptDec, SweptWait,
    DueRows, Resumed
<1>7. ASSUME NEW d \in Decision, RetryMatched(d) PROVE LotInv'
  BY <1>7 DEF RetryMatched
<1>8. ASSUME NEW d \in Decision, RetryStopped(d) PROVE LotInv'
  BY <1>8 DEF RetryStopped
<1>9. ASSUME NEW d \in Decision, RetrySend(d) PROVE LotInv'
  BY <1>9 DEF RetrySend
<1>10. ASSUME NEW id \in BOOLEAN, ResubmitAccepted(id) PROVE LotInv'
  BY <1>10 DEF ResubmitAccepted
<1> QED BY <1>1, <1>2, <1>3, <1>4, <1>5, <1>6, <1>7, <1>8, <1>9, <1>10
  DEF RetryPhase

\* The gates let a signal through only when its asset is held by nothing: a row older
\* than HoldSettle is old enough for the snapshot of this loop.
LEMMA DispatchKeepsLots ==
  ASSUME OrderInv, LotInv, Settled, Prompt,
         DispatchPhase
  PROVE  LotInv'
<1> USE SignalAssumption, BoundAssumption
    DEF OrderInv, EntryInv, TypeOK, RowsOwned, CursorOK, TodoOK, GateStillClear,
        OneOpenEntryPerAsset, OrdersKnown, StatusMatchesOrder, LotInv, OneHolding,
        Holding, StillFlat, SnapshotCatchesUp, SweepSees, OpenEntry, OpenAtBroker,
        Intent, sigVars, decVars, engineVars, tickVars
<1>1. CASE SkipDispatch
  BY <1>1 DEF SkipDispatch
<1>2. CASE BeginDispatch
  BY <1>2 DEF BeginDispatch
<1>3. CASE EndDispatch
  BY <1>3 DEF EndDispatch
<1>4. ASSUME NEW s \in Signal, ClaimLost(s) PROVE LotInv'
  BY <1>4 DEF ClaimLost
<1>5. ASSUME NEW s \in Signal, ClaimSuppressed(s) PROVE LotInv'
  BY <1>5 DEF ClaimSuppressed
<1>6. ASSUME NEW s \in Signal, ClaimPassed(s) PROVE LotInv'
  <2>1. ASSUME NEW e \in Decision, Holding(e), AssetOf[owner[e]] = AssetOf[s]
        PROVE  FALSE
    <3>1. IsFor(e, AssetOf[s])
      BY <2>1 DEF IsFor
    <3>2. /\ dec[e] = "executed" /\ order[e] = "filled"
          /\ decAge[e] > HoldSettle
          /\ AssetOf[s] \notin posSnap
      BY <1>6, <2>1, <3>1 DEF ClaimPassed, GatesPass, OpenEntryFor, Held
    <3>3. pc = "dispatching"
      BY <1>6 DEF ClaimPassed
    <3>4. decAge[e] >= FillWindow + 2 + snapAge
      BY <3>2 DEF Prompt
    <3> QED BY <2>1, <3>2, <3>3, <3>4
  <2>2. OneHolding' /\ SnapshotCatchesUp' /\ SweepSees'
    BY <1>6 DEF ClaimPassed
  <2>3. StillFlat'
    BY <1>6, <2>1 DEF ClaimPassed
  <2> QED BY <2>2, <2>3
<1>7. CASE CommitteeGated
  BY <1>7 DEF CommitteeGated
<1>8. CASE CommitteeThrew
  BY <1>8 DEF CommitteeThrew
<1>9. CASE DuplicateGuardHit
  BY <1>9 DEF DuplicateGuardHit
<1>10. ASSUME NEW outcome \in {"suppressed", "failed"}, CommitteeDropped(outcome) PROVE LotInv'
  BY <1>10 DEF CommitteeDropped
<1>11. ASSUME NEW d \in Decision, InsertAndSubmit(d) PROVE LotInv'
  BY <1>11 DEF InsertAndSubmit
<1>12. ASSUME NEW id \in BOOLEAN, SubmitAccepted(id) PROVE LotInv'
  BY <1>12 DEF SubmitAccepted
<1>13. ASSUME NEW sent \in BOOLEAN, Announce(sent) PROVE LotInv'
  BY <1>13 DEF Announce
<1>14. CASE SubmitRefused
  BY <1>14 DEF SubmitRefused
<1>15. CASE SubmitTransient
  BY <1>15 DEF SubmitTransient
<1> QED BY <1>1, <1>2, <1>3, <1>4, <1>5, <1>6, <1>7, <1>8, <1>9, <1>10, <1>11,
  <1>12, <1>13, <1>14, <1>15
  DEF DispatchPhase

\* An order can fill only while its row holds the asset.
LEMMA EngineKeepsLots ==
  ASSUME OrderInv, LotInv, Settled,
         Engine
  PROVE  LotInv'
<1> USE SignalAssumption, BoundAssumption
    DEF OrderInv, EntryInv, TypeOK, RowsOwned, CursorOK, TodoOK, GateStillClear,
        OneOpenEntryPerAsset, OrdersKnown, StatusMatchesOrder, LotInv, OneHolding,
        Holding, StillFlat, SnapshotCatchesUp, SweepSees, OpenEntry, OpenAtBroker,
        Intent, sigVars, decVars, engineVars, tickVars
<1>1. ASSUME NEW d \in Decision, EngineAccept(d) PROVE LotInv'
  BY <1>1 DEF EngineAccept, OrderStatus
<1>2. ASSUME NEW d \in Decision, LoseRequest(d) PROVE LotInv'
  BY <1>2 DEF LoseRequest
<1>3. ASSUME NEW d \in Decision, Fill(d) PROVE LotInv'
  <2> USE DEF Fill, OrderStatus
  <2>1. dec[d] \in OpenEntry
    BY <1>3 DEF DecisionStatus
  <2>2. \A e \in Decision : Holding(e)' <=> Holding(e)
    BY <1>3, <2>1
  <2>3. OneHolding' /\ StillFlat'
    BY <1>3, <2>2
  <2>4. ASSUME NEW e \in Decision, order'[e] = "filled", decAge[e] >= FillWindow + 1
        PROVE  /\ AssetOf[owner[e]] \notin changed'
               /\ order[e] = "filled"
    <3>1. e # d /\ order[e] = "filled"
      BY <1>3, <2>4
    <3>2. Holding(e)
      BY <3>1 DEF DecisionStatus
    <3>3. AssetOf[owner[e]] # AssetOf[owner[d]]
      BY <2>1, <3>1, <3>2
    <3> QED BY <1>3, <2>4, <3>1, <3>3
  <2>5. SnapshotCatchesUp'
    BY <1>3, <2>4
  <2>6. SweepSees'
    BY <1>3
  <2> QED BY <2>3, <2>5, <2>6
<1>4. ASSUME NEW d \in Decision, Cancel(d) PROVE LotInv'
  BY <1>4 DEF Cancel, OrderStatus
<1>5. ASSUME NEW d \in Decision, RollOff(d) PROVE LotInv'
  BY <1>5 DEF RollOff
<1>6. ASSUME NEW a \in Asset, SellPosition(a) PROVE LotInv'
  BY <1>6 DEF SellPosition, OrderStatus, IsFor
<1>7. CASE RefreshSnapshot
  BY <1>7 DEF RefreshSnapshot, BrokerHeld, IsFor
<1> QED BY <1>1, <1>2, <1>3, <1>4, <1>5, <1>6, <1>7
  DEF Engine

\* As time passes the snapshot gains the lots that no longer change.
LEMMA OtherKeepsLots ==
  ASSUME OrderInv, LotInv, Settled,
         OtherStep
  PROVE  LotInv'
<1> USE SignalAssumption, BoundAssumption
    DEF OrderInv, EntryInv, TypeOK, RowsOwned, CursorOK, TodoOK, GateStillClear,
        OneOpenEntryPerAsset, OrdersKnown, StatusMatchesOrder, LotInv, OneHolding,
        Holding, StillFlat, SnapshotCatchesUp, SweepSees, OpenEntry, OpenAtBroker,
        Intent, sigVars, decVars, engineVars, tickVars
<1>1. ASSUME NEW new \in SUBSET Signal, StartTick(new) PROVE LotInv'
  BY <1>1 DEF StartTick
<1>2. CASE SyncSignals
  BY <1>2 DEF SyncSignals, SyncedStatus
<1>3. ASSUME NEW d \in Decision, CloseOut(d) PROVE LotInv'
  BY <1>3 DEF CloseOut
<1>4. CASE EndTick
  BY <1>4 DEF EndTick
<1>5. CASE PassTime
  <2> USE DEF PassTime
  <2>1. \A d \in Decision : decAge[d] \in Nat /\ decAge'[d] \in Nat /\ decAge'[d] <= decAge[d] + 1
    BY <1>5 DEF Older
  <2>2. OneHolding' /\ StillFlat'
    BY <1>5
  <2>3. ASSUME NEW d \in Decision, order[d] = "filled", decAge'[d] >= FillWindow + 2
        PROVE  AssetOf[owner[d]] \in snapHeld'
    <3>1. AssetOf[owner[d]] \in BrokerHeld
      BY <2>3 DEF BrokerHeld, IsFor
    <3>2. AssetOf[owner[d]] \notin changed
      BY <2>1, <2>3
    <3> QED BY <1>5, <3>1, <3>2
  <2>4. SnapshotCatchesUp'
    BY <1>5, <2>3
  <2>5. SweepSees'
    <3>1. CASE pc = "committee"
      BY <1>5, <2>1, <3>1
    <3>2. CASE pc = "idle"
      BY <1>5, <3>2
    <3> QED BY <1>5, <3>1, <3>2
  <2> QED BY <2>2, <2>4, <2>5
<1>6. CASE Restart
  BY <1>6 DEF Restart, NoOrders, OrderStatus
<1>7. ASSUME NEW t \in Strategy, PauseStrategy(t) PROVE LotInv'
  BY <1>7 DEF PauseStrategy
<1> QED BY <1>1, <1>2, <1>3, <1>4, <1>5, <1>6, <1>7
  DEF OtherStep

\* Every step keeps LotInv.
LEMMA LotInvNext == OrderInv /\ LotInv /\ Settled /\ Prompt /\ [Next]_vars => LotInv'
<1> SUFFICES ASSUME OrderInv, LotInv, Settled, Prompt, [Next]_vars PROVE LotInv'
  OBVIOUS
<1>1. CASE ReconcilePhase  BY <1>1, ReconcileKeepsLots
<1>2. CASE RetryPhase  BY <1>2, RetryKeepsLots
<1>3. CASE DispatchPhase  BY <1>3, DispatchKeepsLots
<1>4. CASE Engine  BY <1>4, EngineKeepsLots
<1>5. CASE OtherStep  BY <1>5, OtherKeepsLots
<1>6. CASE UNCHANGED vars
  BY <1>6 DEF vars, decVars, engineVars, tickVars, LotInv, OneHolding, Holding,
     StillFlat, SnapshotCatchesUp, SweepSees
<1> QED BY <1>1, <1>2, <1>3, <1>4, <1>5, <1>6, NextSplit DEF vars

THEOREM LotInvariant == Settled /\ Prompt => (Spec => []LotInv)
<1> SUFFICES ASSUME Settled, Prompt PROVE Spec => []LotInv
  OBVIOUS
<1>1. OrderInv /\ LotInv /\ [Next]_vars => LotInv'  BY LotInvNext
<1> QED BY <1>1, LotInvInit, OrderInvariant, PTL DEF Spec

\* Under Settled, if orders fill and dispatch loops end so early that both fit in
\* the settling window, no asset is ever bought twice, however often the process
\* crashes and however many strategies want the asset.
THEOREM OneLot == Settled /\ Prompt => (Spec => []OneLotPerAsset)
<1> SUFFICES ASSUME Settled, Prompt PROVE Spec => []OneLotPerAsset
  OBVIOUS
<1>1. OrderInv /\ LotInv => OneLotPerAsset
  BY DEF OrderInv, EntryInv, TypeOK, RowsOwned, OrdersKnown, StatusMatchesOrder,
     LotInv, OneHolding, Holding, OpenEntry, OpenAtBroker, Intent,
     DecisionStatus, OneLotPerAsset
<1> QED BY <1>1, OrderInvariant, LotInvariant, PTL

=============================================================================
