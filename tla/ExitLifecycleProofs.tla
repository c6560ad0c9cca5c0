------------------------ MODULE ExitLifecycleProofs ------------------------
(***************************************************************************)
(* Theorems about ExitLifecycle for every set of entries, exits and assets *)
(* and every value of the bounds, with late requests, lost orders and      *)
(* sales past the engine allowed.                                          *)
(***************************************************************************)
EXTENDS ExitLifecycleInv, SumTheorems

\* The steps of Next outside the tick and the engine.
OtherStep ==
  \/ PassTime \/ Restart
  \/ \E e \in Entry : Buy(e) \/ BecomeDue(e)

LEMMA NextSplit == Next => Reconcile \/ CloseOut \/ Sweep \/ Engine \/ OtherStep
  BY Zenon DEF Next, Tick, OtherStep

\* Nothing is bought, sold or graded at the start.
LEMMA ExitInvInit == Init => ExitInv
  BY EntryAssumption, BoundAssumption
  DEF Init, ExitInv, TypeOK, UnfilledUntouched, OrdersSellOneLot,
      OneClosingOrder, SeenIsOver, ExitCursorOK, CandidatesFree, GradesPending,
      OneExitInFlight, LiveExitIsTracked, AccountedOnce, InFlightExit, NoEntry,
      NoExit, NothingSeen, EntryStatus, ExitStatus, OrderStatus, Phase

\* The reconciler gives an exit up only when its order is over.
LEMMA ReconcileKeepsExitInv ==
  ASSUME ExitInv,
         Reconcile
  PROVE  ExitInv'
<1> USE EntryAssumption, BoundAssumption
    DEF ExitInv, TypeOK, UnfilledUntouched, OrdersSellOneLot, OneClosingOrder,
        SeenIsOver, ExitCursorOK, CandidatesFree, GradesPending,
        OneExitInFlight, LiveExitIsTracked, AccountedOnce, InFlightExit,
        NoEntry, NoExit, entryVars, exitVars, fillVars, engineVars, tickVars
<1>1. CASE SkipReconcile
  BY <1>1 DEF SkipReconcile, EntryStatus, ExitStatus, OrderStatus, Phase
<1>2. CASE BeginReconcile
  <2>1. TypeOK'
    BY <1>2 DEF BeginReconcile, OrderView, EntryStatus, ExitStatus, OrderStatus, Phase
  <2>2. UnfilledUntouched' /\ OrdersSellOneLot'
    BY <1>2 DEF BeginReconcile, OrderView, EntryStatus, ExitStatus, OrderStatus, Phase
  <2>3. OneClosingOrder' /\ SeenIsOver'
    BY <1>2 DEF BeginReconcile, OrderView, EntryStatus, ExitStatus, OrderStatus, Phase
  <2>4. ExitCursorOK' /\ CandidatesFree'
    BY <1>2 DEF BeginReconcile, OrderView, EntryStatus, ExitStatus, OrderStatus, Phase
  <2>5. GradesPending'
    BY <1>2 DEF BeginReconcile, OrderView, EntryStatus, ExitStatus, OrderStatus, Phase
  <2>6. OneExitInFlight' /\ LiveExitIsTracked' /\ AccountedOnce'
    BY <1>2 DEF BeginReconcile, OrderView, EntryStatus, ExitStatus, OrderStatus, Phase
  <2> QED BY <2>1, <2>2, <2>3, <2>4, <2>5, <2>6
<1>3. CASE EndReconcile
  BY <1>3 DEF EndReconcile, NothingSeen, EntryStatus, ExitStatus, OrderStatus, Phase
<1>4. ASSUME NEW e \in Entry, ReconcileEntry(e) PROVE ExitInv'
  BY <1>4 DEF ReconcileEntry, EntryStatus, ExitStatus, OrderStatus, Phase
<1>5. ASSUME NEW x \in Exit, ReconcileExit(x) PROVE ExitInv'
  BY <1>5 DEF ReconcileExit, ReconciledExit, Larger, EntryStatus, ExitStatus,
    OrderStatus, Phase
<1> QED BY <1>1, <1>2, <1>3, <1>4, <1>5
  DEF Reconcile

\* The close-out grades each entry once.
LEMMA CloseOutKeepsExitInv ==
  ASSUME ExitInv,
         CloseOut
  PROVE  ExitInv'
<1> USE EntryAssumption, BoundAssumption
    DEF ExitInv, TypeOK, UnfilledUntouched, OrdersSellOneLot, OneClosingOrder,
        SeenIsOver, ExitCursorOK, CandidatesFree, GradesPending,
        OneExitInFlight, LiveExitIsTracked, AccountedOnce, InFlightExit,
        NoEntry, NoExit, entryVars, exitVars, fillVars, engineVars, tickVars
<1>1. CASE SkipCloseOut
  BY <1>1 DEF SkipCloseOut, EntryStatus, ExitStatus, OrderStatus, Phase
<1>2. CASE BeginCloseOut
  BY <1>2 DEF BeginCloseOut, OpenDecisions, Larger, EntryStatus, ExitStatus, OrderStatus,
    Phase
<1>3. CASE CloseGraded
  BY <1>3 DEF CloseGraded, EntryStatus, ExitStatus, OrderStatus, Phase
<1>4. CASE EndCloseOut
  BY <1>4 DEF EndCloseOut, EntryStatus, ExitStatus, OrderStatus, Phase
<1>5. ASSUME NEW e \in Entry, LeaveOpen(e) PROVE ExitInv'
  BY <1>5 DEF LeaveOpen, EntryStatus, ExitStatus, OrderStatus, Phase
<1>6. ASSUME NEW e \in Entry, CloseUngraded(e) PROVE ExitInv'
  BY <1>6 DEF CloseUngraded, EntryStatus, ExitStatus, OrderStatus, Phase
<1>7. ASSUME NEW e \in Entry, InsertVerdict(e) PROVE ExitInv'
  BY <1>7 DEF InsertVerdict, EntryStatus, ExitStatus, OrderStatus, Phase
<1> QED BY <1>1, <1>2, <1>3, <1>4, <1>5, <1>6, <1>7
  DEF CloseOut

\* The sweep opens an exit only where none is in flight.
LEMMA SweepKeepsExitInv ==
  ASSUME ExitInv,
         Sweep
  PROVE  ExitInv'
<1> USE EntryAssumption, BoundAssumption
    DEF ExitInv, TypeOK, UnfilledUntouched, OrdersSellOneLot, OneClosingOrder,
        SeenIsOver, ExitCursorOK, CandidatesFree, GradesPending,
        OneExitInFlight, LiveExitIsTracked, AccountedOnce, InFlightExit,
        NoEntry, NoExit, entryVars, exitVars, fillVars, engineVars, tickVars
<1>1. ASSUME NEW x \in Exit, RecoverSend(x) PROVE ExitInv'
  <2>1. TypeOK'
    BY <1>1 DEF RecoverSend, EntryStatus, ExitStatus, OrderStatus, Phase
  <2>2. UnfilledUntouched' /\ OrdersSellOneLot'
    BY <1>1 DEF RecoverSend, EntryStatus, ExitStatus, OrderStatus, Phase
  <2>3. OneClosingOrder' /\ SeenIsOver'
    BY <1>1 DEF RecoverSend, EntryStatus, ExitStatus, OrderStatus, Phase
  <2>4. ExitCursorOK' /\ CandidatesFree'
    BY <1>1 DEF RecoverSend, EntryStatus, ExitStatus, OrderStatus, Phase
  <2>5. GradesPending'
    BY <1>1 DEF RecoverSend, EntryStatus, ExitStatus, OrderStatus, Phase
  <2>6. OneExitInFlight' /\ LiveExitIsTracked' /\ AccountedOnce'
    BY <1>1 DEF RecoverSend, EntryStatus, ExitStatus, OrderStatus, Phase
  <2> QED BY <2>1, <2>2, <2>3, <2>4, <2>5, <2>6
<1>2. CASE RecoverAccepted
  <2>1. TypeOK'
    BY <1>2 DEF RecoverAccepted, EntryStatus, ExitStatus, OrderStatus, Phase
  <2>2. UnfilledUntouched' /\ OrdersSellOneLot'
    BY <1>2 DEF RecoverAccepted, EntryStatus, ExitStatus, OrderStatus, Phase
  <2>3. OneClosingOrder' /\ SeenIsOver'
    BY <1>2 DEF RecoverAccepted, EntryStatus, ExitStatus, OrderStatus, Phase
  <2>4. ExitCursorOK' /\ CandidatesFree'
    BY <1>2 DEF RecoverAccepted, EntryStatus, ExitStatus, OrderStatus, Phase
  <2>5. GradesPending'
    BY <1>2 DEF RecoverAccepted, EntryStatus, ExitStatus, OrderStatus, Phase
  <2>6. OneExitInFlight' /\ LiveExitIsTracked' /\ AccountedOnce'
    BY <1>2 DEF RecoverAccepted, EntryStatus, ExitStatus, OrderStatus, Phase
  <2> QED BY <2>1, <2>2, <2>3, <2>4, <2>5, <2>6
<1>3. CASE RecoverFailed
  BY <1>3 DEF RecoverFailed, EntryStatus, ExitStatus, OrderStatus, Phase
<1>4. CASE SkipSweep
  BY <1>4 DEF SkipSweep, EntryStatus, ExitStatus, OrderStatus, Phase
<1>5. CASE BeginSweep
  BY <1>5 DEF BeginSweep, ExitCandidates, ExitsOf, EntryStatus, ExitStatus, OrderStatus,
    Phase
<1>6. CASE EndSweep
  BY <1>6 DEF EndSweep, EntryStatus, ExitStatus, OrderStatus, Phase
<1>7. ASSUME NEW e \in Entry, HoldEntry(e) PROVE ExitInv'
  BY <1>7 DEF HoldEntry, EntryStatus, ExitStatus, OrderStatus, Phase
<1>8. ASSUME NEW e \in Entry, NEW x \in Exit, SubmitExit(e, x) PROVE ExitInv'
  BY <1>8 DEF SubmitExit, EntryStatus, ExitStatus, OrderStatus, Phase
<1>9. CASE ExitAccepted
  BY <1>9 DEF ExitAccepted, EntryStatus, ExitStatus, OrderStatus, Phase
<1>10. CASE ExitNoPosition
  BY <1>10 DEF ExitNoPosition, EntryStatus, ExitStatus, OrderStatus, Phase
<1>11. CASE ExitUncertain
  BY <1>11 DEF ExitUncertain, EntryStatus, ExitStatus, OrderStatus, Phase
<1> QED BY <1>1, <1>2, <1>3, <1>4, <1>5, <1>6, <1>7, <1>8, <1>9, <1>10, <1>11
  DEF Sweep

\* The engine touches no row, and orders that are over stay over.
LEMMA EngineKeepsExitInv ==
  ASSUME ExitInv,
         Engine
  PROVE  ExitInv'
<1> USE EntryAssumption, BoundAssumption
    DEF ExitInv, TypeOK, UnfilledUntouched, OrdersSellOneLot, OneClosingOrder,
        SeenIsOver, ExitCursorOK, CandidatesFree, GradesPending,
        OneExitInFlight, LiveExitIsTracked, AccountedOnce, InFlightExit,
        NoEntry, NoExit, entryVars, exitVars, fillVars, engineVars, tickVars
<1>1. ASSUME NEW x \in Exit, NEW e \in Entry, EngineAccept(x, e) PROVE ExitInv'
  BY <1>1 DEF EngineAccept, Closing, EntryStatus, ExitStatus, OrderStatus, Phase
<1>2. ASSUME NEW x \in Exit, EngineRepeats(x) PROVE ExitInv'
  BY <1>2 DEF EngineRepeats, EntryStatus, ExitStatus, OrderStatus, Phase
<1>3. ASSUME NEW x \in Exit, LoseRequest(x) PROVE ExitInv'
  BY <1>3 DEF LoseRequest, EntryStatus, ExitStatus, OrderStatus, Phase
<1>4. ASSUME NEW x \in Exit, FillUnit(x) PROVE ExitInv'
  <2> DEFINE e == victim[x]
  <2>1. /\ order[x] = "working" /\ e \in Entry
        /\ lot[e] \in 1..LotQty /\ sold[x] \in 0..LotQty
        /\ sold[x] + lot[e] <= LotQty
    <3>1. order[x] = "working"
      BY <1>4 DEF FillUnit
    <3>2. e \in Entry /\ lot[e] > 0 /\ sold[x] + lot[e] <= LotQty
      BY <1>4, <3>1 DEF OrdersSellOneLot
    <3>3. lot[e] \in 0..LotQty /\ sold[x] \in 0..LotQty
      BY <1>4, <3>2 DEF TypeOK
    <3> QED BY <3>1, <3>2, <3>3
  <2>2. /\ lot' = [lot EXCEPT ![e] = lot[e] - 1]
        /\ sold' = [sold EXCEPT ![x] = sold[x] + 1]
        /\ order' = [order EXCEPT ![x] = IF lot[e] = 1 THEN "filled" ELSE "working"]
    BY <1>4, <2>1 DEF FillUnit
  <2>3. UNCHANGED <<entryVars, exitVars, fillVars, leg, victim, inflight, window,
                    snapHeld, tickVars, restarts>>
    BY <1>4 DEF FillUnit
  <2> HIDE DEF e
  <2>4. TypeOK'
    BY <2>1, <2>2, <2>3 DEF OrderStatus
  <2>5. UnfilledUntouched' /\ OneClosingOrder' /\ SeenIsOver'
    BY <2>1, <2>2, <2>3 DEF e
  <2>6. OrdersSellOneLot'
    BY <2>1, <2>2, <2>3 DEF e
  <2>7. ExitCursorOK' /\ CandidatesFree' /\ GradesPending' /\ AccountedOnce'
    BY <2>1, <2>2, <2>3
  <2>8. OneExitInFlight' /\ LiveExitIsTracked'
    BY <2>1, <2>2, <2>3
  <2> QED BY <2>4, <2>5, <2>6, <2>7, <2>8
<1>5. ASSUME NEW x \in Exit, CancelExit(x) PROVE ExitInv'
  BY <1>5 DEF CancelExit, EntryStatus, ExitStatus, OrderStatus, Phase
<1>6. ASSUME NEW e \in Entry, FillBuy(e) PROVE ExitInv'
  BY <1>6 DEF FillBuy, EntryStatus, ExitStatus, OrderStatus, Phase
<1>7. ASSUME NEW e \in Entry, LegSells(e) PROVE ExitInv'
  BY <1>7 DEF LegSells, Closing, EntryStatus, ExitStatus, OrderStatus, Phase
<1>8. ASSUME NEW e \in Entry, SoldOutside(e) PROVE ExitInv'
  BY <1>8 DEF SoldOutside, Closing, EntryStatus, ExitStatus, OrderStatus, Phase
<1>9. ASSUME NEW e \in Entry, RollOff(e) PROVE ExitInv'
  BY <1>9 DEF RollOff, EntryStatus, ExitStatus, OrderStatus, Phase
<1>10. CASE RefreshSnapshot
  BY <1>10 DEF RefreshSnapshot, BrokerHeld, EntryStatus, ExitStatus, OrderStatus, Phase
<1> QED BY <1>1, <1>2, <1>3, <1>4, <1>5, <1>6, <1>7, <1>8, <1>9, <1>10
  DEF Engine

\* A buy, time and a crash leave the exits as they are.
LEMMA OtherKeepsExitInv ==
  ASSUME ExitInv,
         OtherStep
  PROVE  ExitInv'
<1> USE EntryAssumption, BoundAssumption
    DEF ExitInv, TypeOK, UnfilledUntouched, OrdersSellOneLot, OneClosingOrder,
        SeenIsOver, ExitCursorOK, CandidatesFree, GradesPending,
        OneExitInFlight, LiveExitIsTracked, AccountedOnce, InFlightExit,
        NoEntry, NoExit, entryVars, exitVars, fillVars, engineVars, tickVars
<1>1. CASE PassTime
  BY <1>1 DEF PassTime, Older, BrokerHeld, EntryStatus, ExitStatus, OrderStatus, Phase
<1>2. CASE Restart
  BY <1>2 DEF Restart, NothingSeen, EntryStatus, ExitStatus, OrderStatus, Phase
<1>3. ASSUME NEW e \in Entry, Buy(e) PROVE ExitInv'
  BY <1>3 DEF Buy, SameAsset, EntryStatus, ExitStatus, OrderStatus, Phase
<1>4. ASSUME NEW e \in Entry, BecomeDue(e) PROVE ExitInv'
  BY <1>4 DEF BecomeDue, EntryStatus, ExitStatus, OrderStatus, Phase
<1> QED BY <1>1, <1>2, <1>3, <1>4
  DEF OtherStep

\* Every step of the specification keeps ExitInv.
LEMMA ExitInvNext == ExitInv /\ [Next]_vars => ExitInv'
<1> SUFFICES ASSUME ExitInv, [Next]_vars PROVE ExitInv'
  OBVIOUS
<1>1. CASE Reconcile  BY <1>1, ReconcileKeepsExitInv
<1>2. CASE CloseOut  BY <1>2, CloseOutKeepsExitInv
<1>3. CASE Sweep  BY <1>3, SweepKeepsExitInv
<1>4. CASE Engine  BY <1>4, EngineKeepsExitInv
<1>5. CASE OtherStep  BY <1>5, OtherKeepsExitInv
<1>6. CASE UNCHANGED vars
  BY <1>6 DEF vars, entryVars, exitVars, fillVars, engineVars, tickVars, ExitInv, TypeOK,
    UnfilledUntouched, OrdersSellOneLot, OneClosingOrder, SeenIsOver,
    ExitCursorOK, CandidatesFree, GradesPending, OneExitInFlight,
    LiveExitIsTracked, AccountedOnce
<1> QED BY <1>1, <1>2, <1>3, <1>4, <1>5, <1>6, NextSplit DEF vars

THEOREM ExitInvariant == Spec => []ExitInv
  BY ExitInvInit, ExitInvNext, PTL DEF Spec

\* Types are right in every reachable state; no exit sells more than a lot.
THEOREM ExitTypeCorrect == Spec => []TypeOK
<1>1. ExitInv => TypeOK  BY DEF ExitInv
<1> QED BY <1>1, ExitInvariant, PTL

\* findOpenExitCandidates, the recovery loop and the reconciler never have two exits
\* of one entry in flight, whatever gets lost and however often the process crashes.
THEOREM OneExit == Spec => []OneExitInFlight
<1>1. ExitInv => OneExitInFlight  BY DEF ExitInv
<1> QED BY <1>1, ExitInvariant, PTL

\* No exit row is failed, closed or deleted while its first request or its order may
\* still sell (the exit branches of reconcileOpenOrders and runExitSweep).
THEOREM LiveExitTracked == Spec => []LiveExitIsTracked
<1>1. ExitInv => LiveExitIsTracked  BY DEF ExitInv
<1> QED BY <1>1, ExitInvariant, PTL

\* runCloseOutSweep grades or stamps every entry it closes, and no entry twice,
\* wherever the process stops.
THEOREM EveryEntryAccountedOnce == Spec => []AccountedOnce
<1>1. ExitInv => AccountedOnce  BY DEF ExitInv
<1> QED BY <1>1, ExitInvariant, PTL

-----------------------------------------------------------------------------
(* The close-out and the units at the broker.  An entry that has aged is in *)
(* every snapshot while it is held; of a younger one, the recorded sales    *)
(* since it was bought are its own, and no unit is sold twice.              *)


\* Which steps touch the rows of the entries.
LEMMA EntryRowsMove ==
  Next => \/ UNCHANGED <<entry, age, verdicts>>
          \/ PassTime
          \/ CloseGraded
          \/ \E e \in Entry : Buy(e) \/ ReconcileEntry(e) \/ CloseUngraded(e) \/ InsertVerdict(e)
<1> USE DEF entryVars
<1>1. ASSUME Reconcile
      PROVE  UNCHANGED <<entry, age, verdicts>> \/ \E e \in Entry : ReconcileEntry(e)
  BY <1>1 DEF Reconcile, SkipReconcile, BeginReconcile, EndReconcile, ReconcileExit
<1>2. ASSUME CloseOut
      PROVE  \/ UNCHANGED <<entry, age, verdicts>>
             \/ CloseGraded
             \/ \E e \in Entry : CloseUngraded(e) \/ InsertVerdict(e)
  BY <1>2 DEF CloseOut, SkipCloseOut, BeginCloseOut, EndCloseOut, LeaveOpen
<1>3. ASSUME Sweep PROVE UNCHANGED <<entry, age, verdicts>>
  BY <1>3 DEF Sweep, RecoverSend, RecoverAccepted, RecoverFailed, SkipSweep, BeginSweep,
    EndSweep, HoldEntry, SubmitExit, ExitAccepted, ExitNoPosition, ExitUncertain
<1>4. ASSUME Engine PROVE UNCHANGED <<entry, age, verdicts>>
  BY <1>4 DEF Engine, EngineAccept, EngineRepeats, LoseRequest, FillUnit, CancelExit, FillBuy,
    LegSells, SoldOutside, RollOff, RefreshSnapshot
<1>5. ASSUME OtherStep
      PROVE  \/ UNCHANGED <<entry, age, verdicts>>
             \/ PassTime
             \/ \E e \in Entry : Buy(e)
  BY <1>5 DEF OtherStep, Restart, BecomeDue
<1> QED BY <1>1, <1>2, <1>3, <1>4, <1>5, NextSplit

\* Which steps touch the lots and the orders at the broker.
LEMMA LotsMove ==
  Next => \/ UNCHANGED <<lot, leg, sold, victim, window>>
          \/ \E x \in Exit, e \in Entry : EngineAccept(x, e)
          \/ \E x \in Exit : FillUnit(x)
          \/ \E e \in Entry : FillBuy(e) \/ LegSells(e) \/ SoldOutside(e) \/ RollOff(e)
<1> USE DEF engineVars
<1>1. ASSUME Reconcile PROVE UNCHANGED <<lot, leg, sold, victim, window>>
  BY <1>1 DEF Reconcile, SkipReconcile, BeginReconcile, EndReconcile, ReconcileEntry, ReconcileExit
<1>2. ASSUME CloseOut PROVE UNCHANGED <<lot, leg, sold, victim, window>>
  BY <1>2 DEF CloseOut, SkipCloseOut, BeginCloseOut, EndCloseOut, LeaveOpen, CloseUngraded,
    InsertVerdict, CloseGraded
<1>3. ASSUME Sweep PROVE UNCHANGED <<lot, leg, sold, victim, window>>
  BY <1>3 DEF Sweep, RecoverSend, RecoverAccepted, RecoverFailed, SkipSweep, BeginSweep,
    EndSweep, HoldEntry, SubmitExit, ExitAccepted, ExitNoPosition, ExitUncertain
<1>4. ASSUME Engine
      PROVE  \/ UNCHANGED <<lot, leg, sold, victim, window>>
             \/ \E x \in Exit, e \in Entry : EngineAccept(x, e)
             \/ \E x \in Exit : FillUnit(x)
             \/ \E e \in Entry : FillBuy(e) \/ LegSells(e) \/ SoldOutside(e) \/ RollOff(e)
  BY <1>4 DEF Engine, EngineRepeats, LoseRequest, CancelExit, RefreshSnapshot
<1>5. ASSUME OtherStep PROVE UNCHANGED <<lot, leg, sold, victim, window>>
  BY <1>5 DEF OtherStep, PassTime, Restart, Buy, BecomeDue
<1> QED BY <1>1, <1>2, <1>3, <1>4, <1>5, NextSplit

\* Which steps touch the recorded fills and the orders snapshot.
LEMMA RecordsMove ==
  Next => \/ UNCHANGED fillVars /\ seen' \in {seen, NothingSeen, OrderView}
          \/ BeginCloseOut
          \/ \E x \in Exit : ReconcileExit(x)
<1> USE DEF tickVars
<1>1. ASSUME Reconcile
      PROVE  \/ UNCHANGED fillVars /\ seen' \in {seen, NothingSeen, OrderView}
             \/ \E x \in Exit : ReconcileExit(x)
  BY <1>1 DEF Reconcile, SkipReconcile, BeginReconcile, EndReconcile, ReconcileEntry
<1>2. ASSUME CloseOut
      PROVE  \/ UNCHANGED fillVars /\ seen' = seen
             \/ BeginCloseOut
  BY <1>2 DEF CloseOut, SkipCloseOut, EndCloseOut, LeaveOpen, CloseUngraded,
    InsertVerdict, CloseGraded
<1>3. ASSUME Sweep PROVE UNCHANGED fillVars /\ seen' = seen
  BY <1>3 DEF Sweep, RecoverSend, RecoverAccepted, RecoverFailed, SkipSweep, BeginSweep,
    EndSweep, HoldEntry, SubmitExit, ExitAccepted, ExitNoPosition, ExitUncertain
<1>4. ASSUME Engine PROVE UNCHANGED fillVars /\ seen' = seen
  BY <1>4 DEF Engine, EngineAccept, EngineRepeats, LoseRequest, FillUnit, CancelExit, FillBuy,
    LegSells, SoldOutside, RollOff, RefreshSnapshot
<1>5. ASSUME OtherStep PROVE UNCHANGED fillVars /\ seen' \in {seen, NothingSeen}
  BY <1>5 DEF OtherStep, PassTime, Restart, Buy, BecomeDue
<1> QED BY <1>1, <1>2, <1>3, <1>4, <1>5, NextSplit

\* The positions snapshot is replaced by what the broker holds or stays; the one of a
\* close-out is taken when it begins and the rows it has to visit only get fewer.
LEMMA SnapshotsMove ==
  Next => /\ snapHeld' \in {snapHeld, BrokerHeld}
          /\ age' # age => snapHeld' = BrokerHeld
          /\ pc' \in {"closing", "graded"} =>
               \/ BeginCloseOut
               \/ /\ pc \in {"closing", "graded"}
                  /\ posSnap' = posSnap
                  /\ todoE' \subseteq todoE
                  /\ age' = age
<1> USE DEF entryVars, engineVars, tickVars
<1>1. ASSUME Reconcile
      PROVE  snapHeld' = snapHeld /\ age' = age /\ pc' \notin {"closing", "graded"}
  BY <1>1 DEF Reconcile, SkipReconcile, BeginReconcile, EndReconcile, ReconcileEntry, ReconcileExit
<1>2. ASSUME CloseOut
      PROVE  /\ snapHeld' = snapHeld /\ age' = age
             /\ pc' \in {"closing", "graded"} =>
                  \/ BeginCloseOut
                  \/ /\ pc \in {"closing", "graded"}
                     /\ posSnap' = posSnap
                     /\ todoE' \subseteq todoE
  BY <1>2 DEF CloseOut, SkipCloseOut, BeginCloseOut, EndCloseOut, LeaveOpen, CloseUngraded,
    InsertVerdict, CloseGraded
<1>3. ASSUME Sweep
      PROVE  snapHeld' = snapHeld /\ age' = age /\ pc' \notin {"closing", "graded"}
  BY <1>3 DEF Sweep, RecoverSend, RecoverAccepted, RecoverFailed, SkipSweep, BeginSweep,
    EndSweep, HoldEntry, SubmitExit, ExitAccepted, ExitNoPosition, ExitUncertain
<1>4. ASSUME Engine
      PROVE  /\ snapHeld' \in {snapHeld, BrokerHeld}
             /\ age' = age /\ pc' = pc /\ posSnap' = posSnap /\ todoE' = todoE
  BY <1>4 DEF Engine, EngineAccept, EngineRepeats, LoseRequest, FillUnit, CancelExit, FillBuy,
    LegSells, SoldOutside, RollOff, RefreshSnapshot
<1>5. ASSUME OtherStep
      PROVE  /\ snapHeld' \in {snapHeld, BrokerHeld}
             /\ age' # age => snapHeld' = BrokerHeld
             /\ pc' \in {"closing", "graded"} =>
                  /\ pc \in {"closing", "graded"}
                  /\ posSnap' = posSnap
                  /\ todoE' \subseteq todoE
                  /\ age' = age
  BY <1>5 DEF OtherStep, PassTime, Restart, Buy, BecomeDue
<1> QED BY <1>1, <1>2, <1>3, <1>4, <1>5, NextSplit

\* Nothing but its fill gives an entry a lot, and nothing is filled twice.
LEMMA LotsShrink ==
  ASSUME ExitInv, [Next]_vars, NEW e \in Entry, lot'[e] > 0
  PROVE  \/ lot[e] > 0 /\ lot'[e] <= lot[e]
         \/ FillBuy(e) /\ entry[e] = "pending_fill" /\ lot[e] = 0
<1> USE DEF ExitInv
<1>1. CASE UNCHANGED <<lot, leg, sold, victim, window>>
  BY <1>1 DEF TypeOK
<1>2. ASSUME NEW x \in Exit, NEW f \in Entry, EngineAccept(x, f) PROVE lot'[e] <= lot[e]
  BY <1>2 DEF EngineAccept, TypeOK
<1>3. ASSUME NEW x \in Exit, FillUnit(x) PROVE lot'[e] <= lot[e]
  BY <1>3 DEF FillUnit, TypeOK
<1>4. ASSUME NEW f \in Entry, FillBuy(f), ~ (lot'[e] <= lot[e])
      PROVE  FillBuy(e) /\ entry[e] = "pending_fill" /\ lot[e] = 0
  <2>1. f = e
    BY <1>4 DEF FillBuy, TypeOK
  <2>2. entry[e] = "pending_fill" /\ e \notin window
    BY <1>4, <2>1 DEF FillBuy
  <2> QED BY <1>4, <2>1, <2>2 DEF UnfilledUntouched
<1>5. ASSUME NEW f \in Entry, LegSells(f) \/ SoldOutside(f) PROVE lot'[e] <= lot[e]
  BY <1>5 DEF LegSells, SoldOutside, TypeOK
<1>6. ASSUME NEW f \in Entry, RollOff(f) PROVE lot'[e] <= lot[e]
  BY <1>6 DEF RollOff, TypeOK
<1>7. CASE UNCHANGED vars
  BY <1>7, <1>1 DEF vars, engineVars
<1>8. \/ lot'[e] <= lot[e]
      \/ FillBuy(e) /\ entry[e] = "pending_fill" /\ lot[e] = 0
  BY <1>1, <1>2, <1>3, <1>4, <1>5, <1>6, <1>7, LotsMove DEF TypeOK
<1>9. lot'[e] \in Nat /\ lot[e] \in Nat
  BY ExitInvNext DEF TypeOK
<1> QED BY <1>8, <1>9

\* An entry never gets younger, nor loses a verdict, nor opens again.
LEMMA EntriesAdvance ==
  ASSUME ExitInv, [Next]_vars, NEW e \in Entry
  PROVE  /\ age[e] <= age'[e] /\ age'[e] <= age[e] + 1
         /\ verdicts[e] <= verdicts'[e]
         /\ entry[e] = "closed" => entry'[e] = "closed"
         /\ entry[e] # "free" => entry'[e] # "free"
         /\ entry[e] \notin {"free", "pending_fill"} => entry'[e] \notin {"free", "pending_fill"}
<1> USE DEF ExitInv, TypeOK
<1>1. CASE UNCHANGED <<entry, age, verdicts>>
  BY <1>1
<1>2. CASE PassTime
  BY <1>2, BoundAssumption DEF PassTime, Older
<1>3. CASE CloseGraded
  BY <1>3 DEF CloseGraded, GradesPending
<1>4. ASSUME NEW f \in Entry, Buy(f)
      PROVE  /\ UNCHANGED <<age, verdicts>>
             /\ entry'[e] = entry[e] \/ entry[e] = "free"
  BY <1>4 DEF Buy
<1>5. ASSUME NEW f \in Entry, ReconcileEntry(f)
      PROVE  /\ UNCHANGED <<age, verdicts>>
             /\ entry'[e] # entry[e] => entry[e] = "pending_fill" /\ entry'[e] = "executed"
  BY <1>5 DEF ReconcileEntry, GradesPending
<1>6. ASSUME NEW f \in Entry, CloseUngraded(f)
      PROVE  /\ UNCHANGED <<age, verdicts>>
             /\ entry'[e] = entry[e] \/ entry'[e] = "closed"
  BY <1>6 DEF CloseUngraded
<1>7. ASSUME NEW f \in Entry, InsertVerdict(f)
      PROVE  UNCHANGED <<age, entry>> /\ verdicts[e] <= verdicts'[e]
  BY <1>7 DEF InsertVerdict
<1>8. CASE UNCHANGED vars
  BY <1>8, <1>1 DEF vars, entryVars
<1> QED BY <1>1, <1>2, <1>3, <1>4, <1>5, <1>6, <1>7, <1>8, EntryRowsMove

LEMMA AgeAfterFillNext ==
  ASSUME ExitInv, AgeAfterFill, [Next]_vars
  PROVE  AgeAfterFill'
<1> SUFFICES ASSUME NEW e \in Entry
             PROVE  /\ entry'[e] \in {"free", "pending_fill"} => age'[e] = 0
                    /\ age'[e] = 0 /\ entry'[e] \notin {"free", "pending_fill"} => e \in window'
  BY DEF AgeAfterFill
<1> USE DEF ExitInv, TypeOK, AgeAfterFill
<1>1. CASE UNCHANGED <<entry, age>> /\ window \subseteq window'
  BY <1>1
<1>2. CASE PassTime
  BY <1>2, EntriesAdvance DEF PassTime, engineVars
<1>3. CASE CloseGraded
  BY <1>3 DEF CloseGraded, GradesPending, engineVars
<1>4. ASSUME NEW f \in Entry, Buy(f) PROVE AgeAfterFill'
  BY <1>4 DEF Buy, engineVars
<1>5. ASSUME NEW f \in Entry, ReconcileEntry(f) PROVE AgeAfterFill'
  BY <1>5 DEF ReconcileEntry, GradesPending, engineVars
<1>6. ASSUME NEW f \in Entry, CloseUngraded(f) PROVE AgeAfterFill'
  BY <1>6 DEF CloseUngraded, GradesPending, engineVars
<1>7. ASSUME NEW f \in Entry, InsertVerdict(f) PROVE AgeAfterFill'
  BY <1>7 DEF InsertVerdict, engineVars
<1>8. ASSUME NEW f \in Entry, RollOff(f) PROVE AgeAfterFill'
  BY <1>8 DEF RollOff, entryVars
<1>9. CASE UNCHANGED vars
  BY <1>9 DEF vars, entryVars, engineVars
<1>10. ASSUME NEW f \in Entry, FillBuy(f) PROVE window \subseteq window'
  BY <1>10 DEF FillBuy
<1>11. ASSUME NEW f \in Entry, LegSells(f) \/ SoldOutside(f) PROVE window' = window
  BY <1>11 DEF LegSells, SoldOutside
<1>12. ASSUME NEW x \in Exit, NEW f \in Entry, EngineAccept(x, f) \/ FillUnit(x)
       PROVE  window' = window
  BY <1>12 DEF EngineAccept, FillUnit
<1> QED
  BY <1>1, <1>2, <1>3, <1>4, <1>5, <1>6, <1>7, <1>8, <1>9, <1>10, <1>11, <1>12,
     EntryRowsMove, LotsMove

LEMMA BoughtInTurnNext ==
  ASSUME ExitInv, BoughtInTurn, [Next]_vars
  PROVE  BoughtInTurn'
<1> USE DEF ExitInv
<1> SUFFICES ASSUME NEW e \in Entry, NEW f \in Entry,
                    AssetOf[e] = AssetOf[f], e < f, entry'[f] # "free"
             PROVE  /\ entry'[e] \notin {"free", "pending_fill"}
                    /\ entry'[e] = "closed" \/ verdicts'[e] > 0 \/ age'[e] > HoldSettle
  BY DEF BoughtInTurn
<1>1. CASE entry[f] # "free"
  <2>1. /\ entry[e] \notin {"free", "pending_fill"}
        /\ entry[e] = "closed" \/ verdicts[e] > 0 \/ age[e] > HoldSettle
    BY <1>1 DEF BoughtInTurn
  <2>2. {age[e], age'[e], verdicts[e], verdicts'[e], HoldSettle} \subseteq Int
    <3>1. TypeOK /\ TypeOK'
      BY ExitInvNext DEF ExitInv
    <3> QED BY <3>1, BoundAssumption DEF TypeOK
  <2> QED BY <2>1, <2>2, EntriesAdvance
<1>2. CASE entry[f] = "free"
  <2>1. Buy(f)
    <3>1. ASSUME NEW g \in Entry, Buy(g) PROVE g = f
      BY <1>2, <3>1 DEF Buy, TypeOK
    <3>2. ASSUME NEW g \in Entry, ReconcileEntry(g) \/ CloseUngraded(g) \/ InsertVerdict(g)
          PROVE  FALSE
      BY <1>2, <3>2 DEF ReconcileEntry, CloseUngraded, InsertVerdict, GradesPending, TypeOK
    <3>3. entry' # entry
      BY <1>2
    <3>4. ~ CloseGraded
      BY <1>2 DEF CloseGraded, GradesPending, TypeOK
    <3>5. ~ PassTime /\ ~ UNCHANGED vars
      BY <3>3 DEF PassTime, vars, entryVars
    <3> QED BY <3>1, <3>2, <3>3, <3>4, <3>5, EntryRowsMove
  <2>2. entry[e] \notin {"free", "pending_fill"} /\ ~ Holds(e)
    BY <2>1 DEF Buy, SameAsset
  <2>3. entry[e] = "closed" \/ verdicts[e] # 0 \/ ~ (age[e] <= HoldSettle)
    BY <2>2 DEF Holds, TypeOK, EntryStatus
  <2>4. entry'[e] = entry[e] /\ verdicts'[e] = verdicts[e] /\ age'[e] = age[e]
    BY <2>1, <2>2, <1>2 DEF Buy, TypeOK
  <2> QED BY <2>2, <2>3, <2>4, BoundAssumption DEF TypeOK
<1> QED BY <1>1, <1>2

LEMMA SnapshotShowsAgedNext ==
  ASSUME ExitInv, AgeAfterFill, SnapshotShowsAged, [Next]_vars
  PROVE  SnapshotShowsAged'
<1> USE DEF ExitInv
<1>0. ASSUME NEW e \in Entry, age'[e] > 0, age' = age, lot'[e] > 0 PROVE lot[e] > 0
  BY <1>0, LotsShrink DEF AgeAfterFill
<1>1. ASSUME NEW e \in Entry, age'[e] > 0, lot'[e] > 0 PROVE AssetOf[e] \in snapHeld'
  <2>1. CASE snapHeld' = BrokerHeld
    <3>1. lot[e] > 0
      <4>1. CASE FillBuy(e)
        BY <4>1, <1>1, <1>0 DEF FillBuy, entryVars
      <4> QED BY <4>1, <1>1, LotsShrink
    <3> QED BY <2>1, <3>1 DEF BrokerHeld
  <2>2. CASE snapHeld' = snapHeld /\ age' = age
    BY <1>0, <1>1, <2>2 DEF SnapshotShowsAged
  <2>3. CASE UNCHANGED vars
    BY <2>3, <2>2 DEF vars, entryVars, engineVars
  <2> QED BY <2>1, <2>2, <2>3, SnapshotsMove
<1>2. ASSUME NEW e \in Entry, pc' \in {"closing", "graded"}, e \in todoE',
             age'[e] > 0, lot'[e] > 0
      PROVE  AssetOf[e] \in posSnap'
  <2>1. CASE BeginCloseOut
    BY <2>1, <1>2 DEF BeginCloseOut, SnapshotShowsAged, entryVars, engineVars
  <2>2. CASE pc \in {"closing", "graded"} /\ posSnap' = posSnap /\ todoE' \subseteq todoE
             /\ age' = age
    BY <2>2, <1>2, <1>0 DEF SnapshotShowsAged
  <2>3. CASE UNCHANGED vars
    BY <2>3, <2>2, <1>2 DEF vars, entryVars, tickVars
  <2> QED BY <2>1, <2>2, <2>3, <1>2, SnapshotsMove
<1>3. \A e \in Entry : age'[e] > 0 /\ lot'[e] > 0 => AssetOf[e] \in snapHeld'
  BY <1>1
<1>4. pc' \in {"closing", "graded"} =>
        \A e \in todoE' : age'[e] > 0 /\ lot'[e] > 0 => AssetOf[e] \in posSnap'
  <2>1. todoE' \subseteq Entry
    BY ExitInvNext DEF TypeOK
  <2> QED BY <1>2, <2>1
<1> QED BY <1>3, <1>4 DEF SnapshotShowsAged

\* A filled entry stays filled.
LEMMA FilledGrows ==
  ASSUME ExitInv, [Next]_vars
  PROVE  Filled \subseteq Filled'
<1> SUFFICES ASSUME NEW e \in Entry, e \in Filled PROVE e \in Filled'
  BY DEF Filled
<1>1. CASE entry[e] \notin {"free", "pending_fill"}
  BY <1>1, EntriesAdvance DEF Filled
<1>2. CASE entry[e] \in {"free", "pending_fill"}
  <2>1. e \in window
    BY <1>2 DEF Filled
  <2>2. \A f \in Entry : RollOff(f) => f # e /\ window' = window \ {f}
    BY <1>2 DEF RollOff
  <2>3. \A f \in Entry : FillBuy(f) \/ LegSells(f) \/ SoldOutside(f) => window \subseteq window'
    BY DEF FillBuy, LegSells, SoldOutside
  <2>4. \A x \in Exit : (\E f \in Entry : EngineAccept(x, f)) \/ FillUnit(x) => window' = window
    BY DEF EngineAccept, FillUnit
  <2>5. UNCHANGED vars => window' = window
    BY DEF vars, engineVars
  <2>6. e \in window'
    BY <2>1, <2>2, <2>3, <2>4, <2>5, LotsMove
  <2> QED BY <2>6 DEF Filled
<1> QED BY <1>1, <1>2

LEMMA RecordedWasSoldNext ==
  ASSUME ExitInv, RecordedWasSold, [Next]_vars
  PROVE  RecordedWasSold'
<1> USE DEF ExitInv
<1>0. TypeOK /\ TypeOK'
  BY ExitInvNext
<1>1. \A x \in Exit : sold[x] <= sold'[x]
  <2>1. ASSUME NEW y \in Exit, FillUnit(y) PROVE \A x \in Exit : sold[x] <= sold'[x]
    BY <2>1 DEF FillUnit, TypeOK
  <2>2. ASSUME sold' = sold PROVE \A x \in Exit : sold[x] <= sold'[x]
    BY <2>2 DEF TypeOK
  <2>3. \A x \in Exit, e \in Entry : EngineAccept(x, e) => sold' = sold
    BY DEF EngineAccept
  <2>4. \A e \in Entry : FillBuy(e) \/ LegSells(e) \/ SoldOutside(e) \/ RollOff(e) => sold' = sold
    BY DEF FillBuy, LegSells, SoldOutside, RollOff
  <2>5. UNCHANGED vars => sold' = sold
    BY DEF vars, engineVars
  <2> QED BY <2>1, <2>2, <2>3, <2>4, <2>5, LotsMove
<1>2. \A e \in Entry : leg'[e] = leg[e] \/ (LegSells(e) /\ leg[e] = 0)
  <2>1. ASSUME NEW f \in Entry, LegSells(f), NEW e \in Entry, leg'[e] # leg[e]
        PROVE  LegSells(e) /\ leg[e] = 0
    <3>1. e = f /\ lot[f] > 0
      BY <2>1 DEF LegSells, TypeOK
    <3>2. leg[e] = 0
      BY <3>1 DEF RecordedWasSold, TypeOK
    <3> QED BY <2>1, <3>1, <3>2
  <2>2. \A x \in Exit : FillUnit(x) => leg' = leg
    BY DEF FillUnit
  <2>3. \A x \in Exit, e \in Entry : EngineAccept(x, e) => leg' = leg
    BY DEF EngineAccept
  <2>4. \A e \in Entry : FillBuy(e) \/ SoldOutside(e) \/ RollOff(e) => leg' = leg
    BY DEF FillBuy, SoldOutside, RollOff
  <2>5. UNCHANGED vars => leg' = leg
    BY DEF vars, engineVars
  <2> QED BY <2>1, <2>2, <2>3, <2>4, <2>5, LotsMove
<1>3. \A e \in Entry : leg[e] <= leg'[e]
  <2>1. \A e \in Entry : leg[e] \in Nat /\ leg'[e] \in Nat
    BY <1>0 DEF TypeOK
  <2>2. ASSUME NEW e \in Entry PROVE leg'[e] = leg[e] \/ leg[e] = 0
    BY <1>2
  <2>3. ASSUME NEW e \in Entry PROVE leg[e] <= leg'[e]
    BY <2>1, <2>2
  <2> QED BY <2>3
<1>4. \A x \in Exit : exitFill'[x] <= sold'[x] /\ seen'[x].qty <= sold'[x]
  <2>1. \A x \in Exit : /\ exitFill[x] <= sold[x] /\ seen[x].qty <= sold[x]
                        /\ {exitFill[x], seen[x].qty, sold[x], sold'[x]} \subseteq Nat
    BY <1>0 DEF RecordedWasSold, TypeOK
  <2>2. CASE UNCHANGED fillVars /\ seen' \in {seen, NothingSeen, OrderView}
    BY <1>1, <2>1, <2>2 DEF NothingSeen, OrderView, fillVars
  <2>3. CASE BeginCloseOut
    BY <1>1, <2>1, <2>3 DEF BeginCloseOut, Larger, engineVars, TypeOK
  <2>4. ASSUME NEW y \in Exit, ReconcileExit(y)
        PROVE  \A x \in Exit : exitFill'[x] <= sold'[x] /\ seen'[x].qty <= sold'[x]
    BY <1>1, <2>1, <2>4 DEF ReconcileExit, Larger, engineVars, TypeOK
  <2>5. CASE UNCHANGED vars
    BY <2>2, <2>5 DEF vars, tickVars
  <2> QED BY <2>2, <2>3, <2>4, <2>5, RecordsMove
<1>5. \A e \in Entry : legFill'[e] <= leg'[e]
  <2>1. \A e \in Entry : /\ legFill[e] <= leg[e] /\ {legFill[e], leg[e], leg'[e]} \subseteq Nat
    BY <1>0 DEF RecordedWasSold, TypeOK
  <2>2. CASE UNCHANGED fillVars
    BY <1>3, <2>1, <2>2 DEF fillVars
  <2>3. CASE BeginCloseOut
    BY <1>3, <2>1, <2>3 DEF BeginCloseOut
  <2>4. ASSUME NEW y \in Exit, ReconcileExit(y) PROVE legFill' = legFill
    BY <2>4 DEF ReconcileExit
  <2>5. CASE UNCHANGED vars
    BY <2>2, <2>5 DEF vars
  <2> QED BY <1>3, <2>1, <2>2, <2>3, <2>4, <2>5, RecordsMove DEF fillVars
<1>6. ASSUME NEW e \in Entry, leg'[e] > 0 PROVE lot'[e] = 0
  <2>1. CASE LegSells(e)
    BY <2>1 DEF LegSells, TypeOK
  <2>2. CASE leg[e] > 0
    <3>1. lot[e] = 0 /\ e \in Filled
      BY <2>2, <1>0 DEF RecordedWasSold, TypeOK
    <3>2. ~ FillBuy(e)
      BY <3>1 DEF FillBuy, Filled
    <3>3. ~ (lot'[e] > 0)
      BY <1>0, <3>1, <3>2, LotsShrink
    <3>4. lot'[e] \in Nat
      BY <1>0 DEF TypeOK
    <3> QED BY <3>3, <3>4
  <2> QED BY <1>2, <1>6, <2>1, <2>2
<1>7. ASSUME NEW e \in Entry, e \notin Filled' PROVE leg'[e] = 0
  <2>1. e \notin Filled
    BY <1>7, FilledGrows
  <2>2. leg[e] = 0 /\ lot[e] = 0
    BY <2>1 DEF RecordedWasSold, Filled, UnfilledUntouched
  <2>3. ~ LegSells(e)
    BY <2>2 DEF LegSells
  <2> QED BY <1>2, <2>2, <2>3
<1> QED BY <1>4, <1>5, <1>6, <1>7 DEF RecordedWasSold

\* The exits that sell a lot of a set of entries.
SellersOf(F) == {x \in Exit : victim[x] \in F}

\* What a set of entries has sold and still holds was bought.
ConservedIn(F) ==
  SumOf(sold, SellersOf(F)) + SumOf(leg, F) + SumOf(lot, F) <= LotQty * Cardinality(F \cap Filled)

LEMMA ConservedSums == UnitsConserved <=> \A F \in SUBSET Entry : ConservedIn(F)
  BY DEF UnitsConserved, ConservedIn, SumOf, SellersOf

LEMMA UnitsConservedInit == Init => UnitsConserved
<1> SUFFICES ASSUME Init, NEW F \in SUBSET Entry
             PROVE  SumOf(sold, SellersOf(F)) + SumOf(leg, F) + SumOf(lot, F)
                      <= LotQty * Cardinality(F \cap Filled)
  BY ConservedSums DEF ConservedIn
<1>1. IsFiniteSet(F) /\ IsFiniteSet(SellersOf(F))
  BY EntryAssumption, FS_Subset DEF SellersOf
<1>2. /\ \A x \in SellersOf(F) : sold[x] \in Nat /\ sold[x] <= 0
      /\ \A f \in F : leg[f] \in Nat /\ leg[f] <= 0 /\ lot[f] \in Nat /\ lot[f] <= 0
  BY DEF Init, SellersOf
<1>3. /\ SumOf(sold, SellersOf(F)) <= 0 * Cardinality(SellersOf(F))
      /\ SumOf(leg, F) <= 0 * Cardinality(F)
      /\ SumOf(lot, F) <= 0 * Cardinality(F)
  BY <1>1, <1>2, SumOfBounded
<1>4. SumOf(sold, SellersOf(F)) \in Nat /\ SumOf(leg, F) \in Nat /\ SumOf(lot, F) \in Nat
  BY <1>1, <1>2, SumOfNat
<1>5. Filled = {}
  BY DEF Init, Filled
<1>6. LotQty * Cardinality(F \cap Filled) = 0
  BY <1>5, FS_EmptySet, BoundAssumption
<1>7. Cardinality(SellersOf(F)) \in Nat /\ Cardinality(F) \in Nat
  BY <1>1, FS_CardinalityType
<1> QED BY <1>3, <1>4, <1>6, <1>7

LEMMA MoreTimes ==
  ASSUME NEW k \in Nat, NEW m \in Nat, NEW n \in Nat, m <= n
  PROVE  k * m <= k * n
OBVIOUS

\* Every unit an order or a leg sells leaves a lot, and only a fill makes a new one.
LEMMA ConservedInNext ==
  ASSUME ExitInv, RecordedWasSold, UnitsConserved, [Next]_vars, NEW F \in SUBSET Entry
  PROVE  ConservedIn(F)'
<1> SUFFICES SumOf(sold', SellersOf(F)') + SumOf(leg', F) + SumOf(lot', F)
               <= LotQty * Cardinality(F \cap Filled')
  BY DEF ConservedIn
<1> DEFINE S == SellersOf(F)
           S1 == SellersOf(F)'
<1>1. TypeOK /\ TypeOK'
  BY ExitInvNext DEF ExitInv
<1>2. /\ sold \in [Exit -> Int] /\ leg \in [Entry -> Int] /\ lot \in [Entry -> Int]
      /\ LotQty \in Int /\ LotQty \in Nat /\ 0 \in Int /\ S \in SUBSET Exit /\ S1 \in SUBSET Exit
  BY <1>1, BoundAssumption DEF TypeOK, SellersOf
<1>3. /\ IsFiniteSet(F) /\ IsFiniteSet(S) /\ IsFiniteSet(S1)
      /\ IsFiniteSet(F \cap Filled) /\ IsFiniteSet(F \cap Filled')
  BY EntryAssumption, FS_Subset DEF SellersOf
<1>4. SumOf(sold, S) \in Int /\ SumOf(leg, F) \in Int /\ SumOf(lot, F) \in Int
  BY <1>2, <1>3, SumOfInt
<1>5. /\ Cardinality(F \cap Filled) \in Nat /\ Cardinality(F \cap Filled') \in Nat
      /\ Cardinality(F \cap Filled) <= Cardinality(F \cap Filled')
  BY <1>3, FilledGrows, FS_Subset, FS_CardinalityType
<1> DEFINE bought == LotQty * Cardinality(F \cap Filled)
           bought1 == LotQty * Cardinality(F \cap Filled')
<1>6. bought \in Int /\ bought1 \in Int /\ bought <= bought1
  BY <1>2, <1>5, MoreTimes
<1>7. SumOf(sold, S) + SumOf(leg, F) + SumOf(lot, F) <= bought
  BY ConservedSums DEF ConservedIn
<1> HIDE DEF bought, bought1, S, S1
<1> DEFINE Sums(f, g, T, e) ==
             /\ e \in T => SumOf(g, T) = SumOf(f, T) + g[e] - f[e]
             /\ e \notin T => SumOf(g, T) = SumOf(f, T)
<1>sums.
      /\ \A f \in Entry : (\A y \in F : y # f => lot'[y] = lot[y]) => Sums(lot, lot', F, f)
      /\ \A f \in Entry : (\A y \in F : y # f => leg'[y] = leg[y]) => Sums(leg, leg', F, f)
      /\ \A z \in Exit : (\A y \in S : y # z => sold'[y] = sold[y]) => Sums(sold, sold', S, z)
  <2>1. /\ \A y \in F : lot[y] \in Int /\ lot'[y] \in Int /\ leg[y] \in Int /\ leg'[y] \in Int
        /\ \A y \in S : sold[y] \in Int /\ sold'[y] \in Int
    BY <1>1, <1>2 DEF TypeOK
  <2> QED BY <1>3, <2>1, SumOfUpdated
<1>8. SUFFICES SumOf(sold', S1) + SumOf(leg', F) + SumOf(lot', F) <= bought1
  BY DEF bought1, S1
<1>9. CASE UNCHANGED <<lot, leg, sold, victim, window>>
  <2>1. S1 = S
    BY <1>9 DEF S1, S, SellersOf
  <2> QED BY <1>4, <1>6, <1>7, <1>9, <2>1
<1>10. ASSUME NEW x \in Exit, NEW e \in Entry, EngineAccept(x, e)
       PROVE  SumOf(sold', S1) + SumOf(leg', F) + SumOf(lot', F) <= bought1
  <2>1. sold[x] = 0
    BY <1>10 DEF EngineAccept, ExitInv, OrdersSellOneLot
  <2>2. S1 \ {x} = S \ {x}
    BY <1>10, <1>1 DEF EngineAccept, TypeOK, S, S1, SellersOf
  <2>3. SumOf(sold, S) = SumOf(sold, S \ {x}) /\ SumOf(sold, S1) = SumOf(sold, S1 \ {x})
    BY <1>2, <1>3, <2>1, SumOfWithoutZero
  <2>4. sold' = sold /\ leg' = leg /\ lot' = lot
    BY <1>10 DEF EngineAccept
  <2>5. SumOf(sold', S1) = SumOf(sold, S)
    BY <2>2, <2>3, <2>4
  <2> QED BY <1>4, <1>6, <1>7, <2>4, <2>5
<1>11. ASSUME NEW x \in Exit, FillUnit(x)
       PROVE  SumOf(sold', S1) + SumOf(leg', F) + SumOf(lot', F) <= bought1
  <2> DEFINE v == victim[x]
  <2>1. v \in Entry
    BY <1>11 DEF FillUnit, ExitInv, OrdersSellOneLot
  <2>2. sold' = [sold EXCEPT ![x] = sold[x] + 1] /\ lot' = [lot EXCEPT ![v] = lot[v] - 1]
        /\ leg' = leg /\ victim' = victim
    BY <1>11, <1>2, <2>1 DEF FillUnit
  <2>3. S1 = S /\ (x \in S <=> v \in F)
    BY <2>2 DEF S, S1, SellersOf
  <2>4. sold[x] \in Int /\ lot[v] \in Int /\ sold[x] + 1 \in Int /\ lot[v] - 1 \in Int
    BY <1>2, <2>1
  <2> HIDE DEF v
  <2>5. Sums(sold, sold', S, x) /\ sold'[x] = sold[x] + 1
    BY <1>sums, <1>2, <2>2, <2>4
  <2>6. Sums(lot, lot', F, v) /\ lot'[v] = lot[v] - 1
    BY <1>sums, <1>2, <2>1, <2>2, <2>4
  <2> QED BY <1>4, <1>6, <1>7, <2>2, <2>3, <2>4, <2>5, <2>6
<1>12. ASSUME NEW e \in Entry, FillBuy(e)
       PROVE  SumOf(sold', S1) + SumOf(leg', F) + SumOf(lot', F) <= bought1
  <2>1. lot[e] = 0 /\ e \notin Filled
    BY <1>12 DEF FillBuy, ExitInv, UnfilledUntouched, Filled
  <2>2. lot' = [lot EXCEPT ![e] = LotQty] /\ leg' = leg /\ sold' = sold /\ S1 = S
    BY <1>12 DEF FillBuy, S, S1, SellersOf
  <2>3. Filled' = Filled \cup {e}
    BY <1>12 DEF FillBuy, Filled, entryVars
  <2>4. Sums(lot, lot', F, e) /\ lot'[e] = LotQty
    BY <1>sums, <1>2, <2>2
  <2>5. e \in F => bought1 = bought + LotQty
    <3>1. SUFFICES ASSUME e \in F PROVE bought1 = bought + LotQty
      OBVIOUS
    <3>2. F \cap Filled' = (F \cap Filled) \cup {e} /\ e \notin F \cap Filled
      BY <2>1, <2>3, <3>1
    <3>3. Cardinality(F \cap Filled') = Cardinality(F \cap Filled) + 1
      BY <1>3, <3>2, FS_AddElement
    <3>4. LotQty * (Cardinality(F \cap Filled) + 1) = LotQty * Cardinality(F \cap Filled) + LotQty
      BY <1>2, <1>5
    <3> QED BY <3>3, <3>4 DEF bought, bought1
  <2> QED BY <1>2, <1>4, <1>6, <1>7, <2>1, <2>2, <2>4, <2>5
<1>13. ASSUME NEW e \in Entry, LegSells(e)
       PROVE  SumOf(sold', S1) + SumOf(leg', F) + SumOf(lot', F) <= bought1
  <2>1. leg[e] = 0 /\ lot[e] \in Int
    <3>1. lot[e] > 0 /\ lot[e] \in Int /\ leg[e] \in Nat
      BY <1>13, <1>1 DEF LegSells, TypeOK
    <3> QED BY <3>1 DEF RecordedWasSold
  <2>2. /\ leg' = [leg EXCEPT ![e] = lot[e]] /\ lot' = [lot EXCEPT ![e] = 0]
        /\ sold' = sold /\ S1 = S
    BY <1>13 DEF LegSells, S, S1, SellersOf
  <2>3. Sums(lot, lot', F, e) /\ lot'[e] = 0
    BY <1>sums, <1>2, <2>2
  <2>4. Sums(leg, leg', F, e) /\ leg'[e] = lot[e]
    BY <1>sums, <1>2, <2>1, <2>2
  <2> QED BY <1>4, <1>6, <1>7, <2>1, <2>2, <2>3, <2>4
<1>14. ASSUME NEW e \in Entry, SoldOutside(e)
       PROVE  SumOf(sold', S1) + SumOf(leg', F) + SumOf(lot', F) <= bought1
  <2>1. lot[e] \in Nat
    BY <1>1 DEF TypeOK
  <2>2. lot' = [lot EXCEPT ![e] = 0] /\ leg' = leg /\ sold' = sold /\ S1 = S
    BY <1>14 DEF SoldOutside, S, S1, SellersOf
  <2>3. Sums(lot, lot', F, e) /\ lot'[e] = 0
    BY <1>sums, <1>2, <2>2
  <2> QED BY <1>4, <1>6, <1>7, <2>1, <2>2, <2>3
<1>15. ASSUME NEW e \in Entry, RollOff(e)
       PROVE  SumOf(sold', S1) + SumOf(leg', F) + SumOf(lot', F) <= bought1
  <2>1. lot' = lot /\ leg' = leg /\ sold' = sold /\ S1 = S
    BY <1>15 DEF RollOff, S, S1, SellersOf
  <2> QED BY <1>4, <1>6, <1>7, <2>1
<1>16. CASE UNCHANGED vars
  BY <1>9, <1>16 DEF vars, engineVars
<1> QED BY <1>9, <1>10, <1>11, <1>12, <1>13, <1>14, <1>15, <1>16, LotsMove

LEMMA UnitsConservedNext ==
  ASSUME ExitInv, RecordedWasSold, UnitsConserved, [Next]_vars
  PROVE  UnitsConserved'
<1>1. (\A F \in SUBSET Entry : ConservedIn(F))'
  BY ConservedInNext
<1> QED BY <1>1, ConservedSums, PTL

\* Recorded sales of a set of entries are at most what the set has sold.
LEMMA RecordedIsBounded ==
  ASSUME ExitInv, RecordedWasSold, UnitsConserved, NEW F \in SUBSET Entry, NEW e \in F,
         NEW W \in SUBSET F
  PROVE  /\ SumOf(exitFill, SellersOf(F)) \in Nat /\ SumOf(legFill, W) \in Nat
         /\ SumOf(exitFill, SellersOf(F)) + SumOf(legFill, W) + lot[e]
              <= LotQty * Cardinality(F \cap Filled)
<1> DEFINE S == SellersOf(F)
<1>1. IsFiniteSet(F) /\ IsFiniteSet(W) /\ IsFiniteSet(S)
  BY EntryAssumption, FS_Subset DEF SellersOf
<1>2. /\ \A x \in S : exitFill[x] \in Nat /\ sold[x] \in Nat /\ exitFill[x] <= sold[x]
      /\ \A f \in F : /\ legFill[f] \in Nat /\ leg[f] \in Nat /\ legFill[f] <= leg[f]
                       /\ lot[f] \in Nat
  BY DEF ExitInv, TypeOK, RecordedWasSold, SellersOf
<1>3. SumOf(sold, S) + SumOf(leg, F) + SumOf(lot, F) <= LotQty * Cardinality(F \cap Filled)
  BY ConservedSums DEF ConservedIn
<1> HIDE DEF S
<1>4. SumOf(exitFill, S) <= SumOf(sold, S)
  BY <1>1, <1>2, SumOfMonotone
<1>5. SumOf(legFill, W) <= SumOf(leg, F)
  <2>1. SumOf(legFill, W) <= SumOf(leg, W)
    BY <1>1, <1>2, SumOfMonotone
  <2>2. SumOf(leg, W) <= SumOf(leg, F)
    BY <1>1, <1>2, SumOfPart
  <2>3. SumOf(legFill, W) \in Int /\ SumOf(leg, W) \in Int /\ SumOf(leg, F) \in Int
    BY <1>1, <1>2, SumOfInt
  <2> QED BY <2>1, <2>2, <2>3
<1>6. lot[e] <= SumOf(lot, F)
  <2>1. SumOf(lot, F) = lot[e] + SumOf(lot, F \ {e})
    BY <1>1, <1>2, SumOfWithout
  <2>2. IsFiniteSet(F \ {e}) /\ \A f \in F \ {e} : lot[f] \in Nat
    BY <1>1, <1>2, FS_Subset
  <2>3. SumOf(lot, F \ {e}) \in Nat
    BY <2>2, SumOfNat
  <2> QED BY <1>2, <2>1, <2>3
<1>7. /\ SumOf(exitFill, S) \in Nat /\ SumOf(legFill, W) \in Nat /\ SumOf(sold, S) \in Nat
      /\ SumOf(leg, F) \in Nat /\ SumOf(lot, F) \in Nat /\ lot[e] \in Nat
  BY <1>1, <1>2, SumOfNat
<1>8. LotQty * Cardinality(F \cap Filled) \in Nat
  <2>1. Cardinality(F \cap Filled) \in Nat
    BY <1>1, FS_Subset, FS_CardinalityType
  <2> QED BY <2>1, BoundAssumption
<1> QED BY <1>3, <1>4, <1>5, <1>6, <1>7, <1>8 DEF S

\* While an entry is in its first unit of age, no later entry of the asset is bought.
LEMMA NoneBoughtLater ==
  ASSUME ExitInv, AgeAfterFill, BoughtInTurn, NEW e \in Entry,
         entry[e] = "executed", verdicts[e] = 0, age[e] = 0
  PROVE  /\ e \in window
         /\ \A f \in SameAsset(e) : f > e => f \notin Filled /\ f \notin window
<1>1. e \in window
  BY DEF AgeAfterFill
<1>2. ASSUME NEW f \in SameAsset(e), f > e PROVE f \notin Filled /\ f \notin window
  <2>1. f \in Entry /\ AssetOf[f] = AssetOf[e] /\ e < f
    BY <1>2, EntryAssumption DEF SameAsset
  <2>2. entry[f] = "free"
    BY <2>1, BoundAssumption DEF BoughtInTurn
  <2> QED BY <2>1, <2>2 DEF Filled, ExitInv, UnfilledUntouched
<1> QED BY <1>1, <1>2

\* Whatever lets the close-out finish an entry, nothing of its lot is left.
LEMMA ClosureMeansSold ==
  ASSUME ExitInv, AgeAfterFill, BoughtInTurn, SnapshotShowsAged, RecordedWasSold,
         UnitsConserved, pc = "closing", NEW e \in todoE,
         \/ Closure(e) \in {"closed", "closed-drift", "no-realized-lots"}
         \/ Closure(e) = "partial" /\ age[e] > DriftAge
  PROVE  lot[e] = 0
<1>1. e \in Entry /\ entry[e] = "executed" /\ verdicts[e] = 0 /\ age[e] \in Nat /\ lot[e] \in Nat
  BY DEF ExitInv, GradesPending, TypeOK
<1>2. AssetOf[e] \notin posSnap
  BY DEF Closure
<1>3. CASE age[e] > 0
  BY <1>1, <1>2, <1>3 DEF SnapshotShowsAged
<1>4. CASE age[e] = 0
  <2> DEFINE before == Cardinality({f \in SameAsset(e) : f < e})
             since == {f \in SameAsset(e) : f >= e}
  <2>1. /\ e \in window
        /\ \A f \in SameAsset(e) : f > e => f \notin Filled /\ f \notin window
    BY <1>1, <1>4, NoneBoughtLater
  <2>2. /\ e \in Filled /\ e \in SameAsset(e) /\ SameAsset(e) \subseteq Entry
        /\ e \in Nat /\ \A f \in SameAsset(e) : f \in Nat
    BY <1>1, EntryAssumption DEF Filled, SameAsset
  <2>3. LotQty \in Nat /\ LotQty > 0 /\ DriftAge \in Nat
    BY BoundAssumption
  <2>4. Closure(e) \in {"closed", "closed-drift", "no-realized-lots"}
    BY <1>4, <2>3
  <2>5. CASE MatchedLots(e) = LotQty
    <3>1. /\ SumOf(exitFill, SellersOf(SameAsset(e))) \in Nat
          /\ SumOf(legFill, SameAsset(e)) \in Nat
          /\ SumOf(exitFill, SellersOf(SameAsset(e))) + SumOf(legFill, SameAsset(e)) + lot[e]
               <= LotQty * Cardinality(SameAsset(e) \cap Filled)
      BY <2>2, RecordedIsBounded
    <3>2. RecordedSales(e) = SumOf(exitFill, SellersOf(SameAsset(e))) + SumOf(legFill, SameAsset(e))
      BY DEF RecordedSales, SumOf, SellersOf
    <3>3. /\ before \in Nat /\ Cardinality(SameAsset(e) \cap Filled) \in Nat
          /\ Cardinality(SameAsset(e) \cap Filled) <= before + 1
      <4> DEFINE B == {f \in SameAsset(e) : f < e}
      <4>1. SameAsset(e) \cap Filled \subseteq B \cup {e}
        <5>1. \A f \in SameAsset(e) : f < e \/ f = e \/ f > e
          BY <2>2
        <5> QED BY <2>1, <5>1
      <4>2. IsFiniteSet(B) /\ e \notin B
        <5>1. B \subseteq Entry
          BY <2>2
        <5>2. e \notin B
          BY <2>2
        <5> HIDE DEF B
        <5> QED BY <5>1, <5>2, EntryAssumption, FS_Subset
      <4> HIDE DEF B
      <4>3. IsFiniteSet(B \cup {e}) /\ Cardinality(B \cup {e}) = Cardinality(B) + 1
        BY <4>2, FS_AddElement
      <4>4. /\ IsFiniteSet(SameAsset(e) \cap Filled)
            /\ Cardinality(SameAsset(e) \cap Filled) <= Cardinality(B \cup {e})
        BY <4>1, <4>3, FS_Subset
      <4>5. Cardinality(B) \in Nat /\ Cardinality(SameAsset(e) \cap Filled) \in Nat
        BY <4>2, <4>4, FS_CardinalityType
      <4> QED BY <4>3, <4>4, <4>5 DEF B
    <3> HIDE DEF before
    <3>4. LotQty * Cardinality(SameAsset(e) \cap Filled) <= LotQty * before + LotQty
      <4>1. LotQty * Cardinality(SameAsset(e) \cap Filled) <= LotQty * (before + 1)
        BY <2>3, <3>3, MoreTimes
      <4>2. LotQty * (before + 1) = LotQty * before + LotQty
        BY <2>3, <3>3
      <4> QED BY <4>1, <4>2
    <3>5. RecordedSales(e) - LotQty * before >= LotQty
      <4>1. RecordedSales(e) - LotQty * before \in Int
        BY <2>3, <3>1, <3>2, <3>3
      <4>2. MatchedLots(e) =
              IF RecordedSales(e) - LotQty * before < 0 THEN 0
              ELSE IF RecordedSales(e) - LotQty * before > LotQty THEN LotQty
              ELSE RecordedSales(e) - LotQty * before
        BY DEF MatchedLots, before
      <4> QED BY <2>3, <2>5, <4>1, <4>2
    <3>6. LotQty * before \in Int /\ LotQty * Cardinality(SameAsset(e) \cap Filled) \in Int
      BY <2>3, <3>3
    <3> QED BY <1>1, <2>3, <3>1, <3>2, <3>4, <3>5, <3>6
  <2>6. CASE MatchedLots(e) # LotQty
    <3>1. /\ since \cap Filled = {e} /\ since \cap window = {e}
          /\ e \in since /\ since \in SUBSET Entry
      <4>1. \A f \in since : f = e \/ f > e
        BY <2>2
      <4>2. e \in since /\ since \subseteq SameAsset(e)
        BY <2>2
      <4> HIDE DEF since
      <4> QED BY <2>1, <2>2, <4>1, <4>2
    <3>2. Cardinality({e}) = 1
      <4>1. Cardinality({} \cup {e}) = 0 + 1
        BY FS_EmptySet, FS_AddElement
      <4>2. {} \cup {e} = {e}
        OBVIOUS
      <4> QED BY <4>1, <4>2
    <3>3. BoughtSince(e) = LotQty
      <4>1. {f \in SameAsset(e) \cap window : f >= e} = {e}
        BY <3>1
      <4>2. BoughtSince(e) = LotQty * 1
        BY <3>2, <4>1 DEF BoughtSince
      <4> QED BY <2>3, <4>2
    <3>4. SoldSince(e) = SumOf(exitFill, SellersOf(since)) + SumOf(legFill, since \cap window)
      <4>1. {x \in Exit : victim[x] \in SameAsset(e) /\ victim[x] >= e} = SellersOf(since)
        BY DEF SellersOf
      <4>2. {f \in SameAsset(e) \cap window : f >= e} = since \cap window
        OBVIOUS
      <4> HIDE DEF since
      <4> QED BY <4>1, <4>2 DEF SoldSince, SumOf
    <3>5. /\ SumOf(exitFill, SellersOf(since)) \in Nat /\ SumOf(legFill, since \cap window) \in Nat
          /\ SumOf(exitFill, SellersOf(since)) + SumOf(legFill, since \cap window) + lot[e]
               <= LotQty * Cardinality(since \cap Filled)
      <4> HIDE DEF since
      <4>1. since \cap window \in SUBSET since
        OBVIOUS
      <4> QED BY <3>1, <4>1, RecordedIsBounded
    <3>6. LotQty * Cardinality(since \cap Filled) = LotQty
      BY <2>3, <3>1, <3>2
    <3>7. SoldSince(e) + lot[e] <= LotQty /\ SoldSince(e) \in Nat
      BY <3>4, <3>5, <3>6
    <3>8. ~ (BoughtSince(e) > SoldSince(e))
      BY <1>1, <1>2, <1>4, <2>3, <2>4, <2>6, <3>3 DEF Closure
    <3> QED BY <1>1, <2>3, <3>3, <3>7, <3>8
  <2> QED BY <2>5, <2>6
<1> QED BY <1>1, <1>3, <1>4

LEMMA ClosedOnlyWhenSoldNext ==
  ASSUME ExitInv, CloseInv, [Next]_vars
  PROVE  ClosedOnlyWhenSold'
<1> USE DEF CloseInv
<1> SUFFICES ASSUME NEW e \in Entry, entry'[e] = "closed" \/ verdicts'[e] > 0
             PROVE  lot'[e] = 0
  BY DEF ClosedOnlyWhenSold
<1>1. TypeOK /\ TypeOK'
  BY ExitInvNext DEF ExitInv
<1>2. CASE lot[e] = 0 /\ ~ FillBuy(e)
  <2>1. ~ (lot'[e] > 0)
    BY <1>2, LotsShrink
  <2> QED BY <1>1, <2>1 DEF TypeOK
<1>3. ~ FillBuy(e)
  <2>1. ASSUME FillBuy(e) PROVE FALSE
    <3>1. entry[e] = "pending_fill" /\ verdicts[e] = 0
      BY <2>1 DEF FillBuy, ExitInv, GradesPending
    <3>2. entry' = entry /\ verdicts' = verdicts
      BY <2>1 DEF FillBuy, entryVars
    <3> QED BY <3>1, <3>2
  <2> QED BY <2>1
<1>4. lot[e] = 0
  <2>1. CASE UNCHANGED <<entry, age, verdicts>>
    BY <2>1 DEF ClosedOnlyWhenSold
  <2>2. CASE PassTime
    BY <2>2 DEF PassTime, ClosedOnlyWhenSold
  <2>3. CASE CloseGraded
    <3>1. entry[e] = "closed" \/ verdicts[e] > 0
      BY <2>3 DEF CloseGraded, ExitInv, GradesPending, TypeOK
    <3> QED BY <3>1 DEF ClosedOnlyWhenSold
  <2>4. ASSUME NEW f \in Entry, Buy(f) \/ ReconcileEntry(f) PROVE lot[e] = 0
    <3>1. entry[e] = "closed" \/ verdicts[e] > 0
      BY <1>1, <2>4 DEF Buy, ReconcileEntry, TypeOK
    <3> QED BY <3>1 DEF ClosedOnlyWhenSold
  <2>5. ASSUME NEW f \in Entry, CloseUngraded(f) PROVE lot[e] = 0
    <3>1. CASE e = f
      BY <2>5, <3>1, ClosureMeansSold DEF CloseUngraded
    <3>2. CASE e # f
      BY <1>1, <2>5, <3>2 DEF CloseUngraded, TypeOK, ClosedOnlyWhenSold
    <3> QED BY <3>1, <3>2
  <2>6. ASSUME NEW f \in Entry, InsertVerdict(f) PROVE lot[e] = 0
    <3>1. CASE e = f
      BY <2>6, <3>1, ClosureMeansSold DEF InsertVerdict
    <3>2. CASE e # f
      BY <1>1, <2>6, <3>2 DEF InsertVerdict, TypeOK, ClosedOnlyWhenSold
    <3> QED BY <3>1, <3>2
  <2>7. CASE UNCHANGED vars
    BY <2>1, <2>7 DEF vars, entryVars
  <2> QED BY <2>1, <2>2, <2>3, <2>4, <2>5, <2>6, <2>7, EntryRowsMove
<1> QED BY <1>2, <1>3, <1>4

LEMMA CloseInvInit == Init => CloseInv
<1>1. Init => AgeAfterFill /\ BoughtInTurn
  BY DEF Init, AgeAfterFill, BoughtInTurn
<1>2. Init => SnapshotShowsAged /\ ClosedOnlyWhenSold
  BY DEF Init, SnapshotShowsAged, ClosedOnlyWhenSold
<1>3. Init => RecordedWasSold
  BY DEF Init, RecordedWasSold, NothingSeen
<1> QED BY <1>1, <1>2, <1>3, UnitsConservedInit DEF CloseInv

LEMMA CloseInvNext == ExitInv /\ CloseInv /\ [Next]_vars => CloseInv'
<1> SUFFICES ASSUME ExitInv, CloseInv, [Next]_vars PROVE CloseInv'
  OBVIOUS
<1>1. AgeAfterFill'
  BY AgeAfterFillNext DEF CloseInv
<1>2. BoughtInTurn'
  BY BoughtInTurnNext DEF CloseInv
<1>3. SnapshotShowsAged'
  BY SnapshotShowsAgedNext DEF CloseInv
<1>4. RecordedWasSold'
  BY RecordedWasSoldNext DEF CloseInv
<1>5. UnitsConserved'
  BY UnitsConservedNext DEF CloseInv
<1>6. ClosedOnlyWhenSold'
  BY ClosedOnlyWhenSoldNext
<1> QED BY <1>1, <1>2, <1>3, <1>4, <1>5, <1>6 DEF CloseInv

\* processClosure and closeUngraded close or grade no entry of which anything is left
\* at the broker, however late the snapshots and the recorded fills are.
THEOREM ClosedMeansSold == Spec => []ClosedOnlyWhenSold
<1>1. Spec => []CloseInv
  BY CloseInvInit, CloseInvNext, ExitInvariant, PTL DEF Spec
<1>2. CloseInv => ClosedOnlyWhenSold
  BY DEF CloseInv
<1> QED BY <1>1, <1>2, PTL
=============================================================================
