-------------------------- MODULE ExitLifecycleInv --------------------------
(***************************************************************************)
(* The inductive invariant behind the theorems of ExitLifecycleProofs.  It *)
(* holds with late requests, lost orders, bracket and outside sales and    *)
(* any number of restarts.                                                 *)
(***************************************************************************)
EXTENDS ExitLifecycle

\* Before its buy fills an entry has no lot, and no exit order sells it.
UnfilledUntouched ==
  \A e \in Entry :
    /\ entry[e] = "free" => e \notin window
    /\ entry[e] \in {"free", "pending_fill"} /\ e \notin window =>
         lot[e] = 0 /\ \A x \in Exit : victim[x] # e

\* An exit id is fresh until its row is inserted; an order sells a lot of the asset
\* its row names, no more than the lot, and works only while some of it is left.
OrdersSellOneLot ==
  \A x \in Exit :
    /\ exit[x] = "free" => order[x] = "none" /\ x \notin inflight
    /\ exit[x] # "free" => parent[x] \in Entry
    /\ order[x] = "none" => sold[x] = 0
    /\ order[x] # "none" =>
         /\ victim[x] \in Entry
         /\ AssetOf[victim[x]] = AssetOf[parent[x]]
         /\ sold[x] + lot[victim[x]] <= LotQty
    /\ order[x] = "working" => lot[victim[x]] > 0

\* The broker works one closing order per asset.
OneClosingOrder ==
  \A x, y \in Exit :
    /\ order[x] = "working" /\ order[y] = "working"
    /\ AssetOf[victim[x]] = AssetOf[victim[y]]
    => x = y

\* What the orders snapshot shows as over is over.
SeenIsOver ==
  pc = "reconciling" =>
    \A x \in Exit : seen[x].status \in {"filled", "canceled"} => order[x] = seen[x].status

\* The rows a sweep has still to visit, and the exit whose reply is awaited, are as
\* the sweep left them.
ExitCursorOK ==
  /\ pc = "reconciling" => \A x \in todoX : exit[x] \in InFlightExit
  /\ pc \in {"recover", "recovering"} => \A x \in todoX : exit[x] = "exit_unknown"
  /\ pc = "recovering" =>
       curX \in Exit /\ curX \notin todoX /\ exit[curX] = "exit_unknown"
  /\ pc = "exiting" => /\ curX \in Exit /\ exit[curX] = "exit_submitted"
                       /\ parent[curX] \notin todoE
                       /\ curX \in inflight => order[curX] = "none"

\* An entry still to be swept has no exit in flight.
CandidatesFree ==
  pc \in {"sweeping", "exiting"} =>
    \A e \in todoE, x \in Exit : parent[x] = e => exit[x] \notin InFlightExit

\* Entries not closed have no stamp; the close-out visits entries without a verdict
\* and closes the one it graded.
GradesPending ==
  /\ \A e \in Entry : entry[e] # "closed" => ~ungraded[e]
  /\ \A e \in Entry : entry[e] \in {"free", "pending_fill"} => verdicts[e] = 0
  /\ pc \in {"closing", "graded"} =>
       \A e \in todoE : entry[e] = "executed" /\ verdicts[e] = 0
  /\ pc = "graded" => curE \in Entry /\ entry[curE] = "executed" /\ verdicts[curE] = 1
  /\ pc = "reconciling" => \A e \in todoE : entry[e] = "pending_fill" /\ e \in window

ExitInv ==
  /\ TypeOK
  /\ UnfilledUntouched
  /\ OrdersSellOneLot
  /\ OneClosingOrder
  /\ SeenIsOver
  /\ ExitCursorOK
  /\ CandidatesFree
  /\ GradesPending
  /\ OneExitInFlight
  /\ LiveExitIsTracked
  /\ AccountedOnce

-----------------------------------------------------------------------------
(* What the close-out relies on: how the entries of an asset follow each    *)
(* other, how old a snapshot can be, and what the recorded fills show.      *)

Filled == {f \in Entry : entry[f] \notin {"free", "pending_fill"} \/ f \in window}

\* An entry ages from its fill on, and stays in the orders window in its first unit.
AgeAfterFill ==
  \A e \in Entry :
    /\ entry[e] \in {"free", "pending_fill"} => age[e] = 0
    /\ age[e] = 0 /\ entry[e] \notin {"free", "pending_fill"} => e \in window

\* The next entry of an asset is bought when the one before is done or has settled.
BoughtInTurn ==
  \A e, f \in Entry :
    /\ AssetOf[e] = AssetOf[f] /\ e < f /\ entry[f] # "free"
    => /\ entry[e] \notin {"free", "pending_fill"}
       /\ entry[e] = "closed" \/ verdicts[e] > 0 \/ age[e] > HoldSettle

\* A position that has aged is in the snapshot, also in the one of the close-out.
SnapshotShowsAged ==
  /\ \A e \in Entry : age[e] > 0 /\ lot[e] > 0 => AssetOf[e] \in snapHeld
  /\ pc \in {"closing", "graded"} =>
       \A e \in todoE : age[e] > 0 /\ lot[e] > 0 => AssetOf[e] \in posSnap

\* Recorded sales were made; a bracket leg sells what is left of the lot.
RecordedWasSold ==
  /\ \A x \in Exit : exitFill[x] <= sold[x] /\ seen[x].qty <= sold[x]
  /\ \A e \in Entry : legFill[e] <= leg[e] /\ (leg[e] > 0 => lot[e] = 0)
  /\ \A e \in Entry : e \notin Filled => leg[e] = 0

\* No unit is sold twice: what a set of entries has sold and still holds was bought.
UnitsConserved ==
  \A F \in SUBSET Entry :
    MapThenSumSet(LAMBDA x : sold[x], {x \in Exit : victim[x] \in F})
      + MapThenSumSet(LAMBDA f : leg[f], F) + MapThenSumSet(LAMBDA f : lot[f], F)
    <= LotQty * Cardinality(F \cap Filled)

CloseInv ==
  /\ AgeAfterFill
  /\ BoughtInTurn
  /\ SnapshotShowsAged
  /\ RecordedWasSold
  /\ UnitsConserved
  /\ ClosedOnlyWhenSold
=============================================================================
