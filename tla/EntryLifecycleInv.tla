------------------------- MODULE EntryLifecycleInv -------------------------
(***************************************************************************)
(* The inductive invariants behind the theorems of EntryLifecycleProofs.   *)
(* EntryInv carries OneOpenEntryPerAsset and holds whatever the engine and *)
(* the network do.  OrderInv carries FailedMeansNoExposure and the order   *)
(* contract; it needs requests that settle within a backoff and orders     *)
(* that stay in the GET /orders window.                                    *)
(***************************************************************************)
EXTENDS EntryLifecycle

\* Every row that exists belongs to a signal, and no order goes without a row.
RowsOwned ==
  \A d \in Decision :
    IF dec[d] = "free" THEN order[d] = "none" /\ d \notin inflight
    ELSE owner[d] \in Signal

\* The signal and the row a step works on are there, in the status it left them.
CursorOK ==
  /\ pc \in {"committee", "submit", "announce"} => cur \in Signal
  /\ pc \in {"submit", "announce", "resubmit"} => curDec \in Decision
  /\ pc = "submit" => dec[curDec] = "submitting"
  /\ pc = "resubmit" => dec[curDec] = "retry_pending" /\ curDec \notin todo

\* Nobody else moves the rows a sweep has still to visit.
TodoOK ==
  /\ pc = "reconciling" => \A d \in todo : dec[d] \in OpenAtBroker
  /\ pc \in {"retrying", "resubmit"} => \A d \in todo : dec[d] = "retry_pending"

\* What gate -2 saw still holds when the committee answers.
GateStillClear ==
  pc = "committee" =>
    \A d \in Decision : dec[d] \in OpenEntry => AssetOf[owner[d]] # AssetOf[cur]

EntryInv ==
  /\ TypeOK
  /\ RowsOwned
  /\ CursorOK
  /\ TodoOK
  /\ GateStillClear
  /\ OneOpenEntryPerAsset

\* A request in flight is being waited for, or its row is still backing off.
InflightOK ==
  \A d \in inflight :
    \/ pc \in {"submit", "resubmit"} /\ d = curDec
    \/ dec[d] = "retry_pending" /\ wait[d] > 0

\* What every status says of the order.
StatusMatchesOrder ==
  \A d \in Decision :
    /\ dec[d] \in OpenAtBroker => order[d] # "none"
    /\ dec[d] = "executed" => order[d] \in {"filled", "sold"}
    /\ dec[d] = "failed" => order[d] \in {"none", "dead"}
    /\ dec[d] = "closed" => order[d] = "sold"

\* The window shows every order.
AllListed == \A d \in Decision : order[d] # "none" => d \in listed

\* For the rows still to visit the snapshot is old but not wrong: they are not
\* in flight, and what it shows of their orders cannot be undone.
SeenOK ==
  pc \in {"reconciling", "retrying", "resubmit"} =>
    \A d \in todo :
      /\ d \notin inflight
      /\ seen[d] # "sold"
      /\ seen[d] = "none" <=> order[d] = "none"
      /\ seen[d] = "filled" => order[d] \in {"filled", "sold"}
      /\ seen[d] = "dead" => order[d] = "dead"

OrdersKnown ==
  /\ InflightOK
  /\ StatusMatchesOrder
  /\ AllListed
  /\ SeenOK

OrderInv == EntryInv /\ OrdersKnown
\* The phases of a tick before sync has converged signals onto rows.
BeforeSync == {"idle", "reconcile", "reconciling", "retry", "retrying", "resubmit", "sync"}

\* Until sync has run, a signal lags behind a row the retry sweep just moved; after
\* a crash it may lag behind any row.
MayLag(d) ==
  \/ pc \in {"retrying", "resubmit", "sync"}
  \/ pc = "announce" /\ d = curDec
  \/ restarts > 0 /\ pc \in BeforeSync

\* A signal with a live row has left the queue, and past sync it has followed it.
SignalFollowsRow ==
  \A d \in Decision :
    /\ dec[d] \in OpenAtBroker =>
         \/ sig[owner[d]] \in {"submitted", "executed", "failed"}
         \/ sig[owner[d]] = "dispatching" /\ MayLag(d)
    /\ dec[d] = "executed" =>
         \/ sig[owner[d]] \in {"submitted", "executed", "failed"}
         \/ sig[owner[d]] = "dispatching" /\ restarts > 0 /\ pc \in BeforeSync
    /\ dec[d] = "closed" => sig[owner[d]] \in {"submitted", "executed", "failed"}

\* The dispatcher works on a claimed signal and on a row of it.
ClaimHeld ==
  /\ pc \in {"committee", "submit", "announce"} => sig[cur] = "dispatching"
  /\ pc \in {"submit", "announce"} => owner[curDec] = cur
  /\ pc = "announce" => \A d \in Decision : dec[d] \in Intent => owner[d] # cur

\* All rows of a signal but one have failed.
OneLiveRow ==
  \A d, e \in Decision :
    /\ dec[d] \notin {"free", "failed"} /\ dec[e] \notin {"free", "failed"}
    /\ owner[d] = owner[e]
    => d = e

\* What a single crash cannot break; a second one, after the reconciler and
\* before sync, puts the signal of an executed row back into the queue.
SlotInv ==
  restarts <= 1 =>
    /\ IntentKeepsSlot
    /\ SignalFollowsRow
    /\ ClaimHeld
    /\ OneLiveRow

\* A row stands for a lot or may yet bring one.
Holding(d) ==
  \/ dec[d] \in OpenEntry
  \/ dec[d] = "executed" /\ order[d] = "filled"

OneHolding ==
  \A d, e \in Decision :
    Holding(d) /\ Holding(e) /\ AssetOf[owner[d]] = AssetOf[owner[e]] => d = e

\* What gate -1 saw still holds when the committee answers.
StillFlat ==
  pc = "committee" =>
    \A d \in Decision : Holding(d) => AssetOf[owner[d]] # AssetOf[cur]

\* Two units after the last moment it can fill, a lot is in the engine's snapshot;
\* one unit before, at least nothing moves its asset any more.
SnapshotCatchesUp ==
  \A d \in Decision :
    order[d] = "filled" =>
      /\ decAge[d] >= FillWindow + 1 => AssetOf[owner[d]] \notin changed
      /\ decAge[d] >= FillWindow + 2 => AssetOf[owner[d]] \in snapHeld

\* The copy a dispatch loop works with misses only lots that were too young when
\* it was read.
SweepSees ==
  /\ snapAge <= SweepTime
  /\ pc \in {"dispatching", "committee", "submit", "announce"} =>
       \A d \in Decision :
         order[d] = "filled" /\ decAge[d] >= FillWindow + 2 + snapAge =>
           AssetOf[owner[d]] \in posSnap

LotInv ==
  /\ OneHolding
  /\ StillFlat
  /\ SnapshotCatchesUp
  /\ SweepSees

=============================================================================
