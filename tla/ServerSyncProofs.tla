-------------------------- MODULE ServerSyncProofs --------------------------
(***************************************************************************)
(* The push of the trader tables keeps the promise of the event feed, for  *)
(* any number of pushes under way, any batch size up to the server's cap   *)
(* and any number of events, rows and restarts.                            *)
(*                                                                         *)
(* The promise is about the cursor; a push carries a copy of it while the  *)
(* cursor moves on or falls back.  So the invariant says of every push     *)
(* under way what held of the cursor when it started, and of a stored push *)
(* that its whole batch arrived: the cap may not have cut it.              *)
(***************************************************************************)
EXTENDS ServerSync, TLAPS

\* what a push under way still knows of the cursor it read
PushKnows(p) ==
  /\ from[p] <= to[p]
  /\ to[p] <= from[p] + MaxRows
  /\ to[p] <= logged
  /\ 1..from[p] \subseteq remote

SyncInv ==
  /\ TypeOK
  /\ remote \subseteq 1..logged
  /\ cursor <= logged
  /\ 1..cursor \subseteq remote
  /\ \A p \in Push : push[p] # "free" => PushKnows(p)
  /\ \A p \in Push : push[p] = "stored" => 1..to[p] \subseteq remote

-----------------------------------------------------------------------------
(* A batch within the server's cap is stored whole.                        *)
LEMMA BatchIsWhole ==
  ASSUME SyncInv, NEW p \in Push, push[p] # "free"
  PROVE  /\ Batch(p) = (from[p] + 1)..to[p]
         /\ Batch(p) \subseteq 1..logged
         /\ 1..to[p] \subseteq remote \cup Batch(p)
<1>1. /\ from[p] \in Nat /\ to[p] \in Nat /\ logged \in Nat
      /\ PushKnows(p)
  BY DEF SyncInv, TypeOK
<1>2. Batch(p) = (from[p] + 1)..to[p]
  BY <1>1, SyncAssumption DEF Batch, Lesser, PushKnows
<1>3. Batch(p) \subseteq 1..logged
  BY <1>1, <1>2 DEF PushKnows
<1>4. 1..to[p] \subseteq remote \cup Batch(p)
  BY <1>1, <1>2 DEF PushKnows
<1> QED BY <1>2, <1>3, <1>4

(* A new batch starts behind the cursor, ends in the log and fits the cap. *)
LEMMA BatchEndBounds ==
  ASSUME SyncInv
  PROVE  /\ BatchEnd \in Nat
         /\ cursor <= BatchEnd
         /\ BatchEnd <= logged
         /\ BatchEnd <= cursor + MaxRows
BY SyncAssumption DEF SyncInv, TypeOK, BatchEnd, Lesser

LEMMA InitSync == Init => SyncInv
BY DEF Init, SyncInv, TypeOK

LEMMA NextSync == SyncInv /\ [Next]_vars => SyncInv'
<1> SUFFICES ASSUME SyncInv, [Next]_vars PROVE SyncInv'
  OBVIOUS
<1>1. CASE Record
  BY <1>1 DEF Record, SyncInv, TypeOK, PushKnows, pushVars, serverVars
<1>2. ASSUME NEW r \in Row, Change(r) PROVE SyncInv'
  BY <1>2 DEF Change, SyncInv, TypeOK, PushKnows, pushVars, serverVars
<1>3. ASSUME NEW r \in Row, GrowOld(r) PROVE SyncInv'
  BY <1>3 DEF GrowOld, SyncInv, TypeOK, PushKnows, pushVars, serverVars
<1>4. ASSUME NEW p \in Push, StartPush(p) PROVE SyncInv'
  <2>1. /\ UNCHANGED <<botVars, serverVars>>
        /\ push' = [push EXCEPT ![p] = "sent"]
        /\ from' = [from EXCEPT ![p] = cursor]
        /\ to' = [to EXCEPT ![p] = BatchEnd]
        /\ shot' = [shot EXCEPT ![p] =
                      [r \in Row |-> IF r \in recent THEN version[r] ELSE 0]]
    BY <1>4 DEF StartPush
  <2>2. TypeOK'
    BY <2>1, BatchEndBounds DEF SyncInv, TypeOK, botVars, serverVars
  <2>3. \A q \in Push : push'[q] # "free" => PushKnows(q)'
    BY <2>1, BatchEndBounds DEF SyncInv, TypeOK, PushKnows, botVars, serverVars
  <2>4. \A q \in Push : push'[q] = "stored" => 1..to'[q] \subseteq remote'
    BY <2>1 DEF SyncInv, TypeOK, serverVars
  <2> QED BY <2>1, <2>2, <2>3, <2>4 DEF SyncInv, botVars, serverVars
<1>5. ASSUME NEW p \in Push, push[p] # "free", Store(p),
             push' \in [Push -> {"free", "sent", "stored", "late"}],
             \A q \in Push \ {p} : push'[q] = push[q],
             UNCHANGED <<botVars, from, to, shot>>
      PROVE  SyncInv'
  <2>1. remote' = remote \cup Batch(p)
    BY <1>5 DEF Store
  <2>2. TypeOK'
    <3>1. copy' \in [Row -> Nat]
      BY <1>5 DEF Store, StoreRows, SyncInv, TypeOK
    <3>2. remote' \subseteq Nat
      <4>1. Batch(p) \subseteq Nat
        BY <1>5, BatchIsWhole DEF SyncInv, TypeOK
      <4> QED BY <2>1, <4>1 DEF SyncInv, TypeOK
    <3> QED BY <1>5, <3>1, <3>2 DEF SyncInv, TypeOK, botVars
  <2>3. remote' \subseteq 1..logged' /\ 1..cursor' \subseteq remote' /\ cursor' <= logged'
    BY <1>5, <2>1, BatchIsWhole DEF SyncInv, botVars
  <2>4. \A q \in Push : push'[q] # "free" => PushKnows(q)'
    BY <1>5, <2>1 DEF SyncInv, PushKnows, botVars
  <2>5. \A q \in Push : push'[q] = "stored" => 1..to'[q] \subseteq remote'
    BY <1>5, <2>1, BatchIsWhole DEF SyncInv
  <2> QED BY <2>2, <2>3, <2>4, <2>5 DEF SyncInv
<1>6. ASSUME NEW p \in Push, Deliver(p) PROVE SyncInv'
  BY <1>5, <1>6 DEF Deliver, SyncInv, TypeOK
<1>7. ASSUME NEW p \in Push, DeliverLate(p) PROVE SyncInv'
  BY <1>5, <1>7 DEF DeliverLate, SyncInv, TypeOK
<1>8. ASSUME UNCHANGED <<botVars, from, to, shot, serverVars>>,
             push' \in [Push -> {"free", "sent", "stored", "late"}],
             \A q \in Push : push'[q] # "free" => push[q] # "free",
             \A q \in Push : push'[q] = "stored" => push[q] = "stored"
      PROVE  SyncInv'
  BY <1>8 DEF SyncInv, TypeOK, PushKnows, botVars, serverVars
<1>9. ASSUME NEW p \in Push, Refuse(p) PROVE SyncInv'
  BY <1>8, <1>9 DEF Refuse, SyncInv, TypeOK
<1>10. ASSUME NEW p \in Push, MissReply(p) PROVE SyncInv'
  BY <1>8, <1>10 DEF MissReply, SyncInv, TypeOK
<1>11. ASSUME NEW p \in Push, Timeout(p) PROVE SyncInv'
  BY <1>8, <1>11 DEF Timeout, SyncInv, TypeOK
<1>12. CASE Restart
  BY <1>8, <1>12 DEF Restart, SyncInv, TypeOK
<1>13. ASSUME NEW p \in Push, Acknowledge(p) PROVE SyncInv'
  <2>1. /\ push' = [push EXCEPT ![p] = "free"]
        /\ UNCHANGED <<logged, version, recent, from, to, shot, serverVars>>
    BY <1>13 DEF Acknowledge
  <2>2. cursor' \in Nat /\ cursor' <= logged /\ 1..cursor' \subseteq remote
    BY <1>13 DEF Acknowledge, CursorAfter, SyncInv, TypeOK, PushKnows
  <2> QED BY <2>1, <2>2 DEF SyncInv, TypeOK, PushKnows, serverVars
<1>14. CASE UNCHANGED vars
  BY <1>14 DEF SyncInv, TypeOK, PushKnows, vars, botVars, pushVars, serverVars
<1> QED
  BY <1>1, <1>2, <1>3, <1>4, <1>6, <1>7, <1>9, <1>10, <1>11, <1>12, <1>13, <1>14
  DEF Next

(* Every variable keeps its type, whatever pushes are lost, late or         *)
(* repeated.  About server-sync.ts and sync.ts.                             *)
THEOREM SyncTypeCorrect == Spec => []TypeOK
<1>1. SyncInv => TypeOK
  BY DEF SyncInv
<1> QED BY <1>1, InitSync, NextSync, PTL DEF Spec

-----------------------------------------------------------------------------
LEMMA FeedStep == SyncInv /\ [Next]_vars => [Feed!Next]_<<logged, remote, cursor>>
<1> SUFFICES ASSUME SyncInv, [Next]_vars
             PROVE  Feed!Next \/ UNCHANGED <<logged, remote, cursor>>
  OBVIOUS
<1> USE DEF botVars, pushVars, serverVars
<1>1. CASE Record
  BY <1>1 DEF Record, Feed!Next, Feed!Record
<1>2. ASSUME NEW p \in Push, push[p] # "free", Store(p), UNCHANGED botVars
      PROVE  Feed!Next
  <2>1. Batch(p) \in SUBSET (1..logged)
    BY <1>2, BatchIsWhole
  <2>2. Feed!Arrive(Batch(p))
    BY <1>2, <2>1 DEF Store, Feed!Arrive
  <2> QED BY <2>1, <2>2 DEF Feed!Next
<1>3. ASSUME NEW p \in Push, Deliver(p) \/ DeliverLate(p) PROVE Feed!Next
  BY <1>2, <1>3 DEF Deliver, DeliverLate
<1>4. ASSUME NEW p \in Push, Acknowledge(p) PROVE Feed!Next
  <2>1. cursor' \in 0..logged /\ 1..cursor' \subseteq remote
    BY <1>4 DEF Acknowledge, CursorAfter, SyncInv, TypeOK, PushKnows
  <2>2. Feed!Count(cursor')
    BY <1>4, <2>1 DEF Acknowledge, Feed!Count
  <2> QED BY <2>1, <2>2 DEF Feed!Next
<1>5. ASSUME NEW p \in Push, StartPush(p) \/ Refuse(p) \/ MissReply(p) \/ Timeout(p)
      PROVE  UNCHANGED <<logged, remote, cursor>>
  BY <1>5 DEF StartPush, Refuse, MissReply, Timeout
<1>6. ASSUME NEW r \in Row, Change(r) \/ GrowOld(r)
      PROVE  UNCHANGED <<logged, remote, cursor>>
  BY <1>6 DEF Change, GrowOld
<1>7. CASE Restart \/ UNCHANGED vars
  BY <1>7 DEF Restart, vars
<1> QED BY <1>1, <1>3, <1>4, <1>5, <1>6, <1>7 DEF Next

(* The push implements the event feed: no gap below the cursor and no event *)
(* lost by the server, however pushes overlap, fail, repeat or come late.   *)
THEOREM SyncKeepsPromise == Spec => FeedPromise
<1>1. Init => Feed!Init
  BY DEF Init, Feed!Init
<1> QED BY <1>1, InitSync, NextSync, FeedStep, PTL DEF Spec, FeedPromise, Feed!Spec
=============================================================================
