----------------------------- MODULE ServerSync -----------------------------
(***************************************************************************)
(* The push of the trader tables to the dashboard server after a tick.     *)
(*                                                                         *)
(* A push reads the cursor, the next batch of operational events and the   *)
(* rows inside the window, posts them and does not wait: the next tick may *)
(* push again while the first reply is still out.  The server stores a     *)
(* push in one transaction, ignores events it has and replaces rows.  The  *)
(* cursor follows the last event of a push that was acknowledged.  A push  *)
(* may be lost, refused, stored with its reply lost, or stored after the   *)
(* bot gave up or restarted.                                               *)
(***************************************************************************)
EXTENDS Integers

CONSTANTS
  Row,          \* rows of a snapshot table (decisions)
  Push,         \* ids for pushes under way
  BatchSize,    \* OPERATIONAL_EVENT_BATCH_SIZE
  MaxRows,      \* MAX_ROWS_PER_TABLE of the server
  MaxEvents,    \* bound on the events recorded
  MaxVersion    \* bound on the changes of a row

ASSUME SyncAssumption ==
  /\ BatchSize \in Nat \ {0}
  /\ MaxRows \in Nat
  /\ BatchSize <= MaxRows
  /\ MaxEvents \in Nat
  /\ MaxVersion \in Nat

VARIABLES
  \* the bot
  logged,    \* trader_operational_events: 1..logged
  cursor,    \* kv_settings, the event cursor
  version,   \* how often the row changed; 0 before its INSERT
  recent,    \* rows inside SYNC_WINDOW_DAYS
  \* pushes
  push,      \* free, sent, stored (reply under way), late (nobody waits)
  from, to,  \* the events of a push are from+1..to
  shot,      \* versions of the rows of a push; 0 if left out
  \* the server
  remote,    \* events stored
  copy       \* version of the row stored

botVars    == <<logged, cursor, version, recent>>
pushVars   == <<push, from, to, shot>>
serverVars == <<remote, copy>>
vars == <<botVars, pushVars, serverVars>>

TypeOK ==
  /\ logged \in Nat
  /\ cursor \in Nat
  /\ version \in [Row -> Nat]
  /\ recent \subseteq Row
  /\ push \in [Push -> {"free", "sent", "stored", "late"}]
  /\ from \in [Push -> Nat]
  /\ to \in [Push -> Nat]
  /\ shot \in [Push -> [Row -> Nat]]
  /\ remote \subseteq Nat
  /\ copy \in [Row -> Nat]

Init ==
  /\ logged = 0
  /\ cursor = 0
  /\ version = [r \in Row |-> 0]
  /\ recent = Row
  /\ push = [p \in Push |-> "free"]
  /\ from = [p \in Push |-> 0]
  /\ to = [p \in Push |-> 0]
  /\ shot = [p \in Push |-> [r \in Row |-> 0]]
  /\ remote = {}
  /\ copy = [r \in Row |-> 0]

-----------------------------------------------------------------------------
(* The rest of the bot writes events and rows.                             *)

Record ==
  /\ logged < MaxEvents
  /\ logged' = logged + 1
  /\ UNCHANGED <<cursor, version, recent, pushVars, serverVars>>

Change(r) ==
  /\ version[r] < MaxVersion
  /\ version' = [version EXCEPT ![r] = @ + 1]
  /\ UNCHANGED <<logged, cursor, recent, pushVars, serverVars>>

GrowOld(r) ==
  /\ version[r] > 0
  /\ recent' = recent \ {r}
  /\ UNCHANGED <<logged, cursor, version, pushVars, serverVars>>

-----------------------------------------------------------------------------
(* syncTraderTablesToServer, up to the request.                            *)

Lesser(m, n) == IF m < n THEN m ELSE n

\* mutant: no LIMIT
BatchEndNewest == logged

\* mutant: the batch starts at the first event, whatever the cursor
BatchEndFirst == Lesser(BatchSize, logged)

\* WHERE seq > cursor ORDER BY seq ASC LIMIT BatchSize
BatchEnd == Lesser(cursor + BatchSize, logged)

StartPush(p) ==
  /\ push[p] = "free"
  /\ push' = [push EXCEPT ![p] = "sent"]
  /\ from' = [from EXCEPT ![p] = cursor]
  /\ to' = [to EXCEPT ![p] = BatchEnd]
  /\ shot' = [shot EXCEPT ![p] = [r \in Row |-> IF r \in recent THEN version[r] ELSE 0]]
  /\ UNCHANGED <<botVars, serverVars>>

-----------------------------------------------------------------------------
(* commitTraderSync: one transaction for the whole push.                   *)

\* rows.slice(0, MAX_ROWS_PER_TABLE): the rest is dropped without an error
Batch(p) == (from[p] + 1)..Lesser(to[p], from[p] + MaxRows)

\* mutant: INSERT OR IGNORE for the rows too
StoreRowsOnce(p) ==
  copy' = [r \in Row |-> IF shot[p][r] > 0 /\ copy[r] = 0 THEN shot[p][r] ELSE copy[r]]

\* INSERT OR REPLACE: the push that comes last wins, not the newest
StoreRows(p) ==
  copy' = [r \in Row |-> IF shot[p][r] > 0 THEN shot[p][r] ELSE copy[r]]

Store(p) ==
  /\ remote' = remote \cup Batch(p)
  /\ StoreRows(p)

Deliver(p) ==
  /\ push[p] = "sent"
  /\ push' = [push EXCEPT ![p] = "stored"]
  /\ Store(p)
  /\ UNCHANGED <<botVars, from, to, shot>>

DeliverLate(p) ==
  /\ push[p] = "late"
  /\ push' = [push EXCEPT ![p] = "free"]
  /\ Store(p)
  /\ UNCHANGED <<botVars, from, to, shot>>

\* 4xx, 5xx or no connection: the transaction left nothing
Refuse(p) ==
  /\ push[p] \in {"sent", "late"}
  /\ push' = [push EXCEPT ![p] = "free"]
  /\ UNCHANGED <<botVars, from, to, shot, serverVars>>

-----------------------------------------------------------------------------
(* The reply, and the ways to miss it.                                     *)

\* payload.operational_events.at(-1): an empty batch leaves the cursor alone,
\* a slow reply may move it back
CursorAfter(p) == IF from[p] < to[p] THEN to[p] ELSE cursor

Acknowledge(p) ==
  /\ push[p] = "stored"
  /\ push' = [push EXCEPT ![p] = "free"]
  /\ cursor' = CursorAfter(p)
  /\ UNCHANGED <<logged, version, recent, from, to, shot, serverVars>>

\* the reply is lost, or the cursor cannot be written
MissReply(p) ==
  /\ push[p] = "stored"
  /\ push' = [push EXCEPT ![p] = "free"]
  /\ UNCHANGED <<botVars, from, to, shot, serverVars>>

\* SYNC_TIMEOUT_MS is over, the request may still arrive
Timeout(p) ==
  /\ push[p] = "sent"
  /\ push' = [push EXCEPT ![p] = "late"]
  /\ UNCHANGED <<botVars, from, to, shot, serverVars>>

\* the bot restarts: nobody waits for any push any more
Restart ==
  /\ \E p \in Push : push[p] \in {"sent", "stored"}
  /\ push' = [p \in Push |-> CASE push[p] = "sent" -> "late"
                                [] push[p] = "stored" -> "free"
                                [] OTHER -> push[p]]
  /\ UNCHANGED <<botVars, from, to, shot, serverVars>>

-----------------------------------------------------------------------------
Next ==
  \/ Record
  \/ \E r \in Row : Change(r) \/ GrowOld(r)
  \/ \E p \in Push : StartPush(p)
  \/ \E p \in Push : Deliver(p) \/ DeliverLate(p) \/ Refuse(p)
  \/ \E p \in Push : Acknowledge(p) \/ MissReply(p) \/ Timeout(p)
  \/ Restart

Spec == Init /\ [][Next]_vars

(* Ticks keep coming and start pushes; a server tried again and again      *)
(* stores a push in the end and gets its reply through; a request nobody   *)
(* waits for arrives or is dropped.                                        *)
Fairness ==
  /\ WF_vars(\E p \in Push : StartPush(p))
  /\ \A p \in Push :
       /\ SF_vars(Deliver(p))
       /\ SF_vars(Acknowledge(p))
       /\ WF_vars(DeliverLate(p) \/ Refuse(p))

FairSpec == Spec /\ Fairness

-----------------------------------------------------------------------------
(* The abstract feed: the cursor counts what the server need not get again. *)
Feed == INSTANCE EventFeed WITH recorded <- logged, arrived <- remote, counted <- cursor

(* The server only ever gains recorded events, and the cursor only stands   *)
(* at an event when the server has it and all before it: overlapping,       *)
(* repeated, late and unanswered pushes (server-sync.ts:167) and the rows   *)
(* the server cuts off (sync.ts:188) leave no gap.                          *)
FeedPromise == Feed!Spec

(* Every recorded event reaches the server, though pushes are lost, a slow  *)
(* reply moves the cursor back (server-sync.ts:172) and the bot restarts.   *)
EventsArrive == \A e \in 1..MaxEvents : e <= logged ~> e \in remote

(* As long as a row stays in the window, the server's copy catches up with  *)
(* it again and again, whatever old push overwrote it (sync.ts:191).        *)
RowsConverge == \A r \in Row : []<>(copy[r] = version[r] \/ r \notin recent)
=============================================================================
