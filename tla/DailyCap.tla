------------------------------ MODULE DailyCap ------------------------------
(***************************************************************************)
(* The gate on the number of orders a day, and on those that skip the      *)
(* committee.                                                              *)
(*                                                                         *)
(* Both counts are cached for a while.  The sweep works one signal after   *)
(* the other, an approval of the operator runs beside it; between the gate *)
(* and the row of an order lie the committee and the engine.  A sale       *)
(* writes a row as well.                                                   *)
(***************************************************************************)
EXTENDS NewYork, FiniteSets

CONSTANTS
  Try,           \* signals that may pass the gate, and sales
  Route,         \* "sweep", "operator", or both
  DayCap,           \* daily_trade_cap
  Target,        \* TRADER_BYPASS_TRADE_TARGET
  Ttl,           \* TTL_MS in ticks
  MaxCapRestarts \* bound on the restarts

ASSUME CapAssumption ==
  /\ IsFiniteSet(Try) /\ Route \subseteq {"sweep", "operator"}
  /\ DayCap \in Nat \ {0} /\ Target \in Nat /\ Ttl \in Nat \ {0}
  /\ MaxCapRestarts \in Nat

NoMoment == -1
NoCache == [value |-> 0, expires |-> NoMoment]

VARIABLES
  bypassOn,    \* TRADER_COMMITTEE_BYPASS
  asks,        \* asks[s]: the route s is on between gate and row; "" when none
  askedAt,     \* askedAt[s]: when it passed the gate
  outcome,     \* outcome[s]: waiting, capped, declined, ordered, sold
  skipped,     \* signals that go without the committee
  rowAt,       \* rowAt[s]: decided_at of its row
  madeAt,      \* madeAt[s]: when the row was written
  dayCache,    \* dailyCache
  bypassCache,
  capRestarts

capOnlyVars == <<bypassOn, asks, askedAt, outcome, skipped, rowAt, madeAt, dayCache, bypassCache,
                 capRestarts>>

Moments == 0..EndOfTime \cup {NoMoment}
Rows == {s \in Try : rowAt[s] # NoMoment}

CapTypeOK ==
  /\ bypassOn \in BOOLEAN
  /\ asks \in [Try -> Route \cup {""}]
  /\ askedAt \in [Try -> Moments]
  /\ outcome \in [Try -> {"waiting", "capped", "declined", "ordered", "sold"}]
  /\ skipped \subseteq Try
  /\ rowAt \in [Try -> Moments] /\ madeAt \in [Try -> Moments]
  /\ dayCache.value \in 0..Cardinality(Try) /\ bypassCache.value \in 0..Cardinality(Try)
  /\ capRestarts \in 0..MaxCapRestarts

CapInit ==
  /\ bypassOn \in BOOLEAN
  /\ asks = [s \in Try |-> ""] /\ askedAt = [s \in Try |-> NoMoment]
  /\ outcome = [s \in Try |-> "waiting"] /\ skipped = {}
  /\ rowAt = [s \in Try |-> NoMoment] /\ madeAt = [s \in Try |-> NoMoment]
  /\ dayCache = NoCache /\ bypassCache = NoCache
  /\ capRestarts = 0

-----------------------------------------------------------------------------
(* The counts.                                                             *)

\* midnight of New York by the offset of this moment
StartOfNyDay(t) == DateOf(t) * DayTicks + OffsetAt(t)

\* mutant: a value does not expire
CountedForever(cache, fresh) ==
  IF cache # NoCache THEN cache ELSE [value |-> fresh, expires |-> now + Ttl]

\* the cache after a read, holding the value that was read
Counted(cache, fresh) ==
  IF cache.expires > now THEN cache ELSE [value |-> fresh, expires |-> now + Ttl]

TradesToday == Counted(dayCache, Cardinality({s \in Rows : rowAt[s] >= StartOfNyDay(now)}))
BypassTrades == Counted(bypassCache, Cardinality(Rows \cap skipped))

-----------------------------------------------------------------------------
(* A signal.                                                               *)

\* The sweep has one signal at a time under way.
Free(route) == route = "operator" \/ \A s \in Try : asks[s] # route

Suppress(s, route) ==
  /\ outcome[s] = "waiting" /\ asks[s] = "" /\ Free(route)
  /\ TradesToday.value >= DayCap
  /\ outcome' = [outcome EXCEPT ![s] = "capped"]
  /\ dayCache' = TradesToday
  /\ UNCHANGED <<bypassOn, asks, askedAt, skipped, rowAt, madeAt, bypassCache, capRestarts>>

\* A signal without the committee drops both caches, before its row is written.
Pass(s, route) ==
  /\ outcome[s] = "waiting" /\ asks[s] = "" /\ Free(route)
  /\ TradesToday.value < DayCap
  /\ asks' = [asks EXCEPT ![s] = route]
  /\ askedAt' = [askedAt EXCEPT ![s] = now]
  /\ IF bypassOn /\ BypassTrades.value < Target
     THEN skipped' = skipped \cup {s} /\ dayCache' = NoCache /\ bypassCache' = NoCache
     ELSE /\ skipped' = skipped
          /\ dayCache' = TradesToday
          /\ bypassCache' = IF bypassOn THEN BypassTrades ELSE bypassCache
  /\ UNCHANGED <<bypassOn, outcome, rowAt, madeAt, capRestarts>>

\* The committee abstains, a later gate blocks, or the engine refuses an approval.
Decline(s) ==
  /\ asks[s] # ""
  /\ asks' = [asks EXCEPT ![s] = ""]
  /\ askedAt' = [askedAt EXCEPT ![s] = NoMoment]
  /\ outcome' = [outcome EXCEPT ![s] = "declined"]
  /\ skipped' = skipped \ {s}
  /\ UNCHANGED <<bypassOn, rowAt, madeAt, dayCache, bypassCache, capRestarts>>

\* An approval stamps its row with the moment it began.
RecordTrade(s) ==
  /\ asks[s] # ""
  /\ rowAt' = [rowAt EXCEPT ![s] = IF asks[s] = "operator" THEN askedAt[s] ELSE now]
  /\ madeAt' = [madeAt EXCEPT ![s] = now]
  /\ asks' = [asks EXCEPT ![s] = ""]
  /\ askedAt' = [askedAt EXCEPT ![s] = NoMoment]
  /\ outcome' = [outcome EXCEPT ![s] = "ordered"]
  /\ UNCHANGED <<bypassOn, skipped, dayCache, bypassCache, capRestarts>>

\* the exit evaluator's row: not an abstention either
RecordSale(s) ==
  /\ outcome[s] = "waiting" /\ asks[s] = ""
  /\ outcome' = [outcome EXCEPT ![s] = "sold"]
  /\ rowAt' = [rowAt EXCEPT ![s] = now] /\ madeAt' = [madeAt EXCEPT ![s] = now]
  /\ UNCHANGED <<bypassOn, asks, askedAt, skipped, dayCache, bypassCache, capRestarts>>

\* The caches are memory; a signal of the sweep is claimed again, an approval is gone.
CapRestart ==
  /\ capRestarts < MaxCapRestarts
  /\ capRestarts' = capRestarts + 1
  /\ outcome' = [s \in Try |-> IF asks[s] = "operator" THEN "declined" ELSE outcome[s]]
  /\ skipped' = {s \in skipped : asks[s] = ""}
  /\ asks' = [s \in Try |-> ""] /\ askedAt' = [s \in Try |-> NoMoment]
  /\ dayCache' = NoCache /\ bypassCache' = NoCache
  /\ UNCHANGED <<bypassOn, rowAt, madeAt>>

-----------------------------------------------------------------------------
CapStep ==
  \/ \E s \in Try, route \in Route : Suppress(s, route) \/ Pass(s, route)
  \/ \E s \in Try : Decline(s) \/ RecordTrade(s) \/ RecordSale(s)
  \/ CapRestart

CapNext ==
  \/ CapStep /\ UNCHANGED <<now, turn>>
  \/ TimePasses /\ UNCHANGED <<turn, capOnlyVars>>

capVars == <<now, turn, capOnlyVars>>
CapSpec == (\E start \in Nat : ClockInit(start)) /\ CapInit /\ [][CapNext]_capVars

-----------------------------------------------------------------------------
(* Properties *)

\* What the caches of bypass-counter.ts may hide ends with their time to live:
\* no signal passes the gate of a day that has a full cap of rows older than
\* that, whoever wrote them, on whichever side of midnight or of a turn the
\* count was taken.  Rows of the day before are not asked for, and on the day
\* of a turn, where the gate's midnight is off by an hour after the turn, nor
\* are the rows of the hour it no longer sees.
OldRows == {r \in Rows : /\ DateOf(rowAt[r]) = DateOf(now) /\ rowAt[r] >= StartOfNyDay(now)
                         /\ madeAt[r] + Ttl <= now}
CapSeesOldRows ==
  [][\A s \in Try : asks[s] = "" /\ asks'[s] # "" => Cardinality(OldRows) < DayCap]_capOnlyVars

\* The sweep alone never orders more in a day than the cap allows:
\* bypass-counter.ts counts again "after any new decision insert".  The code
\* breaks this: a count taken for one signal of a sweep is used for the next.
DailyCapHolds ==
  \A date \in 0..TurnDay + 1 :
    Cardinality({s \in Try : outcome[s] = "ordered" /\ DateOf(rowAt[s]) = date}) <= DayCap
=============================================================================
