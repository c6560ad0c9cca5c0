---------------------------- MODULE EquityCurve ----------------------------
(***************************************************************************)
(* What the close-out sweep writes about the money: the verdict of a sold  *)
(* decision, the track record of its strategy, and today's row of the      *)
(* equity curve.                                                           *)
(*                                                                         *)
(* A sweep takes the New York date once, at its start, and waits for the   *)
(* engine between what it reads and what it writes.  Today's row is        *)
(* replaced by every sweep of the day, on top of the newest older row.     *)
(***************************************************************************)
EXTENDS NewYork, FiniteSets, SequencesExt

CONSTANTS
  Lot,          \* realized lots: what a sale closed of a decision
  Decision,
  DecisionOf,   \* the decision a lot is of
  PnlOf,        \* its profit
  Account,      \* the account's equity
  MaxBookFaults \* bound on failed requests and writes, and restarts

ASSUME CurveAssumption ==
  /\ IsFiniteSet(Lot)
  /\ DecisionOf \in [Lot -> Decision]
  /\ PnlOf \in [Lot -> Int]
  /\ Account \in Nat \ {0}
  /\ MaxBookFaults \in Nat

Open == -1
NoRow == [pnl |-> 0, trades |-> -1, cumulative |-> 0, nav |-> 0]
Idle == [step |-> "idle", date |-> -1, lots |-> {}, seen |-> {}]
Date == 0..(EndOfTime \div DayTicks)

VARIABLES
  exit,         \* exit time, Open before the sale
  stored,       \* lots in trader_realized_pnl
  navDate,      \* date of the engine's newest NAV snapshot
  sweep,        \* the sweep under way; seen: history, see counted
  graded,       \* decisions with a verdict
  record,       \* trader_strategy_track_record
  dayRow,       \* trader_pnl_snapshots
  counted,      \* history: the lots of a day its last sweep could know of
  bookFaults

curveOnlyVars == <<exit, stored, navDate, sweep, graded, record, dayRow, counted, bookFaults>>
bookVars == <<graded, record, dayRow, counted>>

NoRecord == [trades |-> 0, wins |-> 0, net |-> 0, drawdown |-> 0]

CurveInit ==
  /\ exit = [l \in Lot |-> Open] /\ stored = {}
  /\ navDate = -1
  /\ sweep = Idle
  /\ graded = {} /\ record = NoRecord
  /\ dayRow = [d \in Date |-> NoRow] /\ counted = [d \in Date |-> {}]
  /\ bookFaults = 0

BookFault == bookFaults < MaxBookFaults /\ bookFaults' = bookFaults + 1

-----------------------------------------------------------------------------
(* The broker, the ledger and the engine.                                  *)

Sale(l) ==
  /\ exit[l] = Open
  /\ exit' = [exit EXCEPT ![l] = now]
  /\ UNCHANGED <<now, turn, stored, navDate, sweep, bookVars, bookFaults>>

\* The fills of the sale reach the ledger sooner or later.
Store(l) ==
  /\ exit[l] # Open /\ l \notin stored
  /\ stored' = stored \cup {l}
  /\ UNCHANGED <<now, turn, exit, navDate, sweep, bookVars, bookFaults>>

EngineSnapshots ==
  /\ navDate' = DateOf(now) /\ navDate' # navDate
  /\ UNCHANGED <<now, turn, exit, stored, sweep, bookVars, bookFaults>>

-----------------------------------------------------------------------------
(* The sweep.                                                              *)

SweepStarts ==
  /\ sweep.step = "idle"
  /\ sweep' = [step |-> "grade", date |-> DateOf(now), lots |-> {}, seen |-> {}]
  /\ UNCHANGED <<now, turn, exit, stored, navDate, bookVars, bookFaults>>

Profit(S) == SumFunctionOnSet(PnlOf, S)
LotsOf(d) == {l \in Lot : DecisionOf[l] = d}

\* verdictFromRealizedLots, when the lots cover the filled quantity
Gradable(d) == d \notin graded /\ LotsOf(d) # {} /\ LotsOf(d) \subseteq stored
ClosedAt(d) == CHOOSE t \in {exit[l] : l \in LotsOf(d)} : \A l \in LotsOf(d) : exit[l] <= t

\* ORDER BY closed_at: the last of some decisions
LastClosed(D) == CHOOSE d \in D : \A e \in D : ClosedAt(e) <= ClosedAt(d)

\* the profits of the verdicts, the oldest first: getVerdictsForStrategy
Verdicts(S) ==
  LET pnls[D \in SUBSET S] ==
        IF D = {} THEN <<>>
        ELSE Append(pnls[D \ {LastClosed(D)}], Profit(LotsOf(LastClosed(D))))
  IN  pnls[S]

\* computeTrackRecord's running peak
Higher(m, n) == IF m > n THEN m ELSE n
Lower(m, n) == IF m < n THEN m ELSE n

\* mutant: the peak is not kept
RunOnNoPeak(c, p) ==
  [sum |-> c.sum + p, peak |-> 0, fall |-> Higher(c.fall, 0 - c.sum - p)]

RunOn(c, p) ==
  LET peak == Higher(c.peak, c.sum + p)
  IN  [sum |-> c.sum + p, peak |-> peak, fall |-> Higher(c.fall, peak - c.sum - p)]

Curve(pnls) ==
  LET run[i \in 0..Len(pnls)] ==
        IF i = 0 THEN [sum |-> 0, peak |-> 0, fall |-> 0] ELSE RunOn(run[i - 1], pnls[i])
  IN  run[Len(pnls)]

\* latestNavBase: of the newest row, 0 when it is not usable
Dates == {d \in Date : dayRow[d] # NoRow}
Newest(D) == CHOOSE d \in D : \A e \in D : e <= d
NavBase == IF Dates = {} THEN 0 ELSE dayRow[Newest(Dates)].nav

\* A drawdown is at most the equity, and none without an equity to go by.
TrackRecord(pnls) ==
  [trades |-> Len(pnls),
   wins |-> Cardinality({i \in DOMAIN pnls : pnls[i] > 0}),
   net |-> Curve(pnls).sum,
   drawdown |-> Lower(Curve(pnls).fall, NavBase)]

\* The verdict, then the record; the record may fail or the bot stop first.
Grade(d) ==
  /\ sweep.step = "grade" /\ Gradable(d)
  /\ graded' = graded \cup {d}
  /\ \/ record' = TrackRecord(Verdicts(graded')) /\ UNCHANGED bookFaults
     \/ BookFault /\ UNCHANGED record
  /\ UNCHANGED <<now, turn, exit, stored, navDate, sweep, dayRow, counted>>

\* mutant: every day has 24 hours
DayEndFixed(date) == MidnightByDate(date) + DayTicks

DayEnd(date) == MidnightByDate(date + 1)

ExitedOn(date) ==
  {l \in stored : exit[l] >= MidnightByDate(date) /\ exit[l] < DayEnd(date)}

\* writeDailySnapshot reads the lots before it asks the engine.
SumDay ==
  /\ sweep.step = "grade"
  /\ sweep' = [sweep EXCEPT !.step = "write", !.lots = ExitedOn(sweep.date),
                            !.seen = {l \in stored : DateOf(exit[l]) = sweep.date}]
  /\ UNCHANGED <<now, turn, exit, stored, navDate, bookVars, bookFaults>>

\* mutant: on top of the newest row, which may be today's
BaseNewest(date) == IF Dates = {} THEN 0 ELSE dayRow[Newest(Dates)].cumulative

\* on top of the newest row before today
Base(date) ==
  LET before == {d \in Dates : d < date}
  IN  IF before = {} THEN 0 ELSE dayRow[Newest(before)].cumulative

\* the newest equity known before today
Carried(date) ==
  IF \E d \in Dates : d < date /\ dayRow[d].nav > 0 THEN Account ELSE 0

\* answered: the engine was there to be asked for the equity
WriteRow(answered) ==
  /\ sweep.step = "write"
  /\ IF answered THEN UNCHANGED bookFaults ELSE BookFault
  /\ dayRow' = [dayRow EXCEPT ![sweep.date] =
       [pnl |-> Profit(sweep.lots), trades |-> Cardinality(sweep.lots),
        cumulative |-> Base(sweep.date) + Profit(sweep.lots),
        nav |-> IF answered /\ navDate = sweep.date THEN Account ELSE Carried(sweep.date)]]
  /\ counted' = [counted EXCEPT ![sweep.date] = sweep.seen]
  /\ sweep' = Idle
  /\ UNCHANGED <<now, turn, exit, stored, navDate, graded, record>>

CutOff ==
  /\ sweep # Idle
  /\ BookFault
  /\ sweep' = Idle
  /\ UNCHANGED <<now, turn, exit, stored, navDate, bookVars>>

CurveNext ==
  \/ \E l \in Lot : Sale(l) \/ Store(l)
  \/ EngineSnapshots
  \/ SweepStarts \/ SumDay \/ CutOff
  \/ \E answered \in BOOLEAN : WriteRow(answered)
  \/ \E d \in Decision : Grade(d)
  \/ TimePasses /\ UNCHANGED <<turn, curveOnlyVars>>

curveVars == <<now, turn, curveOnlyVars>>

\* from any moment of the calendar on
CurveSpec ==
  /\ \E start \in Winter..EndOfTime : ClockInit(start)
  /\ CurveInit
  /\ [][CurveNext]_curveVars

-----------------------------------------------------------------------------
(* Properties *)

CurveTypeOK ==
  /\ exit \in [Lot -> Nat \cup {Open}]
  /\ stored \subseteq Lot
  /\ navDate \in Date \cup {-1}
  /\ sweep \in [step : {"idle", "grade", "write"}, date : Date \cup {-1},
                lots : SUBSET Lot, seen : SUBSET Lot]
  /\ graded \subseteq Decision
  /\ record \in [trades : Nat, wins : Nat, net : Int, drawdown : Nat]
  /\ dayRow \in [Date -> [pnl : Int, trades : Int, cumulative : Int, nav : {0, Account}]]
  /\ counted \in [Date -> SUBSET Lot]
  /\ bookFaults \in 0..MaxBookFaults

\* The curve adds up: the row of a day holds the profit of the lots sold on
\* that New York day that were recorded when the day was last swept, and its
\* cumulative profit counts every such lot of this and the earlier days
\* exactly once - whatever hour the sale has on the host's clock, on the
\* short and the long day of a turn, and however often a day is swept.
CurveAddsUp ==
  \A d \in Dates :
    /\ dayRow[d].pnl = Profit(counted[d])
    /\ dayRow[d].cumulative = Profit(UNION {counted[e] : e \in {c \in Date : c <= d}})

\* the points of the curve after each verdict, and the deepest fall between two
Points(pnls) ==
  LET sum[i \in 0..Len(pnls)] == IF i = 0 THEN 0 ELSE sum[i - 1] + pnls[i]
  IN  sum
WorstFall(pnls) ==
  LET falls == {Points(pnls)[x[1]] - Points(pnls)[x[2]] :
                  x \in {y \in (0..Len(pnls)) \X (0..Len(pnls)) : y[1] <= y[2]}}
  IN  CHOOSE f \in falls : \A g \in falls : g <= f

\* Whenever a record is written, it is about all verdicts there are: its net
\* profit is that of their lots, and its drawdown the worst fall between any
\* two points of their curve in the order of the exits, in whatever order
\* they were graded, and never more than the account's equity.
RecordIsExact ==
  [][record' # record =>
       /\ record'.net = Profit(UNION {LotsOf(d) : d \in graded'})
       /\ record'.drawdown = Lower(WorstFall(Verdicts(graded')), NavBase)]_curveOnlyVars
=============================================================================
