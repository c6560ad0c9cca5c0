---------------------------- MODULE FlowResearch ----------------------------
(***************************************************************************)
(* The predeclared evaluation of the order-flow hypothesis: when bars up to *)
(* the cutoff are there it runs once.  Variants that earn in development   *)
(* and validation are ranked, and the best one is tried on the holdout.    *)
(*                                                                         *)
(* Time is counted in bars.  Prices and returns are whole numbers and add  *)
(* up (the code compounds them); volatility and the imbalances of trades   *)
(* and depth are levels.  The resampling of returns (bootstrap) is left    *)
(* open.                                                                   *)
(***************************************************************************)
EXTENDS Integers, FiniteSets, SequencesExt

CONSTANTS
  Feed,            \* Feed[t]: the kinds of bar that quarter t may have
  Absent,          \* in Feed[t]: no bar is sealed for the quarter
  Variants,        \* sequence of [trade, depth, confirm, percentile], by id
  DevelopmentEnd, ValidationEnd, Cutoff,  \* ends of the phases, in bars
  HoldBars,        \* HOLD_MS in bars
  StopDrop,        \* STOP_FRACTION of the entry price
  Cost,            \* of a round trip
  StressCosts,     \* the stress_50 and stress_75 of a round trip
  Lookback, MinHistory,   \* of the volatility ceiling, in bars
  MinTrades,       \* minimum_oos_trades
  MaxDrawdown      \* 0.20

ASSUME ResearchAssumption ==
  /\ {DevelopmentEnd, ValidationEnd, Cutoff} \subseteq Nat \ {0}
  /\ DevelopmentEnd < ValidationEnd /\ ValidationEnd < Cutoff
  /\ DOMAIN Feed = 1..Cutoff + 1
  /\ {HoldBars, Lookback} \subseteq Nat \ {0}
  /\ {StopDrop, Cost, MinHistory, MinTrades, MaxDrawdown} \subseteq Nat

VARIABLES
  quarter,       \* quarters that are over
  flow,          \* bars in order: a kind, its quarter and its prices
  price,
  executable,    \* a crypto strategy is active, or the family has a signal or cohort
  verdict,       \* the row of bitcoin_order_flow_evaluation_runs
  announced      \* the operational event of the evaluation

researchVars == <<quarter, flow, price, executable, verdict, announced>>

NoVerdict == [status |-> "none"]

ResearchInit ==
  /\ quarter = 0 /\ flow = <<>> /\ price = 0
  /\ executable = FALSE
  /\ verdict = NoVerdict /\ announced = FALSE

-----------------------------------------------------------------------------
(* One variant over one phase. *)

Least(S) == CHOOSE n \in S : \A m \in S : n <= m

\* percentile: the nearest rank of the values of volatility at indices I.
VolatilityAt(bs, I, percent) ==
  LET upTo(v) == Cardinality({i \in I : bs[i].volatility <= v})
  IN  Least({bs[i].volatility : i \in {j \in I : 100 * upTo(bs[j].volatility) >= percent * Cardinality(I)}})

History(bs, i) == {j \in 1..i - 1 : j >= i - Lookback /\ bs[j].usable}

SignalPasses(bs, i, v) ==
  /\ bs[i].usable
  /\ Cardinality(History(bs, i)) >= MinHistory
  /\ bs[i].volatility <= VolatilityAt(bs, History(bs, i), v.percentile)
  /\ bs[i].trade >= v.trade /\ bs[i].depth >= v.depth

Follows(bs, i) == bs[i].at = bs[i - 1].at + 1

\* The exit from the position opened with bar e: the bar that ends the scan,
\* or the one after the last.
ScanEnds(bs, e, to, j) ==
  \/ bs[j].at > to \/ ~bs[j].usable
  \/ bs[j].low <= bs[e].open - StopDrop
  \/ bs[j].trade < 0 \/ bs[j].depth < 0
  \/ bs[j].at >= bs[e].at + HoldBars - 1
ExitIndex(bs, e, to) ==
  Least({j \in e..Len(bs) : ScanEnds(bs, e, to, j)} \cup {Len(bs) + 1})

\* A bar opening through the stop does not get the stop's price.
ExitPrice(bs, e, j) ==
  LET stop == bs[e].open - StopDrop
  IN  IF bs[j].low > stop THEN bs[j].close
      ELSE IF bs[j].open < stop THEN bs[j].open ELSE stop

\* A position that a bar without quality or the end of the phase cuts off is
\* no trade.
Completed(bs, i, to, cost) ==
  LET e == i + 1
      j == ExitIndex(bs, e, to)
  IN  IF j > Len(bs) THEN <<>>
      ELSE IF bs[j].at > to \/ ~bs[j].usable THEN <<>>
      ELSE << [entry |-> bs[e].at, exit |-> bs[j].at, signal |-> i,
               net |-> ExitPrice(bs, e, j) - bs[e].open - cost] >>

\* mutant: validation runs into the holdout
LastBarAny(to) == Cutoff

\* the bars of a phase end by its end
LastBar(to) == to

\* Bar i opens a position at the next one when the signal has held long enough;
\* the scan goes on behind the bar at which the position ended.
Scan(bs, from, to, v, cost, s, i) ==
  LET streak == IF ~SignalPasses(bs, i, v) THEN 0
                ELSE IF i > 1 /\ Follows(bs, i) THEN s.streak + 1 ELSE 1
      entered == /\ streak >= v.confirm /\ Follows(bs, i + 1)
                 /\ bs[i + 1].at <= to /\ bs[i + 1].usable
  IN  IF i = Len(bs) \/ i < s.free \/ bs[i].at <= from \/ bs[i].at > to THEN s
      ELSE IF ~entered THEN [streak |-> streak, free |-> s.free, trades |-> s.trades]
      ELSE [streak |-> 0, free |-> ExitIndex(bs, i + 1, to) + 1,
            trades |-> s.trades \o Completed(bs, i, to, cost)]

\* the scan after each bar
Scans(bs, from, to, v, cost) ==
  LET scan[i \in 0..Len(bs)] ==
        IF i = 0 THEN [streak |-> 0, free |-> 1, trades |-> <<>>]
        ELSE Scan(bs, from, to, v, cost, scan[i - 1], i)
  IN  scan

\* simulateVariant over the bars after from and up to the last of the phase
Simulate(bs, from, phaseEnd, v, cost) ==
  Scans(bs, from, LastBar(phaseEnd), v, cost)[Len(bs)].trades

-----------------------------------------------------------------------------
(* summarizeTrades. *)

Total(trades) == FoldLeft(LAMBDA sum, t : sum + t.net, 0, trades)

\* sharpe is positive with a positive mean, two trades and some variance
Sharp(trades) == Total(trades) > 0 /\ Cardinality({t.net : t \in ToSet(trades)}) > 1

Equity(trades, k) == Total(SubSeq(trades, 1, k))
ShallowDrawdown(trades) ==
  \A k, l \in 0..Len(trades) : k < l => Equity(trades, k) - Equity(trades, l) <= MaxDrawdown

Qualified(trades) == Sharp(trades) /\ ShallowDrawdown(trades)

-----------------------------------------------------------------------------
(* evaluateBitcoinOrderFlowResearch. *)

Development(bs, v) == Simulate(bs, 0, DevelopmentEnd, v, Cost)
Validation(bs, v) == Simulate(bs, DevelopmentEnd, ValidationEnd, v, Cost)
Holdout(bs, v, cost) == Simulate(bs, ValidationEnd, Cutoff, v, cost)

\* Expectancy, total return, id: the ratios are compared crosswise.
Better(s, t) ==
  LET a == Total(s) * Len(t)
      b == Total(t) * Len(s)
  IN  a > b \/ (a = b /\ Total(s) > Total(t))

Select(bs) ==
  LET outcome == [k \in DOMAIN Variants |-> Validation(bs, Variants[k])]
      able == {k \in DOMAIN Variants :
                 Qualified(Development(bs, Variants[k])) /\ Qualified(outcome[k])}
      best == {k \in able : \A l \in able : ~Better(outcome[l], outcome[k])}
  IN  IF able = {} THEN 0 ELSE Least(best)

\* Variants one threshold away.
Adjacent(k) ==
  {l \in DOMAIN Variants :
     LET u == Variants[k] v == Variants[l] IN
     /\ u.confirm = v.confirm /\ u.percentile = v.percentile
     /\ \/ u.depth = v.depth /\ u.trade - v.trade \in {-1, 1}
        \/ u.trade = v.trade /\ u.depth - v.depth \in {-1, 1}}

\* Bars of development divide volatility into two regimes.
Regimes(bs, trades) ==
  LET dev == {i \in DOMAIN bs : bs[i].at <= DevelopmentEnd /\ bs[i].usable}
  IN  {bs[t.signal].volatility <= VolatilityAt(bs, dev, 50) : t \in ToSet(trades)}

HoldoutPasses(bs, k) ==
  LET trades == Holdout(bs, Variants[k], Cost) IN
  /\ Len(trades) >= MinTrades /\ Qualified(trades)
  /\ Cardinality(Regimes(bs, trades)) >= 2
  /\ \A cost \in StressCosts : Total(Holdout(bs, Variants[k], cost)) >= 0
  /\ \A l \in Adjacent(k) : Total(Holdout(bs, Variants[l], Cost)) >= 0

\* readBars: those that end by the cutoff, which come first.
InTime(bs, end) == SubSeq(bs, 1, Cardinality({i \in DOMAIN bs : bs[i].at <= end}))

-----------------------------------------------------------------------------
NextBar(kind) ==
  /\ quarter < Cutoff + 1
  /\ kind \in Feed[quarter + 1]
  /\ quarter' = quarter + 1
  /\ IF kind = Absent THEN UNCHANGED <<flow, price>>
     ELSE /\ price' = price + kind.move
          /\ flow' = Append(flow,
               [at |-> quarter', usable |-> kind.usable, volatility |-> kind.volatility,
                trade |-> kind.trade, depth |-> kind.depth,
                open |-> price, close |-> price', low |-> Least({price, price'})])
  /\ UNCHANGED <<executable, verdict, announced>>

\* Any executable state of the family, or an active crypto strategy.
ChangeStrategies ==
  /\ quarter >= Cutoff
  /\ executable' = ~executable
  /\ UNCHANGED <<quarter, flow, price, verdict, announced>>

Mature == \E i \in DOMAIN flow : flow[i].at >= Cutoff

\* maybeRunBitcoinOrderFlowEvaluation; the process may stop between the row and
\* the event.
Evaluate(resampled, stops) ==
  /\ verdict = NoVerdict /\ Mature /\ ~executable
  /\ LET bs == InTime(flow, Cutoff)
         k == Select(bs)
     IN  verdict' = [status |-> IF k = 0 THEN "rejected_pre_holdout"
                                ELSE IF HoldoutPasses(bs, k) /\ resampled THEN "passed"
                                ELSE "rejected",
                     variant |-> k, holdoutUses |-> IF k = 0 THEN 0 ELSE 1]
  /\ announced' = ~stops
  /\ UNCHANGED <<quarter, flow, price, executable>>

ResearchNext ==
  \/ \E t \in DOMAIN Feed : \E kind \in Feed[t] : t = quarter + 1 /\ NextBar(kind)
  \/ ChangeStrategies
  \/ \E resampled, stops \in BOOLEAN : Evaluate(resampled, stops)

ResearchSpec == ResearchInit /\ [][ResearchNext]_researchVars

-----------------------------------------------------------------------------
(* Properties. *)

ResearchTypeOK ==
  /\ quarter \in 0..Cutoff + 1
  /\ Len(flow) <= quarter
  /\ price \in Int
  /\ executable \in BOOLEAN /\ announced \in BOOLEAN
  /\ verdict.status \in {"none", "rejected_pre_holdout", "rejected", "passed"}

\* No look-ahead: the holdout does not bear on the variant that is chosen, and
\* no trade of the holdout is decided by a bar after its exit.
NoLookAhead ==
  [][verdict' # verdict =>
       /\ verdict'.variant = Select(InTime(flow, ValidationEnd))
       /\ \A k \in DOMAIN Variants, end \in ValidationEnd..Cutoff :
            IsPrefix(Holdout(InTime(flow, end), Variants[k], Cost),
                     Holdout(InTime(flow, Cutoff), Variants[k], Cost))]_researchVars
=============================================================================
