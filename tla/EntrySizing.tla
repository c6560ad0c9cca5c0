---------------------------- MODULE EntrySizing -----------------------------
(***************************************************************************)
(* How much an approved entry buys.  Both dispatchers size it by the risk  *)
(* to its stop, under the heat of the book and the strategy's cap, trim it *)
(* to the room of its cluster and its symbol and shrink it to what the     *)
(* strategy gate recommends.                                               *)
(*                                                                         *)
(* The automatic dispatcher sizes a whole sweep over one snapshot of the   *)
(* broker's positions; an approval reads them for itself.  Orders that are *)
(* not filled count nowhere.                                               *)
(*                                                                         *)
(* Money is counted in whole units, fractions in percent (risk and daily   *)
(* volatility in tenths of one); NAV 0 stands for one that is unavailable. *)
(***************************************************************************)
EXTENDS Integers, FiniteSets, Functions

CONSTANTS
  Asset,
  ClusterOf,    \* clusterFor
  Navs,         \* what getNav may answer
  Strategies,   \* [max, weight, tier] of the strategies: max_size_usd or 0,
                \* size_weight, what the autonomy ladder knows
  Windows,      \* range of the enrichment's price window; 0 for none
  Charts,       \* [long, above, sigma] of the daily bars the gate reads
  RiskPct,      \* the knob risk_pct
  Ceiling,      \* HARD_CEILING_USD
  Floor,        \* DEFAULT_SIZE_USD
  RawSize,      \* size_usd of the committee
  MaxOrders,    \* bound on the orders under way and the positions' changes
  Shocks        \* changes of a position's value

ASSUME SizingAssumption ==
  /\ IsFiniteSet(Asset)
  /\ Navs \subseteq Nat /\ Windows \subseteq Nat
  /\ \A s \in Strategies : s.max \in Nat /\ s.weight \in Nat
  /\ {RiskPct, Ceiling, Floor, RawSize} \subseteq Nat \ {0}
  /\ MaxOrders \in Nat /\ Shocks \subseteq Int

VARIABLES
  held,       \* broker positions, by market value
  snapshot,   \* brokerPositions of the sweep
  working,    \* size of an order that is not filled; 0 for none
  losing,     \* assets held and more than the tolerance under water
  benched,    \* assets sold at a loss within symbol_cooldown_days
  changes

sizingVars == <<held, snapshot, working, losing, benched, changes>>

Nothing == [a \in Asset |-> 0]

SizingInit ==
  /\ held = Nothing /\ snapshot = Nothing /\ working = Nothing
  /\ losing = {} /\ benched = {}
  /\ changes = 0

-----------------------------------------------------------------------------
Lesser(m, n) == IF m <= n THEN m ELSE n
Greater(m, n) == IF m >= n THEN m ELSE n

Exposure(book, assets) == FoldFunctionOnSet(LAMBDA v, sum : v + sum, 0, book, assets)

\* computeExits and stopDistanceFromExits: half the range, from 6 to 20 %; 8 %
\* without a window, or without a price to refer to.
StopPct(window) == IF window = 0 THEN 8 ELSE Lesser(20, Greater(6, window \div 2))

\* classifyTier; bad is the number of C and D among the last five grades.
TierScale(tier) ==
  IF tier.trades < 30 THEN 25
  ELSE IF tier.sharpe <= 0 \/ tier.drawdown > 10 \/ tier.bad >= 3 THEN 50
  ELSE 100

Cap(strategy, nav) ==
  LET own == IF strategy.max > 0 THEN strategy.max
             ELSE IF nav > 0 THEN (2 * nav) \div 100 ELSE Floor
  IN  (Lesser(own, Ceiling) * strategy.weight) \div 100

\* The ladder bounds approvals only.
CapOn(path, strategy, nav) ==
  LET cap == Cap(strategy, nav)
      ladder == (RawSize * TierScale(strategy.tier)) \div 100
  IN  IF path = "manual" /\ ladder > 0 THEN Lesser(cap, ladder) ELSE cap

\* The heat of a book if all of it had this stop, and what is left, in percent
\* of a unit.
Heat(book, stop) == stop * Exposure(book, Asset)
HeatRoom(nav, book, stop) == Greater(0, 6 * nav - Heat(book, stop))

\* mutant: a small order is always raised to the minimum
FlooredAlways(size, risk, room, stop) == IF risk > 0 THEN Greater(size, Floor) ELSE size

\* Raising the order must not use more heat than there is.
Floored(size, risk, room, stop) ==
  IF risk > 0 /\ Floor * stop <= room THEN Greater(size, Floor) ELSE size

\* computeRiskBasedSize.
RiskBasedSize(nav, riskPct, stop, book, cap) ==
  LET room == HeatRoom(nav, book, stop)
      risk == Lesser((nav * riskPct) \div 10, room)
  IN  IF nav = 0 THEN Lesser(Floor, cap)
      ELSE Lesser(Floored(Lesser(risk \div stop, cap), risk, room, stop), cap)

Cluster(a) == {b \in Asset : ClusterOf[b] = ClusterOf[a]}
ClusterRoom(nav, book, a) == Greater(0, (50 * nav) \div 100 - Exposure(book, Cluster(a)))
SymbolRoom(nav, book, a) == Greater(0, (15 * nav) \div 100 - book[a])

\* A size that exceeds the room is trimmed to it; the automatic dispatcher
\* drops what is less than the minimum.  Without a NAV the gate is skipped.
Trimmed(path, nav, size, room) ==
  IF nav = 0 \/ size <= room THEN size
  ELSE IF path = "auto" /\ room < Floor THEN 0
  ELSE room

\* evaluateRegime and the stop of decideGatedTrade.
RegimeAllows(chart) == chart.long /\ chart.above /\ chart.sigma \in 1..29

\* sizePosition: 1 % of NAV to a stop of 2.5 daily moves.  Its open risk is
\* always passed as 0.
GateSize(nav, chart) ==
  LET risk == Lesser(nav \div 100, (6 * nav) \div 100)
  IN  Lesser(Lesser((risk * 400) \div chart.sigma, Ceiling), nav)

\* applyStrategyGate; chart.bars is false for a feed without bars, or with the
\* gate switched off.
Gated(nav, size, chart) ==
  IF ~chart.bars \/ nav = 0 THEN size
  ELSE IF ~RegimeAllows(chart) THEN 0
  ELSE Lesser(size, GateSize(nav, chart))

\* evaluateSymbolCooldown.
CooledDown(book, a) == a \notin benched /\ ~(a \in losing /\ book[a] > 0)

\* What is ordered in the end, or 0.
Size(path, book, a, nav, strategy, window, chart) ==
  LET stop == IF path = "auto" THEN StopPct(window) ELSE 8
      riskPct == IF path = "auto" THEN RiskPct ELSE 5
      bySize == RiskBasedSize(nav, riskPct, stop, book, CapOn(path, strategy, nav))
      byCluster == Trimmed(path, nav, bySize, ClusterRoom(nav, book, a))
      bySymbol == Trimmed(path, nav, byCluster, SymbolRoom(nav, book, a))
  IN  IF CooledDown(book, a) THEN Gated(nav, bySymbol, chart) ELSE 0

-----------------------------------------------------------------------------
Book(path) == IF path = "auto" THEN snapshot ELSE held

BeginSweep ==
  /\ snapshot # held
  /\ snapshot' = held
  /\ UNCHANGED <<held, working, losing, benched, changes>>

\* An order for the asset that is not filled, or a position in the snapshot,
\* keeps the automatic dispatcher away; approvals are not asked.
Order(path, a) ==
  /\ changes < MaxOrders /\ changes' = changes + 1
  /\ working[a] = 0
  /\ path = "auto" => snapshot[a] = 0
  /\ \E nav \in Navs, strategy \in Strategies, window \in Windows, chart \in Charts :
       LET size == Size(path, Book(path), a, nav, strategy, window, chart)
       IN  size > 0 /\ working' = [working EXCEPT ![a] = size]
  /\ UNCHANGED <<held, snapshot, losing, benched>>

OrderFills(a) ==
  /\ working[a] > 0
  /\ held' = [held EXCEPT ![a] = @ + working[a]]
  /\ working' = [working EXCEPT ![a] = 0]
  /\ UNCHANGED <<snapshot, losing, benched, changes>>

OrderLapses(a) ==
  /\ working[a] > 0
  /\ working' = [working EXCEPT ![a] = 0]
  /\ UNCHANGED <<held, snapshot, losing, benched, changes>>

PriceMoves(a, shock) ==
  /\ held[a] > 0 /\ held[a] + shock > 0
  /\ changes < MaxOrders /\ changes' = changes + 1
  /\ held' = [held EXCEPT ![a] = @ + shock]
  /\ losing' = IF shock < 0 THEN losing \cup {a} ELSE losing \ {a}
  /\ UNCHANGED <<snapshot, working, benched>>

Sell(a) ==
  /\ held[a] > 0
  /\ held' = [held EXCEPT ![a] = 0]
  /\ losing' = losing \ {a}
  /\ benched' = IF a \in losing THEN benched \cup {a} ELSE benched
  /\ UNCHANGED <<snapshot, working, changes>>

CooldownEnds(a) ==
  /\ a \in benched
  /\ benched' = benched \ {a}
  /\ UNCHANGED <<held, snapshot, working, losing, changes>>

SizingNext ==
  \/ BeginSweep
  \/ \E a \in Asset :
       \/ \E path \in {"auto", "manual"} : Order(path, a)
       \/ OrderFills(a) \/ OrderLapses(a) \/ Sell(a) \/ CooldownEnds(a)
       \/ \E shock \in Shocks : PriceMoves(a, shock)

SizingSpec == SizingInit /\ [][SizingNext]_sizingVars

-----------------------------------------------------------------------------
(* Properties. *)

SizingTypeOK ==
  /\ {held, snapshot, working} \subseteq [Asset -> Nat]
  /\ losing \subseteq Asset /\ benched \subseteq Asset
  /\ changes \in 0..MaxOrders

\* Whatever the book holds, an order fits in it: its loss at its stop into the
\* heat that is left, its size under cap, cluster and symbol.  So no floor, cap or
\* trim later in the chain undoes an earlier one, at or over a limit included.
SizeKeepsHeat ==
  \A path \in {"auto", "manual"} : Book(path) # Nothing =>
    \A a \in Asset, nav \in Navs \ {0}, strategy \in Strategies,
       window \in Windows, chart \in Charts :
      LET book == Book(path)
          stop == IF path = "auto" THEN StopPct(window) ELSE 8
          size == Size(path, book, a, nav, strategy, window, chart)
      IN  size > 0 =>
            /\ Heat(book, stop) + size * stop <= 6 * nav
            /\ size <= Cap(strategy, nav)
            /\ 100 * (Exposure(book, Cluster(a)) + size) <= 50 * nav
            /\ 100 * (book[a] + size) <= 15 * nav
=============================================================================
