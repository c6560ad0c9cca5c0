---------------------------- MODULE MCDecisions -----------------------------
(***************************************************************************)
(* Model checking of how a signal is decided: the committee, the operator's *)
(* answers, the size of an entry, the exchange's calendar, the evaluation  *)
(* that decides over the order-flow hypothesis; and of how the outcome is  *)
(* booked and reported.  The parts share no state: a behaviour picks one   *)
(* at its start, and the others stay where they began.                     *)
(***************************************************************************)
EXTENDS Approvals, Committee, FlowResearch, EntrySizing, MarketCalendar,
        EquityCurve, WeeklyReport, DailyCap

CONSTANTS g1, g2, quant, news, regime, l1, l2, d1, d2, t1, t2, t3
CONSTANT Part   \* the parts of this run

MCSymmetry == Permutations({g1, g2}) \cup Permutations({news, regime})

MCMarkov == {-20, -12, 0, 20}

\* Signal bars, bars that end a position, and bars nobody can use: up to two
\* trades in development and the holdout, three in validation.
Quarter(trade, depth, volatility, move) ==
  [usable |-> TRUE, trade |-> trade, depth |-> depth, volatility |-> volatility, move |-> move]
Up == Quarter(2, 2, 1, 2)
Weak == Quarter(1, 2, 1, 2)
Turn(move) == Quarter(-1, 2, 2, move)
Wild == Quarter(2, 2, 2, 1)
Fall == Quarter(2, 1, 1, -4)
Spoilt == [Up EXCEPT !.usable = FALSE]
MCFeed ==
  << {Up}, {Up}, {Turn(4)}, {Up}, {Turn(3)},
     {Up, Weak}, {Turn(4), Fall}, {Up}, {Turn(4)}, {Up, Spoilt}, {Turn(3), Up},
     {Up, Weak}, {Turn(4), Fall}, {Wild, Spoilt}, {Turn(3), Absent}, {Up} >>
MCVariant(trade, confirm) ==
  [trade |-> trade, depth |-> 1, confirm |-> confirm, percentile |-> 75]
MCVariants == <<MCVariant(1, 1), MCVariant(2, 1), MCVariant(2, 2)>>

\* Two assets of one cluster.  Before the first trades, with bad grades, and
\* with a small weight.
MCClusterOf == [spy |-> "beta", qqq |-> "beta"]
MCTier(trades, bad) == [trades |-> trades, sharpe |-> 1, drawdown |-> 5, bad |-> bad]
MCStrategies ==
  { [max |-> 0, weight |-> 100, tier |-> MCTier(9, 0)],
    [max |-> 30, weight |-> 100, tier |-> MCTier(40, 3)],
    [max |-> 30, weight |-> 10, tier |-> MCTier(40, 2)] }
MCChart(feed, long, sigma) == [bars |-> feed, long |-> long, above |-> long, sigma |-> sigma]
MCCharts == {MCChart(FALSE, FALSE, 0), MCChart(TRUE, TRUE, 20), MCChart(TRUE, TRUE, 30)}
MCShocks == {-3, 45}

\* A winner and a loser.
MCPnl == [l \in Lot |-> IF l = l1 THEN 3 ELSE -2]
MCDecisionOf == [l \in Lot |-> IF l = l1 THEN d1 ELSE d2]

VARIABLE part
decisionVars == <<part, approvalVars, committeeVars, researchVars, sizingVars, date,
                  now, turn, curveOnlyVars, reportOnlyVars, capOnlyVars>>

DecisionsInit ==
  /\ part \in Part
  /\ ApprovalInit /\ CommitteeInit /\ ResearchInit /\ SizingInit /\ CalendarInit
  /\ ClockInit(MidnightByDate(TurnDay) - IF part = "cap" THEN 1 ELSE 0)
  /\ CurveInit /\ ReportInit /\ CapInit
  /\ part # "cap" => ~bypassOn
  /\ part \notin {"books", "weekly", "cap"} => turn = "none"
  /\ part # "committee" => ~gateOn /\ cand = CHOOSE c \in Candidate : TRUE

Others(p) ==
  /\ UNCHANGED part
  /\ p # "approvals" => UNCHANGED approvalVars
  /\ p # "committee" => UNCHANGED committeeVars
  /\ p # "research" => UNCHANGED researchVars
  /\ p # "sizing" => UNCHANGED sizingVars
  /\ p # "calendar" => UNCHANGED date
  /\ p # "books" => UNCHANGED curveOnlyVars
  /\ p # "weekly" => UNCHANGED reportOnlyVars
  /\ p # "cap" => UNCHANGED capOnlyVars
  /\ p \notin {"books", "weekly", "cap"} => UNCHANGED <<now, turn>>

\* The books see the day of the turn up to the first tick of the next, around
\* its two midnights; the cap its first midnight and the turn.
AtMidnight == DateOf(now - 1) # DateOf(now) \/ DateOf(now + 1) # DateOf(now)
AtTurn == now \in {TurnAt - 1, TurnAt}
OneDay == DateOf(now' - 1) <= TurnDay /\ (AtMidnight \/ now' # now)
UpToTurn == now' <= TurnAt /\ (AtMidnight \/ AtTurn \/ now' # now)

DecisionsNext ==
  \/ part = "approvals" /\ ApprovalNext /\ Others("approvals")
  \/ part = "committee" /\ CommitteeNext /\ Others("committee")
  \/ part = "research" /\ ResearchNext /\ Others("research")
  \/ part = "sizing" /\ SizingNext /\ Others("sizing")
  \/ part = "calendar" /\ NextDay /\ Others("calendar")
  \/ part = "books" /\ CurveNext /\ OneDay /\ Others("books")
  \/ part = "weekly" /\ ReportNext /\ Others("weekly")
  \/ part = "cap" /\ CapNext /\ UpToTurn /\ Others("cap")

DecisionsSpec == DecisionsInit /\ [][DecisionsNext]_decisionVars
=============================================================================
