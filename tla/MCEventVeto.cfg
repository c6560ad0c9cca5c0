SPECIFICATION DecisionsSpec
CONSTANTS
  g1 = g1
  g2 = g2
  quant = quant
  news = news
  regime = regime
  l1 = l1
  l2 = l2
  d1 = d1
  d2 = d2
  t1 = t1
  t2 = t2
  t3 = t3
  Part = {"committee"}
  Signal = {g1, g2}
  MaxClicks = 2
  MaxRestarts = 1
  Specialist = {quant, news, regime}
  Quant = quant
  Markov <- MCMarkov
  NoMarkov = NoMarkov
  DefaultHalves = 2
  MaxHalves = 3
  MaxCommitteeAttempts = 2
  MaxRefusals = 1
  Absent = Absent
  Feed <- MCFeed
  Variants <- MCVariants
  DevelopmentEnd = 5
  ValidationEnd = 11
  Cutoff = 15
  HoldBars = 2
  StopDrop = 2
  Cost = 1
  StressCosts = {2, 3}
  Lookback = 6
  MinHistory = 1
  MinTrades = 1
  MaxDrawdown = 3
  Asset = {"spy", "qqq"}
  ClusterOf <- MCClusterOf
  Navs = {0, 200}
  Strategies <- MCStrategies
  Windows = {0, 60}
  Charts <- MCCharts
  RiskPct = 10
  Ceiling = 20
  Floor = 2
  RawSize = 16
  MaxOrders = 3
  Shocks <- MCShocks
  FirstYear = 2011
  LastYear = 2022
  DayTicks = 6
  TurnDay = 7
  EndOfTime = 92
  FireTicks = 3
  GraceTicks = 1
  MaxReportFaults = 2
  Lot = {l1, l2}
  Decision = {d1, d2}
  DecisionOf <- MCDecisionOf
  PnlOf <- MCPnl
  Account = 3
  MaxBookFaults = 1
  Try = {t1, t2, t3}
  Route = {"sweep", "operator"}
  DayCap = 1
  Target = 1
  Ttl = 2
  MaxCapRestarts = 1
INVARIANT
  EventVetoStands
CHECK_DEADLOCK FALSE
