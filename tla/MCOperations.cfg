SPECIFICATION OpsFairSpec
CONSTANTS
  a1 = a1
  o1 = o1
  o2 = o2
  x1 = x1
  b1 = b1
  b2 = b2
  leg = leg
  rec = rec
  gate = gate
  sweep = sweep
  Order = {b1, b2, leg}
  Buys = {b1, b2}
  Quantity <- MCQuantity
  Parent <- MCParent
  NoBrokerId = {b2}
  Reconciler = rec
  Archivers = {gate}
  Complete = {gate}
  MaxStamp = 3
  Part = {"ledger", "alerts", "tick", "digest", "short"}
  Suites <- MCSuites
  Grace = 2
  Dedup = 3
  MaxCrashes = 2
  Asset = {a1}
  ConfirmTicks = 2
  Cooldown = 2
  Mode = "paper"
  MaxFaults = 2
  Operator = {o1, o2}
  MaxLines = 2
  MaxClock = 1
  Exposure = {x1}
  MaxStops = 1
INVARIANTS
  LotsAreFifo
PROPERTIES
  LedgerPromise
  LedgerCatchesUp
  AlertsAreSpaced
  LastingOutageIsTold
  PhantomIsConfirmed
  TradingResumes
  EveryLineIsSent
  LastingShortIsTold
CHECK_DEADLOCK FALSE
