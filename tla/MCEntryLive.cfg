\* Liveness of one signal through outages, late requests, a forgetful order list, retries and two crashes.
SPECIFICATION FairSpec
CONSTANTS
  s1 = s1
  s2 = s2
  a1 = a1
  t1 = t1
  t2 = t2
  d1 = d1
  d2 = d2
  NoSignal = NoSignal
  NoDecision = NoDecision
  Asset = {a1}
  Strategy = {t1, t2}
  AssetOf <- MCAssetOf
  StrategyOf <- MCStrategyOf
  Signal = {s1}
  Decision = {d1}
  Protected = {d1}
  RetryBackoff = 1
  ReclaimGrace = 1
  RetryAge = 2
  HoldSettle = 1
  OrphanHorizon = 3
  SignalAgeCap = 3
  AgeCap = 3
  FillWindow = 0
  SweepTime = 1
  MaxSubmitRetries = 2
  MaxCommitteeAttempts = 1
  MaxRestarts = 2
  Pausable = {t1}
  LateArrival = TRUE
  Rollover = TRUE
PROPERTIES
  SlotIsFreed
  OpenEntrySettles
