\* Two strategies compete for one asset; one crash anywhere.
SPECIFICATION Spec
SYMMETRY MCSymmetry
CONSTANTS
  s1 = s1
  s2 = s2
  a1 = a1
  t1 = t1
  t2 = t2
  d1 = d1
  d2 = d2
  NoSignal = NoSignal
  NoDecision = NoDecision
  Asset = {a1}
  Strategy = {t1, t2}
  AssetOf <- MCAssetOf
  StrategyOf <- MCStrategyOf
  Signal = {s1, s2}
  Decision = {d1, d2}
  Protected = {d1, d2}
  RetryBackoff = 1
  ReclaimGrace = 1
  RetryAge = 1
  HoldSettle = 2
  OrphanHorizon = 2
  SignalAgeCap = 2
  AgeCap = 3
  FillWindow = 0
  SweepTime = 1
  MaxSubmitRetries = 1
  MaxCommitteeAttempts = 1
  MaxRestarts = 1
  Pausable = {}
  LateArrival = FALSE
  Rollover = FALSE
INVARIANTS
  OneLotPerAsset
  FailedMeansNoExposure
  IntentKeepsSlot
  OneOrderPerSignal
PROPERTIES
  KeepsContract
