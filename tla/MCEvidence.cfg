SPECIFICATION EvidenceSpec
CONSTANTS
  t1 = t1
  t2 = t2
  c1 = c1
  c2 = c2
  s1 = s1
  s2 = s2
  e1 = e1
  e2 = e2
  Part = {"flow", "cohorts", "gate"}
  Trade = {t1, t2}
  BarTicks = 2
  DayTicks = 4
  Window = 1
  MaxSkew = 2
  Ahead = 1
  MaxTime = 5
  MaxSeq = 3
  MaxFlowFaults = 1
  Strategy = {s1, s2}
  Seeded = {s2}
  Cohort = {c1, c2}
  StrategyOf <- MCStrategyOf
  LimitOf <- MCLimitOf
  Params = {1, 2}
  Entry = {e1, e2}
  DailyCap = 2
  SlotCap = 1
  Dispatcher = {"auto", "manual"}
  NoCohort = NoCohort
  MaxReleases = 1
  Regime = {"bull"}
  MinRegimes = 1
  MaxEpoch = 1
SYMMETRY MCSymmetry
INVARIANTS
  EligibleBarIsExact
  
  
  
PROPERTIES
  RevokedWithEvidence
CHECK_DEADLOCK FALSE
