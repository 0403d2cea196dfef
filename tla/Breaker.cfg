\* Two callers, so that results come in late.
CONSTANTS
  Callers = {c1, c2}
  Threshold = 3
  Cooldown = 2
  MaxFailures = 8
  MaxDeaths = 1
SPECIFICATION BreakerFairSpec
INVARIANTS
  OutageIsNoticed
PROPERTIES
  TrialsArePaused
  Recovers
