\* One caller, as in the program: a success between failures.
CONSTANTS
  Callers = {c1}
  Threshold = 3
  Cooldown = 2
  MaxFailures = 4
  MaxDeaths = 0
SPECIFICATION BreakerFairSpec
PROPERTY
  OpensAfterConsecutiveFailures
