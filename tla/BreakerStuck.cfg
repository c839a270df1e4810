SPECIFICATION BreakerSpec
CONSTANTS
  Probes = {p1, p2}
  Members = {m1, m2}
  NoOne = NoOne
  Fingerprints = {"busy"}
  Chatting = {}
  Window = 4
  OpenFor = 1
  MinSamples = 1
  MinErrors = 1
  RatioNum = 1
  RatioDen = 2
  CanaryLimit = 2
  CanaryOk = 1
  Restarts = FALSE
  MaxClock = 3
  MaxObs = 3
CHECK_DEADLOCK FALSE
INVARIANT HalfOpenDecides
