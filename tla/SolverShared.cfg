SPECIFICATION SolverSpec
CONSTANTS
  Calls = {c1, c2, c3}
  Ports = {o1, o2}
  Slots = 2
  StartMode = "headless"
  MaxBuilds = 2
  MaxDeaths = 1
CHECK_DEADLOCK FALSE
INVARIANT WorkerExclusive
