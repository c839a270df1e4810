SPECIFICATION Spec
CONSTANTS
  j1 = j1
  j2 = j2
  Jobs <- TwoJobs
  NoJob = NoJob
  NumWorkers = 1
  NumMinters = 1
  QMax = 1
  Options <- OneOption
  Stagger = TRUE
  MaxStops = 1
CHECK_DEADLOCK FALSE
INVARIANT LaneSerial
