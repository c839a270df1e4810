SPECIFICATION FairSpec
CONSTANTS
  j1 = j1
  j2 = j2
  Jobs <- OneJob
  NoJob = NoJob
  NumWorkers = 2
  NumMinters = 1
  QMax = 1
  Options <- AllOptions
  Stagger = TRUE
  MaxStops = 1
CHECK_DEADLOCK FALSE
INVARIANTS
  TypeOK
  CompletedMeansDone
  StopBounded
PROPERTIES
  JobEnds
  MintersEnd
