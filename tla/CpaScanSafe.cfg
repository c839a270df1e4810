SPECIFICATION Spec
CONSTANTS
  a = a
  b = b
  t1 = t1
  t2 = t2
  Items <- MCItems
  Threads <- MCThreads
  Selections <- MCSelections
  NoItem = NoItem
  MaxScans = 2
  MaxCrashes = 2
  MaxStops = 2
  MaxSaveFaults = 0
  MaxJournalFaults = 1
  TornWrites = FALSE
CONSTRAINT Serial
SYMMETRY Symmetry
CHECK_DEADLOCK FALSE
INVARIANTS
  TypeOK
  CheckpointsSurvive
PROPERTIES
  CompletedNotProbedAgain
  LedgerSpec
