SPECIFICATION Spec
CONSTANTS
  a = a
  b = b
  t1 = t1
  t2 = t2
  Items <- MCItems
  Threads <- MCThreads
  Selections <- MCSelections
  NoItem = NoItem
  MaxScans = 2
  MaxCrashes = 1
  MaxStops = 2
  MaxSaveFaults = 1
  MaxJournalFaults = 1
  TornWrites = FALSE
CONSTRAINT Serial
SYMMETRY Symmetry
CHECK_DEADLOCK FALSE
INVARIANTS
  HistoryHonest
PROPERTIES
  StopSticks
  CancelledRowsNotMerged
