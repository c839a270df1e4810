SPECIFICATION FairSpec
CONSTANTS
  a = a
  b = b
  t1 = t1
  t2 = t2
  Items <- MCItems
  Threads <- MCThreads
  Selections <- MCSelections
  NoItem = NoItem
  MaxScans = 1
  MaxCrashes = 1
  MaxStops = 1
  MaxSaveFaults = 0
  MaxJournalFaults = 1
  TornWrites = TRUE
CHECK_DEADLOCK FALSE
PROPERTIES
  ScanConcludes
  StopEndsScan
