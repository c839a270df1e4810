SPECIFICATION Spec
CONSTANTS
  a = a
  b = b
  t1 = t1
  t2 = t2
  Items <- MCItems
  Threads <- MCThreads
  Selections <- MCSelections
  NoItem = NoItem
  MaxScans = 1
  MaxCrashes = 2
  MaxStops = 0
  MaxSaveFaults = 0
  MaxJournalFaults = 0
  TornWrites = TRUE
CHECK_DEADLOCK FALSE
PROPERTY RestartedScanSkipsCompleted
