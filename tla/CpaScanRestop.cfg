SPECIFICATION Spec
CONSTANTS
  a = a
  b = b
  t1 = t1
  t2 = t2
  Items <- MCItems
  Threads <- MCThreads
  Selections <- MCSelections
  NoItem = NoItem
  MaxScans = 2
  MaxCrashes = 0
  MaxStops = 1
  MaxSaveFaults = 0
  MaxJournalFaults = 0
  TornWrites = FALSE
CHECK_DEADLOCK FALSE
PROPERTY StoppedScanNeverProbes
