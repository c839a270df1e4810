SPECIFICATION Spec
CONSTANTS
  StartFiles <- MCStartFiles
  RecoveryThreshold = 2
  NoModelThreshold = 2
  TransientThreshold = 2
  MaxStreak = 2
  MaxProbes = 3
  MaxRounds = 0
  MaxManual = 0
CHECK_DEADLOCK FALSE
PROPERTY IsolationNeedsRun
