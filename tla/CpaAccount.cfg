SPECIFICATION Spec
CONSTANTS
  StartFiles <- MCStartFiles
  RecoveryThreshold = 2
  NoModelThreshold = 2
  TransientThreshold = 2
  MaxStreak = 2
  MaxProbes = 3
  MaxRounds = 2
  MaxManual = 2
CHECK_DEADLOCK FALSE
CONSTRAINT Bounds
INVARIANTS
  TypeOK
  OperatorDisableHolds
  RejectedNotRouted
  ActualTruthful
  TierMatchesSchedule
PROPERTIES
  QuarantineHasEvidence
  RecoveryTakesSuccesses
