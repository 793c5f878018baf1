\* Two runs of two turns together; the daemon goes down twice, one write fails, one row is
\* damaged. A conversation may stop.
SPECIFICATION Spec
CONSTANTS
  MaxRuns = 2
  MaxTurns = 2
  KeepTail = 2
  MaxSnapshots = 1
  Steering = {1}
  MaxCrashes = 2
  MaxFaults = 1
  MaxDamage = 1
INVARIANTS
  WatermarkCovers
  TurnsAreWhole
  ContextIsWhole
PROPERTIES
  RecoveryHandlesAll
CHECK_DEADLOCK FALSE
