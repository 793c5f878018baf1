\* A run that is compacted twice, two restarts.
SPECIFICATION Spec
CONSTANTS
  MaxRuns = 2
  MaxTurns = 2
  MaxSnapshots = 2
  KeepTail = 1
  Steering = {}
  MaxCrashes = 2
  MaxFaults = 0
  MaxDamage = 0
PROPERTIES BackfillRepairs
CHECK_DEADLOCK FALSE
