\* A run that is compacted twice, a restart, a second run.
SPECIFICATION Spec
CONSTANTS
  MaxRuns = 2
  MaxTurns = 2
  MaxSnapshots = 2
  KeepTail = 2
  Steering = {}
  MaxCrashes = 1
  MaxFaults = 0
  MaxDamage = 0
INVARIANTS ReplacedStaysOut
CHECK_DEADLOCK FALSE
