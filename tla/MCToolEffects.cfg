\* One call of each kind, two failed writes, two requests on the ended run.
\* All calls may be over and all requests be made.
SPECIFICATION Spec
CONSTANTS
  NCalls = 3
  KindOf <- ThreeKinds
  MaxFaults = 2
  MaxPlans = 2
INVARIANTS
  RowsFollowEffects
  ContinueIsSafe
PROPERTIES
  DoubtIsKept
CHECK_DEADLOCK FALSE
