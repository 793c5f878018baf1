\* Every request ends and the daemon then idles.
SPECIFICATION Spec
CONSTANTS
  r0 = r0
  s1 = s1
  None = None
  Roots = {r0}
  Senders = {s1}
  N = 2
  Steering = {2}
  Single = {}
  Removable = {1}
  Lists = TRUE
  MaxRestarts = 1
CONSTRAINT OneRequest
INVARIANTS
  NothingLost
  AckedForGood
  LeaseExclusive
PROPERTIES
  RecoveredQueue
CHECK_DEADLOCK FALSE
