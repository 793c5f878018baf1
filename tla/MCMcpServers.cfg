\* Two runs with one call each and one request of the user; everybody ends.
SPECIFICATION FairServer
CONSTANTS
  r1 = r1
  r2 = r2
  u1 = u1
  Runs = {r1, r2}
  Users = {u1}
  MaxChildren = 2
  MaxCalls = 1
INVARIANTS
  AnswersReachAskers
  NoOrphans
PROPERTIES
  CancelReturns
CHECK_DEADLOCK FALSE
