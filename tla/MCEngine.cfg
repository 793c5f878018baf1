\* Two turns of three attempts, answers of up to two calls, two inputs for the tools and
\* one for the end, of which a summary leaves one message, two failed writes. The run ends.
SPECIFICATION Spec
CONSTANTS
  MaxSteps = 2
  MaxAttempts = 3
  HistoryLimit = 5
  KeepTail = 1
  MinPrefix = 1
  MaxSummaries = 2
  MaxRefusals = 1
  DoomRounds = 2
  Reasons = {"stop", "tool_use", "cancelled", "error"}
  CallIds = {"a"}
  MaxBatch = 2
  Steering = {1, 2}
  FollowUps = {3}
  Histories <- TwoHistories
  MaxFaults = 2
INVARIANTS
  RequestsArePaired
  SentIsJournalled
  TurnsAreClosed
  RanWasAuthorised
  EffectsAreAccountedFor
  AckedWasSent
PROPERTIES
  EngineReturns
CHECK_DEADLOCK FALSE
