\* One start, one cancel, one finish, one restart: every terminal races the others, under fair
\* scheduling. Every request ends and the daemon then idles, so deadlock is not an error.
SPECIFICATION FairSpec
CONSTANTS
  Starts = {s1}
  Cancels = {c1}
  Finishes = {f1}
  Endings = {"completed", "cancelled"}
  MaxEmits = 2
  s1 = s1
  c1 = c1
  f1 = f1
INVARIANTS
  ShownIsJournalled
  MemoryFollowsRow
  OneTerminalFact
PROPERTIES
  SettledRowIsFinal
  ImplementsRunStatus
  RunSettles
CHECK_DEADLOCK FALSE
