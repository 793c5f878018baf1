\* One question, two answering clients, a crash, a failed write.
\* All calls may have been made and all questions be over.
SPECIFICATION Spec
CONSTANTS
  Asks = {p1}
  p1 = p1
  Clients = {c1, c2}
  c1 = c1
  c2 = c2
  p2 = p2
  Boot = Boot
  NoAsk = NoAsk
  MaxCrashes = 1
  MaxFaults = 1
INVARIANTS
  WokenAfterEvent
  AllowedAsAgreed
PROPERTIES
  ImplementsDecisionLog
  DecisionIsAnnounced
  AskReturns
CHECK_DEADLOCK FALSE
