\* Two children of one parent, with the policies of Mixes, one slot, one retry, one fault and
\* one crash. All calls may be over.
SPECIFICATION Spec
CONSTANTS
  Parents = {par}
  Children = {c1, c2}
  par = par
  c1 = c1
  c2 = c2
  Policies = {"fail_fast", "require_all", "retry"}
  MaxConcurrent = 1
  MaxRetries = 1
  MaxFaults = 1
  MaxCrashes = 1
SYMMETRY Symmetric
CONSTRAINT Mixes
INVARIANTS
  EndedHoldsNothing
  OverBudgetFails
  ParentFate
PROPERTIES
  FactIsFinal
CHECK_DEADLOCK FALSE
