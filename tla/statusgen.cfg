\* One init container, two containers, one of them restarted.
SPECIFICATION Spec
CONSTANTS
  i1 = i1
  c1 = c1
  c2 = c2
  Inits <- OneInit
  Containers <- TwoContainers
  Policies <- AllPolicies
  Attempts <- C1Twice
  MaxRestarts = 2
INVARIANTS
  SucceededIsTrue
PROPERTIES
  SyncSettles
  RanIsNotPending
  InitializedIsKept
CHECK_DEADLOCK FALSE
