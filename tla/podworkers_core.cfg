\* One pod of the API server, every kind of request, every outcome.
SPECIFICATION Spec
CONSTANTS
  p1 = p1
  p2 = p2
  f1 = f1
  NoUID = NoUID
  UIDs <- OnePod
  StaticPods <- NoPods
  Fullnames <- Names
  Fullname <- SameName
  Requests <- AllRequests
  SpecGrace = 4
  SyncOutcomes = {"active", "terminal", "canceled", "error"}
  MaxCalls = 4
INVARIANTS
  TypeOK
  SendNeverBlocks
  WorkingIffInFlight
  PhasesNeverMix
  CanceledHasSuccessor
  NotifyStaysOpen
PROPERTIES
  TerminationIsFinal
  GraceGrowsOnlyByZero
  NewestPodWins
CHECK_DEADLOCK FALSE
