\* Two static pods of the same full name, which come, go and come back.
SPECIFICATION Spec
CONSTANTS
  p1 = p1
  p2 = p2
  f1 = f1
  NoUID = NoUID
  UIDs <- TwoPods
  StaticPods <- TwoPods
  Fullnames <- Names
  Fullname <- SameName
  Requests <- StaticRequests
  SpecGrace = 4
  SyncOutcomes = {"active", "terminal", "canceled"}
  MaxCalls = 3
INVARIANTS
  OneStaticPodPerName
  HolderIsAlive
  TerminationIsAttended
PROPERTIES
  TerminationCompletes
CHECK_DEADLOCK FALSE
