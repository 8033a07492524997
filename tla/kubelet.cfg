\* A pod with three containers, two of which have a command.
SPECIFICATION Spec
CONSTANTS
  p1 = p1
  NoUID = NoUID
  UIDs <- OnePod
  HasCommand <- ThreeContainers
  ExitCodes = {1, 2}
  AddRequests <- Adds
  SpecGrace = 4
  MaxCalls = 3
  MaxTime = 7
INVARIANTS
  NoMissedWakeup
  ExitReportsAreTrue
PROPERTIES
  AnswersAreCurrent
  ExitedStaysExited
  AddedPodIsReported
CHECK_DEADLOCK FALSE
