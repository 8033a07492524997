\* A pod with two commands: is it terminated while one of them runs?
SPECIFICATION Spec
CONSTANTS
  p1 = p1
  NoUID = NoUID
  UIDs <- OnePod
  HasCommand <- TwoContainers
  ExitCodes = {1}
  AddRequests <- PlainAdds
  SpecGrace = 4
  MaxCalls = 1
  MaxTime = 7
INVARIANTS
  StoppedMeansStopped
CHECK_DEADLOCK FALSE
