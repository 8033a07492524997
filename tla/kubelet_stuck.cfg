\* A pod with one command, added once: does each wait for a status end?
SPECIFICATION Spec
CONSTANTS
  p1 = p1
  NoUID = NoUID
  UIDs <- OnePod
  HasCommand <- OneContainer
  ExitCodes = {1}
  AddRequests <- PlainAdds
  SpecGrace = 4
  MaxCalls = 1
  MaxTime = 6
PROPERTIES
  WaitEnds
CHECK_DEADLOCK FALSE
