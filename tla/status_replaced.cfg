\* A pod and its replacement under one name.
SPECIFICATION Spec
CONSTANTS
  p1 = p1
  p2 = p2
  n1 = n1
  NoUID = NoUID
  UIDs <- TwoPods
  Names <- OneName
  NameOf <- SameName
  Restart = "OnFailure"
  Runtime <- OnlyRuns
  Created <- NewPods
  OutsideWriter = TRUE
  ChannelCap = 1
  MaxUpdates = 2
  MaxFaults = 0
PROPERTIES
  NoWriteToReplacement
  ForeignConditionKept
SYMMETRY PodSymmetry
