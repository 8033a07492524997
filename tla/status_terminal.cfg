\* A completed pod must be shown as such.
SPECIFICATION FairSpec
CONSTANTS
  p1 = p1
  p2 = p2
  n1 = n1
  NoUID = NoUID
  UIDs <- OnePod
  Names <- OneName
  NameOf <- SameName
  Restart = "Never"
  Runtime <- RunsAndCompletes
  Created <- NewPods
  OutsideWriter = FALSE
  ChannelCap = 2
  MaxUpdates = 2
  MaxFaults = 0
PROPERTIES
  TerminalReachesAPI
