\* One pod, found in any condition, under fairness.
SPECIFICATION FairSpec
CONSTANTS
  p1 = p1
  p2 = p2
  n1 = n1
  NoUID = NoUID
  UIDs <- OnePod
  Names <- OneName
  NameOf <- SameName
  Restart = "Never"
  Runtime <- AnyOutcome
  Created <- OldPods
  OutsideWriter = FALSE
  ChannelCap = 1
  MaxUpdates = 2
  MaxFaults = 1
INVARIANTS
  TypeOK
PROPERTIES
  ReportsInOrder
  TerminatedStaysTerminated
  EventuallyReported
  DeletionCompletes
