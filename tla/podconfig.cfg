\* Pods replaced under their name, a mirror pod, two pods of one name in one list.
SPECIFICATION Spec
CONSTANTS
  a1 = a1
  a2 = a2
  m1 = m1
  s1 = s1
  s2 = s2
  fa = fa
  fs = fs
  NoUID = NoUID
  NoPod = NoPod
  UIDs <- AllPods
  MirrorPods <- Mirrors
  Fullnames <- Names
  Fullname <- NameOf
  Sources <- BothSources
  Source <- SourceOf
  ChannelCap = 2
  MaxChanges = 3
INVARIANTS
  ConfigTypeOK
  IndexesAgree
  TranslationIsCurrent
  CaughtUpAgrees
PROPERTIES
  ImplementsFollow
  EventuallyConverged
CHECK_DEADLOCK FALSE
