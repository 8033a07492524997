CONSTANTS
  Keys = {k1, k2, k3, k4}
  Uids = {u1, u2, u3}
  None = None
  MaxFaults = 6
SPECIFICATION FairSpec
INVARIANT CertifiedKey
PROPERTY Recovers
