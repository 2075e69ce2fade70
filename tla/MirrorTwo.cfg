\* An old and a new recording, two bridges, retention beside the sync passes.
SPECIFICATION FairSpec
CONSTANTS
  Recs = {r1, r2}
  Legacy = {r1}
  Endpoints = {e1, e2}
  Purgers = {p1}
  None = None
  Served = {r2}
  Rot = Rot
  MaxExpired = 1
  MaxLosses = 0
  MaxDamage = 0
  MaxKills = 0
  MaxFaults = 0
INVARIANT SentHome
PROPERTY EventuallyMirrored
