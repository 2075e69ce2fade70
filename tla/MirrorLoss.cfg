SPECIFICATION FairSpec
CONSTANTS
  Recs = {r1}
  Legacy = {}
  Endpoints = {e1}
  Purgers = {p1}
  None = None
  Served = {r1}
  Rot = Rot
  MaxExpired = 1
  MaxLosses = 1
  MaxDamage = 2
  MaxKills = 1
  MaxFaults = 1
INVARIANTS MirrorKept
PROPERTIES OnlyHeldCopiesGoEarly EventuallyMirrored EventuallyRechecked
