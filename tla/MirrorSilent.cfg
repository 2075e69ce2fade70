SPECIFICATION Spec
CONSTANTS
  Recs = {r1, r2}
  Legacy = {}
  Endpoints = {e1}
  Purgers = {p1, p2}
  None = None
  Served = {}
  Rot = Rot
  MaxExpired = 2
  MaxLosses = 0
  MaxDamage = 0
  MaxKills = 0
  MaxFaults = 0
INVARIANT NeverSilent
