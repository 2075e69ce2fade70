\* Two uploads at once, under the name lock and without one.
SPECIFICATION MCSpec
CONSTANTS
  Names = {n1, n2}
  RaceNames = {n1}
  Contents = {c1}
  Workers = {w1, w2}
  None = None
  Rot = Rot
  Torn = Torn
  Sidecars = {FALSE}
  Exclusive = TRUE
  MaxCrashes = 1
  MaxDamage = 0
  MaxErrors = 2
SYMMETRY Symmetry
INVARIANT DiskHolds
PROPERTY FilesStay
