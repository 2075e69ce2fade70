\* One name, two different byte strings under it, crashes and disk damage.
SPECIFICATION Spec
CONSTANTS
  Names = {n1}
  Contents = {c1, c2}
  Workers = {w1}
  None = None
  Rot = Rot
  Torn = Torn
  Sidecars = {TRUE, FALSE}
  Exclusive = TRUE
  MaxCrashes = 2
  MaxDamage = 2
  MaxErrors = 1
SYMMETRY Symmetry
INVARIANTS PromiseKept CleanDisk
PROPERTIES RemovesOnlyItsOwn ArchiveSpec
