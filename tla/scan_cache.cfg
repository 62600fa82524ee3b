CONSTANTS
  Dir = {d, e}
  Link = {l}
  Shape = {s}
  Request = {r1, r2}
  Cap = 1
  MaxClock = 2
  MaxChanges = 2
SYMMETRY RequestSymmetry
SPECIFICATION Spec
INVARIANTS
  TypeOK
  CacheBounded
  CertifiedIsCurrent
