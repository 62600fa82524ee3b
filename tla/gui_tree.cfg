CONSTANTS
  Path <- MCPath
  Root = "r"
  Parent <- MCParent
  Own <- MCOwn
  Hidden = {"y"}
  RefreshDepth = 3
  LazyDepth = 2
  Handler = {h1, h2}
  MaxOps = 3
SPECIFICATION Spec
INVARIANTS
  TypeOK
  WellFormed
  SumsAgree
  ShownIsDisk
CHECK_DEADLOCK FALSE
