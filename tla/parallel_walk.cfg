CONSTANTS
  Entry <- WalkEntry
  Root = "r"
  Listing <- WalkListing
  Depth <- WalkDepth
  Meta <- WalkMeta
  Flaky = {"r", "a"}
  Cfgs <- WalkCfgs
  NThreads = 3
  UsizeMod = 64
SPECIFICATION FairSpec
INVARIANTS
  TypeOK
  NoWorkLeftBehind
  ActiveAccounts
  ArenaDense
  ParentFirst
  OvershootBounded
  StaysOnDevice
  TotalIsDu
  CompleteUnlessWarned
PROPERTIES
  WalksTheTree
  Termination
