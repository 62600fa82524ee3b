CONSTANTS
  Entry <- MCEntry
  Root = "r"
  Listing <- MCListing
  Depth <- MCDepth
  Meta <- MCMeta
  Flaky = {"a"}
  Cfgs <- MCCfgs
  NThreads = 2
  UsizeMod = 64
  QD = 3
  SubmitAt = 2
  StMinors = 4
  StatxMinors = 16
  Kernels <- MCKernels
SPECIFICATION UFairSpec
INVARIANTS
  RingTypeOK
  ResultsAreOwn
  NothingInFlight
  UArenaDense
  OvershootBounded
  ParentFirst
  TotalIsDu
  EntersWhatItShould
PROPERTIES
  ScanEnds
