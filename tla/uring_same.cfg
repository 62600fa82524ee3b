CONSTANTS
  Entry <- MCEntry
  Root = "r"
  Listing <- MCListing
  Depth <- MCDepth
  Meta <- DiskMeta
  Flaky = {}
  Cfgs <- DiskCfgs
  NThreads = 2
  UsizeMod = 64
  QD = 3
  SubmitAt = 2
  StMinors = 4
  StatxMinors = 16
  Kernels <- SoundKernels
SPECIFICATION USpec
INVARIANT SameEntriesAsStd
