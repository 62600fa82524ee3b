CONSTANTS
  Entry <- LinkEntry
  Root = "r"
  Listing <- LinkListing
  Depth <- LinkDepth
  Meta <- LinkMeta
  Flaky = {}
  Cfgs <- RaceCfgs
  NThreads = 2
  UsizeMod = 64
SPECIFICATION Spec
INVARIANT ScheduleFree
