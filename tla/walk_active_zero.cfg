CONSTANTS
  Entry <- RaceEntry
  Root = "r"
  Listing <- RaceListing
  Depth <- RaceDepth
  Meta <- RaceMeta
  Flaky = {}
  Cfgs <- RaceCfgs
  NThreads = 3
  UsizeMod = 64
SPECIFICATION Spec
INVARIANT ActiveZeroMeansDrained
