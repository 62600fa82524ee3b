CONSTANTS
  Save <- MCSave
  Source <- MCSource
  Size <- MCSize
  Clock = {1000, 1001}
  MaxCrashes = 1
SPECIFICATION Spec
INVARIANTS
  TypeOK
  SavedOpens
  ListBrokenOnlyByTornLine
