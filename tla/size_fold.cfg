CONSTANTS
  Arenas <- MCArenas
  U64Mod = 128
  Tops = {0, 1, 2, 3}
  Namings <- MCNamings
  EmptyDirs = {0, 3}
  Links = {4}
  MaxTypes = 2
SPECIFICATION Spec
INVARIANTS
  TypeOK
  ChildrenListed
  SubtreeTotals
  EmittedTotals
  Imports
  TypesMakeTotal
