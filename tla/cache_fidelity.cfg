CONSTANTS
  Arenas <- LinkedArenas
  U64Mod = 128
  Tops = {3}
  Namings <- LinkedNamings
  EmptyDirs = {0}
  Links = {}
  MaxTypes = 2
SPECIFICATION Spec
INVARIANT FullFidelity
