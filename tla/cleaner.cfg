CONSTANTS
  Path <- MCPath
  Spare = {"new"}
  Optional = {"b", "g2"}
  Parent <- MCParent
  Kind <- MCKind
  Target <- MCTarget
  Ino <- MCIno
  Len1 <- MCLen
  Caches = {"pip"}
  Temp = {"a", "b"}
  Logs = {"z", "j"}
  Locked = {"s", "tmp", "log"}
  MaxOther = 2
SPECIFICATION Spec
INVARIANTS
  TypeOK
  OnlyListedGoes
  AccountsForAll
  ByteExact
