SPECIFICATION Spec
CONSTANTS
  Small = {a, b, c}
  Large = {d}
  Oversized = {o}
  Default = default
  PointerCacheSize = 3
  MaxUpdates = 8
CHECK_DEADLOCK FALSE
INVARIANTS
  TypeOK
  OneIdPerImage
  RecentAreCached
PROPERTY Refines
