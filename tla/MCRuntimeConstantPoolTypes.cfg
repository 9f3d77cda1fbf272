SPECIFICATION PoolSpec
CONSTANTS
  ClassPaths <- AllPaths
  BaseNames <- AnyBase
  Names <- NamesOf
  Members <- MembersOf
  Required <- RequiredClasses
  Primitive = {"byte"}
  SizeOf <- AllSizes
  ObjectHeader = 16
  ClassHeader = 24
  MaxCached = 1
INVARIANTS
  TypeOK
  ClassObjectsHaveRoom
