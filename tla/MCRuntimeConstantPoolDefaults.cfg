SPECIFICATION PoolSpec
CONSTANTS
  ClassPaths <- DefaultPaths
  BaseNames <- AnyBase
  Names <- NamesOf
  Required <- RequiredClasses
  Primitive = {"byte"}
  SizeOf <- AllSizes
  ObjectHeader = 16
  ClassHeader = 24
  Members <- MembersOf
  MaxCached = 0
INVARIANTS
  DefaultMethodsAreMostSpecific

