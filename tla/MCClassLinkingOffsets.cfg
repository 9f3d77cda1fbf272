SPECIFICATION Spec
CONSTANTS
  ClassPaths <- LayoutPaths
  BaseNames <- AnyBase
  Names <- LayoutNames
  Required <- RequiredClasses
  Primitive = {"byte"}
  SizeOf <- Sizes
  ObjectHeader = 16
  ClassHeader = 24
INVARIANTS
  OffsetHoldsInSubclasses
