SPECIFICATION Spec
CONSTANTS
  ClassPaths <- HidingPaths
  BaseNames <- AnyBase
  Names <- LayoutNames
  Required <- RequiredClasses
  Primitive = {"byte"}
  SizeOf <- Sizes
  ObjectHeader = 16
  ClassHeader = 24
INVARIANTS
  InheritedFieldsHaveAPlace
