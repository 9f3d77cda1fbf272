CONSTANTS
  Methods <- ThrowFamily
  HandlersLoaded = FALSE
SPECIFICATION Spec
CHECK_DEADLOCK FALSE
INVARIANTS
  RootsAreExact
