CONSTANTS
  Methods <- MultiArrayFamily
  HandlersLoaded = TRUE
SPECIFICATION Spec
CHECK_DEADLOCK FALSE
INVARIANTS
  RootsAreExact
