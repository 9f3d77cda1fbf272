CONSTANTS
  Methods <- AllFamilies
  HandlersLoaded = TRUE
SPECIFICATION Spec
CHECK_DEADLOCK FALSE
INVARIANTS
  TypeOK
  StaysInBlock
