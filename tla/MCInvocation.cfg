CONSTANTS
  main = main
  callee = callee
  native = native
  forName = forName
  unlinked = unlinked
  uncaught = uncaught
  clinitA = clinitA
  clinitB = clinitB
  A = A
  B = B
  Interpreted = {main, callee, uncaught, clinitA, clinitB}
  Native = {native, forName, unlinked}
  Linked = {native, forName}
  HasHandlers = {main, clinitA}
  ReturnsValue <- MCReturnsValue
  NumSlots <- MCNumSlots
  Class = {A, B}
  Owner <- MCOwner
  Supers <- MCSupers
  Initializer <- MCInitializer
  Main = main
  UncaughtHandler = uncaught
  Exception = {e1, e2}
  NULL = NULL
  MaxFrames = 4
  MaxStack = 2
  MaxHandles = 0
  InitializersThrow = FALSE
  ResolutionFails = FALSE
SPECIFICATION FairSpec
INVARIANTS
  NoSecondException
PROPERTIES
  ExceptionReachesHandler
  ExceptionsUnwind
  ExceptionsAreDealtWith
