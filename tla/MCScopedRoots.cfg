CONSTANTS
  Node = {n1, n2, n3}
  Object = {o1, o2}
  Scope = {h1, h2, h3}
  Raw = {r1, r2}
  NULL = NULL
  OutOfScope = OutOfScope
SPECIFICATION RefsSpec
INVARIANTS
  WellLinked
  PinnedAreCurrent
  OneOwner
PROPERTIES
  PinsKeepTheirObject
  MovesKeepTheObject
  UsesTheList
