CONSTANTS
  Object = {o1, o2, o3}
  Pinned = {p1}
  Static = {s1}
  FrameSlot = {l1}
  box = box
  pair = pair
  f = f
  g = g
  Shape = {box, pair}
  Slot = {f, g}
  RefSlots <- MCRefSlots
  Size <- MCSize
  Align = 2
  HalfSize = 5
  NULL = NULL
SYMMETRY Symmetry
SPECIFICATION Spec
INVARIANTS
  ObjectsFit
CHECK_DEADLOCK FALSE
