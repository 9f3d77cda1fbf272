CONSTANTS
  Object = {o1, o2}
  Pinned = {p1}
  Static = {}
  FrameSlot = {l1}
  box = box
  pair = pair
  f = f
  g = g
  Shape = {box, pair}
  Slot = {f, g}
  RefSlots <- MCRefSlots
  Size <- MCSize
  Align = 2
  HalfSize = 4
  NULL = NULL
SPECIFICATION FairSpec
PROPERTIES
  CollectionEnds
  AllocationIsAnswered
CHECK_DEADLOCK FALSE
