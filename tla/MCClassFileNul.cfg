SPECIFICATION FileSpec
CHECK_DEADLOCK FALSE
CONSTANTS
  Invalid = Invalid
  None = None
  Junk = Junk
  Absent = Absent
  JunkCounts = {0, 1}
  JunkTags = {5, 7}
  Halves = 65536
  Names <- AttributeNames
  Contents <- NulStrings
  MayBeCut = {}
  FieldTypes <- SomeFieldTypes
  MethodTypes <- SomeMethodTypes
INVARIANTS
  ReadsWhatWasWritten
