SPECIFICATION FileSpec
CHECK_DEADLOCK FALSE
CONSTANTS
  Invalid = Invalid
  None = None
  Junk = Junk
  Absent = Absent
  JunkCounts = {0, 1}
  JunkTags = {5, 7}
  Halves = 2
  Names <- AttributeNames
  Contents <- LongAttribute
  MayBeCut = {}
  FieldTypes <- SomeFieldTypes
  MethodTypes <- SomeMethodTypes
INVARIANTS
  ReadsWhatWasWritten
