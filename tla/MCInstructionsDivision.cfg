CONSTANTS
  IntBits = 4
  LongBits = 8
  ByteBits = 2
  Null = Null
  NaN = NaN
  Classes <- MCClasses
  IsInstanceOf <- MCIsInstanceOf
  FieldsOf <- MCFieldsOf
  Overriding <- MCOverriding
  Cloneable <- MCCloneable
  Signatures <- MCSignatures
  Ints <- MCInts
  LoadedAtStart <- MCLoaded
  Positions <- MCPositions
  Longs <- MCLongs
  Floats <- MCFloats
  Cases = {"divisor"}
  MaxCollections = 1
  Explored <- MCExplored
  MaxObjects = 2
  MaxLength = 2
  MaxSlots = 4
SPECIFICATION Spec
PROPERTIES
  ComputesLikeJava
CHECK_DEADLOCK FALSE
