------------------------------ MODULE JavaTypes ------------------------------
(***************************************************************************)
(* The types of values and the classes of arrays, as instructions see them.*)
(***************************************************************************)
EXTENDS Integers, Sequences

CONSTANTS
  IntBits, LongBits, ByteBits,  \* the widths of the integer types
  Null,
  Classes,                      \* the classes a program names
  IsInstanceOf(_, _),           \* JClass::isInstanceOf, see RuntimeConstantPool
  FieldsOf(_),                  \* the classes of the fields of a class's objects
  Overriding,                   \* the classes with a method of their own, see Invoke
  Cloneable,                    \* the classes below java.lang.Cloneable but for arrays
  Signatures                    \* the types of the parameters of a method called

\* A class is a name and a number of array dimensions.
Class(of, dims) == [of |-> of, dims |-> dims]
ArrayOf(class) == Class(class.of, class.dims + 1)
ElementClass(class) == Class(class.of, class.dims - 1)

Primitives == {"int", "byte", "long"}
IsPrimitive(class) == class.dims = 0 /\ class.of \in Primitives

\* What the elements of a new array are.
Default(class) == IF IsPrimitive(class) THEN 0 ELSE Null

Width == [int |-> IntBits, long |-> LongBits, byte |-> ByteBits]

\* What the places of an object hold: the elements of an array, the fields of another.
PlaceClass(class, k) == IF class.dims > 0 THEN ElementClass(class) ELSE FieldsOf(class)[k]
Places(class, length) == IF class.dims > 0 THEN 0..length - 1 ELSE DOMAIN FieldsOf(class)
Blank(class, length) == [k \in Places(class, length) |-> Default(PlaceClass(class, k))]

IsCloneable(class) == class.dims > 0 \/ class \in Cloneable

\* A long takes two slots of the operand stack; narrow integers are kept as int.
Slots(type) == IF type = "long" THEN 2 ELSE 1
StackType(class) ==
  IF ~IsPrimitive(class) THEN "ref" ELSE IF class.of = "long" THEN "long" ELSE "int"
=============================================================================
