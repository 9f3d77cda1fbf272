----------------------------- MODULE JavaMachine -----------------------------
(***************************************************************************)
(* What the Java virtual machine promises to a method that calculates and  *)
(* uses objects (JVMS 2.11, 6.5, System.arraycopy): an operand stack of    *)
(* typed values, where a long is one value, objects that have an identity  *)
(* and never move, and for every instruction its result or the exception   *)
(* it throws.  An exception ends the method.                               *)
(*                                                                         *)
(* Module Instructions shows that the interpreter keeps the promise.       *)
(***************************************************************************)
EXTENDS JavaTypes, FiniteSets

CONSTANTS
  NaN,
  Positions  \* positions and lengths given to arraycopy

VARIABLES
  stack,   \* the operands, the top last: sequence of [type, value]
  heap,    \* the objects in the order they were made: [class, elements]
  outcome  \* "normal", or the exception that was thrown

vars == <<stack, heap, outcome>>

Wrap(n, type) ==
  LET half == 2 ^ (Width[type] - 1) IN ((n + half) % (2 * half)) - half

-----------------------------------------------------------------------------
(* Operands, counted from the top of the stack. *)

Arg(n) == LET s == stack IN s[Len(s) + 1 - n].value
Operands(types) ==
  /\ outcome = "normal"
  /\ LET s == stack
     IN  /\ Len(s) >= Len(types)
         /\ \A i \in DOMAIN types : s[Len(s) - Len(types) + i].type = types[i]
Below(n) == LET s == stack IN SubSeq(s, 1, Len(s) - n)

Throw(exception) == outcome' = exception /\ stack' = <<>> /\ UNCHANGED heap

\* The top n operands are replaced by a value; "Put" lets the heap change.
Put(n, type, value) ==
  /\ stack' = Append(Below(n), [type |-> type, value |-> value])
  /\ UNCHANGED outcome
Yield(n, type, value) == Put(n, type, value) /\ UNCHANGED heap

-----------------------------------------------------------------------------
(* Arithmetic. *)

Limits(type) == -(2 ^ (Width[type] - 1))..2 ^ (Width[type] - 1) - 1

Push ==
  /\ Operands(<<>>) /\ Len(stack') > Len(stack)
  /\ LET top == stack'[Len(stack')]
     IN  /\ Yield(0, top.type, top.value)
         /\ top.value \in CASE top.type = "ref" -> {Null}
                            [] top.type = "float" -> {NaN} \cup -1000..1000
                            [] top.type \in {"int", "long"} -> Limits(top.type)

\* The quotient is rounded toward zero.
Divided(a, b) ==
  CHOOSE q \in (IF a < 0 THEN a..-a ELSE -a..a) :
    LET r == a - q * b
    IN  r * r < b * b /\ (r = 0 \/ (r > 0 <=> a > 0))

Binary == \E type \in {"int", "long"} :
  /\ Operands(<<type, type>>)
  /\ \E op \in {"add", "sub", "mul", "div", "rem"} :
      LET a == Arg(2)
          b == Arg(1)
      IN IF op \in {"div", "rem"} /\ b = 0 THEN Throw("ArithmeticException")
         ELSE Yield(2, type, Wrap(CASE op = "add" -> a + b
                                    [] op = "sub" -> a - b
                                    [] op = "mul" -> a * b
                                    [] op = "div" -> Divided(a, b)
                                    [] op = "rem" -> a - Divided(a, b) * b, type))

Negate == \E type \in {"int", "long"} :
  Operands(<<type>>) /\ Yield(1, type, Wrap(-Arg(1), type))

Shift == \E type \in {"int", "long"} :
  /\ Operands(<<type, "int">>)
  /\ \E kind \in {"shl", "shr", "ushr"} :
      LET factor == 2 ^ (Arg(1) % Width[type])
          a == Arg(2)
      IN Yield(2, type, CASE kind = "shl" -> Wrap(a * factor, type)
                          [] kind = "shr" -> a \div factor
                          [] kind = "ushr" -> Wrap((a % 2 ^ Width[type]) \div factor, type))

\* A float that is not a number is neither below, equal to nor above another.
Compare == \E type \in {"long", "float"}, unordered \in {-1, 1} :
  LET a == Arg(2)
      b == Arg(1)
  IN  /\ Operands(<<type, type>>)
      /\ Yield(2, "int", IF a = NaN \/ b = NaN THEN unordered
                         ELSE IF a = b THEN 0 ELSE IF a > b THEN 1 ELSE -1)

Cast == \E from \in {"int", "long"}, to \in {"int", "long", "byte", "char"} :
  /\ Operands(<<from>>)
  /\ Yield(1, IF to = "long" THEN "long" ELSE "int",
           IF to = "char" THEN Arg(1) % 2 ^ ByteBits ELSE Wrap(Arg(1), to))

\* A float is rounded toward zero, to the nearest number of the type.
CastFloat == \E to \in {"int", "long"} :
  LET half == 2 ^ (Width[to] - 1)
  IN  /\ Operands(<<"float">>)
      /\ Yield(1, to, IF Arg(1) = NaN THEN 0
                      ELSE IF Arg(1) >= 2 * half THEN half - 1
                      ELSE IF Arg(1) <= -2 * half THEN -half
                      ELSE Divided(Arg(1), 2))

-----------------------------------------------------------------------------
(* Operands are moved, dropped and copied by whole values: a group of one  *)
(* or two slots is two ints, floats or references, or one long.            *)

\* The places of the values in the n slots below the top t values.
Group(t, n) ==
  LET types == [i \in DOMAIN stack |-> stack[i].type]
      last == Len(stack) - t
      starts == {i \in 1..last + 1 :
                   (n = 0 /\ i = last + 1)
                   \/ (n = 1 /\ i = last /\ types[i] # "long")
                   \/ (n = 2 /\ i = last /\ types[i] = "long")
                   \/ (n = 2 /\ i = last - 1 /\ types[i] # "long" /\ types[last] # "long")}
  IN  {i..last : i \in starts}

Part(group) ==
  IF group = {} THEN <<>>
  ELSE LET low == CHOOSE i \in group : \A j \in group : i <= j
       IN  SubSeq(stack, low, low + Cardinality(group) - 1)

\* The upper group is copied to below the lower one (dup, dup_x1, ... dup2_x2).
Duplicate == \E n \in {1, 2}, m \in {0, 1, 2} :
  \E upper \in Group(0, n) : \E lower \in Group(Cardinality(upper), m) :
    /\ Operands(<<>>)
    /\ stack' = Below(Cardinality(upper) + Cardinality(lower))
                  \o Part(upper) \o Part(lower) \o Part(upper)
    /\ UNCHANGED <<heap, outcome>>

Drop == \E n \in {1, 2} : \E group \in Group(0, n) :
  Operands(<<>>) /\ stack' = Below(Cardinality(group)) /\ UNCHANGED <<heap, outcome>>

Swap == \E upper \in Group(0, 1) : \E lower \in Group(1, 1) :
  /\ Operands(<<>>)
  /\ stack' = Below(2) \o Part(upper) \o Part(lower)
  /\ UNCHANGED <<heap, outcome>>

-----------------------------------------------------------------------------
(* Objects and arrays. *)

Fresh == Len(heap) + 1
LengthOf(o) == Cardinality(DOMAIN heap[o].elements)
IsArray(o) == heap[o].class.dims > 0
HasElements(o, type) == IsArray(o) /\ StackType(ElementClass(heap[o].class)) = type

NewObject ==
  /\ Operands(<<>>) /\ Len(heap') = Fresh
  /\ LET class == heap'[Fresh].class
     IN  class.dims = 0 /\ heap' = Append(heap, [class |-> class, elements |-> Blank(class, 0)])
  /\ Put(0, "ref", Fresh)

\* An array of as many dimensions as there are counts: the arrays of each dimension
\* are all new and different, and those of the last hold zero or null.
NewArray == \E n \in 1..Len(stack) :
  LET counts == [i \in 1..n |-> Arg(n + 1 - i)]
      arrays[i \in 1..n] ==
        IF i = 1 THEN {Fresh} ELSE UNION {{heap'[o].elements[k] : k \in DOMAIN heap'[o].elements} : o \in arrays[i - 1]}
      made == UNION {arrays[i] : i \in 1..n}
      number[i \in 1..n] == IF i = 1 THEN 1 ELSE number[i - 1] * counts[i - 1]
  IN  /\ Operands([i \in 1..n |-> "int"])
      /\ IF \E i \in 1..n : counts[i] < 0
         THEN Throw("NegativeArraySizeException")
         ELSE /\ Put(n, "ref", Fresh)
              /\ Len(heap') > Len(heap) /\ SubSeq(heap', 1, Len(heap)) = heap
              /\ heap'[Fresh].class.dims >= n
              /\ made = Fresh..Len(heap')
              /\ \A i \in 1..n : Cardinality(arrays[i]) = number[i]
              /\ \A i \in 1..n : \A o \in arrays[i] :
                   /\ heap'[o].class = Class(heap'[Fresh].class.of, heap'[Fresh].class.dims + 1 - i)
                   /\ DOMAIN heap'[o].elements = 0..counts[i] - 1
                   /\ i = n => heap'[o].elements = Blank(heap'[o].class, counts[i])

ArrayLength ==
  /\ Operands(<<"ref">>)
  /\ IF Arg(1) = Null THEN Throw("NullPointerException")
     ELSE IsArray(Arg(1)) /\ Yield(1, "int", LengthOf(Arg(1)))

Load == \E type \in {"int", "long", "ref"} :
  /\ Operands(<<"ref", "int">>)
  /\ IF Arg(2) = Null THEN Throw("NullPointerException")
     ELSE IF Arg(1) \notin DOMAIN heap[Arg(2)].elements
     THEN Throw("ArrayIndexOutOfBoundsException")
     ELSE /\ HasElements(Arg(2), type)
          /\ Yield(2, type, heap[Arg(2)].elements[Arg(1)])

\* The index is checked before the class of the value.
Store == \E type \in {"int", "long", "ref"} :
  LET array == Arg(3)
      element == ElementClass(heap[array].class)
      value == IF type = "ref" THEN Arg(1) ELSE Wrap(Arg(1), element.of)
  IN  /\ Operands(<<"ref", "int", type>>)
      /\ IF array = Null THEN Throw("NullPointerException")
         ELSE IF Arg(2) \notin DOMAIN heap[array].elements
         THEN Throw("ArrayIndexOutOfBoundsException")
         ELSE IF type = "ref" /\ value # Null /\ ~IsInstanceOf(heap[value].class, element)
         THEN Throw("ArrayStoreException")
         ELSE /\ HasElements(array, type) /\ stack' = Below(3)
              /\ heap' = [heap EXCEPT ![array].elements[Arg(2)] = value]
              /\ UNCHANGED outcome

(* Fields; only an object that has the field, or null, is asked for it. *)

IsObject(o) == heap[o].class.dims = 0

GetField ==
  /\ Operands(<<"ref">>)
  /\ IF Arg(1) = Null THEN Throw("NullPointerException")
     ELSE /\ IsObject(Arg(1))
          /\ \E k \in DOMAIN heap[Arg(1)].elements :
               Yield(1, StackType(PlaceClass(heap[Arg(1)].class, k)), heap[Arg(1)].elements[k])

PutField == \E type \in {"int", "long", "ref"} :
  /\ Operands(<<"ref", type>>)
  /\ IF Arg(2) = Null THEN Throw("NullPointerException")
     ELSE /\ IsObject(Arg(2))
          /\ \E k \in DOMAIN heap[Arg(2)].elements :
               LET class == PlaceClass(heap[Arg(2)].class, k)
               IN  /\ StackType(class) = type
                   /\ stack' = Below(2)
                   /\ heap' = [heap EXCEPT ![Arg(2)].elements[k] =
                                IF type = "ref" THEN Arg(1) ELSE Wrap(Arg(1), class.of)]
                   /\ UNCHANGED outcome

\* The receiver, below all of the parameters, selects the method that is called.
Invoke == \E parameters \in Signatures :
  LET receiver == Arg(Len(parameters) + 1)
      type == parameters[Len(parameters)]
  IN  /\ Operands(<<"ref">> \o parameters)
      /\ IF receiver = Null THEN Throw("NullPointerException")
         ELSE Yield(Len(parameters) + 1, type,
                    IF heap[receiver].class \in Overriding THEN Arg(1) ELSE Default(Class(type, 0)))

\* A native method gets its parameter as what it is declared to be, and returns it so.
InvokeNative == \E class \in Classes :
  /\ Operands(<<"ref", StackType(class)>>)
  /\ IF Arg(2) = Null THEN Throw("NullPointerException")
     ELSE Yield(2, StackType(class), IF IsPrimitive(class) THEN Wrap(Arg(1), class.of) ELSE Arg(1))

\* Whether a reference object refers to another object.
RefersTo ==
  /\ Operands(<<"ref", "ref">>) /\ Arg(2) # Null
  /\ \E k \in DOMAIN heap[Arg(2)].elements :
       /\ ~IsPrimitive(PlaceClass(heap[Arg(2)].class, k)) /\ IsObject(Arg(2))
       /\ Yield(2, "int", IF heap[Arg(2)].elements[k] = Arg(1) THEN 1 ELSE 0)

-----------------------------------------------------------------------------
CheckCast ==
  /\ Operands(<<"ref">>)
  /\ \E class \in Classes : IF Arg(1) = Null \/ IsInstanceOf(heap[Arg(1)].class, class)
     THEN Yield(1, "ref", Arg(1))
     ELSE Throw("ClassCastException")

InstanceOf ==
  /\ Operands(<<"ref">>)
  /\ \E class \in Classes : Yield(1, "int", IF Arg(1) # Null /\ IsInstanceOf(heap[Arg(1)].class, class) THEN 1 ELSE 0)

\* Arrays can be cloned, and instances of classes that say so.
Clone ==
  /\ Operands(<<"ref">>) /\ Arg(1) # Null
  /\ IF ~IsCloneable(heap[Arg(1)].class) THEN Throw("CloneNotSupportedException")
     ELSE heap' = Append(heap, heap[Arg(1)]) /\ Put(1, "ref", Fresh)

\* All elements are read before the first one is written; both arrays hold the same
\* primitive type, or references that the target can hold.
ArrayCopy ==
  LET src == Arg(2)
      dest == Arg(1)
      objects == heap
      from == objects[src].elements
      Element(o) == ElementClass(objects[o].class)
      Fits(v) == IsPrimitive(Element(dest)) \/ v = Null \/ IsInstanceOf(objects[v].class, Element(dest))
      SameKind == \/ Element(src) = Element(dest)
                  \/ ~IsPrimitive(Element(src)) /\ ~IsPrimitive(Element(dest))
  IN  /\ Operands(<<"ref", "ref">>) /\ stack' \in {<<>>, Below(2)}
      /\ IF Null \in {src, dest} THEN Throw("NullPointerException")
         ELSE IF ~IsArray(src) \/ ~IsArray(dest) \/ ~SameKind
         THEN Throw("ArrayStoreException")
         ELSE \E srcPos, destPos, length \in Positions :
           LET copied == [k \in destPos..destPos + length - 1 |-> from[srcPos + k - destPos]]
           IN  IF \/ length < 0 \/ srcPos < 0 \/ destPos < 0
                  \/ srcPos + length > LengthOf(src) \/ destPos + length > LengthOf(dest)
               THEN Throw("IndexOutOfBoundsException")
               ELSE /\ \A k \in DOMAIN copied : Fits(copied[k])
                    /\ stack' = Below(2)
                    /\ heap' = [objects EXCEPT ![dest].elements =
                                  [k \in DOMAIN @ |-> IF k \in DOMAIN copied THEN copied[k] ELSE @[k]]]
                    /\ UNCHANGED outcome

-----------------------------------------------------------------------------
Init == stack = <<>> /\ heap = <<>> /\ outcome = "normal"

Next ==
  \/ Push \/ Binary \/ Shift \/ Compare \/ Negate \/ Cast \/ CastFloat
  \/ ArrayCopy \/ Load \/ Store \/ ArrayLength \/ Clone
  \/ GetField \/ PutField \/ Invoke \/ InvokeNative \/ RefersTo
  \/ CheckCast \/ InstanceOf \/ NewObject \/ NewArray
  \/ Drop \/ Duplicate \/ Swap

Spec == Init /\ [][Next]_vars
=============================================================================
