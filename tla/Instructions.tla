---------------------------- MODULE Instructions ----------------------------
(***************************************************************************)
(* The interpreter's instructions for arithmetic, the operand stack,       *)
(* fields, arrays and calls, and the native methods it hands operands to,  *)
(* among them Object.clone and System.arraycopy. Slots of the operand      *)
(* stack hold bit patterns, a long in the first of its two slots; objects  *)
(* are reached through pointers, which a collection makes invalid, and any *)
(* allocation may collect.                                                 *)
(*                                                                         *)
(* One method runs, as far as its first exception.  Which slots are        *)
(* references is known here; module FrameRoots is about how the collector  *)
(* finds out.  Loading a class may allocate, and fails elsewhere           *)
(* (Invocation, ClassLinking).                                             *)
(***************************************************************************)
EXTENDS JavaTypes, Arithmetic, SequencesExt

CONSTANTS
  Ints, Longs, Floats,     \* bound: what instructions push
  LoadedAtStart,           \* the classes the VM has loaded before
  Positions,               \* bound: positions and lengths given to arraycopy
  Cases,                   \* what programs do of the things known to go wrong
  MaxCollections,          \* bound: collections
  Explored(_, _, _)        \* bound: the slots, types and objects there may be

(* What goes wrong in each case is where the case is mentioned below.      *)
KnownCases == {"divisor", "null length", "count", "cast loads", "store order", "narrow value",
               "interface slots", "interface null", "referent", "copy objects", "copy sum",
               "copy overlap", "copy kinds", "copy store", "copy arrays"}

ASSUME CasesAssumption == Cases \subseteq KnownCases

\* The powers of two are said to be numbers for the provers, which know none.
ASSUME WidthsAssumption ==
  /\ IntBits \in Nat \ {0} /\ LongBits \in Nat \ {0} /\ ByteBits \in 1..IntBits
  /\ \A n \in 0..IntBits + LongBits : 2 ^ n \in Nat \ {0}
  /\ 2 ^ ByteBits <= 2 ^ IntBits

ASSUME ValuesAssumption ==
  /\ Ints \subseteq Int /\ Longs \subseteq Int /\ Floats \ {NaN} \subseteq Int
  /\ Positions \subseteq Int
  /\ Null \notin [id : Nat, region : Nat]

\* The classes of objects: those a program names, their elements, and arrays of them.
ObjectClasses == UNION {{Class(class.of, n) : n \in 0..class.dims + 1} : class \in Classes}

ASSUME ClassesAssumption ==
  /\ Classes \subseteq [of : STRING, dims : Nat]
  /\ LoadedAtStart \subseteq Classes \cup {ArrayOf(class) : class \in Classes}
  /\ \A class \in Classes : DOMAIN FieldsOf(class) \subseteq Nat
  /\ \A class \in ObjectClasses : IsInstanceOf(class, class)
  /\ Signatures \subseteq Seq({"int", "long", "ref"}) \ {<<>>}

VARIABLES
  slots,    \* CallFrame: the operand stack up to its stack pointer
  types,    \* the type of what each slot holds, known from the method; a long
            \* is in a slot of its type and one that is called "half"
  objects,  \* the objects in the order they were made: [class, elements, region]
  epoch,    \* how many collections there were: the region objects move to
  loaded,   \* the classes that are loaded
  levels,   \* newMultiArray: the calls of makeInnerArray, the outermost first
  outcome   \* "normal", the exception thrown, or "undefined"

vars == <<slots, types, objects, epoch, loaded, levels, outcome>>

-----------------------------------------------------------------------------
(* The operand stack *)

\* The pattern in a slot for a value of a type, and back.
Encode(type, v) == IF type \in Primitives THEN Pattern(v, Width[type]) ELSE v
Decode(type, p) ==
  IF type \in Primitives THEN Signed(Pattern(p, Width[type]), Width[type]) ELSE p

Unused == 0  \* for what is in the second slot of a long: nothing looks at it

PushOperand(s, type, v) ==
  s \o <<Encode(type, v)>> \o (IF type = "long" THEN <<Unused>> ELSE <<>>)
PushType(s, type) == s \o <<type>> \o (IF type = "long" THEN <<"half">> ELSE <<>>)

SlotsOf(ts) == Len(ts) + Cardinality({i \in DOMAIN ts : ts[i] = "long"})

\* The stack below its topmost values of these types, and the value on top of a stack.
Dropped(s, ts) == SubSeq(s, 1, Len(s) - SlotsOf(ts))
Popped(s, type) == Decode(type, s[Len(s) + 1 - Slots(type)])

\* The operands of an instruction, in the order they were pushed.
Operand(ts, i) == Popped(Dropped(slots, SubSeq(ts, i + 1, Len(ts))), ts[i])

\* The method passes verification, and no exception was thrown.
Ready(ts) ==
  /\ outcome = "normal" /\ levels = <<>>
  /\ Len(types) >= SlotsOf(ts)
  /\ \A i \in DOMAIN ts :
       types[Len(types) + 1 - SlotsOf(SubSeq(ts, i, Len(ts)))] = ts[i]

Pop(ts) == slots' = Dropped(slots, ts) /\ types' = Dropped(types, ts)

Replace(ts, type, v) ==
  /\ slots' = PushOperand(Dropped(slots, ts), type, v)
  /\ types' = PushType(Dropped(types, ts), type)

\* The frame's operands are dropped for the exception; the method is left.
ThrowException(exception) ==
  /\ outcome' = exception
  /\ slots' = <<>> /\ types' = <<>>

\* The behaviour of the C++ code is undefined from here on.
Undefined == ThrowException("undefined")

Normally == UNCHANGED outcome
SameHeap == UNCHANGED <<objects, epoch, loaded, levels>>

Constant(type, values) == \E v \in values :
  Ready(<<>>) /\ Replace(<<>>, type, v) /\ Normally /\ SameHeap

(* The instructions that move operands pop generic operands, whatever they *)
(* are, and push some of them again, the last one popped being number n.   *)
Shuffle(pops, pushes) ==
  [pops |-> pops, pushes |-> pushes]

\* Mutant: dup2_x1 copies only one slot of the two it moves.
ShufflesOneSlot ==
  [pop |-> Shuffle(1, <<>>), pop2 |-> Shuffle(2, <<>>),
   dup |-> Shuffle(1, <<1, 1>>), dup_x1 |-> Shuffle(2, <<1, 2, 1>>),
   dup_x2 |-> Shuffle(3, <<1, 3, 2, 1>>), dup2 |-> Shuffle(2, <<2, 1, 2, 1>>),
   dup2_x1 |-> Shuffle(3, <<1, 3, 2, 1>>),
   dup2_x2 |-> Shuffle(4, <<2, 1, 4, 3, 2, 1>>), swap |-> Shuffle(2, <<1, 2>>)]

Shuffles ==
  [pop |-> Shuffle(1, <<>>), pop2 |-> Shuffle(2, <<>>),
   dup |-> Shuffle(1, <<1, 1>>), dup_x1 |-> Shuffle(2, <<1, 2, 1>>),
   dup_x2 |-> Shuffle(3, <<1, 3, 2, 1>>), dup2 |-> Shuffle(2, <<2, 1, 2, 1>>),
   dup2_x1 |-> Shuffle(3, <<2, 1, 3, 2, 1>>),
   dup2_x2 |-> Shuffle(4, <<2, 1, 4, 3, 2, 1>>), swap |-> Shuffle(2, <<1, 2>>)]

\* The halves of a long move together in a verified method.
Whole(tags) ==
  /\ tags # <<>> => tags[1] # "half"
  /\ \A i \in DOMAIN tags :
       tags[i] = "long" <=> i < Len(tags) /\ tags[i + 1] = "half"

Shuffled(s, shuffle) ==
  SubSeq(s, 1, Len(s) - shuffle.pops)
    \o [i \in DOMAIN shuffle.pushes |-> s[Len(s) + 1 - shuffle.pushes[i]]]

\* What moves, and what it moves past, are whole operands.
Verifiable(op) ==
  LET top == IF op \in {"pop2", "dup2", "dup2_x1", "dup2_x2"} THEN 2 ELSE 1
  IN  /\ Len(types) >= Shuffles[op].pops
      /\ Whole(SubSeq(types, 1, Len(types) - Shuffles[op].pops))
      /\ Whole(SubSeq(types, Len(types) + 1 - top, Len(types)))

MoveOperands(op) ==
  /\ Ready(<<>>) /\ Verifiable(op)
  /\ slots' = Shuffled(slots, Shuffles[op])
  /\ types' = Shuffled(types, Shuffles[op])
  /\ Normally /\ SameHeap

-----------------------------------------------------------------------------
(* Arithmetic *)

SimpleOp(op, type) ==
  LET ts == <<type, type>>
  IN  /\ Ready(ts)
      /\ Replace(ts, type, WrapSigned(op, Operand(ts, 1), Operand(ts, 2), Width[type]))
      /\ Normally /\ SameHeap

\* div throws for a zero divisor and divides all the same; rem just divides.
Divide(type, op) ==
  LET ts == <<type, type>>
      a == Operand(ts, 1)
      b == Operand(ts, 2)
  IN  /\ Ready(ts)
      /\ IF DivisionIsUndefined(a, b, Width[type])
         THEN "divisor" \in Cases /\ Undefined
         ELSE /\ Replace(ts, type, IF op = "div" THEN Quotient(a, b) ELSE Remainder(a, b))
              /\ Normally
      /\ SameHeap

Neg(type) ==
  /\ Ready(<<type>>)
  /\ Replace(<<type>>, type, Negated(Operand(<<type>>, 1), Width[type]))
  /\ Normally /\ SameHeap

Shift(type, kind) ==
  LET ts == <<type, "int">>
  IN  /\ Ready(ts)
      /\ Replace(ts, type, Shifted(Operand(ts, 1), Operand(ts, 2), Width[type], IntBits, kind))
      /\ Normally /\ SameHeap

Compare(type, notEqual) ==
  LET ts == <<type, type>>
  IN  /\ Ready(ts)
      /\ Replace(ts, "int", Compared(Operand(ts, 1), Operand(ts, 2), notEqual))
      /\ Normally /\ SameHeap

\* "char" is the unsigned type as narrow as a byte.
Cast(from, to) ==
  /\ Ready(<<from>>)
  /\ Replace(<<from>>, IF to = "long" THEN "long" ELSE "int",
             IF to = "char" THEN CastInteger(Operand(<<from>>, 1), ByteBits, TRUE)
             ELSE CastInteger(Operand(<<from>>, 1), Width[to], FALSE))
  /\ Normally /\ SameHeap

CastFloat(to) ==
  /\ Ready(<<"float">>)
  /\ Replace(<<"float">>, to, CastFloatToInt(Operand(<<"float">>, 1), Width[to]))
  /\ Normally /\ SameHeap

-----------------------------------------------------------------------------
(* The heap *)

At(p) == objects[p.id]
LengthOf(p) == Cardinality(DOMAIN At(p).elements)
ElementOf(p) == ElementClass(At(p).class)
RefPlaces(object) ==
  {k \in DOMAIN object.elements : ~IsPrimitive(PlaceClass(object.class, k))}
References(object) == {object.elements[k] : k \in RefPlaces(object)} \ {Null}

RefSlots(ts) == {i \in DOMAIN ts : ts[i] = "ref"}

\* Mutant: newMultiArray keeps the arrays it fills by their addresses.
NothingPinned == {}

\* The objects newMultiArray has pinned.
Pinned == {levels[i].array : i \in DOMAIN levels}

\* The objects that pointers lead to, directly or through others: those in every set that
\* has them and the objects its members refer to.
Targets(pointers) == {p.id : p \in pointers \ {Null}}
KeepsReachable(ids, pointers) ==
  /\ Targets(pointers) \subseteq ids
  /\ \A k \in ids : Targets(References(objects[k])) \subseteq ids
Reachable(pointers) ==
  {k \in DOMAIN objects :
     \A ids \in SUBSET DOMAIN objects : KeepsReachable(ids, pointers) => k \in ids}

Move(p) == IF p = Null THEN p ELSE [p EXCEPT !.region = epoch + 1]

(* Slots and objects when operands ts are popped and then, maybe, garbage  *)
(* is collected while the pointers held are pinned.  What the collector    *)
(* does not find stays where it was.                                       *)
Collected(collect, ts, held) ==
  LET below == Dropped(slots, ts)
      refs == RefSlots(Dropped(types, ts))
      moves == Reachable(Pinned \cup held \cup {below[i] : i \in refs})
  IN  IF ~collect THEN [slots |-> below, objects |-> objects]
      ELSE [slots |-> [i \in DOMAIN below |-> IF i \in refs THEN Move(below[i]) ELSE below[i]],
            objects |-> [k \in DOMAIN objects |->
              IF k \notin moves THEN objects[k]
              ELSE [objects[k] EXCEPT
                      !.region = epoch + 1,
                      !.elements = [i \in DOMAIN @ |->
                        IF i \in RefPlaces(objects[k]) THEN Move(@[i]) ELSE @[i]]]]]

\* Collections are counted, and move what newMultiArray has pinned, too.
CountCollection(collect) ==
  /\ collect => epoch < MaxCollections
  /\ epoch' = IF collect THEN epoch + 1 ELSE epoch

New(class, length) ==
  [class |-> class, region |-> epoch', elements |-> Blank(class, length)]

\* Operands ts are popped, and a pointer to a new object is pushed.
Allocate(ts, collect, class, length) ==
  LET memory == Collected(collect, ts, {})
  IN  /\ CountCollection(collect)
      /\ objects' = Append(memory.objects, New(class, length))
      /\ slots' = PushOperand(memory.slots, "ref", [id |-> Len(objects) + 1, region |-> epoch'])
      /\ types' = PushType(Dropped(types, ts), "ref")
      /\ Normally /\ UNCHANGED levels

-----------------------------------------------------------------------------
(* Creation.  The class is loaded first where it is not yet. *)

NewObject(class, collect) ==
  /\ Ready(<<>>) /\ class.dims = 0 /\ ~IsPrimitive(class)
  /\ Allocate(<<>>, collect, class, 0)
  /\ loaded' = loaded \cup {class}

\* newarray and anewarray, for elements of a primitive type or of a class.
NewArray(element, collect) ==
  LET count == Operand(<<"int">>, 1)
  IN  /\ Ready(<<"int">>)
      /\ loaded' = loaded \cup {element, ArrayOf(element)}
      /\ IF count < 0
         THEN ThrowException("NegativeArraySizeException") /\ UNCHANGED <<objects, epoch, levels>>
         ELSE Allocate(<<"int">>, collect, ArrayOf(element), count)

(* makeInnerArray calls itself for each element of an array that is not in *)
(* the last dimension given.  A level is such a call: its array, pinned,   *)
(* how many elements are set, and the counts of the inner dimensions, the  *)
(* innermost first, as they were popped.                                   *)
Level(array, counts) == [array |-> array, filled |-> 0, counts |-> counts]

NewMultiArray(class, dimensions, collect) ==
  LET ts == [i \in 1..dimensions |-> "int"]
      counts == [i \in 1..dimensions |-> Operand(ts, dimensions + 1 - i)]
  IN  /\ Ready(ts) /\ dimensions \in 1..class.dims
      /\ loaded' = loaded \cup {class}
      /\ IF \E i \in DOMAIN counts : counts[i] < 0
         THEN "count" \in Cases /\ Undefined /\ UNCHANGED <<objects, epoch, levels>>
         ELSE IF dimensions = 1
         THEN Allocate(ts, collect, class, Last(counts))
         ELSE LET memory == Collected(collect, ts, {})
              IN  /\ CountCollection(collect)
                  /\ objects' = Append(memory.objects, New(class, Last(counts)))
                  /\ slots' = memory.slots
                  /\ types' = Dropped(types, ts)
                  /\ levels' = <<Level([id |-> Len(objects) + 1, region |-> epoch'], Front(counts))>>
                  /\ Normally

Top == Last(levels)

\* The elements of the level's array are set one after the other.
SetElement(objs, level, p) == [objs EXCEPT ![level.array.id].elements[level.filled] = p]

\* The next inner array is allocated; it is a level of its own or done at once.
MakeInnerArray(collect) ==
  LET memory == Collected(collect, <<>>, {})
      outer == [i \in DOMAIN levels |->
                  IF collect /\ levels[i].array \in Pinned
                  THEN [levels[i] EXCEPT !.array = Move(@)] ELSE levels[i]]
      class == ElementClass(At(Top.array).class)
      array == [id |-> Len(objects) + 1, region |-> epoch']
      made == Append(memory.objects, New(class, Last(Top.counts)))
  IN  /\ levels # <<>> /\ Top.filled < LengthOf(Top.array)
      /\ CountCollection(collect)
      /\ IF Len(Top.counts) > 1
         THEN objects' = made /\ levels' = Append(outer, Level(array, Front(Top.counts)))
         ELSE /\ objects' = SetElement(made, Last(outer), array)
              /\ levels' = [outer EXCEPT ![Len(outer)].filled = @ + 1]
      /\ slots' = memory.slots
      /\ Normally /\ UNCHANGED <<types, loaded>>

\* A call returns its array to the one that set off to fill the element, or to the
\* instruction; what was pinned is released.
FinishInnerArray ==
  /\ levels # <<>> /\ Top.filled = LengthOf(Top.array)
  /\ levels' = IF Len(levels) = 1 THEN <<>>
               ELSE [Front(levels) EXCEPT ![Len(levels) - 1].filled = @ + 1]
  /\ IF Len(levels) = 1
     THEN /\ slots' = PushOperand(slots, "ref", Top.array)
          /\ types' = Append(types, "ref")
          /\ UNCHANGED objects
     ELSE /\ objects' = SetElement(objects, Last(Front(levels)), Top.array)
          /\ UNCHANGED <<slots, types>>
  /\ Normally /\ UNCHANGED <<epoch, loaded>>

-----------------------------------------------------------------------------
(* Use *)

\* The verifier has seen to what kind of array an instruction gets, or null.
IsArrayOf(p, type) ==
  p # Null => At(p).class.dims > 0 /\ StackType(ElementOf(p)) = type

ArrayLengthOf ==
  LET array == Operand(<<"ref">>, 1)
  IN  /\ Ready(<<"ref">>) /\ (array # Null => At(array).class.dims > 0)
      /\ IF array = Null THEN "null length" \in Cases /\ Undefined
         ELSE Replace(<<"ref">>, "int", LengthOf(array)) /\ Normally
      /\ SameHeap

ArrayLoad(type) ==
  LET ts == <<"ref", "int">>
      array == Operand(ts, 1)
      index == Operand(ts, 2)
  IN  /\ Ready(ts) /\ IsArrayOf(array, type)
      /\ IF array = Null THEN ThrowException("NullPointerException")
         ELSE IF index < 0 \/ index >= LengthOf(array)
         THEN ThrowException("ArrayIndexOutOfBoundsException")
         ELSE Replace(ts, type, At(array).elements[index]) /\ Normally
      /\ SameHeap

\* A value for an element is cut to the width of the element.
Narrowed(class, v) == IF IsPrimitive(class) THEN Decode(class.of, v) ELSE v

\* Mutant: the class of the array is asked for, not that of its elements.
MayHoldArray(array, v) == v = Null \/ IsInstanceOf(At(array).class, At(v).class)

MayHold(array, v) == v = Null \/ IsInstanceOf(At(v).class, ElementOf(array))

\* The class of the value is checked before the index.
ArrayStore(type) ==
  LET ts == <<"ref", "int", type>>
      array == Operand(ts, 1)
      index == Operand(ts, 2)
      value == Operand(ts, 3)
      inside == index >= 0 /\ index < LengthOf(array)
  IN  /\ Ready(ts) /\ IsArrayOf(array, type)
      /\ IF array = Null THEN ThrowException("NullPointerException") /\ UNCHANGED objects
         ELSE IF type = "ref" /\ ~MayHold(array, value)
         THEN /\ inside \/ "store order" \in Cases
              /\ ThrowException("ArrayStoreException") /\ UNCHANGED objects
         ELSE IF ~inside
         THEN ThrowException("ArrayIndexOutOfBoundsException") /\ UNCHANGED objects
         ELSE /\ Pop(ts) /\ Normally
              /\ objects' = [objects EXCEPT ![array.id].elements[index] = Narrowed(ElementOf(array), value)]
      /\ UNCHANGED <<epoch, loaded, levels>>

\* Finding the class may load it, and loading may collect; checkcast keeps the address
\* of the object meanwhile, and looks at the object there.
CheckCast(class, collect) ==
  LET ts == <<"ref">>
      object == Operand(ts, 1)
      loads == object # Null /\ class \notin loaded
  IN  /\ Ready(ts) /\ ~IsPrimitive(class)
      /\ collect => loads /\ "cast loads" \in Cases
      /\ loaded' = IF loads THEN loaded \cup {class} ELSE loaded
      /\ IF collect THEN Undefined
         ELSE IF object = Null \/ IsInstanceOf(At(object).class, class)
         THEN Replace(ts, "ref", object) /\ Normally
         ELSE ThrowException("ClassCastException")
      /\ UNCHANGED <<objects, epoch, levels>>

\* instanceof pins the object and looks at it where it is then.
InstanceOf(class, collect) ==
  LET ts == <<"ref">>
      object == Operand(ts, 1)
      memory == Collected(collect, ts, {object})
      loads == object # Null /\ class \notin loaded
  IN  /\ Ready(ts) /\ ~IsPrimitive(class)
      /\ collect => loads
      /\ CountCollection(collect) /\ objects' = memory.objects
      /\ loaded' = IF loads THEN loaded \cup {class} ELSE loaded
      /\ slots' = PushOperand(memory.slots, "int",
                    IF object # Null /\ IsInstanceOf(At(object).class, class) THEN 1 ELSE 0)
      /\ types' = [types EXCEPT ![Len(types)] = "int"]
      /\ Normally /\ UNCHANGED levels

-----------------------------------------------------------------------------
(* Fields.  A value is kept in the width of its field. *)

\* Where a byte is less than zero, what is pushed is the pattern of the byte alone.
NegativeByte(class, v) == IsPrimitive(class) /\ class.of = "byte" /\ v < 0

\* A value is pushed as what its class is, not as an int if it is narrower.
PushUnwidened(s, class, v) == PushOperand(s, IF IsPrimitive(class) THEN class.of ELSE "ref", v)

\* The objects a field instruction gets have the field, or it gets null.
HasField(object, class) == object # Null => At(object).class = class

GetField(class, k) ==
  LET ts == <<"ref">>
      object == Operand(ts, 1)
      value == At(object).elements[k]
  IN  /\ Ready(ts) /\ HasField(object, class)
      /\ IF object = Null THEN ThrowException("NullPointerException")
         ELSE /\ NegativeByte(FieldsOf(class)[k], value) => "narrow value" \in Cases
              /\ slots' = PushUnwidened(Dropped(slots, ts), FieldsOf(class)[k], value)
              /\ types' = PushType(Dropped(types, ts), StackType(FieldsOf(class)[k]))
              /\ Normally
      /\ SameHeap

PutField(class, k) ==
  LET ts == <<"ref", StackType(FieldsOf(class)[k])>>
      object == Operand(ts, 1)
      value == Operand(ts, 2)
  IN  /\ Ready(ts) /\ HasField(object, class)
      /\ ts[2] = "ref" /\ value # Null => IsInstanceOf(At(value).class, FieldsOf(class)[k])
      /\ IF object = Null THEN ThrowException("NullPointerException") /\ UNCHANGED objects
         ELSE /\ Pop(ts) /\ Normally
              /\ objects' = [objects EXCEPT ![object.id].elements[k] = Narrowed(FieldsOf(class)[k], value)]
      /\ UNCHANGED <<epoch, loaded, levels>>

-----------------------------------------------------------------------------
(* Calls.  A method that some classes override returns the last of its     *)
(* parameters there, and zero or null otherwise.                           *)

Peek(entry) == slots[Len(slots) - entry]

\* The arguments are copied slot by slot; the callee's first local is the receiver.
PrepareCall(s, numArgs) == SubSeq(s, Len(s) + 1 - numArgs, Len(s))

\* invokeinterface counts a parameter as one slot, even if it takes two.
ReceiverEntry(kind, parameters) ==
  IF kind = "interface" THEN Len(parameters) ELSE SlotsOf(parameters)

\* The caller's operands stay where they are until the callee has returned.
Invoke(kind, parameters, collect) ==
  LET ts == <<"ref">> \o parameters
      entry == ReceiverEntry(kind, parameters)
      receiver == Peek(entry)
      known == types[Len(types) - entry] = "ref"
      type == Last(parameters)
      memory == Collected(collect, <<>>, {})
      locals == PrepareCall(memory.slots, SlotsOf(ts))
      result == IF At(receiver).class \in Overriding THEN locals[Len(locals) + 1 - Slots(type)]
                ELSE Encode(type, Default(Class(type, 0)))
  IN  /\ Ready(ts)
      /\ IF known /\ receiver # Null
         THEN /\ CountCollection(collect) /\ objects' = memory.objects
              /\ slots' = Dropped(memory.slots, ts) \o <<result>>
                            \o (IF type = "long" THEN <<Unused>> ELSE <<>>)
              /\ types' = PushType(Dropped(types, ts), type)
              /\ Normally
         ELSE /\ ~collect /\ UNCHANGED <<objects, epoch>>
              /\ IF kind = "virtual" THEN ThrowException("NullPointerException")
                 ELSE /\ (IF known THEN "interface null" ELSE "interface slots") \in Cases
                      /\ Undefined
      /\ UNCHANGED <<loaded, levels>>

-----------------------------------------------------------------------------
(* Native methods.  Their arguments are handles: pinned, and looked up     *)
(* again after anything that may collect.                                  *)

\* A native method that returns its parameter, of some class: operands are popped before
\* it runs, converted to that class, and what it returns is converted back.
InvokeNative(class, collect) ==
  LET ts == <<"ref", StackType(class)>>
      this == Operand(ts, 1)
      argument == Narrowed(class, Operand(ts, 2))
      held == {this} \cup (IF IsPrimitive(class) THEN {} ELSE {argument})
      memory == Collected(collect, ts, held)
      result == IF collect /\ ~IsPrimitive(class) THEN Move(argument) ELSE argument
  IN  /\ Ready(ts)
      /\ IF this = Null
         THEN ThrowException("NullPointerException") /\ ~collect /\ UNCHANGED <<objects, epoch>>
         ELSE /\ NegativeByte(class, result) => "narrow value" \in Cases
              /\ CountCollection(collect) /\ objects' = memory.objects
              /\ slots' = PushUnwidened(memory.slots, class, result)
              /\ types' = PushType(Dropped(types, ts), StackType(class))
              /\ Normally
      /\ UNCHANGED <<loaded, levels>>

\* Reference.refersTo0 compares the handle of the referent, made for this, with the one
\* of its argument: they are the same for null only.
RefersTo(class, k) ==
  LET ts == <<"ref", "ref">>
      reference == Operand(ts, 1)
      referent == At(reference).elements[k]
      object == Operand(ts, 2)
  IN  /\ Ready(ts) /\ reference # Null /\ HasField(reference, class)
      /\ referent = object /\ object # Null => "referent" \in Cases
      /\ Replace(ts, "int", IF referent = Null /\ object = Null THEN 1 ELSE 0)
      /\ Normally /\ SameHeap

\* The copy is made once there is room for it, from where the array is then.
Clone(collect) ==
  LET ts == <<"ref">>
      object == Operand(ts, 1)
      memory == Collected(collect, ts, {object})
  IN  /\ Ready(ts) /\ object # Null
      /\ IF ~IsCloneable(At(object).class)
         THEN /\ ThrowException("CloneNotSupportedException")
              /\ ~collect /\ UNCHANGED <<objects, epoch>>
         ELSE /\ CountCollection(collect)
              /\ objects' = Append(memory.objects, memory.objects[object.id])
              /\ slots' = PushOperand(memory.slots, "ref", [id |-> Len(objects) + 1, region |-> epoch'])
              /\ UNCHANGED types /\ Normally
      /\ UNCHANGED <<loaded, levels>>

\* memmove copies as if all were read first.
MoveElements(src, dest, srcPos, destPos, length) ==
  [k \in DOMAIN At(dest).elements |->
     IF k \in destPos..destPos + length - 1 THEN At(src).elements[srcPos + k - destPos]
     ELSE At(dest).elements[k]]

\* References are copied one after the other, from the first to the last.
CopyElements(src, dest, srcPos, destPos, length) ==
  LET copied[n \in 0..length] ==
        IF n = 0 THEN At(dest).elements
        ELSE LET source == IF src = dest THEN copied[n - 1] ELSE At(src).elements
             IN  [copied[n - 1] EXCEPT ![destPos + n - 1] = source[srcPos + n - 1]]
  IN  copied[length]

\* The kinds of element arraycopy knows; it takes that of the target from the source.
CopyArray(src, dest, srcPos, destPos, length) ==
  LET element == ElementOf(src)
      copied == IF IsPrimitive(element)
                THEN MoveElements(src, dest, srcPos, destPos, length)
                ELSE CopyElements(src, dest, srcPos, destPos, length)
  IN  IF element.dims > 0
      THEN "copy arrays" \in Cases /\ ThrowException("ArrayStoreException") /\ UNCHANGED objects
      ELSE /\ Pop(<<"ref", "ref">>) /\ Normally
           /\ objects' = [objects EXCEPT ![dest.id].elements = copied]

\* Positions and lengths are added in the width of an int.
Sum(a, b) == WrapSigned("add", a, b, IntBits)

ArrayCopy(srcPos, destPos, length) ==
  LET ts == <<"ref", "ref">>
      src == Operand(ts, 1)
      dest == Operand(ts, 2)
      Outside == \/ srcPos < 0 \/ destPos < 0
                 \/ Sum(srcPos, length) > LengthOf(src) \/ Sum(destPos, length) > LengthOf(dest)
                 \/ length < 0
      Overflow == \E n \in {srcPos, destPos} : n + length # Sum(n, length)
      Overlap == /\ ~IsPrimitive(ElementOf(src)) /\ src = dest
                 /\ srcPos < destPos /\ destPos < srcPos + length
      SameKind == \/ ElementOf(src) = ElementOf(dest)
                  \/ ~IsPrimitive(ElementOf(src)) /\ ~IsPrimitive(ElementOf(dest))
      Fitting == IsPrimitive(ElementOf(src)) \/ \A p \in References(At(src)) : MayHold(dest, p)
  IN  /\ Ready(ts)
      /\ IF Null \in {src, dest}
         THEN ThrowException("NullPointerException") /\ UNCHANGED objects
         ELSE IF At(src).class.dims = 0 \/ At(dest).class.dims = 0
         THEN "copy objects" \in Cases /\ Undefined /\ UNCHANGED objects
         ELSE /\ SameKind \/ "copy kinds" \in Cases
              /\ Fitting \/ "copy store" \in Cases
              /\ Overflow => "copy sum" \in Cases
              /\ IF Outside
                 THEN ThrowException("IndexOutOfBoundsException") /\ UNCHANGED objects
                 ELSE IF Overflow \/ ~SameKind
                 THEN Undefined /\ UNCHANGED objects
                 ELSE /\ Overlap => "copy overlap" \in Cases
                      /\ CopyArray(src, dest, srcPos, destPos, length)
      /\ UNCHANGED <<epoch, loaded, levels>>

-----------------------------------------------------------------------------
Init ==
  /\ slots = <<>> /\ types = <<>>
  /\ objects = <<>> /\ epoch = 0
  /\ loaded = LoadedAtStart /\ levels = <<>>
  /\ outcome = "normal"

Calculate ==
  \/ \E op \in DOMAIN Shuffles : MoveOperands(op)
  \/ \E type \in {"int", "long"} :
       \/ \E op \in {"add", "sub", "mul"} : SimpleOp(op, type)
       \/ Divide(type, "div") \/ Divide(type, "rem") \/ Neg(type)
       \/ \E kind \in {"shl", "shr", "ushr"} : Shift(type, kind)
       \/ CastFloat(type)
  \/ Compare("long", 1) \/ \E n \in {-1, 1} : Compare("float", n)
  \/ Cast("long", "int") \/ \E to \in {"long", "byte", "char"} : Cast("int", to)

UseArrays ==
  \/ \E collect \in BOOLEAN :
       \/ \E class \in Classes :
            \/ NewObject(class, collect) \/ NewArray(class, collect)
            \/ \E n \in 1..class.dims : NewMultiArray(class, n, collect)
            \/ CheckCast(class, collect) \/ InstanceOf(class, collect)
       \/ MakeInnerArray(collect) \/ Clone(collect)
  \/ FinishInnerArray \/ ArrayLengthOf
  \/ \E type \in {"int", "long", "ref"} : ArrayLoad(type) \/ ArrayStore(type)
  \/ \E srcPos, destPos, length \in Positions : ArrayCopy(srcPos, destPos, length)

UseObjects ==
  \/ \E class \in Classes : \E k \in Places(class, 0) :
       \/ GetField(class, k) \/ PutField(class, k)
       \/ ~IsPrimitive(PlaceClass(class, k)) /\ RefersTo(class, k)
  \/ \E collect \in BOOLEAN :
       \/ \E kind \in {"virtual", "interface"}, parameters \in Signatures :
            Invoke(kind, parameters, collect)
       \/ \E class \in Classes : InvokeNative(class, collect)

-----------------------------------------------------------------------------
(* The operands and objects as a Java program sees them.  While arrays are *)
(* made, their counts are still there and they are not.                    *)

Identity(p) == IF p = Null THEN Null ELSE p.id

Counts ==
  IF levels = <<>> THEN <<>>
  ELSE Reverse(Append(levels[1].counts, LengthOf(levels[1].array)))

Stack ==
  LET operands == SelectSeq([i \in DOMAIN types |-> i], LAMBDA i : types[i] # "half")
  IN  [k \in DOMAIN operands |->
         LET type == types[operands[k]]
             p == slots[operands[k]]
         IN  [type |-> type, value |-> IF type = "ref" THEN Identity(p) ELSE Decode(type, p)]]
      \o [i \in DOMAIN Counts |-> [type |-> "int", value |-> Counts[i]]]

Heap ==
  [k \in 1..(IF levels = <<>> THEN Len(objects) ELSE levels[1].array.id - 1) |->
     [class |-> objects[k].class,
      elements |-> [i \in DOMAIN objects[k].elements |->
        IF i \in RefPlaces(objects[k]) THEN Identity(objects[k].elements[i])
        ELSE objects[k].elements[i]]]]

Next ==
  /\ \/ Constant("int", Ints) \/ Constant("long", Longs) \/ Constant("float", Floats)
     \/ Constant("ref", {Null})
     \/ Calculate \/ UseArrays \/ UseObjects
  /\ levels' = <<>> /\ outcome' = "normal" => Explored(slots', types', objects')

Spec == Init /\ [][Next]_vars

-----------------------------------------------------------------------------
(* Correctness. *)

\* The slots hold what the types of the operands say, whole, and nothing else
\* (CallFrame::pushOperand, popOperand and what writes slots directly).
InstructionsTypeOK ==
  /\ Len(slots) = Len(types) /\ Whole(types)
  /\ \A i \in DOMAIN types :
       CASE types[i] \in Primitives -> slots[i] \in 0..2 ^ Width[types[i]] - 1
         [] types[i] = "float" -> slots[i] \in Floats
         [] types[i] = "ref" -> slots[i] = Null \/ slots[i].id \in DOMAIN objects
         [] types[i] = "half" -> slots[i] = Unused
  /\ \A k \in DOMAIN objects : objects[k].region \in 0..epoch
  /\ loaded \subseteq Classes \cup {ArrayOf(class) : class \in Classes}

\* No instruction leaves an address behind that was valid before a collection: all
\* operands, the arrays newMultiArray is about to fill and whatever they refer to are
\* where the last collection put them (checkcast, instanceof, newMultiArray, clone).
OnlyCurrentPointers ==
  LET held == {slots[i] : i \in RefSlots(types)} \cup {levels[i].array : i \in DOMAIN levels}
  IN  /\ \A p \in held \ {Null} : p.region = epoch
      /\ \A k \in Reachable(held) :
           objects[k].region = epoch /\ \A p \in References(objects[k]) : p.region = epoch

\* An array of references holds instances of its element class only, and a field those
\* of its class, whichever instructions and methods filled it (aastore, putfield,
\* arraycopy, multianewarray).
ElementsAreInstances ==
  \A k \in DOMAIN objects : \A i \in RefPlaces(objects[k]) :
    LET p == objects[k].elements[i]
    IN  p # Null => IsInstanceOf(At(p).class, PlaceClass(objects[k].class, i))

\* The interpreter computes what the Java virtual machine specification says, values,
\* arrays and exceptions alike.
Machine == INSTANCE JavaMachine WITH stack <- Stack, heap <- Heap
ComputesLikeJava == Machine!Spec
=============================================================================
