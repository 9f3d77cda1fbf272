--------------------------- MODULE MCInstructions ---------------------------
(***************************************************************************)
(* Model-checking instance of Instructions: ints of 4 bits, longs of 8 and *)
(* bytes of 2, so that shift distances are masked with 3 and 7; Object, a  *)
(* class A below it and arrays of both, and arrays of each primitive type. *)
(*                                                                         *)
(* Until there are objects the program calculates, with any int and the    *)
(* longs and floats around the limits of the types; with objects it        *)
(* uses few numbers, as index, element or count.                           *)
(***************************************************************************)
EXTENDS Instructions

CONSTANTS MaxObjects, MaxLength, MaxSlots  \* bounds

O == Class("Object", 0)
A == Class("A", 0)
MCClasses ==
  {Class(of, 0) : of \in {"int", "byte", "long", "Object", "A"}}
    \cup {Class("Object", 1), Class("int", 2)}

Made ==
  {O, A} \cup {Class(of, 1) : of \in {"int", "byte", "long", "Object", "A"}} \cup {Class("int", 2)}

MCIsInstanceOf(s, t) ==
  \/ s = t \/ t = O
  \/ s.of \notin Primitives /\ t = Class("Object", s.dims)

\* The objects of class A have fields, and a method of their own.
MCFieldsOf(class) ==
  IF class = A THEN <<Class("byte", 0), Class("long", 0), O>> ELSE <<>>
MCOverriding == {A}
MCCloneable == {A}
MCSignatures == {<<"int">>, <<"long">>, <<"ref">>, <<"long", "int">>}

MCLoaded == (MCClasses \cup {ArrayOf(class) : class \in MCClasses}) \ {Class("Object", 1)}
MCInts == -8..7
MCPositions == -1..2
MCLongs == {-128, -1, 0, 3, 127}
MCFloats == {NaN, -1000, -257, -16, -1, 0, 3, 15, 1000}

\* Patterns that tell operands apart where there are more than two of them.
Few == {0, 1, 2, 3, Null, NaN}
Pairs == {<<"long", "half">>, <<"long", "half", "int">>, <<"long", "half", "long", "half">>}

\* The operands of array instructions; the array that is stored to stays below.
Shapes ==
  {<<>>, <<"int">>, <<"long", "half">>, <<"ref">>, <<"ref", "ref">>, <<"ref", "ref", "ref">>,
   <<"ref", "ref", "long", "half">>, <<"ref", "int">>, <<"ref", "long", "half">>,
   <<"ref", "ref", "int">>, <<"ref", "ref", "int", "int">>, <<"ref", "long", "half", "int">>,
   <<"ref", "ref", "int", "long", "half">>, <<"ref", "ref", "int", "ref">>}

\* Indices and counts are small; 2, which no byte can hold, and 127 are stored.
SmallNumbers(s, ts) ==
  \A i \in DOMAIN ts :
    /\ ts[i] = "int" => s[i] \in IF i = 4 THEN {2} ELSE {0, 1, MaxLength, 15}
    /\ ts[i] = "long" => s[i] \in {0, 127}

\* What arrays are together with: arrays of arrays with arrays of ints that are not
\* written to, references with references, and byte or long arrays are alone;
\* the second of two arrays of ints has at most one element.
Room(objs, ts) ==
  LET of == objs[1].class.of
  IN  IF objs[1].class.dims = 2
      THEN Len(objs) <= MaxObjects + 1 /\ Len(ts) <= 2
      ELSE Len(objs) <= IF of \in {"byte", "long"} THEN 1 ELSE MaxObjects

\* The fields of the first object are written one at a time; a clone has the same.
Written(object) ==
  {i \in DOMAIN object.elements : object.elements[i] # Default(PlaceClass(object.class, i))}

Together(objs) ==
  \A k \in DOMAIN objs :
    /\ objs[k].class \in Made
    /\ objs[k].class = A /\ Written(objs[k]) # {} =>
         /\ Cardinality(Written(objs[k])) = 1
         /\ objs[1].class = A /\ objs[k].elements = objs[1].elements
    /\ objs[k].class.dims > 0 => MaxLength \notin DOMAIN objs[k].elements
    /\ k > 1 => /\ objs[k].class.dims < 2
                /\ objs[k].class.of = "int" => 1 \notin DOMAIN objs[k].elements
    /\ IF objs[1].class.of \in Primitives THEN objs[k].class.of = objs[1].class.of
       ELSE ~objs[k].class.of \in Primitives

MCExplored(s, ts, objs) ==
  IF objs = <<>>
  THEN /\ Len(ts) <= MaxSlots
       /\ Len(ts) <= 2 \/ ts \in Pairs \/ \A i \in DOMAIN s : s[i] \in Few
  ELSE /\ Room(objs, ts) /\ Together(objs)
       /\ ts \in Shapes /\ SmallNumbers(s, ts) /\ (ts # <<>> => s[1] # Null)
       /\ Len(ts) > 2 /\ ts[2] = "ref" => s[1] = s[2]
=============================================================================
