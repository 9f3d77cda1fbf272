----------------------------- MODULE Descriptors -----------------------------
(* Field and method descriptors (class_file/Descriptor.cpp): their parsers,   *)
(* and the questions asked of the types they give.  A string is a sequence of *)
(* UTF-16 code units.  A type is the variant and the number of dimensions     *)
(* that FieldType keeps; None is the empty optional.                          *)
EXTENDS Naturals, Sequences

CONSTANT None

Char == [open |-> 40, close |-> 41, array |-> 91, class |-> 76, semicolon |-> 59,
         byte |-> 66, char |-> 67, double |-> 68, float |-> 70, int |-> 73,
         long |-> 74, short |-> 83, boolean |-> 90, void |-> 86]

Primitives == {Char.byte, Char.char, Char.double, Char.float, Char.int,
               Char.long, Char.short, Char.boolean}

PrimitiveType(c, n) == [kind |-> "primitive", name |-> <<c>>, dims |-> n]
ClassType(name, n)  == [kind |-> "class", name |-> name, dims |-> n]
Void == [kind |-> "void", name |-> <<>>, dims |-> 0]

LeastIn(S) == CHOOSE i \in S : \A j \in S : i <= j

(* parseField: the type at the start of s, with the number of units it takes. *)
ParseField(s) ==
  LET pos == LeastIn({i \in 1 .. Len(s) + 1 : i > Len(s) \/ s[i] # Char.array})
      ends == {i \in pos .. Len(s) : s[i] = Char.semicolon}
  IN IF pos > Len(s) THEN None
     ELSE IF s[pos] = Char.class
     THEN IF ends = {} THEN None
          ELSE [size |-> LeastIn(ends),
                type |-> ClassType(SubSeq(s, pos + 1, LeastIn(ends) - 1), pos - 1)]
     ELSE IF s[pos] \in Primitives
     THEN [size |-> pos, type |-> PrimitiveType(s[pos], pos - 1)]
     ELSE None

\* Mutant: characters behind the type are overlooked.
FieldTypeParsePrefix(s) ==
  LET result == ParseField(s) IN IF result # None THEN result.type ELSE None

(* FieldType::parse, where the type must be the whole of the string.          *)
FieldTypeParse(s) ==
  LET result == ParseField(s)
  IN IF result # None /\ result.size = Len(s) THEN result.type ELSE None

From(s, i) == SubSeq(s, i, Len(s))

(* The parameters that start at unit i, and the place after the closing       *)
(* parenthesis; None if there is none, or something that is not a type.       *)
ParseParameters(s, start) ==
  LET from[i \in 1 .. Len(s) + 1] ==
        IF i > Len(s) THEN None
        ELSE IF s[i] = Char.close THEN [types |-> <<>>, next |-> i + 1]
        ELSE LET field == ParseField(From(s, i))
             IN IF field = None THEN None
                ELSE LET rest == from[i + field.size]
                     IN IF rest = None THEN None
                        ELSE [types |-> <<field.type>> \o rest.types,
                              next |-> rest.next]
  IN from[start]

(* MethodDescriptor::parse.  What follows the return type is not looked at.   *)
MethodDescriptorParse(s) ==
  IF s = <<>> \/ s[1] # Char.open THEN None
  ELSE LET parameters == ParseParameters(s, 2)
       IN IF parameters = None \/ parameters.next > Len(s) THEN None
          ELSE IF s[parameters.next] = Char.void
          THEN [parameters |-> parameters.types, returns |-> Void]
          ELSE LET returned == ParseField(From(s, parameters.next))
               IN IF returned = None THEN None
                  ELSE [parameters |-> parameters.types, returns |-> returned.type]

-----------------------------------------------------------------------------
IsCategoryTwo(t) ==
  t.dims = 0 /\ t.kind = "primitive" /\ t.name[1] \in {Char.long, Char.double}

(* MethodDescriptor::numParameterSlots                                        *)
NumParameterSlots(d) ==
  LET upTo[i \in 0 .. Len(d.parameters)] ==
        IF i = 0 THEN 0
        ELSE upTo[i - 1] + IF IsCategoryTwo(d.parameters[i]) THEN 2 ELSE 1
  IN upTo[Len(d.parameters)]

Repeated(c, n) == [i \in 1 .. n |-> c]

(* ArrayType::className, the name under which the class of an array type is   *)
(* loaded: one bracket, then the element type, which may be an array again.   *)
ClassName(t) ==
  LET element == IF t.kind = "class"
                 THEN <<Char.class>> \o t.name \o <<Char.semicolon>> ELSE t.name
      name[n \in 1 .. t.dims] ==
        <<Char.array>> \o IF n = 1 THEN element ELSE name[n - 1]
  IN name[t.dims]
=============================================================================
