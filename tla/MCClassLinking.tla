--------------------------- MODULE MCClassLinking ---------------------------
(* Class paths for linking: classes with fields of three sizes, classes    *)
(* that are missing or unreadable, or that hide a field.  Hierarchies with *)
(* interfaces are in MCRuntimeConstantPool.                                *)
EXTENDS ClassLinking

AnyBase == STRING \ {""}

File(super, interfaces, fields) ==
  [interface |-> FALSE, super |-> super, interfaces |-> interfaces, fields |-> fields,
   methods |-> {}, readable |-> TRUE]
InterfaceFile(interfaces) == [File("Object", interfaces, <<>>) EXCEPT !.interface = TRUE]
Field(key) == [key |-> key, static |-> FALSE]
Static(key) == [key |-> key, static |-> TRUE]

Sizes == [byte |-> 1, int |-> 4, long |-> 8, name |-> 8, type |-> 8, flag |-> 1]

Jdk ==
  [Object |-> File("", <<>>, <<>>),
   Class |-> File("Object", <<"Serializable">>,
                  <<Field("name"), Static("int"), Field("flag"), Field("type")>>),
   Cloneable |-> InterfaceFile(<<>>),
   Serializable |-> InterfaceFile(<<>>)]

\* Any fields for A and B, B below A or beside it.
FieldLists ==
  {<<>>, <<Field("byte")>>, <<Field("byte"), Field("int")>>,
   <<Field("long"), Static("int"), Field("byte")>>,
   <<Field("byte"), Field("long"), Field("int")>>}
OtherFields == {<<>>, <<Field("flag")>>, <<Field("flag"), Field("type")>>, <<Static("name"), Field("byte")>>}
LayoutPaths ==
  {<<Jdk, [A |-> File("Object", <<>>, a), B |-> File(super, <<>>, b),
           C |-> File("B", <<>>, <<Field("name")>>)]>> :
     a \in FieldLists, b \in OtherFields, super \in {"Object", "A"}}
LayoutNames(p) == {Instance(n) : n \in {"A", "B", "C"}}

\* B has a static field with the name and descriptor of a field of A.
HidingPaths ==
  {<<Jdk, [A |-> File("Object", <<>>, <<Field("int"), Field("byte")>>),
           B |-> File("A", <<>>, <<Static("byte")>>),
           C |-> File(super, <<>>, <<Field("name")>>)]>> : super \in {"Object", "A", "B"}}

\* Any one class may be missing, unreadable, or only on the second class path.
Without(p, n) == [m \in DOMAIN p \ {n} |-> p[m]]
Damaged(p, n) == [p EXCEPT ![n].readable = FALSE]
OneProgram ==
  [A |-> File("Object", <<"I">>, <<>>), B |-> File("A", <<>>, <<>>), I |-> InterfaceFile(<<>>)]
FaultyPaths ==
  {<<Jdk, Without(OneProgram, n)>> : n \in DOMAIN OneProgram}
  \cup {<<Jdk, Damaged(OneProgram, n)>> : n \in DOMAIN OneProgram}
  \cup {<<Jdk, Damaged(OneProgram, n), OneProgram>> : n \in DOMAIN OneProgram}
  \cup {<<Jdk, Without(OneProgram, n), OneProgram>> : n \in DOMAIN OneProgram}
  \cup {<<Without(Jdk, n), OneProgram>> : n \in DOMAIN Jdk}
FaultyNames ==
  {Instance(n) : n \in {"A", "B", "I"}}
  \cup {ArrayOf(Instance(n)) : n \in {"A", "B"}} \cup {ArrayOf(ArrayOf(Instance("I")))}

Bytes == ArrayOf(Instance("byte"))
RequiredClasses == <<JavaLangObject, Bytes>>
=============================================================================
