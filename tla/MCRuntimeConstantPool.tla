------------------------ MODULE MCRuntimeConstantPool ------------------------
(* The class paths of MCClassLinking, and hierarchies of A and B, beside   *)
(* or above one another, with two interfaces that may extend each other,   *)
(* one method and one field any of them may declare.                       *)
EXTENDS RuntimeConstantPool, MCClassLinking

\* A file that declares the method, or the field, or both.
Declaring(file, on) ==
  [file EXCEPT !.methods = {"run"} \cap on,
               !.fields = IF "number" \in on THEN <<Static("number")>> ELSE <<>>]
AllSizes == [byte |-> 1, int |-> 4, long |-> 8, name |-> 8, type |-> 8, flag |-> 1, number |-> 4]

None == {{}}
Method == {{}, {"run"}}
Either == {{}, {"run"}, {"run", "number"}}
Programs(super, a, b, j, onA, onB, onI, onJ) ==
  {[A |-> Declaring(File("Object", ia, <<>>), da), B |-> Declaring(File(s, ib, <<>>), db),
    I |-> Declaring(InterfaceFile(<<>>), di), J |-> Declaring(InterfaceFile(ij), dj)] :
     s \in super, ia \in a, ib \in b, ij \in j, da \in onA, db \in onB, di \in onI, dj \in onJ}

HierarchyPaths ==
  {<<Jdk, p>> : p \in Programs({"Object", "A"}, {<<>>, <<"I">>, <<"J">>, <<"I", "J">>},
                               {<<>>, <<"J">>, <<"J", "I">>}, {<<>>, <<"I">>},
                               None, None, None, None)}
\* A class's method against an interface's, and interfaces apart from each other.
SelectionPaths ==
  {<<Jdk, p>> : p \in Programs({"Object", "A"}, {<<>>, <<"I">>}, {<<>>, <<"J">>, <<"J", "I">>},
                               {<<>>}, Method, Method, Method, Method)}
\* J overrides the default method of I.
DefaultPaths ==
  {<<Jdk, p>> : p \in Programs({"A"}, {<<>>, <<"I">>}, {<<"J">>}, {<<"I">>},
                               None, None, {{"run"}}, {{"run"}})}
CachePaths ==
  {<<Jdk, p>> : p \in Programs({"A"}, {<<>>, <<"I">>}, {<<"J">>}, {<<>>}, Either, {{}, {"number"}},
                               {{"number"}}, {{"run", "number"}})}

HierarchyNames ==
  {Instance(n) : n \in {"A", "B", "J"}} \cup {ArrayOf(Instance(n)) : n \in {"A", "B", "J", "byte"}}
  \cup {ArrayOf(ArrayOf(Instance("B")))}
SelectionNames == {Instance(n) : n \in {"A", "B", "J"}}

AllPaths == HierarchyPaths \cup SelectionPaths \cup CachePaths \cup LayoutPaths \cup FaultyPaths
Declares(p) == \E c \in DOMAIN p[2] : p[2][c].methods # {}

\* What the program on a path loads and refers to.
NamesOf(p) ==
  CASE "C" \in DOMAIN p[2] -> LayoutNames(p)
    [] {"C", "J"} \cap DOMAIN p[2] = {} -> FaultyNames
    [] OTHER -> IF Declares(p) THEN SelectionNames ELSE HierarchyNames
MembersOf(p) == IF "J" \in DOMAIN p[2] /\ Declares(p) THEN {"run", "number"} ELSE {}

ASSUME OrdinaryClassFiles == NoCircularInheritance /\ ObjectHasNoFields /\ JavaHierarchies
=============================================================================
