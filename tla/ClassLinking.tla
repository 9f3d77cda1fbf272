---------------------------- MODULE ClassLinking ----------------------------
(***************************************************************************)
(* How the bootstrap class loader brings classes into the VM.  Loading is  *)
(* a recursion: a class file is found, the class is entered in mClasses,   *)
(* and only then prepared, which loads its supertypes (and, for an array,  *)
(* its element class), lays out its fields and creates its class object.   *)
(* The class object is an instance of java.lang.Class, which is itself a   *)
(* class with supertypes, so the VM cannot start by loading any class the  *)
(* normal way: setUpJavaLangClass lays java.lang.Class out before it is    *)
(* prepared, and every class loaded on its behalf finds it unprepared.     *)
(*                                                                         *)
(* The C++ stack of nested prepare() calls is the sequence preparing.      *)
(* Names are FieldTypes without their spelling: a base and a number of     *)
(* array dimensions.  Class initialization is in module Invocation.        *)
(***************************************************************************)
EXTENDS Naturals, Sequences, SequencesExt, FiniteSetsExt, Functions, TLC

CONSTANTS
  ClassPaths,    \* the contents of the class path, then of each registered loader's
  BaseNames,     \* what classes and primitive types may be called
  Names(_),      \* the names a program on a class path loads
  Required,      \* what Vm::initialize requires, in order
  Primitive,     \* the primitive element types
  SizeOf,        \* the size of a field, by its name and descriptor
  ObjectHeader,  \* sizeof(ObjectInstance)
  ClassHeader    \* sizeof(ClassInstance)

ASSUME SizesAssumption ==
  /\ IsFiniteSet(DOMAIN SizeOf) /\ \A key \in DOMAIN SizeOf : SizeOf[key] \in Nat \ {0}
  /\ ObjectHeader \in Nat \ {0} /\ ClassHeader \in Nat /\ ClassHeader >= ObjectHeader

ASSUME BaseNamesAssumption ==
  /\ {"Object", "Class", "Cloneable", "Serializable"} \subseteq BaseNames
  /\ "" \notin BaseNames

Name == [base : BaseNames, dimensions : Nat]

\* The parts of a readable class file that linking looks at.
IsClassFile(file) ==
  /\ file.super \in BaseNames \cup {""}
  /\ file.interfaces \in Seq(BaseNames)
  /\ file.fields \in Seq([key : DOMAIN SizeOf, static : BOOLEAN])

ASSUME ClassPathsAssumption == \A p \in ClassPaths :
  /\ DOMAIN p \subseteq Nat
  /\ \A i \in DOMAIN p : \A base \in DOMAIN p[i] : p[i][base].readable => IsClassFile(p[i][base])
  /\ Names(p) \subseteq Name

\* A class is not called like a primitive type.
ASSUME PrimitiveAssumption ==
  \A p \in ClassPaths : \A i \in DOMAIN p : Primitive \cap DOMAIN p[i] = {}

ASSUME RequiredAssumption == \A i \in DOMAIN Required : i \in Nat /\ Required[i] \in Name

VARIABLES
  path,       \* one of ClassPaths; it never changes
  mClasses,   \* the loader's table of classes
  preparing,  \* the calls of prepare() that have not returned
  phase,      \* how far Vm::initialize is, and whether the VM has stopped
  answer      \* the last class asked for, and the answer

vars == <<path, mClasses, preparing, phase, answer>>

-----------------------------------------------------------------------------
(* Names and class files. *)

Instance(base) == [base |-> base, dimensions |-> 0]
ArrayOf(name) == [name EXCEPT !.dimensions = @ + 1]
ElementType(name) == [name EXCEPT !.dimensions = @ - 1]
IsArray(name) == name.dimensions > 0
IsPrimitive(name) == name.dimensions = 0 /\ name.base \in Primitive

JavaLangObject == Instance("Object")
JavaLangClass == Instance("Class")
Cloneable == Instance("Cloneable")
Serializable == Instance("Serializable")
NoClass == Instance("")

\* The entries of a class path that have the class, in the order of search.
Located(p, base) == {i \in DOMAIN p : base \in DOMAIN p[i]}

\* The class file that is found: in the loader's own class path, then in that
\* of the first registered class loader that knows the class.
FileIn(p, base) == p[Min(Located(p, base))][base]

Search(name) == FileIn(path, name.base)

\* An array class is made, an instance class is read from its file, which may
\* turn out to be unreadable.
Loadable(name) ==
  IsArray(name) \/ (Located(path, name.base) # {} /\ Search(name).readable)

(* What class files are like that a compiler has made; nothing checks it.   *)

ReadableIn(p) ==
  {base \in UNION {DOMAIN p[i] : i \in DOMAIN p} : FileIn(p, base).readable}

\* No class is its own supertype: among any classes there is one without a supertype
\* among them.
NoCircularInheritance ==
  \A p \in ClassPaths : \A S \in SUBSET ReadableIn(p) : S # {} =>
    \E base \in S : S \cap ({FileIn(p, base).super} \cup Range(FileIn(p, base).interfaces)) = {}

\* java.lang.Object has no fields, and is what java.lang.Class extends.
ObjectHasNoFields ==
  \A p \in ClassPaths :
    /\ "Object" \in ReadableIn(p) =>
         /\ FileIn(p, "Object").super = ""
         /\ \A f \in Range(FileIn(p, "Object").fields) : f.static
    /\ "Class" \in ReadableIn(p) => FileIn(p, "Class").super \in {"", "Object"}

-----------------------------------------------------------------------------
(* The layout of a class. *)

AlignTo(size, alignment) == ((size + alignment - 1) \div alignment) * alignment

HeaderSize(name) == IF name = JavaLangClass THEN ClassHeader ELSE ObjectHeader

\* A key that is there already keeps its entry.
Emplaced(fields, more) ==
  [key \in DOMAIN fields \cup DOMAIN more |->
     IF key \in DOMAIN fields THEN fields[key] ELSE more[key]]

FieldAt(key, offset) == [k \in {key} |-> [static |-> FALSE, offset |-> offset]]

\* Mutant: fields follow one another without padding.
AddFieldUnaligned(layout, field) ==
  IF field.static THEN layout
  ELSE [fields |-> Emplaced(layout.fields, FieldAt(field.key, layout.end)),
        end |-> layout.end + SizeOf[field.key]]

\* Every field of an object takes room, also one whose key is there already.
AddField(layout, field) ==
  LET offset == AlignTo(layout.end, SizeOf[field.key])
  IN  IF field.static THEN layout
      ELSE [fields |-> Emplaced(layout.fields, FieldAt(field.key, offset)),
            end |-> offset + SizeOf[field.key]]

\* The layouts while the fields of a list are added, one after the other.
Layouts(first, list) ==
  LET layout[i \in 0..Len(list)] ==
        IF i = 0 THEN first ELSE AddField(layout[i - 1], list[i])
  IN  layout

\* Mutant: the layout starts at the allocation size, which is the header's only the
\* first time.
LayoutFromSize(name, class, inherited) ==
  LET list == inherited \o Search(name).fields
  IN  Layouts([fields |-> class.fields, end |-> class.size], list)[Len(list)]

\* The fields of the superclass in some order, since its table of fields is a
\* hash table, then the fields declared in the class file.
Layout(name, class, inherited) ==
  LET list == inherited \o Search(name).fields
  IN  Layouts([fields |-> class.fields, end |-> HeaderSize(name)], list)[Len(list)]

WithLayout(class, layout) == [class EXCEPT !.fields = layout.fields, !.size = layout.end]

\* A static field's offset is its index among the static fields of the class.
WithStatics(name, class) ==
  LET fields == Search(name).fields
      statics == {i \in DOMAIN fields : fields[i].static}
      own == [key \in {fields[i].key : i \in statics} |->
                LET field == CHOOSE i \in statics : fields[i].key = key
                IN  [static |-> TRUE, offset |-> Cardinality({i \in statics : i < field})]]
  IN  IF IsArray(name) THEN class ELSE [class EXCEPT !.fields = Emplaced(@, own)]

Inherited(class) ==
  IF class.super = NoClass THEN {}
  ELSE LET fields == mClasses[class.super].fields
       IN  {[key |-> key, static |-> FALSE] : key \in {k \in DOMAIN fields : ~fields[k].static}}

NewClass(name) ==
  [status |-> "Allocated", super |-> NoClass, interfaces |-> <<>>, element |-> NoClass,
   fields |-> <<>>, size |-> HeaderSize(name), object |-> 0]

-----------------------------------------------------------------------------
(* What a class declares: a superclass, interfaces in order and, if it is  *)
(* an array of references, an element class.                               *)

SuperOf(name) == IF IsArray(name) THEN JavaLangObject ELSE Instance(Search(name).super)

InterfacesOf(name) ==
  IF IsArray(name) THEN <<Cloneable, Serializable>>
  ELSE LET interfaces == Search(name).interfaces
       IN  [i \in DOMAIN interfaces |-> Instance(interfaces[i])]

ElementOf(name) ==
  IF IsArray(name) /\ ~IsPrimitive(ElementType(name)) THEN ElementType(name) ELSE NoClass

(* The steps of prepare(), each with the class it loads. *)

Step(what, class) == [what |-> what, class |-> class]

OptionalStep(what, class) == IF class = NoClass THEN <<>> ELSE <<Step(what, class)>>

Steps(name) ==
  OptionalStep("super", SuperOf(name))
  \o [i \in DOMAIN InterfacesOf(name) |-> Step("interface", InterfacesOf(name)[i])]
  \o (IF IsArray(name) THEN OptionalStep("element", ElementOf(name))
      ELSE <<Step("fields", NoClass)>>)
  \o <<Step("object", JavaLangClass)>>

Current == Last(preparing).class
Pending == Steps(Current)[Last(preparing).done + 1]
Done == [preparing EXCEPT ![Len(preparing)].done = @ + 1]

\* Mutant: a class counts as found only when it has been prepared.
FoundPrepared(name) == name \in DOMAIN mClasses /\ mClasses[name].status = "Prepared"

\* What loadClass returns at once, prepared or not.
Found(name) == name \in DOMAIN mClasses

WithEntry(name, class) ==
  [n \in DOMAIN mClasses \cup {name} |-> IF n = name THEN class ELSE mClasses[n]]

\* The class is in the table before it is prepared.
Enter(name, class) ==
  /\ mClasses' = WithEntry(name, WithStatics(name, class))
  /\ preparing' = Append(preparing, [class |-> name, done |-> 0])

At(what) ==
  /\ phase \in {"Boot", "Running"} /\ preparing # <<>>
  /\ Pending.what = what
  /\ what # "fields" => Found(Pending.class)

\* Mutant: nested classes are loaded with loadUnpreparedClass.
LoadNestedUnprepared ==
  /\ phase \in {"Boot", "Running"} /\ preparing # <<>>
  /\ Pending.what # "fields" /\ ~Found(Pending.class) /\ Loadable(Pending.class)
  /\ mClasses' = WithEntry(Pending.class, NewClass(Pending.class))
  /\ UNCHANGED <<path, preparing, phase, answer>>

\* A supertype, the element class or java.lang.Class has to be loaded first.
LoadNested ==
  /\ phase \in {"Boot", "Running"} /\ preparing # <<>>
  /\ Pending.what # "fields" /\ ~Found(Pending.class) /\ Loadable(Pending.class)
  /\ Enter(Pending.class, NewClass(Pending.class))
  /\ UNCHANGED <<path, phase, answer>>

\* A supertype that cannot be loaded stops the VM; an element class that cannot
\* be loaded is dereferenced all the same, and what happens then is undefined.
FailNested ==
  /\ phase \in {"Boot", "Running"} /\ preparing # <<>>
  /\ Pending.what # "fields" /\ ~Found(Pending.class) /\ ~Loadable(Pending.class)
  /\ phase' = IF Pending.what = "element" THEN "Undefined" ELSE "Panicked"
  /\ UNCHANGED <<path, mClasses, preparing, answer>>

LinkSuperClass ==
  /\ At("super")
  /\ mClasses' = [mClasses EXCEPT ![Current].super = Pending.class]
  /\ preparing' = Done
  /\ UNCHANGED <<path, phase, answer>>

\* Mutant: each interface replaces the one before.
LinkLastInterface ==
  /\ At("interface")
  /\ mClasses' = [mClasses EXCEPT ![Current].interfaces = <<Pending.class>>]
  /\ preparing' = Done
  /\ UNCHANGED <<path, phase, answer>>

LinkSuperInterface ==
  /\ At("interface")
  /\ mClasses' = [mClasses EXCEPT ![Current].interfaces = Append(@, Pending.class)]
  /\ preparing' = Done
  /\ UNCHANGED <<path, phase, answer>>

LinkElement ==
  /\ At("element")
  /\ mClasses' = [mClasses EXCEPT ![Current].element = Pending.class]
  /\ preparing' = Done
  /\ UNCHANGED <<path, phase, answer>>

LinkFields ==
  /\ At("fields")
  /\ \E inherited \in SetToSeqs(Inherited(mClasses[Current])) :
       mClasses' = [mClasses EXCEPT ![Current] =
                      WithLayout(@, Layout(Current, @, inherited))]
  /\ preparing' = Done
  /\ UNCHANGED <<path, phase, answer>>

\* The last step: prepare() returns, and with the outermost one loadClass.
CreateClassObject ==
  /\ At("object")
  /\ mClasses' = [mClasses EXCEPT ![Current].object = mClasses[JavaLangClass].size,
                                  ![Current].status = "Prepared"]
  /\ preparing' = Front(preparing)
  /\ answer' = IF Len(preparing) = 1 THEN [answer EXCEPT !.outcome = "Class"] ELSE answer
  /\ UNCHANGED <<path, phase>>

-----------------------------------------------------------------------------
(* Starting the VM, and the program's requests. *)

Request(name) == [name |-> name, outcome |-> "Pending"]

LaidOut(name, class) == WithLayout(class, Layout(name, class, <<>>))

\* java.lang.Class is loaded unprepared and laid out, then prepared.
SetUpJavaLangClass ==
  /\ phase = "Start" /\ Loadable(JavaLangClass)
  /\ Enter(JavaLangClass, LaidOut(JavaLangClass, NewClass(JavaLangClass)))
  /\ phase' = "Boot"
  /\ answer' = Request(JavaLangClass)
  /\ UNCHANGED path

MissingRequired == {i \in DOMAIN Required : ~Found(Required[i])}

\* The required class that is loaded next.
NextRequired == {Required[i] : i \in {m \in MissingRequired : \A n \in MissingRequired : m <= n}}

RequireClass ==
  /\ phase = "Boot" /\ preparing = <<>>
  /\ \E name \in NextRequired :
       /\ Loadable(name)
       /\ Enter(name, NewClass(name))
       /\ answer' = Request(name)
  /\ UNCHANGED <<path, phase>>

\* "Required classes must always be resolvable!"
RequiredIsMissing ==
  /\ \/ phase = "Start" /\ ~Loadable(JavaLangClass)
     \/ phase = "Boot" /\ preparing = <<>> /\ \E name \in NextRequired : ~Loadable(name)
  /\ phase' = "Panicked"
  /\ UNCHANGED <<path, mClasses, preparing, answer>>

Initialized ==
  /\ phase = "Boot" /\ preparing = <<>> /\ MissingRequired = {}
  /\ phase' = "Running"
  /\ UNCHANGED <<path, mClasses, preparing, answer>>

Idle == phase = "Running" /\ preparing = <<>>

LoadClass(name) ==
  /\ Idle /\ ~Found(name) /\ Loadable(name)
  /\ Enter(name, NewClass(name))
  /\ answer' = Request(name)
  /\ UNCHANGED <<path, phase>>

FindClass(name) ==
  /\ Idle /\ Found(name)
  /\ answer' = [name |-> name, outcome |-> "Class"]
  /\ UNCHANGED <<path, mClasses, preparing, phase>>

\* Mutant: the table gets its entry before the class file has been looked for.
ClassNotFoundEntered(name) ==
  /\ Idle /\ ~Found(name) /\ ~Loadable(name)
  /\ mClasses' = WithEntry(name, NewClass(name))
  /\ answer' = [name |-> name, outcome |-> "Error"]
  /\ UNCHANGED <<path, preparing, phase>>

ClassNotFound(name) ==
  /\ Idle /\ ~Found(name) /\ ~Loadable(name)
  /\ answer' = [name |-> name, outcome |-> "Error"]
  /\ UNCHANGED <<path, mClasses, preparing, phase>>

Init ==
  /\ path \in ClassPaths
  /\ mClasses = <<>> /\ preparing = <<>>
  /\ phase = "Start"
  /\ answer = [name |-> NoClass, outcome |-> "Error"]

Prepare ==
  \/ LoadNested
  \/ FailNested
  \/ LinkSuperClass
  \/ LinkSuperInterface
  \/ LinkElement
  \/ LinkFields
  \/ CreateClassObject

Boot ==
  \/ SetUpJavaLangClass
  \/ RequireClass
  \/ RequiredIsMissing
  \/ Initialized

\* The process is over, or what it does now is undefined.
Ended == phase \in {"Panicked", "Undefined"} /\ UNCHANGED vars

Next ==
  \/ Prepare
  \/ Boot
  \/ \E name \in Names(path) : LoadClass(name) \/ FindClass(name) \/ ClassNotFound(name)
  \/ Ended

Spec == Init /\ [][Next]_vars

-----------------------------------------------------------------------------
(* Correctness. *)

Loaded == DOMAIN mClasses
Prepared == {name \in Loaded : mClasses[name].status = "Prepared"}
InstanceFields(name) ==
  {key \in DOMAIN mClasses[name].fields : ~mClasses[name].fields[key].static}

\* Types: every class has its supertypes, element and fields in range, and the
\* calls of prepare() are for classes in the table.
TypeOK ==
  /\ phase \in {"Start", "Boot", "Running", "Panicked", "Undefined"}
  /\ answer \in [name : Name \cup {NoClass}, outcome : {"Pending", "Class", "Error"}]
  /\ \A name \in Loaded :
       LET class == mClasses[name]
       IN  /\ name \in Name
           /\ class.status \in {"Allocated", "Prepared"}
           /\ {class.super, class.element} \cup Range(class.interfaces) \subseteq Loaded \cup {NoClass}
           /\ DOMAIN class.fields \subseteq DOMAIN SizeOf
           /\ class.size \in Nat /\ class.object \in Nat
  /\ \A i \in DOMAIN preparing :
       preparing[i].class \in Loaded /\ preparing[i].done < Len(Steps(preparing[i].class))

\* No class is prepared again while it is being prepared, although all of them
\* ask for java.lang.Class, which asks for them: the recursion comes to an end
\* (BootstrapClassLoader::loadClass, loadUnpreparedClass).
NoCircularPreparation ==
  \A i, j \in DOMAIN preparing : preparing[i].class = preparing[j].class => i = j

\* A class counts as prepared only with everything it was declared with linked
\* and prepared: superclass, interfaces in their order, and for arrays the element
\* class whose class object becomes the component type (JClass::prepare).
PreparedClassesAreComplete ==
  \A name \in Prepared :
    LET class == mClasses[name]
    IN  /\ class.super = SuperOf(name)
        /\ class.interfaces = InterfacesOf(name)
        /\ class.element = ElementOf(name)
        /\ {class.super, class.element} \cup Range(class.interfaces)
             \subseteq Prepared \cup {NoClass}

\* The classes the running program sees are all prepared: the unprepared
\* java.lang.Class of the start, and every class entered in the table before it
\* was linked, are gone (JClass::prepare, Vm::setUpJavaLangClass).
RunningSeesPreparedClasses ==
  Idle => Loaded = Prepared /\ JavaLangClass \in Prepared

\* Every class object was allocated with room for all the fields of
\* java.lang.Class, also those created before that class had been prepared.
ClassObjectsHaveRoom ==
  \A name \in Prepared : mClasses[name].object >= mClasses[JavaLangClass].size

\* Objects exist as soon as the first class object does: from then on the fields
\* of java.lang.Class stay where they are, and so do those of every class that has
\* been prepared, whose objects the program may have created.
LayoutsAreFinal ==
  [][\A name \in Loaded :
       name \in Prepared \/ (name = JavaLangClass /\ Prepared # {}) =>
         /\ name \in DOMAIN mClasses'
         /\ \A key \in InstanceFields(name) : mClasses'[name].fields[key] = mClasses[name].fields[key]
         /\ mClasses'[name].size = mClasses[name].size]_vars

FieldEnd(name, key) == mClasses[name].fields[key].offset + SizeOf[key]

\* The fields of an object lie behind its header and inside its allocation, each
\* aligned to its size, and no two overlap, whatever the order in which the
\* superclass's hash table hands them over (InstanceClass::linkFields).
LayoutsAreSound ==
  \A name \in Prepared : \A key \in InstanceFields(name) :
    LET offset == mClasses[name].fields[key].offset
    IN  /\ offset >= HeaderSize(name)
        /\ offset % SizeOf[key] = 0
        /\ FieldEnd(name, key) <= mClasses[name].size
        /\ \A other \in InstanceFields(name) \ {key} :
             FieldEnd(name, key) <= mClasses[name].fields[other].offset
             \/ FieldEnd(name, other) <= offset

\* A request ends with a prepared class, or with an error for a name that has
\* no readable class file, which leaves no class of that name behind.
AnswersAreRight ==
  /\ answer.outcome = "Class" => answer.name \in Prepared
  /\ Idle /\ answer.outcome = "Error" => answer.name \notin Loaded
  /\ Idle => answer.outcome # "Pending"

\* Everything that links lead to, from each class, in any number of steps.
Above(links) ==
  LET above[n \in DOMAIN links] == links[n] \cup UNION {above[m] : m \in links[n]}
  IN  above

SuperClasses(name) == Above([n \in Loaded |-> {mClasses[n].super} \ {NoClass}])[name]

\* "for instance fields, it is the byte offset from the start of the object
\* containing the field's value" (JField::offset): the field of a class says where
\* the value is in objects of its subclasses too.  Unsafe's objectFieldOffset relies
\* on it.
OffsetHoldsInSubclasses ==
  \A name \in Prepared : \A super \in SuperClasses(name) :
    \A key \in InstanceFields(super) \cap InstanceFields(name) :
      mClasses[name].fields[key].offset = mClasses[super].fields[key].offset

\* The same sentence, of the entry that an object's class has for a field it
\* inherits: that entry is the field's place in the object, not the index of a
\* static field that happens to have the same name.
InheritedFieldsHaveAPlace ==
  \A name \in Prepared : \A super \in SuperClasses(name) :
    InstanceFields(super) \subseteq InstanceFields(name)
=============================================================================
