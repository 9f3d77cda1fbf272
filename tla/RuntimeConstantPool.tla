------------------------- MODULE RuntimeConstantPool -------------------------
(***************************************************************************)
(* What the interpreter asks of linked classes - which method a call       *)
(* selects, which field a reference means, whether an object is an         *)
(* instance of a class - and the caches of the run-time constant pool,     *)
(* which keep the first answer for ever.                                   *)
(*                                                                         *)
(* A method is its name and descriptor, and belongs to the class that      *)
(* declares it.  The entries of all constant pools are taken together: an  *)
(* entry is the kind, the class and the member it names.                   *)
(***************************************************************************)
EXTENDS ClassLinking

CONSTANTS
  Members(_),  \* the methods and fields a program on a class path refers to
  MaxCached    \* bound: entries resolved

VARIABLE pool  \* the resolved entries of the constant pools

poolVars == <<vars, pool>>

-----------------------------------------------------------------------------
(* Queries, over the classes as they are linked. *)

IsInterface(name) == ~IsArray(name) /\ Search(name).interface
IsClassType(name) == ~IsArray(name) /\ ~Search(name).interface

DeclaresMethod(name, method) == ~IsArray(name) /\ method \in Search(name).methods

\* The superclass as a list, so that it can be searched along with interfaces.
Super(name) == IF mClasses[name].super = NoClass THEN <<>> ELSE <<mClasses[name].super>>

\* The first answer of the classes in a list, or none.
FirstOf(answers, list) ==
  LET found == {i \in DOMAIN list : answers[list[i]] # NoClass}
  IN  IF found = {} THEN NoClass ELSE answers[list[Min(found)]]

\* What each class finds that looks for one of certain classes: itself, or else what
\* the first class finds of those listed above it.
FirstFound(sought, above) ==
  LET find[n \in DOMAIN above] ==
        IF n \in sought THEN n ELSE FirstOf(find, above[n])
  IN  find

Declarers(method) == {n \in Loaded : DeclaresMethod(n, method)}
SuperFirst == [n \in Loaded |-> Super(n) \o mClasses[n].interfaces]
InterfacesFirst == [n \in Loaded |-> mClasses[n].interfaces \o Super(n)]

\* Mutant: interfaces are searched before the superclass, as for fields.
VirtualMethodInterfacesFirst(name, method) == FirstFound(Declarers(method), InterfacesFirst)[name]

VirtualMethod(name, method) == FirstFound(Declarers(method), SuperFirst)[name]

\* An instance field is found in the class it is asked of, which holds a copy; a
\* static field where it is declared.
LookupField(name, key) ==
  FirstFound({n \in Loaded : key \in DOMAIN mClasses[n].fields}, InterfacesFirst)[name]

\* The interfaces of a class and those above them.
SuperInterfaces == Above([n \in Loaded |-> Range(mClasses[n].interfaces)])

\* Mutant: the interfaces of superclasses are forgotten.
HasOwnInterface(name, interface) == interface \in SuperInterfaces[name]

HasSuperInterface(name, interface) ==
  \E n \in {name} \cup SuperClasses(name) : interface \in SuperInterfaces[n]

NonArrayIsInstanceOf(s, t) ==
  \/ IsClassType(s) /\ IsClassType(t) /\ t \in {s} \cup SuperClasses(s)
  \/ IsClassType(s) /\ IsInterface(t) /\ HasSuperInterface(s, t)
  \/ IsInterface(s) /\ IsClassType(t) /\ t = JavaLangObject
  \/ IsInterface(s) /\ IsInterface(t) /\ (s = t \/ HasSuperInterface(s, t))

\* An array of references asks the same of the element classes.
Instances ==
  LET is[pair \in Loaded \X Loaded] ==
        LET n == pair[1]
            m == pair[2]
        IN  \/ ~IsArray(n) /\ ~IsArray(m) /\ NonArrayIsInstanceOf(n, m)
            \/ IsArray(n) /\ IsClassType(m) /\ m = JavaLangObject
            \/ IsArray(n) /\ IsInterface(m) /\ m \in {Cloneable, Serializable}
            \/ /\ IsArray(n) /\ IsArray(m)
               /\ IF IsPrimitive(ElementType(n)) /\ IsPrimitive(ElementType(m))
                  THEN ElementType(n) = ElementType(m)
                  ELSE /\ NoClass \notin {mClasses[n].element, mClasses[m].element}
                       /\ is[<<mClasses[n].element, mClasses[m].element>>]
  IN  is

IsInstanceOf(s, t) == Instances[<<s, t>>]

-----------------------------------------------------------------------------
(* Resolution.  The class an entry names has been loaded just before. *)

Entry(kind, name, member) == [kind |-> kind, class |-> name, member |-> member]

Lookup(entry) ==
  IF entry.kind = "method" THEN VirtualMethod(entry.class, entry.member)
  ELSE LookupField(entry.class, entry.member)

\* Mutant: entries are told apart by name and descriptor only.
MemberKey(entry) == [entry EXCEPT !.class = NoClass]

CacheKey(entry) == entry

\* The answer is kept, and given again without another lookup.
Resolve(entry) ==
  /\ Idle /\ Found(entry.class)
  /\ CacheKey(entry) \notin DOMAIN pool /\ Cardinality(DOMAIN pool) < MaxCached
  /\ Lookup(entry) # NoClass
  /\ pool' = [key \in DOMAIN pool \cup {CacheKey(entry)} |->
                IF key = CacheKey(entry) THEN Lookup(entry) ELSE pool[key]]
  /\ UNCHANGED vars

\* getMethodRef stops the VM, getFieldRef goes on with a field that is not there.
ResolveFails(entry) ==
  /\ Idle /\ Found(entry.class)
  /\ CacheKey(entry) \notin DOMAIN pool
  /\ Lookup(entry) = NoClass
  /\ phase' = IF entry.kind = "method" THEN "Panicked" ELSE "Undefined"
  /\ UNCHANGED <<path, mClasses, preparing, answer, pool>>

PoolInit == Init /\ pool = <<>>

PoolNext ==
  \/ Next /\ UNCHANGED pool
  \/ \E name \in Names(path), member \in Members(path), kind \in {"method", "field"} :
       LET entry == Entry(kind, name, member)
       IN  Resolve(entry) \/ ResolveFails(entry)

PoolSpec == PoolInit /\ [][PoolNext]_poolVars

-----------------------------------------------------------------------------
(* Correctness. *)

\* Class files as the Java language has them, which the VM does not check: only
\* java.lang.Object has no superclass, a class extends a class, an interface
\* extends interfaces, and what arrays implement extends nothing.
JavaHierarchies ==
  \A p \in ClassPaths : \A base \in ReadableIn(p) :
    LET file == FileIn(p, base)
    IN  /\ file.super = "" <=> base = "Object"
        /\ file.super \in ReadableIn(p) => ~FileIn(p, file.super).interface
        /\ \A i \in Range(file.interfaces) \cap ReadableIn(p) : FileIn(p, i).interface
        /\ file.interface => file.super = "Object"
        /\ base \in {"Cloneable", "Serializable"} => file.interface
        /\ base \in {"Object", "Cloneable", "Serializable"} => file.interfaces = <<>>

\* The supertypes the Java language gives a type (JLS 4.10), from the class files.
DirectSupertypes(name) ==
  IF IsArray(name)
  THEN {JavaLangObject, Cloneable, Serializable}
  ELSE {Instance(i) : i \in Range(Search(name).interfaces)}
       \cup (IF Search(name).super = "" THEN {} ELSE {Instance(Search(name).super)})

Supertypes[name \in Loaded] ==
  {name} \cup (UNION {Supertypes[s] : s \in DirectSupertypes(name)})
  \cup IF IsArray(name) /\ ~IsPrimitive(ElementType(name))
       THEN {ArrayOf(s) : s \in Supertypes[ElementType(name)]}
       ELSE {}

\* An object is an instance of exactly the supertypes of its class, for classes,
\* interfaces and arrays of any depth (JClass::isInstanceOf, by which casts, catch
\* clauses and array stores are decided).
InstanceOfIsSubtyping ==
  Idle => \A s, t \in Loaded : IsInstanceOf(s, t) <=> t \in Supertypes[s]

\* The nearest class in the chain of superclasses that declares the method, if one
\* does.
ClassMethod(name, method) == FirstFound(Declarers(method), [n \in Loaded |-> Super(n)])[name]

\* A call selects the nearest method among the superclasses, and one of an interface
\* only where no superclass has any; it finds a method whenever there is one
\* (JClass::getVirtualMethod).
ClassMethodsComeFirst ==
  Idle => \A name \in Loaded, method \in Members(path) :
    LET selected == VirtualMethod(name, method)
        candidates == {s \in Supertypes[name] : DeclaresMethod(s, method)}
    IN  IF ClassMethod(name, method) # NoClass
        THEN selected = ClassMethod(name, method)
        ELSE IF candidates = {} THEN selected = NoClass ELSE selected \in candidates

\* "GeeVM is a JDK 17-compatible JVM implementation": where no class declares the
\* method, the interface method selected is not overridden by that of an interface
\* below (JVMS 5.4.6).
DefaultMethodsAreMostSpecific ==
  Idle => \A name \in Loaded, method \in Members(path) :
    LET selected == VirtualMethod(name, method)
    IN  selected # NoClass /\ IsInterface(selected) =>
          ~\E s \in Supertypes[name] \ {selected} :
             DeclaresMethod(s, method) /\ selected \in Supertypes[s]

\* What the constant pool remembers is what a lookup would find now, however many
\* classes were loaded and linked since (RuntimeConstantPool::getMethodRef,
\* getFieldRef).
CachedAnswersAreCurrent ==
  \A entry \in {Entry(kind, name, member) :
                  kind \in {"method", "field"}, name \in Names(path) \cap Loaded,
                  member \in Members(path)} :
    CacheKey(entry) \in DOMAIN pool => pool[CacheKey(entry)] = Lookup(entry)
=============================================================================
