---------------------- MODULE RuntimeConstantPoolProofs ----------------------
(***************************************************************************)
(* Theorems about the queries on linked classes and the caches over them,  *)
(* for every class path whose class files do not inherit from themselves,  *)
(* however many classes are loaded in whatever order.                      *)
(*                                                                         *)
(* The table of classes never gets a cycle, so that every query is a       *)
(* recursion that ends (Recursion), and what a query finds is proved by a  *)
(* least counterexample: of any loaded classes there is one that leads to  *)
(* none of the others (FoundedTable).  The inductive invariant of the pool *)
(* is PoolInv, over the invariants of ClassLinkingProofs.                  *)
(***************************************************************************)
EXTENDS RuntimeConstantPool, ClassLinkingProofs

-----------------------------------------------------------------------------
(* Recursion over links that lead downwards, for any body.  Queries on classes are such *)
(* recursions: over superclasses and interfaces, or over element classes. *)

(* Links lead downwards: any classes have one that links to none of them. *)
IsFounded(L, below) ==
  \A T \in SUBSET L : T # {} => \E n \in T : below[n] \cap T = {}

IsRecursive(L, V, below, body) ==
  /\ IsFounded(L, below)
  /\ \A n \in L : below[n] \subseteq L
  /\ \A n \in L : \A f \in [L -> V] : body[<<n, f>>] \in V
  /\ \A n \in L : \A f, g \in [L -> V] :
       (\A m \in below[n] : f[m] = g[m]) => body[<<n, f>>] = body[<<n, g>>]

(* A function that does what it should on some classes and all below them. *)
Solves(L, V, below, body, C, f) ==
  /\ C \subseteq L /\ f \in [L -> V]
  /\ \A n \in C : below[n] \subseteq C /\ f[n] = body[<<n, f>>]

LEMMA SolutionsAgree ==
  ASSUME NEW L, NEW V, NEW below, NEW body, IsRecursive(L, V, below, body),
         NEW C, NEW f, Solves(L, V, below, body, C, f),
         NEW D, NEW g, Solves(L, V, below, body, D, g)
  PROVE  \A n \in C \cap D : f[n] = g[n]
<1> DEFINE T == {n \in C \cap D : f[n] # g[n]}
<1> SUFFICES ASSUME T # {} PROVE FALSE
  OBVIOUS
<1>1. T \in SUBSET L
  BY DEF Solves
<1>2. PICK n \in T : below[n] \cap T = {}
  <2> HIDE DEF T
  <2> QED BY <1>1 DEF IsRecursive, IsFounded
<1>3. below[n] \subseteq C \cap D /\ n \in L /\ f \in [L -> V] /\ g \in [L -> V]
  BY DEF Solves
<1>4. \A m \in below[n] : f[m] = g[m]
  BY <1>2, <1>3
<1>5. body[<<n, f>>] = body[<<n, g>>]
  BY <1>3, <1>4 DEF IsRecursive
<1>6. f[n] = body[<<n, f>>] /\ g[n] = body[<<n, g>>]
  BY DEF Solves
<1> QED
  BY <1>5, <1>6

LEMMA Recursion ==
  ASSUME NEW L, NEW V, NEW below, NEW body, IsRecursive(L, V, below, body), V # {}
  PROVE  \E f \in [L -> V] : \A n \in L : f[n] = body[<<n, f>>]
<1> DEFINE Sol(C, f) == Solves(L, V, below, body, C, f)
           G == {n \in L : \E C, f : Sol(C, f) /\ n \in C}
           Pick(n) == CHOOSE f : \E C : Sol(C, f) /\ n \in C
<1>1. PICK v : v \in V
  OBVIOUS
<1> DEFINE F == [n \in L |-> IF n \in G THEN Pick(n)[n] ELSE v]
<1>2. ASSUME NEW C, NEW f, Sol(C, f)
      PROVE  C \subseteq G /\ \A n \in C : F[n] = f[n]
  <2>1. C \subseteq G
    BY <1>2 DEF Solves
  <2>2. ASSUME NEW n \in C PROVE F[n] = f[n]
    <3>1. PICK p : p = Pick(n)
      OBVIOUS
    <3>2. \E D : Sol(D, p) /\ n \in D
      <4> HIDE DEF Sol
      <4> QED BY <1>2, <2>2, <3>1
    <3>3. PICK D : Sol(D, p) /\ n \in D
      BY <3>2
    <3>4. p[n] = f[n]
      BY <1>2, <2>2, <3>3, SolutionsAgree
    <3>5. n \in G /\ n \in L
      BY <2>1, <2>2
    <3>6. F[n] = Pick(n)[n]
      <4> HIDE DEF G, Pick
      <4> QED BY <3>5
    <3> QED BY <3>1, <3>4, <3>6
  <2> QED BY <2>1, <2>2
<1>3. F \in [L -> V]
  <2>1. ASSUME NEW n \in L PROVE F[n] \in V
    <3>1. CASE n \in G
      <4>1. PICK C, f : Sol(C, f) /\ n \in C
        BY <3>1
      <4>2. F[n] = f[n]
        BY <1>2, <4>1
      <4>3. f[n] \in V
        BY <4>1, <2>1 DEF Solves
      <4> QED BY <4>2, <4>3
    <3>2. CASE n \notin G
      <4> HIDE DEF G
      <4> QED BY <1>1, <2>1, <3>2
    <3> QED BY <3>1, <3>2
  <2>2. F = [n \in L |-> F[n]]
    OBVIOUS
  <2> HIDE DEF F
  <2> QED BY <2>1, <2>2
<1>4. Sol(G, F)
  <2>1. ASSUME NEW n \in G PROVE below[n] \subseteq G /\ F[n] = body[<<n, F>>]
    <3>1. PICK C, f : Sol(C, f) /\ n \in C
      BY <2>1
    <3>2. /\ below[n] \subseteq C /\ f[n] = body[<<n, f>>] /\ f \in [L -> V] /\ n \in L
      BY <3>1 DEF Solves
    <3>3. C \subseteq G /\ \A m \in C : F[m] = f[m]
      BY <1>2, <3>1
    <3> HIDE DEF F, G, Sol
    <3>4. \A m \in below[n] : F[m] = f[m]
      BY <3>2, <3>3
    <3>5. body[<<n, F>>] = body[<<n, f>>]
      BY <1>3, <3>2, <3>4 DEF IsRecursive
    <3> QED BY <3>1, <3>2, <3>3, <3>5
  <2>2. G \subseteq L
    OBVIOUS
  <2> HIDE DEF F, G
  <2> QED BY <1>3, <2>1, <2>2 DEF Solves
<1>5. L \subseteq G
  <2> SUFFICES ASSUME L \ G # {} PROVE FALSE
    OBVIOUS
  <2>1. PICK n \in L \ G : below[n] \cap (L \ G) = {}
    <3> HIDE DEF G
    <3> QED BY DEF IsRecursive, IsFounded
  <2>2. below[n] \subseteq G /\ n \in L /\ n \notin G
    BY <2>1 DEF IsRecursive
  <2>3. PICK h : h = [m \in L |-> IF m = n THEN body[<<n, F>>] ELSE F[m]]
    OBVIOUS
  <2> HIDE DEF F, G, Sol
  <2>4. G \subseteq L /\ \A m \in G : below[m] \subseteq G /\ F[m] = body[<<m, F>>]
    BY <1>4 DEF Solves, Sol
  <2>5. h \in [L -> V]
    BY <1>3, <2>2, <2>3 DEF IsRecursive
  <2>6. \A m \in G : h[m] = F[m]
    BY <2>2, <2>3, <2>4
  <2>7. h[n] = body[<<n, F>>]
    BY <2>2, <2>3
  <2>8. ASSUME NEW m \in G \cup {n} PROVE below[m] \subseteq G /\ h[m] = body[<<m, h>>]
    <3>1. below[m] \subseteq G /\ m \in L /\ h[m] = body[<<m, F>>]
      BY <2>2, <2>4, <2>6, <2>7
    <3>2. \A k \in below[m] : h[k] = F[k]
      BY <2>6, <3>1
    <3>3. body[<<m, F>>] = body[<<m, h>>]
      BY <1>3, <2>5, <3>1, <3>2 DEF IsRecursive
    <3> QED BY <3>1, <3>3
  <2>9. Sol(G \cup {n}, h)
    BY <2>2, <2>4, <2>5, <2>8 DEF Solves, Sol
  <2>10. n \in G
    <3>1. \E C, f : Sol(C, f) /\ n \in C
      BY <2>9
    <3> QED BY <2>2, <3>1 DEF G
  <2> QED BY <2>2, <2>10
<1>6. \A n \in L : F[n] = body[<<n, F>>]
  <2> HIDE DEF F, G
  <2> QED BY <1>4, <1>5 DEF Solves
<1> HIDE DEF F
<1> QED
  BY <1>3, <1>6

-----------------------------------------------------------------------------
(* Searching lists of classes. *)

(* The first of the answers that is one. *)
IsFirst(answers, list, found) ==
  \/ found = NoClass /\ \A i \in 1..Len(list) : answers[list[i]] = NoClass
  \/ \E i \in 1..Len(list) :
       /\ found = answers[list[i]] /\ found # NoClass
       /\ \A k \in 1..i - 1 : answers[list[k]] = NoClass

LEMMA MinIsLeast ==
  ASSUME NEW T \in SUBSET Nat, T # {}
  PROVE  Min(T) \in T /\ \A y \in T : Min(T) <= y
<1>1. \E x \in T : \A y \in T : x <= y
  BY LeastNumber
<1> QED
  BY <1>1 DEF Min

LEMMA FirstOfFacts ==
  ASSUME NEW S, NEW list \in Seq(S), NEW answers
  PROVE  IsFirst(answers, list, FirstOf(answers, list))
<1>1. PICK m \in Nat : m = Len(list) /\ DOMAIN list = 1..m
  OBVIOUS
<1> DEFINE T == {i \in DOMAIN list : answers[list[i]] # NoClass}
<1>2. T \in SUBSET Nat
  BY <1>1
<1>3. CASE T = {}
  <2>1. FirstOf(answers, list) = NoClass
    BY <1>3 DEF FirstOf
  <2>2. \A i \in 1..Len(list) : answers[list[i]] = NoClass
    BY <1>1, <1>3
  <2> QED BY <2>1, <2>2 DEF IsFirst
<1>4. CASE T # {}
  <2>1. PICK i : i = Min(T)
    OBVIOUS
  <2>2. FirstOf(answers, list) = answers[list[i]]
    BY <1>4, <2>1 DEF FirstOf
  <2>3. i \in T /\ \A k \in T : i <= k
    <3> HIDE DEF T
    <3> QED BY <1>2, <1>4, <2>1, MinIsLeast
  <2>4. i \in 1..m /\ answers[list[i]] # NoClass
    BY <1>1, <2>3
  <2>5. ASSUME NEW k \in 1..i - 1 PROVE answers[list[k]] = NoClass
    <3>1. k \in 1..m /\ ~(i <= k)
      BY <2>4
    <3>2. k \notin T
      BY <2>3, <3>1
    <3> QED BY <1>1, <3>1, <3>2
  <2> QED BY <1>1, <2>2, <2>4, <2>5 DEF IsFirst
<1> QED
  BY <1>3, <1>4

LEMMA FirstIsUnique ==
  ASSUME NEW list, Len(list) \in Nat, NEW f, NEW g, NEW x, NEW y,
         IsFirst(f, list, x), IsFirst(g, list, y),
         \A i \in 1..Len(list) : f[list[i]] = g[list[i]]
  PROVE  x = y
<1>1. PICK m \in Nat : m = Len(list)
  OBVIOUS
<1>2. CASE x = NoClass /\ \A i \in 1..m : f[list[i]] = NoClass
  BY <1>1, <1>2 DEF IsFirst
<1>3. ASSUME NEW i \in 1..m, x = f[list[i]], x # NoClass,
             \A k \in 1..i - 1 : f[list[k]] = NoClass
      PROVE  x = y
  <2>1. PICK j \in 1..m : /\ y = g[list[j]] /\ y # NoClass
                          /\ \A k \in 1..j - 1 : g[list[k]] = NoClass
    BY <1>1, <1>3 DEF IsFirst
  <2>2. ~(i < j)
    <3> SUFFICES ASSUME i < j PROVE FALSE
      OBVIOUS
    <3>1. i \in 1..j - 1
      OBVIOUS
    <3> QED BY <1>1, <1>3, <2>1, <3>1
  <2>3. ~(j < i)
    <3> SUFFICES ASSUME j < i PROVE FALSE
      OBVIOUS
    <3>1. j \in 1..i - 1
      OBVIOUS
    <3> QED BY <1>1, <1>3, <2>1, <3>1
  <2>4. i = j
    BY <2>2, <2>3
  <2> QED BY <1>1, <1>3, <2>1, <2>4
<1> QED
  BY <1>1, <1>2, <1>3 DEF IsFirst

LEMMA FirstOfDepends ==
  ASSUME NEW S, NEW list \in Seq(S), NEW f, NEW g, \A n \in Range(list) : f[n] = g[n]
  PROVE  FirstOf(f, list) = FirstOf(g, list)
<1>1. /\ IsFirst(f, list, FirstOf(f, list)) /\ IsFirst(g, list, FirstOf(g, list))
      /\ Len(list) \in Nat /\ DOMAIN list = 1..Len(list)
  BY FirstOfFacts, ListFacts
<1>2. \A i \in 1..Len(list) : f[list[i]] = g[list[i]]
  BY <1>1 DEF Range
<1> QED
  BY <1>1, <1>2, FirstIsUnique

(* Lists of classes that lead downwards. *)
AreLists(L, above) ==
  /\ above = [n \in L |-> above[n]]
  /\ \A n \in L : above[n] \in Seq(L)
  /\ \A T \in SUBSET L : T # {} => \E n \in T : Range(above[n]) \cap T = {}

LEMMA InRange ==
  ASSUME NEW S, NEW list \in Seq(S)
  PROVE  Range(list) \subseteq S /\ \A i \in 1..Len(list) : list[i] \in Range(list)
BY DEF Range

LEMMA FirstIsFound ==
  ASSUME NEW L, NEW V, NEW list \in Seq(L), NEW f \in [L -> V], NoClass \in V
  PROVE  FirstOf(f, list) \in V
<1>1. IsFirst(f, list, FirstOf(f, list))
  BY FirstOfFacts
<1>2. \A i \in 1..Len(list) : list[i] \in L
  BY ListFacts
<1>3. \A n \in L : f[n] \in V
  OBVIOUS
<1> QED
  BY <1>1, <1>2, <1>3 DEF IsFirst

(* The search finds what it is defined to find, and finds it somewhere. *)
LEMMA FirstFoundDefined ==
  ASSUME NEW L, NEW sought, NEW above, AreLists(L, above)
  PROVE  \A n \in L :
           FirstFound(sought, above)[n] =
             IF n \in sought THEN n ELSE FirstOf(FirstFound(sought, above), above[n])
<1> DEFINE V == L \cup {NoClass}
           below == [n \in L |-> Range(above[n])]
           body == [p \in L \X [L -> V] |-> IF p[1] \in sought THEN p[1] ELSE FirstOf(p[2], above[p[1]])]
           Def(f) == [n \in L |-> IF n \in sought THEN n ELSE FirstOf(f, above[n])]
<1>1. \A n \in L : above[n] \in Seq(L) /\ Range(above[n]) \subseteq L
  BY InRange DEF AreLists
<1>2. \A n \in L, f \in [L -> V] :
        body[<<n, f>>] = IF n \in sought THEN n ELSE FirstOf(f, above[n])
  OBVIOUS
<1>3. IsRecursive(L, V, below, body)
  <2>1. IsFounded(L, below)
    BY DEF IsFounded, AreLists
  <2>2. \A n \in L : below[n] \subseteq L
    BY <1>1
  <2>3. ASSUME NEW n \in L, NEW f \in [L -> V] PROVE body[<<n, f>>] \in V
    <3>1. FirstOf(f, above[n]) \in V
      <4>1. NoClass \in V
        OBVIOUS
      <4> HIDE DEF V
      <4> QED BY <1>1, <4>1, FirstIsFound
    <3>2. n \in V
      OBVIOUS
    <3> HIDE DEF V, body
    <3> QED BY <1>2, <3>1, <3>2
  <2>4. ASSUME NEW n \in L, NEW f \in [L -> V], NEW g \in [L -> V], \A m \in below[n] : f[m] = g[m]
        PROVE  body[<<n, f>>] = body[<<n, g>>]
    <3>1. \A m \in Range(above[n]) : f[m] = g[m]
      BY <2>4
    <3>2. FirstOf(f, above[n]) = FirstOf(g, above[n])
      BY <1>1, <3>1, FirstOfDepends
    <3> HIDE DEF V, body
    <3> QED BY <1>2, <3>2
  <2> HIDE DEF V, body, below
  <2> QED BY <2>1, <2>2, <2>3, <2>4 DEF IsRecursive
<1>4. PICK f \in [L -> V] : \A n \in L : f[n] = body[<<n, f>>]
  <2>1. V # {}
    OBVIOUS
  <2> HIDE DEF V, body, below
  <2> QED BY <1>3, <2>1, Recursion
<1>5. f = Def(f)
  <2>1. \A n \in L : f[n] = IF n \in sought THEN n ELSE FirstOf(f, above[n])
    <3> HIDE DEF V, body
    <3> QED BY <1>2, <1>4
  <2>2. f = [n \in L |-> f[n]]
    <3> HIDE DEF V
    <3> QED OBVIOUS
  <2> QED BY <2>1, <2>2
<1>6. DOMAIN above = L
  BY DEF AreLists
<1>7. FirstFound(sought, above) = CHOOSE g : g = Def(g)
  BY <1>6 DEF FirstFound
<1>8. FirstFound(sought, above) = Def(FirstFound(sought, above))
  <2> HIDE DEF Def
  <2> QED BY <1>5, <1>7
<1> QED
  BY <1>8

(* Two searches agree on classes that lead to no others, for which the same is sought *)
(* along the same lists.                                                              *)
LEMMA SearchesAgree ==
  ASSUME NEW L, NEW above, AreLists(L, above), NEW M, NEW more, AreLists(M, more),
         NEW P, P \subseteq L \cap M,
         \A n \in P : more[n] = above[n] /\ Range(above[n]) \subseteq P,
         NEW sought, NEW wanted, \A n \in P : n \in sought <=> n \in wanted
  PROVE  \A n \in P : FirstFound(sought, above)[n] = FirstFound(wanted, more)[n]
<1>1. PICK f, g : f = FirstFound(sought, above) /\ g = FirstFound(wanted, more)
  OBVIOUS
<1>2. \A n \in P : /\ f[n] = IF n \in sought THEN n ELSE FirstOf(f, above[n])
                   /\ g[n] = IF n \in sought THEN n ELSE FirstOf(g, above[n])
  <2> SUFFICES ASSUME NEW n \in P
               PROVE  /\ f[n] = IF n \in sought THEN n ELSE FirstOf(f, above[n])
                      /\ g[n] = IF n \in sought THEN n ELSE FirstOf(g, above[n])
    OBVIOUS
  <2>1. f[n] = IF n \in sought THEN n ELSE FirstOf(f, above[n])
    BY <1>1, FirstFoundDefined
  <2>2. g[n] = IF n \in wanted THEN n ELSE FirstOf(g, more[n])
    BY <1>1, FirstFoundDefined
  <2> QED BY <2>1, <2>2
<1> DEFINE T == {n \in P : f[n] # g[n]}
<1>3. T = {}
  <2> SUFFICES ASSUME T # {} PROVE FALSE
    OBVIOUS
  <2>1. T \in SUBSET L
    OBVIOUS
  <2>2. PICK n \in T : Range(above[n]) \cap T = {}
    <3> HIDE DEF T
    <3> QED BY <2>1 DEF AreLists
  <2>3. n \in P /\ n \in L /\ f[n] # g[n] /\ above[n] \in Seq(L)
    BY DEF AreLists
  <2>4. \A m \in Range(above[n]) : f[m] = g[m]
    BY <2>2, <2>3
  <2>5. FirstOf(f, above[n]) = FirstOf(g, above[n])
    BY <2>3, <2>4, FirstOfDepends
  <2> HIDE DEF T
  <2> QED BY <1>2, <2>3, <2>5
<1> QED
  BY <1>1, <1>3

-----------------------------------------------------------------------------
(* Class files. *)

Declared(n) == ({SuperOf(n)} \cup Range(InterfacesOf(n))) \ {NoClass}

LEMMA JdkBases ==
  /\ ~IsArray(JavaLangObject) /\ ~IsArray(Cloneable) /\ ~IsArray(Serializable)
BY InstanceNames DEF JavaLangObject, Cloneable, Serializable, IsArray

LEMMA DeclaredByArray ==
  ASSUME NEW n, IsArray(n)
  PROVE  Declared(n) = {JavaLangObject, Cloneable, Serializable}
<1>1. Range(InterfacesOf(n)) = {Cloneable, Serializable}
  BY DEF InterfacesOf, Range
<1>2. SuperOf(n) = JavaLangObject
  BY DEF SuperOf
<1>3. NoClass \notin {JavaLangObject, Cloneable, Serializable}
  BY JdkNames, InstanceNames
<1> QED
  BY <1>1, <1>2, <1>3 DEF Declared

LEMMA DeclaredByFile ==
  ASSUME path \in ClassPaths, NEW n \in Name, Loadable(n), ~IsArray(n), NEW x
  PROVE  x \in Declared(n) <=>
           /\ x # NoClass
           /\ \/ x = Instance(Search(n).super)
              \/ \E i \in Range(Search(n).interfaces) : x = Instance(i)
<1>1. InterfacesOf(n) = [i \in DOMAIN Search(n).interfaces |-> Instance(Search(n).interfaces[i])]
  BY DEF InterfacesOf
<1>2. x \in Range(InterfacesOf(n)) <=> \E i \in Range(Search(n).interfaces) : x = Instance(i)
  BY <1>1 DEF Range
<1>3. SuperOf(n) = Instance(Search(n).super)
  BY DEF SuperOf
<1> QED
  BY <1>2, <1>3 DEF Declared

(* Among any classes that can be loaded is one that names none of them. *)
LEMMA DeclaredAreFounded ==
  ASSUME NoCircularInheritance, path \in ClassPaths, NEW T, T \subseteq Name, T # {},
         \A n \in T : Loadable(n)
  PROVE  \E n \in T : Declared(n) \cap T = {} /\ (IsArray(n) => ElementType(n) \notin T)
<1>1. CASE \E n \in T : ~IsArray(n)
  <2> DEFINE S == {b \in ReadableIn(path) : Instance(b) \in T}
  <2>1. ASSUME NEW n \in T, ~IsArray(n) PROVE n.base \in S /\ n = Instance(n.base)
    BY <2>1, SearchFacts
  <2>2. S # {} /\ S \in SUBSET ReadableIn(path)
    BY <1>1, <2>1
  <2>3. PICK b \in S : S \cap ({FileIn(path, b).super} \cup Range(FileIn(path, b).interfaces)) = {}
    <3> HIDE DEF S
    <3> QED BY <2>2 DEF NoCircularInheritance
  <2>4. PICK n \in T : n = Instance(b)
    OBVIOUS
  <2>5. n.base = b /\ ~IsArray(n) /\ Search(n) = FileIn(path, b)
    BY <2>4, InstanceNames DEF IsArray, Search
  <2>6. ASSUME NEW x \in Declared(n), x \in T PROVE FALSE
    <3>1. PICK c : x = Instance(c) /\ c \in {FileIn(path, b).super} \cup Range(FileIn(path, b).interfaces)
      BY <2>5, <2>6, DeclaredByFile
    <3>2. ~IsArray(x) /\ x.base = c
      BY <3>1, InstanceNames DEF IsArray
    <3>3. c \in S
      <4> HIDE DEF S
      <4> QED BY <2>1, <2>6, <3>2
    <3> HIDE DEF S
    <3> QED BY <2>3, <3>1, <3>3
  <2> QED BY <2>5, <2>6
<1>2. CASE \A n \in T : IsArray(n)
  <2> DEFINE D == {n.dimensions : n \in T}
  <2>1. D \in SUBSET Nat /\ D # {}
    BY DEF Name
  <2>2. PICK d \in D : \A e \in D : d <= e
    <3> HIDE DEF D
    <3> QED BY <2>1, LeastNumber
  <2>3. PICK n \in T : n.dimensions = d
    BY <2>2
  <2>4. \A m \in T : n.dimensions <= m.dimensions
    BY <2>2, <2>3
  <2>5. n.dimensions \in Nat /\ ElementType(n).dimensions = n.dimensions - 1
    BY <1>2, <2>3, ElementFacts DEF Name
  <2>6. ElementType(n) \notin T
    <3>1. ~(n.dimensions <= n.dimensions - 1)
      BY <2>5
    <3> QED BY <2>4, <2>5, <3>1
  <2>7. Declared(n) \cap T = {}
    BY <1>2, <2>3, DeclaredByArray, JdkBases
  <2> QED BY <2>6, <2>7
<1> QED
  BY <1>1, <1>2

-----------------------------------------------------------------------------
(* The classes of the table are linked to classes they declare. *)

LEMMA LinksOfClass ==
  ASSUME IInv, LinkInv, NEW n \in Loaded, NEW class, class = mClasses[n]
  PROVE  /\ path \in ClassPaths /\ n \in Name /\ Loadable(n)
         /\ class.super \in Loaded \cup {NoClass} /\ class.interfaces \in Seq(Loaded)
         /\ class.super # NoClass => class.super \in Declared(n)
         /\ Range(class.interfaces) \subseteq Declared(n)
<1>1. path \in ClassPaths /\ n \in Name /\ Loadable(n)
  BY DEF LinkInv, FilesAreFound, Loaded
<1>2. PICK k : LinkedSoFar(n, class, k) /\ (k \in Nat \/ k = Len(Steps(n)) - 1)
  <2>1. CASE n \in Prepared
    BY <2>1 DEF LinkInv, PreparedAreLinked
  <2>2. CASE n \notin Prepared
    <3>1. PICK i \in DOMAIN preparing : preparing[i].class = n
      BY <2>2 DEF IInv, UnpreparedAreOnStack, OnStack, Prepared, Loaded
    <3>2. preparing[i].done \in Nat
      BY <3>1, StackFacts DEF IInv
    <3>3. LinkedSoFar(n, class, preparing[i].done)
      BY <3>1 DEF LinkInv, StackIsLinked
    <3> QED BY <3>2, <3>3
  <2> QED BY <2>1, <2>2
<1>3. k \in Nat
  BY <1>1, <1>2, StepCount
<1>4. PICK u, m, q \in Nat : u = Supers(n) /\ q = Before(n) /\ m = Len(InterfacesOf(n)) /\ q = u + m
  BY <1>1, StepCount
<1>5. PICK l : l = class.interfaces /\ l \in Seq(Name)
  BY <1>2 DEF LinkedSoFar
<1>6. PICK j : j = Len(l)
  OBVIOUS
<1>7. j = IF k <= u THEN 0 ELSE IF k <= q THEN k - u ELSE m
  BY <1>2, <1>4, <1>5, <1>6 DEF LinkedSoFar
<1>8. j \in Nat /\ j <= m
  BY <1>3, <1>4, <1>7
<1>9. \A i \in 1..j : l[i] = InterfacesOf(n)[i] /\ l[i] \in Name /\ l[i] \in Loaded \cup {NoClass}
  BY <1>2, <1>5, <1>6, ListFacts DEF LinkedSoFar, LinkInv, LinksLeadToClasses, LinksAreIn, Loaded
<1>10. \A i \in 1..j : i \in DOMAIN InterfacesOf(n) /\ l[i] # NoClass
  <2>1. InterfacesOf(n) \in Seq(Name)
    BY <1>1, DeclaredNames
  <2>2. DOMAIN InterfacesOf(n) = 1..m
    BY <1>4, <2>1, ListFacts
  <2>3. \A i \in 1..j : i \in 1..m
    BY <1>8
  <2> QED BY <1>9, <2>2, <2>3, InstanceNames
<1>11. l \in Seq(Loaded)
  <2>1. l = [i \in 1..j |-> l[i]]
    BY <1>5, <1>6
  <2> QED BY <1>8, <1>9, <1>10, <2>1, FunctionIsList
<1>12. Range(l) \subseteq Declared(n)
  <2>1. Range(l) = {l[i] : i \in 1..j}
    BY <1>5, <1>6, ListFacts DEF Range
  <2>2. \A i \in 1..j : l[i] \in Range(InterfacesOf(n)) /\ l[i] # NoClass
    BY <1>9, <1>10 DEF Range
  <2> QED BY <2>1, <2>2 DEF Declared
<1>13. class.super \in Loaded \cup {NoClass} /\ class.super \in {SuperOf(n), NoClass}
  BY <1>2 DEF LinkedSoFar, LinkInv, LinksLeadToClasses, LinksAreIn, Loaded
<1> QED
  BY <1>1, <1>5, <1>11, <1>12, <1>13 DEF Declared

-----------------------------------------------------------------------------
(* The linked table, and the two orders in which it is searched. *)

TableIsLinked == IInv /\ LinkInv /\ CompleteInv

LEMMA JoinedLists ==
  ASSUME NEW S, NEW a \in Seq(S), NEW b \in Seq(S)
  PROVE  a \o b \in Seq(S) /\ Range(a \o b) = Range(a) \cup Range(b)
<1>1. PICK m, k \in Nat : m = Len(a) /\ k = Len(b)
  OBVIOUS
<1>2. PICK z \in Seq(S) : z = a \o b
  <2>1. a \o b \in Seq(S)
    OBVIOUS
  <2> QED BY <2>1
<1>3. Len(z) = m + k /\ (\A i \in 1..m : z[i] = a[i]) /\ (\A i \in 1..k : z[m + i] = b[i])
  BY <1>1, <1>2
<1>4. /\ Range(z) = {z[i] : i \in 1..m + k}
      /\ Range(a) = {a[i] : i \in 1..m} /\ Range(b) = {b[i] : i \in 1..k}
  <2>1. DOMAIN z = 1..m + k /\ DOMAIN a = 1..m /\ DOMAIN b = 1..k
    BY <1>1, <1>3
  <2> QED BY <2>1 DEF Range
<1>5. ASSUME NEW x \in Range(z) PROVE x \in Range(a) \cup Range(b)
  <2>1. PICK i \in 1..m + k : x = z[i]
    BY <1>4, <1>5
  <2>2. CASE i <= m
    BY <1>3, <1>4, <2>1, <2>2
  <2>3. CASE ~(i <= m)
    <3>1. i - m \in 1..k /\ m + (i - m) = i
      BY <2>3
    <3> QED BY <1>3, <1>4, <2>1, <3>1
  <2> QED BY <2>2, <2>3
<1>6. Range(a) \subseteq Range(z)
  BY <1>3, <1>4
<1>7. Range(b) \subseteq Range(z)
  <2>1. \A i \in 1..k : m + i \in 1..m + k
    OBVIOUS
  <2> QED BY <1>3, <1>4, <2>1
<1> QED
  BY <1>2, <1>5, <1>6, <1>7

(* Both orders in which supertypes are searched lead downwards. *)
SearchOrder(above) ==
  /\ AreLists(Loaded, above)
  /\ \A n \in Loaded :
       Range(above[n]) = ({mClasses[n].super} \ {NoClass}) \cup Range(mClasses[n].interfaces)

LEMMA FoundedTable ==
  ASSUME NoCircularInheritance, IInv, LinkInv, NEW T \in SUBSET Loaded, T # {}
  PROVE  \E n \in T : Declared(n) \cap T = {} /\ (IsArray(n) => ElementType(n) \notin T)
<1>1. \A n \in T : path \in ClassPaths /\ n \in Name /\ Loadable(n)
  BY LinksOfClass
<1> QED
  BY <1>1, DeclaredAreFounded

LEMMA SuperList ==
  ASSUME IInv, LinkInv, NEW n \in Loaded
  PROVE  /\ Super(n) \in Seq(Loaded) /\ Range(Super(n)) = {mClasses[n].super} \ {NoClass}
         /\ mClasses[n].interfaces \in Seq(Loaded)
<1>1. PICK s : s = mClasses[n].super
  OBVIOUS
<1>2. s \in Loaded \cup {NoClass} /\ mClasses[n].interfaces \in Seq(Loaded)
  BY <1>1, LinksOfClass
<1>3. CASE s = NoClass
  <2>1. Super(n) = <<>>
    BY <1>1, <1>3 DEF Super
  <2>2. Range(<<>>) = {}
    BY DEF Range
  <2> QED BY <1>1, <1>2, <1>3, <2>1, <2>2
<1>4. CASE s # NoClass
  <2>1. Super(n) = <<s>>
    BY <1>1, <1>4 DEF Super
  <2>2. <<s>> \in Seq(Loaded) /\ Range(<<s>>) = {s}
    BY <1>2, <1>4 DEF Range
  <2> QED BY <1>1, <1>2, <1>4, <2>1, <2>2
<1> QED
  BY <1>3, <1>4

LEMMA IsSearchOrder ==
  ASSUME NoCircularInheritance, IInv, LinkInv, NEW above,
         above = [n \in Loaded |-> above[n]],
         \A n \in Loaded :
           /\ above[n] \in Seq(Loaded)
           /\ Range(above[n]) = Range(Super(n)) \cup Range(mClasses[n].interfaces)
  PROVE  SearchOrder(above)
<1>1. \A n \in Loaded :
        /\ Range(above[n]) = ({mClasses[n].super} \ {NoClass}) \cup Range(mClasses[n].interfaces)
        /\ Range(above[n]) \subseteq Declared(n)
  <2> SUFFICES ASSUME NEW n \in Loaded
               PROVE /\ Range(above[n]) = ({mClasses[n].super} \ {NoClass}) \cup Range(mClasses[n].interfaces)
                     /\ Range(above[n]) \subseteq Declared(n)
    OBVIOUS
  <2>1. Range(Super(n)) = {mClasses[n].super} \ {NoClass}
    BY SuperList
  <2>2. /\ mClasses[n].super # NoClass => mClasses[n].super \in Declared(n)
        /\ Range(mClasses[n].interfaces) \subseteq Declared(n)
    BY LinksOfClass
  <2> QED BY <2>1, <2>2
<1>2. ASSUME NEW T \in SUBSET Loaded, T # {} PROVE \E n \in T : Range(above[n]) \cap T = {}
  <2>1. PICK n \in T : Declared(n) \cap T = {}
    BY <1>2, FoundedTable
  <2> QED BY <1>1, <2>1
<1> QED
  BY <1>1, <1>2 DEF SearchOrder, AreLists

LEMMA OrdersAreSearchOrders ==
  ASSUME NoCircularInheritance, IInv, LinkInv
  PROVE  SearchOrder(SuperFirst) /\ SearchOrder(InterfacesFirst)
<1>1. \A n \in Loaded : Super(n) \in Seq(Loaded) /\ mClasses[n].interfaces \in Seq(Loaded)
  BY SuperList
<1>2. SearchOrder(SuperFirst)
  <2>1. PICK above : above = SuperFirst
    OBVIOUS
  <2>2. \A n \in Loaded : above[n] = Super(n) \o mClasses[n].interfaces
    BY <2>1 DEF SuperFirst
  <2>3. above = [n \in Loaded |-> above[n]]
    BY <2>1 DEF SuperFirst
  <2>4. ASSUME NEW n \in Loaded
        PROVE  /\ above[n] \in Seq(Loaded)
               /\ Range(above[n]) = Range(Super(n)) \cup Range(mClasses[n].interfaces)
    <3>1. /\ Super(n) \o mClasses[n].interfaces \in Seq(Loaded)
          /\ Range(Super(n) \o mClasses[n].interfaces) = Range(Super(n)) \cup Range(mClasses[n].interfaces)
      BY <1>1, JoinedLists
    <3> QED BY <2>2, <3>1
  <2> QED BY <2>1, <2>3, <2>4, IsSearchOrder
<1>3. SearchOrder(InterfacesFirst)
  <2>1. PICK above : above = InterfacesFirst
    OBVIOUS
  <2>2. \A n \in Loaded : above[n] = mClasses[n].interfaces \o Super(n)
    BY <2>1 DEF InterfacesFirst
  <2>3. above = [n \in Loaded |-> above[n]]
    BY <2>1 DEF InterfacesFirst
  <2>4. ASSUME NEW n \in Loaded
        PROVE  /\ above[n] \in Seq(Loaded)
               /\ Range(above[n]) = Range(Super(n)) \cup Range(mClasses[n].interfaces)
    <3>1. /\ mClasses[n].interfaces \o Super(n) \in Seq(Loaded)
          /\ Range(mClasses[n].interfaces \o Super(n)) = Range(mClasses[n].interfaces) \cup Range(Super(n))
      BY <1>1, JoinedLists
    <3> QED BY <2>2, <3>1
  <2> QED BY <2>1, <2>3, <2>4, IsSearchOrder
<1> QED
  BY <1>2, <1>3

LEMMA OrdersStaySearchOrders ==
  ASSUME NoCircularInheritance
  PROVE  (IInv /\ LinkInv => SearchOrder(SuperFirst) /\ SearchOrder(InterfacesFirst))'
<1>1. IInv /\ LinkInv => SearchOrder(SuperFirst) /\ SearchOrder(InterfacesFirst)
  BY OrdersAreSearchOrders
<1> QED
  BY <1>1, PTL

(* A search that starts in a prepared class stays among prepared classes, which *)
(* a step leaves as they are.                                                   *)
LEMMA PreparedLeadToPrepared ==
  ASSUME TableIsLinked, NEW above, SearchOrder(above), NEW n \in Prepared
  PROVE  n \in Loaded /\ Range(above[n]) \subseteq Prepared
<1>1. n \in Loaded /\ LinksAreIn(mClasses[n], Prepared \cup {NoClass})
  BY DEF TableIsLinked, CompleteInv, Prepared, Loaded
<1>2. mClasses[n].interfaces \in Seq(Loaded) /\ NoClass \notin Loaded
  <2>1. NoClass \notin Loaded
    BY DeclaredNames, InstanceNames DEF TableIsLinked, LinkInv, FilesAreFound, Loaded
  <2> QED BY <1>1, <2>1, LinksOfClass DEF TableIsLinked
<1>3. Range(mClasses[n].interfaces) \subseteq Prepared
  <2>1. Range(mClasses[n].interfaces) \subseteq Loaded
    BY <1>2, InRange
  <2>2. Range(mClasses[n].interfaces) \subseteq Prepared \cup {NoClass}
    BY <1>1, <1>2, ListFacts DEF LinksAreIn, Range
  <2> QED BY <1>2, <2>1, <2>2
<1> QED
  BY <1>1, <1>3 DEF SearchOrder, LinksAreIn

LEMMA LookupStays ==
  ASSUME NoCircularInheritance, TableIsLinked, TableIsLinked', Extends, path' = path,
         NEW entry, entry.class \in Prepared
  PROVE  Lookup(entry)' = Lookup(entry)
<1>1. PICK old, new : old = mClasses /\ new = mClasses'
  OBVIOUS
<1>2. PICK P : P = Prepared
  OBVIOUS
<1>3. P \subseteq Loaded /\ P \subseteq Loaded' /\ \A n \in P : new[n] = old[n]
  BY <1>1, <1>2 DEF Extends, Prepared, Loaded
<1>4. \A n \in P : Super(n)' = Super(n)
  BY <1>1, <1>3 DEF Super
<1>5. ASSUME NEW above, SearchOrder(above), NEW more, AreLists(Loaded', more),
             \A n \in P : more[n] = above[n],
             NEW sought, NEW wanted, \A n \in P : n \in sought <=> n \in wanted
      PROVE  \A n \in P : FirstFound(sought, above)[n] = FirstFound(wanted, more)[n]
  <2>1. \A n \in P : more[n] = above[n] /\ Range(above[n]) \subseteq P
    BY <1>2, <1>5, PreparedLeadToPrepared
  <2>2. P \subseteq Loaded \cap Loaded' /\ AreLists(Loaded, above)
    BY <1>3, <1>5 DEF SearchOrder
  <2>3. PICK L, M : L = Loaded /\ M = Loaded'
    OBVIOUS
  <2>4. AreLists(L, above) /\ AreLists(M, more) /\ P \subseteq L \cap M
    BY <1>5, <2>2, <2>3
  <2>5. \A n \in P : n \in sought <=> n \in wanted
    BY <1>5
  <2> QED BY ONLY <2>1, <2>4, <2>5, SearchesAgree
<1>6. /\ SearchOrder(SuperFirst) /\ SearchOrder(InterfacesFirst)
  BY OrdersAreSearchOrders DEF TableIsLinked
<1>7. (SearchOrder(SuperFirst) /\ SearchOrder(InterfacesFirst))'
  BY OrdersStaySearchOrders DEF TableIsLinked
<1>8. CASE entry.kind = "method"
  <2>1. PICK above, more : above = SuperFirst /\ more = SuperFirst'
    OBVIOUS
  <2>2. PICK m : m = entry.member
    OBVIOUS
  <2>3. PICK sought, wanted : sought = Declarers(m) /\ wanted = Declarers(m)'
    OBVIOUS
  <2>4. \A n \in P : n \in sought <=> n \in wanted
    BY <1>3, <2>3 DEF Declarers, DeclaresMethod, Search
  <2>5. \A n \in P : more[n] = above[n]
    BY <1>1, <1>3, <1>4, <2>1 DEF SuperFirst
  <2>6. AreLists(Loaded', more)
    BY <1>7, <2>1 DEF SearchOrder
  <2>7. FirstFound(sought, above)[entry.class] = FirstFound(wanted, more)[entry.class]
    BY <1>2, <1>5, <1>6, <2>1, <2>4, <2>5, <2>6
  <2> QED BY <1>8, <2>1, <2>2, <2>3, <2>7 DEF Lookup, VirtualMethod
<1>9. CASE entry.kind # "method"
  <2>1. PICK above, more : above = InterfacesFirst /\ more = InterfacesFirst'
    OBVIOUS
  <2>2. PICK key : key = entry.member
    OBVIOUS
  <2>3. PICK sought, wanted : /\ sought = {n \in Loaded : key \in DOMAIN mClasses[n].fields}
                              /\ wanted = {n \in Loaded' : key \in DOMAIN new[n].fields}
    OBVIOUS
  <2>4. \A n \in P : n \in sought <=> n \in wanted
    BY <1>1, <1>3, <2>3
  <2>5. \A n \in P : more[n] = above[n]
    BY <1>1, <1>3, <1>4, <2>1 DEF InterfacesFirst
  <2>6. AreLists(Loaded', more)
    BY <1>7, <2>1 DEF SearchOrder
  <2>7. FirstFound(sought, above)[entry.class] = FirstFound(wanted, more)[entry.class]
    BY <1>2, <1>5, <1>6, <2>1, <2>4, <2>5, <2>6
  <2> QED BY <1>1, <1>9, <2>1, <2>2, <2>3, <2>7 DEF Lookup, LookupField
<1> QED
  BY <1>8, <1>9

-----------------------------------------------------------------------------
(* The constant pool. *)

PoolInv == \A entry \in DOMAIN pool : entry.class \in Prepared /\ pool[entry] = Lookup(entry)

LEMMA PathStays ==
  ASSUME [Next]_vars
  PROVE  path' = path
<1>1. CASE UNCHANGED vars
  BY <1>1 DEF vars
<1>2. CASE Prepare
  BY <1>2 DEF Prepare, LoadNested, FailNested, LinkSuperClass, LinkSuperInterface, LinkElement,
              LinkFields, CreateClassObject
<1>3. CASE Boot
  BY <1>3 DEF Boot, SetUpJavaLangClass, RequireClass, RequiredIsMissing, Initialized
<1>4. ASSUME NEW name, LoadClass(name) \/ FindClass(name) \/ ClassNotFound(name)
      PROVE  path' = path
  BY <1>4 DEF LoadClass, FindClass, ClassNotFound
<1>5. CASE Ended
  BY <1>5 DEF Ended, vars
<1> QED
  BY <1>1, <1>2, <1>3, <1>4, <1>5 DEF Next

LEMMA IdleSeesPrepared ==
  ASSUME IInv, Idle
  PROVE  Loaded = Prepared /\ JavaLangClass \in Prepared
<1>1. DOMAIN preparing = {} /\ JavaLangClass \in Loaded
  BY DEF IInv, Progress, Busy, Idle, Loaded
<1>2. \A n \in Loaded : mClasses[n].status = "Prepared"
  BY <1>1 DEF IInv, UnpreparedAreOnStack, OnStack, Loaded
<1> QED
  BY <1>1, <1>2 DEF Prepared

LEMMA FailureKeepsTable ==
  ASSUME TableIsLinked, NEW entry, ResolveFails(entry)
  PROVE  TableIsLinked'
<1>1. /\ phase' \in {"Panicked", "Undefined"} /\ UNCHANGED <<path, mClasses, preparing, answer>>
  BY DEF ResolveFails
<1>2. LinkInv'
  BY <1>1, UnchangedKeepsLinks DEF TableIsLinked
<1>3. CompleteInv'
  BY <1>1 DEF TableIsLinked, CompleteInv, Prepared, Loaded
<1>4. UnpreparedAreOnStack' /\ NoCircularPreparation'
  BY <1>1 DEF TableIsLinked, IInv, UnpreparedAreOnStack, OnStack, NoCircularPreparation
<1>5. Shapes'
  BY <1>1 DEF TableIsLinked, IInv, Shapes
<1>6. Progress' /\ RequestIsServed'
  BY <1>1 DEF TableIsLinked, IInv, Progress, RequestIsServed, Busy, Prepared, Loaded
<1> QED
  BY <1>2, <1>3, <1>4, <1>5, <1>6 DEF TableIsLinked, IInv

LEMMA SameTable ==
  ASSUME UNCHANGED <<path, mClasses>>, NEW entry
  PROVE  Lookup(entry)' = Lookup(entry) /\ Prepared' = Prepared
<1>1. Prepared' = Prepared
  BY DEF Prepared, Loaded
<1>2. Lookup(entry)' = Lookup(entry)
  BY DEF Lookup, VirtualMethod, LookupField, Declarers, DeclaresMethod, Search, SuperFirst,
         InterfacesFirst, Super, Loaded
<1> QED
  BY <1>1, <1>2

LEMMA PoolStep ==
  ASSUME NoCircularInheritance, TableIsLinked, PoolInv, [PoolNext]_poolVars
  PROVE  TableIsLinked' /\ PoolInv'
<1>1. ASSUME UNCHANGED <<path, mClasses, pool>> PROVE PoolInv'
  BY <1>1, SameTable DEF PoolInv
<1>2. CASE UNCHANGED poolVars
  <2>1. UNCHANGED vars
    BY <1>2 DEF poolVars
  <2>2. [Next]_vars
    BY <2>1
  <2>3. TableIsLinked'
    BY <2>2, NextKeeps, NextKeepsLinks, NextKeepsComplete DEF TableIsLinked
  <2> QED BY <1>1, <1>2, <2>3 DEF poolVars, vars
<1>3. CASE Next /\ UNCHANGED pool
  <2>1. TableIsLinked' /\ Extends
    BY <1>3, NextKeeps, NextKeepsLinks, NextKeepsComplete DEF TableIsLinked
  <2>2. path' = path
    BY <1>3, PathStays
  <2>3. ASSUME NEW entry \in DOMAIN pool
        PROVE  entry.class \in Prepared' /\ pool[entry] = Lookup(entry)'
    <3>1. entry.class \in Prepared /\ pool[entry] = Lookup(entry)
      BY <2>3 DEF PoolInv
    <3>2. entry.class \in Prepared'
      BY <2>1, <3>1 DEF Extends, Prepared, Loaded
    <3> QED BY <2>1, <2>2, <3>1, <3>2, LookupStays
  <2> QED BY <1>3, <2>1, <2>3 DEF PoolInv
<1>4. ASSUME NEW entry, Resolve(entry) PROVE TableIsLinked' /\ PoolInv'
  <2>1. UNCHANGED vars /\ Idle /\ Found(entry.class)
    BY <1>4 DEF Resolve
  <2>2. TableIsLinked'
    <3>1. [Next]_vars
      BY <2>1
    <3> QED BY <3>1, NextKeeps, NextKeepsLinks, NextKeepsComplete DEF TableIsLinked
  <2>3. entry.class \in Prepared
    BY <2>1, IdleSeesPrepared DEF TableIsLinked, Found, Loaded
  <2>4. /\ DOMAIN pool' = DOMAIN pool \cup {entry}
        /\ \A e \in DOMAIN pool' : pool'[e] = IF e = entry THEN Lookup(entry) ELSE pool[e]
    BY <1>4 DEF Resolve, CacheKey
  <2>5. ASSUME NEW e \in DOMAIN pool' PROVE e.class \in Prepared' /\ pool'[e] = Lookup(e)'
    <3>1. e.class \in Prepared /\ pool'[e] = Lookup(e)
      BY <2>3, <2>4, <2>5 DEF PoolInv
    <3>2. UNCHANGED <<path, mClasses>>
      BY <2>1 DEF vars
    <3> QED BY <3>1, <3>2, SameTable
  <2> QED BY <2>2, <2>5 DEF PoolInv
<1>5. ASSUME NEW entry, ResolveFails(entry) PROVE TableIsLinked' /\ PoolInv'
  <2>1. UNCHANGED <<path, mClasses, pool>>
    BY <1>5 DEF ResolveFails
  <2> QED BY <1>1, <1>5, <2>1, FailureKeepsTable
<1> QED
  BY <1>2, <1>3, <1>4, <1>5 DEF PoolNext

LEMMA PoolInvHolds ==
  ASSUME NoCircularInheritance
  PROVE  PoolSpec => [](TableIsLinked /\ PoolInv)
<1>1. PoolInit => TableIsLinked /\ PoolInv
  BY InitHolds, InitLinked DEF PoolInit, Init, TableIsLinked, CompleteInv, PoolInv
<1>2. TableIsLinked /\ PoolInv /\ [PoolNext]_poolVars => (TableIsLinked /\ PoolInv)'
  BY PoolStep
<1> QED
  BY <1>1, <1>2, PTL DEF PoolSpec

(***************************************************************************)
(* What a constant pool has resolved once is what a lookup would find now, *)
(* whatever was loaded and linked since                                    *)
(* (RuntimeConstantPool::getMethodRef, getFieldRef): an entry is resolved  *)
(* for a prepared class, and prepared classes lead only to prepared        *)
(* classes, which no step changes.                                         *)
(***************************************************************************)
THEOREM CachesStayRight ==
  ASSUME NoCircularInheritance
  PROVE  PoolSpec => []CachedAnswersAreCurrent
<1>1. PoolInv => CachedAnswersAreCurrent
  BY DEF PoolInv, CachedAnswersAreCurrent, CacheKey
<1> QED
  BY <1>1, PoolInvHolds, PTL

-----------------------------------------------------------------------------
(* What the table holds while the program runs, and the supertypes of the language. *)

(* The classes the program sees are linked to all they declare. *)
LEMMA DirectAreDeclared ==
  ASSUME path \in ClassPaths, NEW n \in Name, Loadable(n)
  PROVE  DirectSupertypes(n) = Declared(n)
<1>1. CASE IsArray(n)
  BY <1>1, DeclaredByArray DEF DirectSupertypes
<1>2. CASE ~IsArray(n)
  <2>1. IsClassFile(Search(n))
    BY <1>2, SearchFacts
  <2>2. PICK s, l : s = Search(n).super /\ l = Search(n).interfaces
    OBVIOUS
  <2>3. "" \notin Range(l)
    <3>1. l \in Seq(BaseNames)
      BY <2>1, <2>2 DEF IsClassFile
    <3>2. Range(l) \subseteq BaseNames
      BY <3>1, InRange
    <3> QED BY <3>2, BaseNamesAssumption
  <2>4. \A b : Instance(b) = NoClass <=> b = ""
    <3>1. \A b : Instance(b).base = b
      BY InstanceNames
    <3>2. NoClass = Instance("") /\ NoClass.base = ""
      BY <3>1 DEF NoClass
    <3> QED BY <3>1, <3>2
  <2>5. DirectSupertypes(n) = {Instance(i) : i \in Range(l)} \cup IF s = "" THEN {} ELSE {Instance(s)}
    BY <1>2, <2>2 DEF DirectSupertypes
  <2>6. \A x : x \in Declared(n) <=>
                 x # NoClass /\ (x = Instance(s) \/ \E i \in Range(l) : x = Instance(i))
    BY <1>2, <2>2, DeclaredByFile
  <2>7. \A x : x \in DirectSupertypes(n) <=>
                 (s # "" /\ x = Instance(s)) \/ \E i \in Range(l) : x = Instance(i)
    BY <2>5
  <2>8. \A x : x \in DirectSupertypes(n) <=> x \in Declared(n)
    <3> SUFFICES ASSUME NEW x PROVE x \in DirectSupertypes(n) <=> x \in Declared(n)
      OBVIOUS
    <3>1. x = Instance(s) => (x # NoClass <=> s # "")
      BY <2>4
    <3>2. ASSUME NEW i \in Range(l), x = Instance(i) PROVE x # NoClass
      BY <2>3, <2>4, <3>2
    <3> QED BY ONLY <2>6, <2>7, <3>1, <3>2
  <2> QED BY <2>8
<1> QED
  BY <1>1, <1>2

LEMMA IdleTable ==
  ASSUME TableIsLinked, Idle, NEW n \in Loaded
  PROVE  /\ path \in ClassPaths /\ n \in Name /\ Loadable(n)
         /\ DirectSupertypes(n) \subseteq Loaded /\ DirectSupertypes(n) = Declared(n)
         /\ DirectSupertypes(n) = ({mClasses[n].super} \ {NoClass}) \cup Range(mClasses[n].interfaces)
         /\ mClasses[n].element = ElementOf(n)
         /\ IsArray(n) /\ ~IsPrimitive(ElementType(n)) => ElementType(n) \in Loaded
         /\ mClasses[n].super = SuperOf(n) /\ mClasses[n].interfaces = InterfacesOf(n)
<1>1. PICK class : class = mClasses[n]
  OBVIOUS
<1>2. /\ class.super = SuperOf(n) /\ class.interfaces = InterfacesOf(n)
      /\ class.element = ElementOf(n)
      /\ class.element \in Loaded \cup {NoClass}
  <2>1. n \in Prepared /\ Prepared = Loaded
    BY IdleSeesPrepared DEF TableIsLinked
  <2>2. PreparedClassesAreComplete
    BY PreparedAreComplete DEF TableIsLinked
  <2> QED BY <1>1, <2>1, <2>2 DEF PreparedClassesAreComplete
<1>3. /\ path \in ClassPaths /\ n \in Name /\ Loadable(n)
      /\ class.super \in Loaded \cup {NoClass} /\ class.interfaces \in Seq(Loaded)
  BY <1>1, LinksOfClass DEF TableIsLinked
<1>4. Range(class.interfaces) \subseteq Loaded
  BY <1>3, InRange
<1>5. NoClass \notin Loaded
  <2>1. \A x \in Loaded : x \in Name
    BY LinksOfClass DEF TableIsLinked
  <2> QED BY <2>1, InstanceNames
<1>6. DirectSupertypes(n) = Declared(n)
  BY <1>3, DirectAreDeclared
<1>7. Declared(n) = ({class.super} \ {NoClass}) \cup Range(class.interfaces)
  BY <1>2, <1>4, <1>5 DEF Declared
<1>8. ASSUME IsArray(n), ~IsPrimitive(ElementType(n)) PROVE ElementType(n) \in Loaded
  <2>1. ElementOf(n) = ElementType(n)
    BY <1>8 DEF ElementOf
  <2>2. ElementType(n) \in Name
    BY <1>3, <1>8, ElementFacts
  <2> QED BY <1>2, <2>1, <2>2, InstanceNames
<1> QED
  BY <1>1, <1>2, <1>3, <1>4, <1>6, <1>7, <1>8

LEMMA ArrayOfFacts ==
  ASSUME NEW n \in Name
  PROVE  /\ ArrayOf(n) \in Name /\ IsArray(ArrayOf(n)) /\ ElementType(ArrayOf(n)) = n
         /\ IsArray(n) => ArrayOf(ElementType(n)) = n
         /\ IsArray(n) <=> n.dimensions # 0
<1>1. PICK b \in BaseNames, d \in Nat : n = [base |-> b, dimensions |-> d]
  BY DEF Name
<1>2. ArrayOf(n) = [base |-> b, dimensions |-> d + 1] /\ ElementType(n) = [base |-> b, dimensions |-> d - 1]
  BY <1>1 DEF ArrayOf, ElementType
<1>3. ElementType([base |-> b, dimensions |-> d + 1]) = [base |-> b, dimensions |-> d]
  BY DEF ElementType
<1>4. ArrayOf([base |-> b, dimensions |-> d - 1]) = [base |-> b, dimensions |-> d]
  BY DEF ArrayOf
<1>5. IsArray(ArrayOf(n)) /\ ArrayOf(n) \in Name
  BY <1>2 DEF IsArray, Name
<1>6. IsArray(n) <=> n.dimensions # 0
  BY <1>1 DEF IsArray
<1> QED
  BY <1>1, <1>2, <1>3, <1>4, <1>5, <1>6

(* The supertypes are what they are defined to be. *)
ArraySupertypes(n) ==
  IF IsArray(n) /\ ~IsPrimitive(ElementType(n))
  THEN {ArrayOf(s) : s \in Supertypes[ElementType(n)]}
  ELSE {}

LEMMA SupertypesDefined ==
  ASSUME NoCircularInheritance, TableIsLinked, Idle
  PROVE  /\ \A n \in Loaded :
              Supertypes[n] = {n} \cup (UNION {Supertypes[s] : s \in DirectSupertypes(n)})
                              \cup ArraySupertypes(n)
         /\ \A n \in Loaded : Supertypes[n] \subseteq Name
<1> DEFINE V == SUBSET Name
           Reaches(n) == IsArray(n) /\ ~IsPrimitive(ElementType(n))
           Inherits(n, f) == UNION {f[s] : s \in DirectSupertypes(n)}
           Arrays(n, f) == IF Reaches(n) THEN {ArrayOf(s) : s \in f[ElementType(n)]} ELSE {}
           Body(n, f) == {n} \cup Inherits(n, f) \cup Arrays(n, f)
           below == [n \in Loaded |-> DirectSupertypes(n) \cup IF Reaches(n) THEN {ElementType(n)} ELSE {}]
           body == [p \in Loaded \X [Loaded -> V] |-> Body(p[1], p[2])]
           Def(f) == [n \in Loaded |-> Body(n, f)]
<1>1. \A n \in Loaded : /\ n \in Name /\ DirectSupertypes(n) \subseteq Loaded
                        /\ DirectSupertypes(n) = Declared(n)
                        /\ Reaches(n) => ElementType(n) \in Loaded
  BY IdleTable
<1>2. \A n \in Loaded, f \in [Loaded -> V] : body[<<n, f>>] = Body(n, f)
  <2> HIDE DEF V, Body
  <2> QED OBVIOUS
<1>3. IsRecursive(Loaded, V, below, body)
  <2>1. IsFounded(Loaded, below)
    <3> SUFFICES ASSUME NEW T \in SUBSET Loaded, T # {} PROVE \E n \in T : below[n] \cap T = {}
      BY DEF IsFounded
    <3>1. PICK n \in T : Declared(n) \cap T = {} /\ (IsArray(n) => ElementType(n) \notin T)
      BY FoundedTable DEF TableIsLinked
    <3>2. n \in Loaded /\ (Reaches(n) => IsArray(n))
      OBVIOUS
    <3>3. below[n] = Declared(n) \cup IF Reaches(n) THEN {ElementType(n)} ELSE {}
      <4> HIDE DEF Reaches
      <4> QED BY <1>1, <3>2
    <3> HIDE DEF below, Reaches
    <3> QED BY <3>1, <3>2, <3>3
  <2>2. \A n \in Loaded : below[n] \subseteq Loaded
    <3> HIDE DEF Reaches
    <3> QED BY <1>1
  <2>3. ASSUME NEW n \in Loaded, NEW f \in [Loaded -> V] PROVE body[<<n, f>>] \in V
    <3>1. \A s \in Loaded : f[s] \subseteq Name
      OBVIOUS
    <3>2. UNION {f[s] : s \in DirectSupertypes(n)} \subseteq Name
      BY <1>1, <3>1
    <3>3. Reaches(n) => {ArrayOf(s) : s \in f[ElementType(n)]} \subseteq Name
      <4> HIDE DEF Reaches
      <4> QED BY <1>1, <3>1, ArrayOfFacts
    <3>4. Body(n, f) \subseteq Name
      <4>1. Inherits(n, f) \subseteq Name
        BY <3>2
      <4>2. Arrays(n, f) \subseteq Name
        <5> HIDE DEF Reaches
        <5> QED BY <3>3
      <4> HIDE DEF Inherits, Arrays
      <4> QED BY <1>1, <4>1, <4>2
    <3> HIDE DEF Body, body
    <3> QED BY <1>2, <3>4
  <2>4. ASSUME NEW n \in Loaded, NEW f \in [Loaded -> V], NEW g \in [Loaded -> V],
               \A m \in below[n] : f[m] = g[m]
        PROVE  body[<<n, f>>] = body[<<n, g>>]
    <3>1. \A s \in DirectSupertypes(n) : f[s] = g[s]
      <4> HIDE DEF V, body, Reaches
      <4> QED BY <2>4
    <3>2. Reaches(n) => f[ElementType(n)] = g[ElementType(n)]
      <4> HIDE DEF V, body, Reaches
      <4> QED BY <2>4
    <3>3. {f[s] : s \in DirectSupertypes(n)} = {g[s] : s \in DirectSupertypes(n)}
      BY <3>1
    <3>4. Body(n, f) = Body(n, g)
      <4> HIDE DEF V, body, below, Reaches
      <4> QED BY <3>2, <3>3
    <3> HIDE DEF V, Body, body, below
    <3> QED BY <1>2, <3>4
  <2> HIDE DEF V, body, below
  <2> QED BY <2>1, <2>2, <2>3, <2>4 DEF IsRecursive
<1>4. PICK f \in [Loaded -> V] : \A n \in Loaded : f[n] = body[<<n, f>>]
  <2>1. V # {}
    OBVIOUS
  <2> HIDE DEF V, body, below
  <2> QED BY <1>3, <2>1, Recursion
<1>5. f = Def(f)
  <2>1. \A n \in Loaded : f[n] = Body(n, f)
    <3> HIDE DEF V, body, Body
    <3> QED BY <1>2, <1>4
  <2>2. f = [n \in Loaded |-> f[n]]
    <3> HIDE DEF V
    <3> QED OBVIOUS
  <2> HIDE DEF Body
  <2> QED BY <2>1, <2>2
<1>6. Supertypes = CHOOSE g : g = Def(g)
  BY DEF Supertypes
<1>7. Supertypes = Def(Supertypes)
  <2> HIDE DEF Def
  <2> QED BY <1>5, <1>6
<1>8. \A n \in Loaded : Supertypes[n] = Body(n, Supertypes)
  <2> HIDE DEF Body
  <2> QED BY <1>7
<1>9. \A n \in Loaded : Supertypes[n] \subseteq Name
  <2> DEFINE T == {n \in Loaded : ~(Supertypes[n] \subseteq Name)}
  <2> SUFFICES ASSUME T # {} PROVE FALSE
    OBVIOUS
  <2>1. T \in SUBSET Loaded
    OBVIOUS
  <2>2. PICK n \in T : Declared(n) \cap T = {} /\ (IsArray(n) => ElementType(n) \notin T)
    <3> HIDE DEF T
    <3> QED BY <2>1, FoundedTable DEF TableIsLinked
  <2>3. n \in Loaded /\ ~(Supertypes[n] \subseteq Name) /\ (Reaches(n) => IsArray(n))
    OBVIOUS
  <2>4. \A s \in DirectSupertypes(n) : Supertypes[s] \subseteq Name
    BY <1>1, <2>2, <2>3
  <2>5. Reaches(n) => Supertypes[ElementType(n)] \subseteq Name
    <3> HIDE DEF Reaches
    <3> QED BY <1>1, <2>2, <2>3
  <2>6. Reaches(n) => {ArrayOf(s) : s \in Supertypes[ElementType(n)]} \subseteq Name
    <3> HIDE DEF Reaches
    <3> QED BY <2>5, ArrayOfFacts
  <2>7. Body(n, Supertypes) \subseteq Name
    <3>1. Inherits(n, Supertypes) \subseteq Name
      BY <2>4
    <3>2. Arrays(n, Supertypes) \subseteq Name
      <4> HIDE DEF Reaches
      <4> QED BY <2>6
    <3> HIDE DEF Inherits, Arrays
    <3> QED BY <1>1, <2>3, <3>1, <3>2
  <2> HIDE DEF Body, T
  <2> QED BY <1>8, <2>3, <2>7
<1>10. \A n \in Loaded : Body(n, Supertypes) =
         {n} \cup (UNION {Supertypes[s] : s \in DirectSupertypes(n)}) \cup ArraySupertypes(n)
  BY DEF ArraySupertypes
<1> HIDE DEF Body
<1> QED
  BY <1>8, <1>9, <1>10

-----------------------------------------------------------------------------
(* Selecting methods. *)

LEMMA FirstIsMember ==
  ASSUME NEW S, NEW list \in Seq(S), NEW f, NEW x, x = FirstOf(f, list)
  PROVE  \/ x = NoClass /\ \A m \in Range(list) : f[m] = NoClass
         \/ x # NoClass /\ \E m \in Range(list) : x = f[m]
<1>1. IsFirst(f, list, x)
  BY FirstOfFacts
<1>2. Range(list) = {list[i] : i \in 1..Len(list)}
  BY ListFacts DEF Range
<1> QED
  BY <1>1, <1>2 DEF IsFirst

LEMMA SearchStep ==
  ASSUME NEW L, NEW above, AreLists(L, above), NEW D, NEW f, f = FirstFound(D, above), NEW n \in L
  PROVE  f[n] = IF n \in D THEN n ELSE FirstOf(f, above[n])
BY FirstFoundDefined

(* Where the superclass finds a method, so does the class. *)
LEMMA FirstOfSuper ==
  ASSUME NEW S, NEW s \in S, NEW l \in Seq(S), NEW f, f[s] # NoClass
  PROVE  FirstOf(f, <<s>> \o l) = f[s]
<1>1. PICK list : list = <<s>> \o l
  OBVIOUS
<1>2. list \in Seq(S) /\ list[1] = s /\ Len(list) >= 1
  BY <1>1
<1>3. PICK x : x = FirstOf(f, list)
  OBVIOUS
<1>4. IsFirst(f, list, x)
  BY <1>2, <1>3, FirstOfFacts
<1>5. 1 \in 1..Len(list)
  BY <1>2
<1>6. PICK i \in 1..Len(list) : x = f[list[i]] /\ \A k \in 1..i - 1 : f[list[k]] = NoClass
  BY <1>2, <1>4, <1>5 DEF IsFirst
<1>7. i = 1
  <2>1. i # 1 => 1 \in 1..i - 1
    BY <1>5
  <2> QED BY <1>2, <1>6, <2>1
<1> QED
  BY <1>1, <1>2, <1>3, <1>6, <1>7

SupersOnly == [n \in Loaded |-> Super(n)]

LEMMA SuperOrder ==
  ASSUME NoCircularInheritance, IInv, LinkInv
  PROVE  AreLists(Loaded, SupersOnly)
<1>1. \A n \in Loaded : SupersOnly[n] = Super(n) /\ Super(n) \in Seq(Loaded)
  BY SuperList DEF SupersOnly
<1>2. \A n \in Loaded : Range(SupersOnly[n]) \subseteq Declared(n)
  BY <1>1, SuperList, LinksOfClass
<1>3. ASSUME NEW T \in SUBSET Loaded, T # {}
      PROVE  \E n \in T : Range(SupersOnly[n]) \cap T = {}
  <2>1. PICK n \in T : Declared(n) \cap T = {}
    BY <1>3, FoundedTable
  <2> QED BY <1>2, <2>1
<1>4. SupersOnly = [n \in Loaded |-> SupersOnly[n]]
  BY DEF SupersOnly
<1> QED
  BY <1>1, <1>3, <1>4 DEF AreLists

LEMMA SuperclassesAreSearchedFirst ==
  ASSUME NoCircularInheritance, IInv, LinkInv, NEW D,
         NEW cm, cm = FirstFound(D, SupersOnly), NEW vm, vm = FirstFound(D, SuperFirst)
  PROVE  \A n \in Loaded : cm[n] # NoClass => vm[n] = cm[n]
<1> DEFINE T == {n \in Loaded : cm[n] # NoClass /\ vm[n] # cm[n]}
<1> SUFFICES ASSUME T # {} PROVE FALSE
  OBVIOUS
<1>1. T \in SUBSET Loaded
  OBVIOUS
<1>2. PICK n \in T : Declared(n) \cap T = {}
  <2> HIDE DEF T
  <2> QED BY <1>1, FoundedTable
<1>3. n \in Loaded /\ cm[n] # NoClass /\ vm[n] # cm[n]
  OBVIOUS
<1>4. /\ cm[n] = IF n \in D THEN n ELSE FirstOf(cm, Super(n))
      /\ vm[n] = IF n \in D THEN n ELSE FirstOf(vm, Super(n) \o mClasses[n].interfaces)
  <2>1. AreLists(Loaded, SupersOnly) /\ AreLists(Loaded, SuperFirst)
    BY SuperOrder, OrdersAreSearchOrders DEF SearchOrder
  <2>2. SupersOnly[n] = Super(n) /\ SuperFirst[n] = Super(n) \o mClasses[n].interfaces
    BY <1>3 DEF SupersOnly, SuperFirst
  <2>3. cm[n] = IF n \in D THEN n ELSE FirstOf(cm, SupersOnly[n])
    BY <1>3, <2>1, SearchStep
  <2>4. vm[n] = IF n \in D THEN n ELSE FirstOf(vm, SuperFirst[n])
    BY <1>3, <2>1, SearchStep
  <2> QED BY <2>2, <2>3, <2>4
<1>5. Super(n) \in Seq(Loaded) /\ mClasses[n].interfaces \in Seq(Loaded)
  BY <1>3, SuperList
<1>6. cm[n] = FirstOf(cm, Super(n)) /\ vm[n] = FirstOf(vm, Super(n) \o mClasses[n].interfaces)
  BY <1>3, <1>4
<1>7. PICK s \in Range(Super(n)) : cm[n] = cm[s]
  BY <1>3, <1>5, <1>6, FirstIsMember
<1>8. s = mClasses[n].super /\ s # NoClass /\ s \in Loaded /\ s \in Declared(n)
  BY <1>3, SuperList, LinksOfClass
<1>9. Super(n) = <<s>>
  BY <1>8 DEF Super
<1>10. vm[s] = cm[s]
  BY <1>2, <1>3, <1>7, <1>8
<1>11. vm[n] = vm[s]
  BY <1>3, <1>5, <1>6, <1>7, <1>8, <1>9, <1>10, FirstOfSuper
<1> QED
  BY <1>3, <1>7, <1>10, <1>11

LEMMA ArraySupertypeFacts ==
  ASSUME NoCircularInheritance, TableIsLinked, Idle, NEW n \in Loaded, NEW x
  PROVE  x \in ArraySupertypes(n) <=>
           /\ IsArray(n) /\ ~IsPrimitive(ElementType(n)) /\ ElementType(n) \in Loaded
           /\ x \in Name /\ IsArray(x) /\ ElementType(x) \in Supertypes[ElementType(n)]
<1>1. CASE ~(IsArray(n) /\ ~IsPrimitive(ElementType(n)))
  BY <1>1 DEF ArraySupertypes
<1>2. CASE IsArray(n) /\ ~IsPrimitive(ElementType(n))
  <2>1. ArraySupertypes(n) = {ArrayOf(s) : s \in Supertypes[ElementType(n)]}
    BY <1>2 DEF ArraySupertypes
  <2>2. ElementType(n) \in Loaded /\ Supertypes[ElementType(n)] \subseteq Name
    BY <1>2, IdleTable, SupertypesDefined
  <2>3. ASSUME NEW s \in Supertypes[ElementType(n)]
        PROVE  /\ ArrayOf(s) \in Name /\ IsArray(ArrayOf(s)) /\ ElementType(ArrayOf(s)) = s
    BY <2>2, <2>3, ArrayOfFacts
  <2>4. x \in Name /\ IsArray(x) => ArrayOf(ElementType(x)) = x
    BY ArrayOfFacts
  <2> QED BY <1>2, <2>1, <2>2, <2>3, <2>4
<1> QED
  BY <1>1, <1>2

(* The supertypes of a class are loaded classes, those of an array also arrays. *)
LEMMA SupertypeKinds ==
  ASSUME NoCircularInheritance, TableIsLinked, Idle
  PROVE  \A n \in Loaded : \A s \in Supertypes[n] :
           (IsArray(s) => IsArray(n)) /\ (~IsArray(s) => s \in Loaded)
<1> DEFINE Good(n, s) == (IsArray(s) => IsArray(n)) /\ (~IsArray(s) => s \in Loaded)
           T == {n \in Loaded : ~\A s \in Supertypes[n] : Good(n, s)}
<1> SUFFICES ASSUME T # {} PROVE FALSE
  OBVIOUS
<1>1. T \in SUBSET Loaded
  OBVIOUS
<1>2. PICK n \in T : Declared(n) \cap T = {}
  <2> HIDE DEF T
  <2> QED BY <1>1, FoundedTable DEF TableIsLinked
<1>3. n \in Loaded /\ ~\A s \in Supertypes[n] : Good(n, s)
  OBVIOUS
<1>4. PICK s \in Supertypes[n] : ~Good(n, s)
  BY <1>3
<1>5. CASE s = n
  BY <1>3, <1>4, <1>5
<1>6. ASSUME NEW d \in DirectSupertypes(n), s \in Supertypes[d] PROVE FALSE
  <2>1. d \in Loaded /\ d \in Declared(n) /\ path \in ClassPaths /\ n \in Name /\ Loadable(n)
    BY <1>3, <1>6, IdleTable
  <2>2. Good(d, s)
    BY <1>2, <1>6, <2>1
  <2>3. ~IsArray(d)
    <3>1. CASE IsArray(n)
      BY <2>1, <3>1, DeclaredByArray, JdkBases
    <3>2. CASE ~IsArray(n)
      <4>1. \E b : d = Instance(b)
        BY <2>1, <3>2, DeclaredByFile
      <4> QED BY <4>1, InstanceNames DEF IsArray
    <3> QED BY <3>1, <3>2
  <2> QED BY <1>4, <2>2, <2>3
<1>7. CASE s \in ArraySupertypes(n)
  BY <1>3, <1>4, <1>7, ArraySupertypeFacts
<1> QED
  BY <1>3, <1>4, <1>5, <1>6, <1>7, SupertypesDefined

(* The search finds one of the supertypes that declare what is sought, if any does. *)
FindsSupertype(n, D, x) ==
  IF Supertypes[n] \cap D = {} THEN x = NoClass ELSE x \in Supertypes[n] \cap D

LEMMA SearchFindsSupertype ==
  ASSUME NoCircularInheritance, TableIsLinked, Idle,
         NEW D, \A n \in D : n \in Loaded /\ ~IsArray(n),
         NEW vm, vm = FirstFound(D, SuperFirst)
  PROVE  \A n \in Loaded : FindsSupertype(n, D, vm[n])
<1> DEFINE T == {n \in Loaded : ~FindsSupertype(n, D, vm[n])}
<1> SUFFICES ASSUME T # {} PROVE FALSE
  OBVIOUS
<1>1. T \in SUBSET Loaded
  OBVIOUS
<1>2. PICK n \in T : Declared(n) \cap T = {}
  <2> HIDE DEF T
  <2> QED BY <1>1, FoundedTable DEF TableIsLinked
<1>3. n \in Loaded /\ ~FindsSupertype(n, D, vm[n])
  OBVIOUS
<1> HIDE DEF T
<1>4. /\ SuperFirst[n] \in Seq(Loaded) /\ Range(SuperFirst[n]) = DirectSupertypes(n)
      /\ vm[n] = IF n \in D THEN n ELSE FirstOf(vm, SuperFirst[n])
  <2>1. SearchOrder(SuperFirst)
    BY OrdersAreSearchOrders DEF TableIsLinked
  <2>2. DirectSupertypes(n) = ({mClasses[n].super} \ {NoClass}) \cup Range(mClasses[n].interfaces)
    BY <1>3, IdleTable
  <2>3. AreLists(Loaded, SuperFirst)
    BY <2>1 DEF SearchOrder
  <2>4. vm[n] = IF n \in D THEN n ELSE FirstOf(vm, SuperFirst[n])
    BY <1>3, <2>3, SearchStep
  <2> QED BY <1>3, <2>1, <2>2, <2>3, <2>4 DEF SearchOrder, AreLists
<1>5. \A s \in DirectSupertypes(n) : s \in Loaded /\ FindsSupertype(s, D, vm[s])
  <2>1. DirectSupertypes(n) = Declared(n) /\ DirectSupertypes(n) \subseteq Loaded
    BY <1>3, IdleTable
  <2> QED BY <1>2, <2>1 DEF T
<1>6. PICK A, B : /\ A = UNION {Supertypes[s] : s \in DirectSupertypes(n)} /\ B = ArraySupertypes(n)
                  /\ Supertypes[n] = {n} \cup A \cup B
  BY <1>3, SupertypesDefined
<1>7. B \cap D = {}
  BY <1>3, <1>6, ArraySupertypeFacts
<1>8. CASE n \in D
  BY <1>3, <1>4, <1>6, <1>8 DEF FindsSupertype
<1>9. CASE n \notin D
  <2>1. PICK x : x = FirstOf(vm, SuperFirst[n])
    OBVIOUS
  <2>2. \/ x = NoClass /\ \A m \in DirectSupertypes(n) : vm[m] = NoClass
        \/ x # NoClass /\ \E m \in DirectSupertypes(n) : x = vm[m]
    BY <1>4, <2>1, FirstIsMember
  <2>3. NoClass \notin D
    <3>1. \A d \in D : d \in Name
      BY IdleTable
    <3> QED BY <3>1, InstanceNames
  <2>4. CASE x = NoClass
    <3>1. \A m \in DirectSupertypes(n) : vm[m] = NoClass
      BY <2>2, <2>4
    <3>2. \A m \in DirectSupertypes(n) : Supertypes[m] \cap D = {}
      BY <1>5, <2>3, <3>1 DEF FindsSupertype
    <3>3. A \cap D = {}
      BY <1>6, <3>2
    <3> QED BY <1>3, <1>4, <1>6, <1>7, <1>9, <2>1, <2>4, <3>3 DEF FindsSupertype
  <2>5. CASE x # NoClass
    <3>1. PICK m \in DirectSupertypes(n) : x = vm[m]
      BY <2>2, <2>5
    <3>2. x \in Supertypes[m] \cap D
      BY <1>5, <2>5, <3>1 DEF FindsSupertype
    <3>3. x \in A
      BY <1>6, <3>1, <3>2
    <3> QED BY <1>3, <1>4, <1>6, <1>9, <2>1, <3>2, <3>3 DEF FindsSupertype
  <2> QED BY <2>4, <2>5
<1> QED
  BY <1>8, <1>9

(***************************************************************************)
(* A call selects the nearest method of a superclass if one declares it,   *)
(* and otherwise one of an interface above the class, if any declares it   *)
(* (JClass::getVirtualMethod).                                             *)
(***************************************************************************)
THEOREM CallsPreferSuperclasses ==
  ASSUME NoCircularInheritance
  PROVE  PoolSpec => []ClassMethodsComeFirst
<1>1. ASSUME TableIsLinked, Idle, NEW n \in Loaded, NEW m,
             NEW selected, selected = VirtualMethod(n, m),
             NEW candidates, candidates = {s \in Supertypes[n] : DeclaresMethod(s, m)}
      PROVE  IF ClassMethod(n, m) # NoClass THEN selected = ClassMethod(n, m)
             ELSE IF candidates = {} THEN selected = NoClass ELSE selected \in candidates
  <2>1. PICK D : D = Declarers(m)
    OBVIOUS
  <2>2. \A x \in D : x \in Loaded /\ ~IsArray(x) /\ DeclaresMethod(x, m)
    BY <2>1 DEF Declarers, DeclaresMethod
  <2>3. PICK vm, cm : vm = FirstFound(D, SuperFirst) /\ cm = FirstFound(D, SupersOnly)
    OBVIOUS
  <2>4. selected = vm[n] /\ ClassMethod(n, m) = cm[n]
    BY <1>1, <2>1, <2>3 DEF VirtualMethod, ClassMethod, SupersOnly
  <2>5. cm[n] # NoClass => vm[n] = cm[n]
    BY <1>1, <2>3, SuperclassesAreSearchedFirst DEF TableIsLinked
  <2>6. FindsSupertype(n, D, vm[n])
    BY <1>1, <2>2, <2>3, SearchFindsSupertype
  <2>7. candidates = Supertypes[n] \cap D
    <3>1. ASSUME NEW s \in Supertypes[n], DeclaresMethod(s, m) PROVE s \in D
      BY <1>1, <2>1, <3>1, SupertypeKinds DEF Declarers, DeclaresMethod
    <3> QED BY <1>1, <2>2, <3>1
  <2> QED BY <2>4, <2>5, <2>6, <2>7 DEF FindsSupertype
<1>2. TableIsLinked /\ PoolInv => ClassMethodsComeFirst
  BY <1>1 DEF ClassMethodsComeFirst
<1> QED
  BY <1>2, PoolInvHolds, PTL

-----------------------------------------------------------------------------
(* Superclasses and superinterfaces. *)

LEMMA AboveDefined ==
  ASSUME NEW L, NEW links, links = [n \in L |-> links[n]], \A n \in L : links[n] \subseteq L,
         IsFounded(L, links)
  PROVE  \A n \in L : /\ Above(links)[n] \subseteq L
                      /\ Above(links)[n] = links[n] \cup UNION {Above(links)[m] : m \in links[n]}
<1> DEFINE V == SUBSET L
           Union(n, f) == UNION {f[m] : m \in links[n]}
           body == [p \in L \X [L -> V] |-> links[p[1]] \cup Union(p[1], p[2])]
           Def(f) == [n \in L |-> links[n] \cup Union(n, f)]
<1>1. \A n \in L, f \in [L -> V] : body[<<n, f>>] = links[n] \cup Union(n, f)
  <2> HIDE DEF V, Union
  <2> QED OBVIOUS
<1>2. IsRecursive(L, V, links, body)
  <2>1. ASSUME NEW n \in L, NEW f \in [L -> V] PROVE body[<<n, f>>] \in V
    <3>1. \A m \in L : f[m] \subseteq L
      OBVIOUS
    <3>2. Union(n, f) \subseteq L
      BY <3>1
    <3> HIDE DEF body, Union
    <3> QED BY <1>1, <3>2
  <2>2. ASSUME NEW n \in L, NEW f \in [L -> V], NEW g \in [L -> V], \A m \in links[n] : f[m] = g[m]
        PROVE  body[<<n, f>>] = body[<<n, g>>]
    <3>1. {f[m] : m \in links[n]} = {g[m] : m \in links[n]}
      BY <2>2
    <3>2. Union(n, f) = Union(n, g)
      BY <3>1
    <3> HIDE DEF body, Union, V
    <3> QED BY <1>1, <3>2
  <2> HIDE DEF body, V
  <2> QED BY <2>1, <2>2 DEF IsRecursive
<1>3. PICK f \in [L -> V] : \A n \in L : f[n] = body[<<n, f>>]
  <2>1. V # {}
    OBVIOUS
  <2> HIDE DEF V, body
  <2> QED BY <1>2, <2>1, Recursion
<1>4. f = Def(f)
  <2>1. \A n \in L : f[n] = links[n] \cup Union(n, f)
    <3> HIDE DEF V, body, Union
    <3> QED BY <1>1, <1>3
  <2>2. f = [n \in L |-> f[n]]
    <3> HIDE DEF V
    <3> QED OBVIOUS
  <2> HIDE DEF Union
  <2> QED BY <2>1, <2>2
<1>5. DOMAIN links = L
  OBVIOUS
<1>6. PICK above : above = Above(links)
  OBVIOUS
<1>7. above = CHOOSE g : g = Def(g)
  BY <1>5, <1>6 DEF Above
<1>8. above = Def(above)
  <2> HIDE DEF Def
  <2> QED BY <1>4, <1>7
<1>9. \A n \in L : above[n] = links[n] \cup Union(n, above)
  <2> HIDE DEF Union
  <2> QED BY <1>8
<1> DEFINE T == {n \in L : ~(above[n] \subseteq L)}
<1>10. T = {}
  <2> SUFFICES ASSUME T # {} PROVE FALSE
    OBVIOUS
  <2>1. PICK n \in T : links[n] \cap T = {}
    <3>1. T \in SUBSET L
      OBVIOUS
    <3> HIDE DEF T
    <3> QED BY <3>1 DEF IsFounded
  <2>2. n \in L /\ ~(above[n] \subseteq L)
    OBVIOUS
  <2>3. \A m \in links[n] : above[m] \subseteq L
    BY <2>1, <2>2
  <2>4. Union(n, above) \subseteq L
    BY <2>3
  <2> HIDE DEF Union
  <2> QED BY <1>9, <2>2, <2>4
<1>11. \A n \in L : above[n] \subseteq L
  BY <1>10
<1> QED
  BY <1>6, <1>9, <1>11

(* The classes above a class, and the interfaces above it. *)
LEMMA AboveClass ==
  ASSUME NoCircularInheritance, IInv, LinkInv, NEW n \in Loaded, NEW s, s = mClasses[n].super
  PROVE  /\ SuperClasses(n) \subseteq Loaded
         /\ s = NoClass => SuperClasses(n) = {}
         /\ s # NoClass => s \in Loaded /\ SuperClasses(n) = {s} \cup SuperClasses(s)
         /\ SuperInterfaces[n] \subseteq Loaded
         /\ SuperInterfaces[n] =
              Range(mClasses[n].interfaces)
              \cup (UNION {SuperInterfaces[i] : i \in Range(mClasses[n].interfaces)})
<1>1. PICK up, across : /\ up = [x \in Loaded |-> {mClasses[x].super} \ {NoClass}]
                        /\ across = [x \in Loaded |-> Range(mClasses[x].interfaces)]
  OBVIOUS
<1>2. \A x \in Loaded : /\ up[x] = {mClasses[x].super} \ {NoClass}
                        /\ across[x] = Range(mClasses[x].interfaces)
                        /\ up[x] \subseteq Loaded /\ across[x] \subseteq Loaded
                        /\ up[x] \subseteq Declared(x) /\ across[x] \subseteq Declared(x)
  <2> SUFFICES ASSUME NEW x \in Loaded
               PROVE  /\ up[x] = {mClasses[x].super} \ {NoClass} /\ across[x] = Range(mClasses[x].interfaces)
                      /\ up[x] \subseteq Loaded /\ across[x] \subseteq Loaded
                      /\ up[x] \subseteq Declared(x) /\ across[x] \subseteq Declared(x)
    OBVIOUS
  <2>1. up[x] = {mClasses[x].super} \ {NoClass} /\ across[x] = Range(mClasses[x].interfaces)
    BY <1>1
  <2>2. /\ mClasses[x].super \in Loaded \cup {NoClass} /\ mClasses[x].interfaces \in Seq(Loaded)
        /\ mClasses[x].super # NoClass => mClasses[x].super \in Declared(x)
        /\ Range(mClasses[x].interfaces) \subseteq Declared(x)
    BY LinksOfClass
  <2>3. Range(mClasses[x].interfaces) \subseteq Loaded
    BY <2>2, InRange
  <2> QED BY <2>1, <2>2, <2>3
<1>3. IsFounded(Loaded, up) /\ IsFounded(Loaded, across)
  <2> SUFFICES ASSUME NEW T \in SUBSET Loaded, T # {}
               PROVE  \E x \in T : up[x] \cap T = {} /\ across[x] \cap T = {}
    BY DEF IsFounded
  <2>1. PICK x \in T : Declared(x) \cap T = {}
    BY FoundedTable
  <2> QED BY <1>2, <2>1
<1>4. /\ \A x \in Loaded : /\ Above(up)[x] \subseteq Loaded
                           /\ Above(up)[x] = up[x] \cup UNION {Above(up)[m] : m \in up[x]}
  <2>1. up = [x \in Loaded |-> up[x]]
    BY <1>1
  <2> QED BY <1>2, <1>3, <2>1, AboveDefined
<1>5. /\ \A x \in Loaded : /\ Above(across)[x] \subseteq Loaded
                           /\ Above(across)[x] = across[x] \cup UNION {Above(across)[m] : m \in across[x]}
  <2>1. across = [x \in Loaded |-> across[x]]
    BY <1>1
  <2> QED BY <1>2, <1>3, <2>1, AboveDefined
<1>6. \A x : SuperClasses(x) = Above(up)[x]
  BY <1>1 DEF SuperClasses
<1>7. SuperInterfaces = Above(across)
  BY <1>1 DEF SuperInterfaces
<1>8. ASSUME s # NoClass PROVE s \in Loaded /\ SuperClasses(n) = {s} \cup SuperClasses(s)
  <2>1. up[n] = {s} /\ s \in Loaded
    BY <1>2, <1>8
  <2> QED BY <1>4, <1>6, <2>1
<1>9. ASSUME s = NoClass PROVE SuperClasses(n) = {}
  <2>1. up[n] = {}
    BY <1>2, <1>9
  <2> QED BY <1>4, <1>6, <2>1
<1> QED
  BY <1>2, <1>4, <1>5, <1>6, <1>7, <1>8, <1>9

(* The classes of Java programs: superclasses are classes, and interfaces interfaces. *)
LEMMA JavaFile ==
  ASSUME JavaHierarchies, path \in ClassPaths, NEW n \in Name, Loadable(n), ~IsArray(n),
         NEW file, file = Search(n)
  PROVE  /\ file.super = "" <=> n = JavaLangObject
         /\ file.interface => file.super = "Object"
         /\ n \in {Cloneable, Serializable} => file.interface
         /\ n \in {JavaLangObject, Cloneable, Serializable} => file.interfaces = <<>>
         /\ \A b : Loadable(Instance(b)) /\ Instance(b) \in Name =>
              /\ b = file.super => ~Search(Instance(b)).interface
              /\ b \in Range(file.interfaces) => Search(Instance(b)).interface
<1>1. n.base \in ReadableIn(path) /\ n = Instance(n.base) /\ file = FileIn(path, n.base)
  BY SearchFacts DEF Search
<1>2. \A b : n = Instance(b) <=> n.base = b
  BY <1>1, InstanceNames
<1>3. ASSUME NEW b, Loadable(Instance(b)), Instance(b) \in Name
      PROVE  b \in ReadableIn(path) /\ Search(Instance(b)) = FileIn(path, b)
  <2>1. Instance(b).base = b /\ ~IsArray(Instance(b))
    BY InstanceNames DEF IsArray
  <2> QED BY <1>3, <2>1, SearchFacts DEF Search
<1>4. /\ file.super = "" <=> n.base = "Object"
      /\ file.super \in ReadableIn(path) => ~FileIn(path, file.super).interface
      /\ \A i \in Range(file.interfaces) \cap ReadableIn(path) : FileIn(path, i).interface
      /\ file.interface => file.super = "Object"
      /\ n.base \in {"Cloneable", "Serializable"} => file.interface
      /\ n.base \in {"Object", "Cloneable", "Serializable"} => file.interfaces = <<>>
  <2>1. PICK b : b = n.base /\ b \in ReadableIn(path) /\ file = FileIn(path, b)
    BY <1>1
  <2>2. /\ FileIn(path, b).super = "" <=> b = "Object"
        /\ FileIn(path, b).super \in ReadableIn(path) => ~FileIn(path, FileIn(path, b).super).interface
        /\ \A i \in Range(FileIn(path, b).interfaces) \cap ReadableIn(path) : FileIn(path, i).interface
        /\ FileIn(path, b).interface => FileIn(path, b).super = "Object"
        /\ b \in {"Cloneable", "Serializable"} => FileIn(path, b).interface
        /\ b \in {"Object", "Cloneable", "Serializable"} => FileIn(path, b).interfaces = <<>>
    BY <2>1 DEF JavaHierarchies
  <2> QED BY ONLY <2>1, <2>2
<1> QED
  BY <1>2, <1>3, <1>4 DEF JavaLangObject, Cloneable, Serializable

IsJavaType(n) ==
  /\ mClasses[n].super = NoClass <=> n = JavaLangObject
  /\ mClasses[n].super # NoClass => mClasses[n].super \in Loaded /\ IsClassType(mClasses[n].super)
  /\ Range(mClasses[n].interfaces) \subseteq Loaded
  /\ \A i \in Range(mClasses[n].interfaces) : IsInterface(i)
  /\ IsInterface(n) \/ IsArray(n) => mClasses[n].super = JavaLangObject
  /\ n = JavaLangObject => IsClassType(n)
  /\ n \in {Cloneable, Serializable} => IsInterface(n)
  /\ n \in {JavaLangObject, Cloneable, Serializable} => Range(mClasses[n].interfaces) = {}

LEMMA JavaTypes ==
  ASSUME JavaHierarchies, TableIsLinked, Idle, NEW n \in Loaded
  PROVE  IsJavaType(n)
<1>1. /\ path \in ClassPaths /\ n \in Name /\ Loadable(n) /\ Declared(n) \subseteq Loaded
      /\ mClasses[n].super = SuperOf(n) /\ mClasses[n].interfaces = InterfacesOf(n)
  BY IdleTable
<1>2. Range(mClasses[n].interfaces) \subseteq Loaded
  <2>1. mClasses[n].interfaces \in Seq(Loaded)
    BY LinksOfClass DEF TableIsLinked
  <2> QED BY <2>1, InRange
<1>3. SuperOf(n) # NoClass => SuperOf(n) \in Loaded
  BY <1>1 DEF Declared
<1>4. \A x \in Loaded : x \in Name /\ Loadable(x)
  BY IdleTable
<1>5. JavaLangObject \in Loaded => IsClassType(JavaLangObject)
  <2> SUFFICES ASSUME JavaLangObject \in Loaded PROVE IsClassType(JavaLangObject)
    OBVIOUS
  <2>1. PICK file : file = Search(JavaLangObject)
    OBVIOUS
  <2>2. file.super = "" /\ (file.interface => file.super = "Object")
    BY <1>1, <1>4, <2>1, JavaFile, JdkBases
  <2> QED BY <2>1, <2>2, JdkBases DEF IsClassType
<1>6. \A x \in {Cloneable, Serializable} : x \in Loaded => IsInterface(x)
  <2> SUFFICES ASSUME NEW x \in {Cloneable, Serializable}, x \in Loaded PROVE IsInterface(x)
    OBVIOUS
  <2>1. ~IsArray(x)
    BY JdkBases
  <2>2. Search(x).interface
    BY <1>1, <1>4, <2>1, JavaFile
  <2> QED BY <2>1, <2>2 DEF IsInterface
<1>7. CASE IsArray(n)
  <2>1. Declared(n) = {JavaLangObject, Cloneable, Serializable}
    BY <1>7, DeclaredByArray
  <2>2. InterfacesOf(n) = <<Cloneable, Serializable>> /\ SuperOf(n) = JavaLangObject
    BY <1>7 DEF InterfacesOf, SuperOf
  <2>3. Range(InterfacesOf(n)) = {Cloneable, Serializable}
    BY <2>2 DEF Range
  <2>4. n \notin {JavaLangObject, Cloneable, Serializable} /\ JavaLangObject # NoClass
    BY <1>7, JdkBases, JdkNames, InstanceNames
  <2> QED BY <1>1, <1>2, <1>5, <1>6, <2>1, <2>2, <2>3, <2>4 DEF IsJavaType
<1>8. CASE ~IsArray(n)
  <2>1. PICK file : file = Search(n)
    OBVIOUS
  <2>2. /\ file.super = "" <=> n = JavaLangObject
        /\ file.interface => file.super = "Object"
        /\ n \in {JavaLangObject, Cloneable, Serializable} => file.interfaces = <<>>
        /\ \A b : Loadable(Instance(b)) /\ Instance(b) \in Name =>
             /\ b = file.super => ~Search(Instance(b)).interface
             /\ b \in Range(file.interfaces) => Search(Instance(b)).interface
    BY <1>1, <1>8, <2>1, JavaFile
  <2>3. SuperOf(n) = Instance(file.super) /\ \A b : ~IsArray(Instance(b))
    BY <1>8, <2>1, InstanceNames DEF SuperOf, IsArray
  <2>4. SuperOf(n) = NoClass <=> file.super = ""
    <3>1. NoClass.base = "" /\ Instance(file.super).base = file.super /\ NoClass = Instance("")
      BY InstanceNames DEF NoClass
    <3> QED BY <2>3, <3>1
  <2>5. SuperOf(n) # NoClass => IsClassType(SuperOf(n))
    BY <1>3, <1>4, <2>2, <2>3 DEF IsClassType
  <2>6. InterfacesOf(n) = [i \in DOMAIN file.interfaces |-> Instance(file.interfaces[i])]
    BY <1>8, <2>1 DEF InterfacesOf
  <2>7. \A x \in Range(InterfacesOf(n)) : \E b \in Range(file.interfaces) : x = Instance(b)
    BY <2>6 DEF Range
  <2>8. \A x \in Range(InterfacesOf(n)) : IsInterface(x)
    BY <1>1, <1>2, <1>4, <2>2, <2>3, <2>7 DEF IsInterface
  <2>9. IsInterface(n) => SuperOf(n) = JavaLangObject
    BY <2>1, <2>2, <2>3 DEF IsInterface, JavaLangObject
  <2>10. n \in {JavaLangObject, Cloneable, Serializable} => Range(InterfacesOf(n)) = {}
    <3>1. Range(<<>>) = {}
      BY DEF Range
    <3>2. ASSUME NEW x \in Range(InterfacesOf(n)), file.interfaces = <<>> PROVE FALSE
      BY <2>7, <3>1, <3>2
    <3> QED BY <2>2, <3>2
  <2> QED BY <1>1, <1>2, <1>3, <1>5, <1>6, <1>8, <2>2, <2>4, <2>5, <2>8, <2>9, <2>10 DEF IsJavaType
<1> QED
  BY <1>7, <1>8

-----------------------------------------------------------------------------
(* Instances of classes and interfaces. *)

IsJavaTable ==
  /\ TableIsLinked /\ Idle
  /\ \A n \in Loaded : /\ IsJavaType(n)
                       /\ n \in Name /\ DirectSupertypes(n) = Declared(n)
                       /\ DirectSupertypes(n) =
                            ({mClasses[n].super} \ {NoClass}) \cup Range(mClasses[n].interfaces)

LEMMA JavaTable ==
  ASSUME JavaHierarchies, TableIsLinked, Idle
  PROVE  IsJavaTable
BY JavaTypes, IdleTable DEF IsJavaTable

(* What is above a class are classes, at the top java.lang.Object, and interfaces. *)
IsTopped(n) ==
  /\ \A t \in SuperClasses(n) : t \in Loaded /\ IsClassType(t)
  /\ \A t \in SuperInterfaces[n] : t \in Loaded /\ IsInterface(t)
  /\ n # JavaLangObject => JavaLangObject \in SuperClasses(n)
  /\ n = JavaLangObject => SuperClasses(n) = {} /\ SuperInterfaces[n] = {}
  /\ IsInterface(n) \/ IsArray(n) => SuperClasses(n) = {JavaLangObject}

LEMMA ObjectIsTopped ==
  ASSUME NoCircularInheritance, IsJavaTable, JavaLangObject \in Loaded
  PROVE  SuperClasses(JavaLangObject) = {} /\ SuperInterfaces[JavaLangObject] = {}
<1>1. /\ mClasses[JavaLangObject].super = NoClass
      /\ Range(mClasses[JavaLangObject].interfaces) = {}
  BY DEF IsJavaTable, IsJavaType
<1>2. SuperClasses(JavaLangObject) = {}
  BY <1>1, AboveClass DEF IsJavaTable, TableIsLinked
<1>3. SuperInterfaces[JavaLangObject] =
        Range(mClasses[JavaLangObject].interfaces)
        \cup (UNION {SuperInterfaces[i] : i \in Range(mClasses[JavaLangObject].interfaces)})
  BY AboveClass DEF IsJavaTable, TableIsLinked
<1> QED
  BY <1>1, <1>2, <1>3

LEMMA TypesAreTopped ==
  ASSUME NoCircularInheritance, IsJavaTable
  PROVE  \A n \in Loaded : IsTopped(n)
<1> DEFINE T == {n \in Loaded : ~IsTopped(n)}
<1> SUFFICES ASSUME T # {} PROVE FALSE
  OBVIOUS
<1>1. T \in SUBSET Loaded
  OBVIOUS
<1>2. PICK n \in T : Declared(n) \cap T = {}
  <2> HIDE DEF T
  <2> QED BY <1>1, FoundedTable DEF IsJavaTable, TableIsLinked
<1>3. n \in Loaded /\ ~IsTopped(n)
  OBVIOUS
<1>4. PICK s, l : s = mClasses[n].super /\ l = Range(mClasses[n].interfaces)
  OBVIOUS
<1>5. /\ s = NoClass <=> n = JavaLangObject
      /\ s # NoClass => s \in Loaded /\ IsClassType(s)
      /\ l \subseteq Loaded /\ \A i \in l : IsInterface(i)
      /\ IsInterface(n) \/ IsArray(n) => s = JavaLangObject
      /\ n = JavaLangObject => IsClassType(n)
  BY <1>3, <1>4 DEF IsJavaTable, IsJavaType
<1>6. \A d \in ({s} \ {NoClass}) \cup l : d \in Loaded /\ IsTopped(d)
  <2>1. Declared(n) = ({s} \ {NoClass}) \cup l
    BY <1>3, <1>4 DEF IsJavaTable
  <2> QED BY <1>2, <1>5, <2>1
<1>7. /\ s = NoClass => SuperClasses(n) = {}
      /\ s # NoClass => SuperClasses(n) = {s} \cup SuperClasses(s)
      /\ SuperInterfaces[n] = l \cup UNION {SuperInterfaces[i] : i \in l}
      /\ SuperInterfaces[n] \subseteq Loaded
  BY <1>3, <1>4, AboveClass DEF IsJavaTable, TableIsLinked
<1> HIDE DEF T
<1>8. \A t \in SuperClasses(n) : t \in Loaded /\ IsClassType(t)
  BY <1>5, <1>6, <1>7 DEF IsTopped
<1>9. \A t \in SuperInterfaces[n] : t \in Loaded /\ IsInterface(t)
  <2> SUFFICES ASSUME NEW t \in SuperInterfaces[n], t \notin l PROVE IsInterface(t)
    BY <1>5, <1>7
  <2>1. PICK i \in l : t \in SuperInterfaces[i]
    BY <1>7
  <2> QED BY <1>6, <2>1 DEF IsTopped
<1>10. n # JavaLangObject => JavaLangObject \in SuperClasses(n)
  BY <1>5, <1>6, <1>7 DEF IsTopped
<1>11. n = JavaLangObject => SuperClasses(n) = {} /\ SuperInterfaces[n] = {}
  BY <1>3, ObjectIsTopped
<1>12. IsInterface(n) \/ IsArray(n) => SuperClasses(n) = {JavaLangObject}
  <2>1. s = JavaLangObject /\ s # NoClass => SuperClasses(s) = {}
    BY <1>5, ObjectIsTopped
  <2>2. IsClassType(n) => ~IsInterface(n) /\ ~IsArray(n)
    BY DEF IsClassType, IsInterface
  <2> QED BY <1>5, <1>7, <2>1, <2>2
<1> QED
  BY <1>3, <1>8, <1>9, <1>10, <1>11, <1>12 DEF IsTopped

(* The supertypes of a class or interface: its superclasses, and the interfaces above *)
(* any of them.                                                                       *)
IsAbove(n, t) == t \in {n} \cup SuperClasses(n) \/ HasSuperInterface(n, t)

LEMMA SupertypesOfClass ==
  ASSUME NoCircularInheritance, IsJavaTable
  PROVE  \A n \in Loaded : ~IsArray(n) => \A t : t \in Supertypes[n] <=> IsAbove(n, t)
<1> DEFINE T == {n \in Loaded : ~IsArray(n) /\ ~\A t : t \in Supertypes[n] <=> IsAbove(n, t)}
<1> SUFFICES ASSUME T # {} PROVE FALSE
  OBVIOUS
<1>1. T \in SUBSET Loaded
  OBVIOUS
<1>2. PICK n \in T : Declared(n) \cap T = {}
  <2> HIDE DEF T
  <2> QED BY <1>1, FoundedTable DEF IsJavaTable, TableIsLinked
<1>3. n \in Loaded /\ ~IsArray(n) /\ ~\A t : t \in Supertypes[n] <=> IsAbove(n, t)
  OBVIOUS
<1>4. PICK t : ~(t \in Supertypes[n] <=> IsAbove(n, t))
  BY <1>3
<1>5. PICK s, l : s = mClasses[n].super /\ l = Range(mClasses[n].interfaces)
  OBVIOUS
<1>6. PICK D : D = ({s} \ {NoClass}) \cup l /\ D = DirectSupertypes(n) /\ D = Declared(n)
  BY <1>3, <1>5 DEF IsJavaTable
<1>7. /\ s = NoClass <=> n = JavaLangObject
      /\ s # NoClass => s \in Loaded /\ IsClassType(s)
      /\ l \subseteq Loaded /\ \A i \in l : IsInterface(i)
      /\ n = JavaLangObject => l = {}
  BY <1>3, <1>5 DEF IsJavaTable, IsJavaType
<1>8. \A d \in D : d \in Loaded /\ (t \in Supertypes[d] <=> IsAbove(d, t))
  <2>1. \A d \in D : d \in Loaded /\ ~IsArray(d)
    BY <1>6, <1>7 DEF IsClassType, IsInterface
  <2> QED BY <1>2, <1>6, <2>1
<1>9. t \in Supertypes[n] <=> t = n \/ \E d \in D : t \in Supertypes[d]
  <2>1. ArraySupertypes(n) = {}
    BY <1>3 DEF ArraySupertypes
  <2> QED BY <1>3, <1>6, <2>1, SupertypesDefined DEF IsJavaTable
<1>10. /\ s = NoClass => SuperClasses(n) = {}
       /\ s # NoClass => SuperClasses(n) = {s} \cup SuperClasses(s)
       /\ SuperInterfaces[n] = l \cup UNION {SuperInterfaces[i] : i \in l}
  BY <1>3, <1>5, AboveClass DEF IsJavaTable, TableIsLinked
<1> HIDE DEF T
<1>11. s # NoClass => (IsAbove(s, t) <=> t \in SuperClasses(n)
                                         \/ \E m \in SuperClasses(n) : t \in SuperInterfaces[m])
  BY <1>10 DEF IsAbove, HasSuperInterface
<1>12. n # JavaLangObject => JavaLangObject \in SuperClasses(n)
  BY <1>3, TypesAreTopped DEF IsTopped
<1>13. \A i \in l : IsAbove(i, t) <=> t \in {i, JavaLangObject} \cup SuperInterfaces[i]
  <2> SUFFICES ASSUME NEW i \in l
               PROVE  IsAbove(i, t) <=> t \in {i, JavaLangObject} \cup SuperInterfaces[i]
    OBVIOUS
  <2>1. SuperClasses(i) = {JavaLangObject}
    BY <1>7, TypesAreTopped DEF IsTopped
  <2>2. JavaLangObject \in Loaded
    BY <1>3, <1>7, <1>12, TypesAreTopped DEF IsTopped
  <2>3. SuperInterfaces[JavaLangObject] = {}
    BY <2>2, ObjectIsTopped
  <2> QED BY <2>1, <2>3 DEF IsAbove, HasSuperInterface
<1>14. (\E i \in l : IsAbove(i, t))
       <=> t \in SuperInterfaces[n] \/ (l # {} /\ t = JavaLangObject)
  BY <1>10, <1>13
<1>15. IsAbove(n, t) <=> \/ t = n \/ t \in SuperClasses(n) \/ t \in SuperInterfaces[n]
                         \/ \E m \in SuperClasses(n) : t \in SuperInterfaces[m]
  BY DEF IsAbove, HasSuperInterface
<1>16. t \in Supertypes[n] <=> \/ t = n
                               \/ s # NoClass /\ IsAbove(s, t)
                               \/ \E i \in l : IsAbove(i, t)
  BY <1>6, <1>8, <1>9
<1> QED
  BY <1>4, <1>7, <1>10, <1>11, <1>12, <1>14, <1>15, <1>16

LEMMA ClassesAreInstances ==
  ASSUME NoCircularInheritance, IsJavaTable, NEW n \in Loaded, NEW t \in Loaded,
         ~IsArray(n), ~IsArray(t)
  PROVE  NonArrayIsInstanceOf(n, t) <=> t \in Supertypes[n]
<1>1. t \in Supertypes[n] <=> IsAbove(n, t)
  BY SupertypesOfClass
<1>2. IsTopped(n) /\ \A m \in SuperClasses(n) : IsTopped(m)
  BY TypesAreTopped DEF IsTopped
<1>3. \A x : ~IsArray(x) => (IsClassType(x) <=> ~IsInterface(x))
  BY DEF IsClassType, IsInterface
<1>4. HasSuperInterface(n, t) => IsInterface(t)
  BY <1>2 DEF HasSuperInterface, IsTopped
<1>5. IsClassType(t) => (IsAbove(n, t) <=> t \in {n} \cup SuperClasses(n))
  BY <1>3, <1>4 DEF IsAbove
<1>6. t \in SuperClasses(n) => IsClassType(t)
  BY <1>2 DEF IsTopped
<1>7. CASE IsClassType(n)
  BY <1>1, <1>3, <1>5, <1>6, <1>7 DEF NonArrayIsInstanceOf, IsAbove
<1>8. CASE IsInterface(n)
  <2>1. SuperClasses(n) = {JavaLangObject}
    BY <1>2, <1>8 DEF IsTopped
  <2> QED BY <1>1, <1>3, <1>5, <1>6, <1>8, <2>1 DEF NonArrayIsInstanceOf, IsAbove
<1> QED
  BY <1>3, <1>7, <1>8

-----------------------------------------------------------------------------
(* Instances of arrays. *)

(* Arrays: what is asked of their element classes. *)
AreReferenceArrays(n, m) ==
  /\ IsArray(n) /\ IsArray(m)
  /\ NoClass \notin {mClasses[n].element, mClasses[m].element}

Elements(n, m) == <<mClasses[n].element, mClasses[m].element>>

IsInstanceIf(n, m, elements) ==
  \/ ~IsArray(n) /\ ~IsArray(m) /\ NonArrayIsInstanceOf(n, m)
  \/ IsArray(n) /\ IsClassType(m) /\ m = JavaLangObject
  \/ IsArray(n) /\ IsInterface(m) /\ m \in {Cloneable, Serializable}
  \/ /\ IsArray(n) /\ IsArray(m)
     /\ IF IsPrimitive(ElementType(n)) /\ IsPrimitive(ElementType(m))
        THEN ElementType(n) = ElementType(m)
        ELSE NoClass \notin {mClasses[n].element, mClasses[m].element} /\ elements

LEMMA ElementsAreLoaded ==
  ASSUME TableIsLinked, Idle, NEW n \in Loaded, IsArray(n), mClasses[n].element # NoClass
  PROVE  mClasses[n].element = ElementType(n) /\ ElementType(n) \in Loaded
BY IdleTable DEF ElementOf

LEMMA InstancesDefined ==
  ASSUME NoCircularInheritance, TableIsLinked, Idle
  PROVE  \A n, m \in Loaded :
           IsInstanceOf(n, m) <=> IsInstanceIf(n, m, Instances[Elements(n, m)])
<1> DEFINE L == Loaded \X Loaded
           Body(p, f) == IsInstanceIf(p[1], p[2], f[Elements(p[1], p[2])])
           below == [p \in L |-> IF AreReferenceArrays(p[1], p[2]) THEN {Elements(p[1], p[2])} ELSE {}]
           body == [q \in L \X [L -> BOOLEAN] |-> Body(q[1], q[2])]
           Def(f) == [p \in L |-> Body(p, f)]
<1>1. \A p \in L, f \in [L -> BOOLEAN] : body[<<p, f>>] = Body(p, f)
  <2> HIDE DEF Body, L
  <2> QED OBVIOUS
<1>2. \A p \in L : /\ p[1] \in Loaded /\ p[2] \in Loaded
                   /\ AreReferenceArrays(p[1], p[2]) =>
                        /\ Elements(p[1], p[2]) \in L
                        /\ Elements(p[1], p[2])[1] = ElementType(p[1]) /\ IsArray(p[1])
  BY ElementsAreLoaded DEF AreReferenceArrays, Elements
<1>3. IsRecursive(L, BOOLEAN, below, body)
  <2>1. IsFounded(L, below)
    <3> SUFFICES ASSUME NEW T \in SUBSET L, T # {} PROVE \E p \in T : below[p] \cap T = {}
      <4> HIDE DEF L, below
      <4> QED BY DEF IsFounded
    <3> DEFINE S == {p[1] : p \in T}
    <3>1. S \in SUBSET Loaded /\ S # {}
      BY <1>2
    <3>2. PICK n \in S : IsArray(n) => ElementType(n) \notin S
      <4> HIDE DEF S
      <4> QED BY <3>1, FoundedTable DEF TableIsLinked
    <3>3. PICK p \in T : n = p[1]
      OBVIOUS
    <3>4. AreReferenceArrays(p[1], p[2]) => Elements(p[1], p[2]) \notin T
      BY <1>2, <3>2, <3>3
    <3>5. below[p] = IF AreReferenceArrays(p[1], p[2]) THEN {Elements(p[1], p[2])} ELSE {}
      <4> HIDE DEF L
      <4> QED OBVIOUS
    <3> HIDE DEF below, L
    <3> QED BY <3>4, <3>5
  <2>2. \A p \in L : below[p] \subseteq L
    BY <1>2
  <2>3. \A p \in L, f \in [L -> BOOLEAN] : body[<<p, f>>] \in BOOLEAN
    <3>1. \A p, f : Body(p, f) \in BOOLEAN
      BY DEF IsInstanceIf
    <3> HIDE DEF Body, body, L
    <3> QED BY <1>1, <3>1
  <2>4. ASSUME NEW p \in L, NEW f \in [L -> BOOLEAN], NEW g \in [L -> BOOLEAN],
               \A q \in below[p] : f[q] = g[q]
        PROVE  body[<<p, f>>] = body[<<p, g>>]
    <3>1. AreReferenceArrays(p[1], p[2]) => f[Elements(p[1], p[2])] = g[Elements(p[1], p[2])]
      <4> HIDE DEF body, L
      <4> QED BY <2>4
    <3>2. CASE AreReferenceArrays(p[1], p[2])
      <4>1. Body(p, f) = Body(p, g)
        BY <3>1, <3>2
      <4> HIDE DEF Body, body, L
      <4> QED BY <1>1, <4>1
    <3>3. CASE ~AreReferenceArrays(p[1], p[2])
      <4>1. Body(p, f) = Body(p, g)
        BY <3>3 DEF IsInstanceIf, AreReferenceArrays
      <4> HIDE DEF Body, body, L
      <4> QED BY <1>1, <4>1
    <3> QED BY <3>2, <3>3
  <2> HIDE DEF L, below, body
  <2> QED BY <2>1, <2>2, <2>3, <2>4 DEF IsRecursive
<1>4. PICK f \in [L -> BOOLEAN] : \A p \in L : f[p] = body[<<p, f>>]
  <2>1. BOOLEAN # {}
    OBVIOUS
  <2> HIDE DEF L, below, body
  <2> QED BY <1>3, <2>1, Recursion
<1>5. f = Def(f)
  <2>1. \A p \in L : f[p] = Body(p, f)
    <3> HIDE DEF L, body, Body
    <3> QED BY <1>1, <1>4
  <2>2. f = [p \in L |-> f[p]]
    <3> HIDE DEF L
    <3> QED OBVIOUS
  <2> HIDE DEF Body, L
  <2> QED BY <2>1, <2>2
<1>6. Instances = CHOOSE g : g = Def(g)
  BY DEF Instances, IsInstanceIf, Elements
<1>7. Instances = Def(Instances)
  <2> HIDE DEF Def
  <2> QED BY <1>5, <1>6
<1>8. \A p \in L : Instances[p] = Body(p, Instances)
  <2> HIDE DEF Body, L
  <2> QED BY <1>7
<1> SUFFICES ASSUME NEW n \in Loaded, NEW m \in Loaded
             PROVE  IsInstanceOf(n, m) <=> IsInstanceIf(n, m, Instances[Elements(n, m)])
  OBVIOUS
<1>9. <<n, m>> \in L /\ <<n, m>>[1] = n /\ <<n, m>>[2] = m
  OBVIOUS
<1>10. Instances[<<n, m>>] = IsInstanceIf(n, m, Instances[Elements(n, m)])
  <2> HIDE DEF L
  <2> QED BY <1>8, <1>9
<1> QED
  BY <1>10 DEF IsInstanceOf

LEMMA LoadedAreNotPrimitive ==
  ASSUME TableIsLinked, Idle, NEW n \in Loaded
  PROVE  ~IsPrimitive(n)
<1>1. path \in ClassPaths /\ n \in Name /\ Loadable(n)
  BY IdleTable
<1>2. CASE IsArray(n)
  BY <1>2 DEF IsArray, IsPrimitive
<1>3. CASE ~IsArray(n)
  <2>1. PICK i \in DOMAIN path : n.base \in DOMAIN path[i]
    BY <1>1, <1>3 DEF Loadable, Located
  <2> QED BY <1>1, <2>1, PrimitiveAssumption DEF IsPrimitive
<1> QED
  BY <1>2, <1>3

LEMMA SupertypesOfArray ==
  ASSUME NoCircularInheritance, IsJavaTable, NEW n \in Loaded, IsArray(n), NEW t \in Loaded
  PROVE  /\ ~IsArray(t) => (t \in Supertypes[n] <=> t \in {JavaLangObject, Cloneable, Serializable})
         /\ IsArray(t) => (t \in Supertypes[n] <=> t = n \/ t \in ArraySupertypes(n))
<1>1. DirectSupertypes(n) = {JavaLangObject, Cloneable, Serializable}
  BY DEF DirectSupertypes
<1>2. JavaLangObject \in Loaded /\ Cloneable \in Loaded /\ Serializable \in Loaded
  BY <1>1, IdleTable DEF IsJavaTable
<1>3. Supertypes[n] = {n} \cup Supertypes[JavaLangObject] \cup Supertypes[Cloneable]
                      \cup Supertypes[Serializable] \cup ArraySupertypes(n)
  <2>1. Supertypes[n] = {n} \cup (UNION {Supertypes[s] : s \in DirectSupertypes(n)}) \cup ArraySupertypes(n)
    BY SupertypesDefined DEF IsJavaTable
  <2> QED BY <1>1, <2>1
<1>4. Supertypes[JavaLangObject] = {JavaLangObject}
  <2>1. SuperClasses(JavaLangObject) = {} /\ SuperInterfaces[JavaLangObject] = {}
    BY <1>2, ObjectIsTopped
  <2>2. \A x : x \in Supertypes[JavaLangObject] <=> IsAbove(JavaLangObject, x)
    BY <1>2, JdkBases, SupertypesOfClass
  <2> QED BY <2>1, <2>2 DEF IsAbove, HasSuperInterface
<1>5. ASSUME NEW i \in {Cloneable, Serializable} PROVE Supertypes[i] = {i, JavaLangObject}
  <2>1. IsInterface(i) /\ Range(mClasses[i].interfaces) = {} /\ i \in Loaded
    BY <1>2, <1>5 DEF IsJavaTable, IsJavaType
  <2>2. SuperInterfaces[i] = Range(mClasses[i].interfaces)
                             \cup (UNION {SuperInterfaces[j] : j \in Range(mClasses[i].interfaces)})
    BY <2>1, AboveClass DEF IsJavaTable, TableIsLinked
  <2>3. SuperInterfaces[i] = {}
    BY <2>1, <2>2
  <2>4. SuperClasses(i) = {JavaLangObject} /\ SuperInterfaces[JavaLangObject] = {}
    BY <1>2, <2>1, ObjectIsTopped, TypesAreTopped DEF IsTopped
  <2>5. \A x : x \in Supertypes[i] <=> IsAbove(i, x)
    BY <1>5, <2>1, JdkBases, SupertypesOfClass
  <2> QED BY <2>3, <2>4, <2>5 DEF IsAbove, HasSuperInterface
<1>6. \A x \in ArraySupertypes(n) : IsArray(x)
  BY ArraySupertypeFacts DEF IsJavaTable
<1> QED
  BY <1>3, <1>4, <1>5, <1>6, JdkBases

LEMMA InstancesAreSubtypes ==
  ASSUME NoCircularInheritance, IsJavaTable
  PROVE  \A n, t \in Loaded : IsInstanceOf(n, t) <=> t \in Supertypes[n]
<1> DEFINE T == {n \in Loaded : ~\A t \in Loaded : IsInstanceOf(n, t) <=> t \in Supertypes[n]}
<1> SUFFICES ASSUME T # {} PROVE FALSE
  OBVIOUS
<1>1. T \in SUBSET Loaded
  OBVIOUS
<1>2. PICK n \in T : IsArray(n) => ElementType(n) \notin T
  <2> HIDE DEF T
  <2> QED BY <1>1, FoundedTable DEF IsJavaTable, TableIsLinked
<1>3. n \in Loaded /\ ~\A t \in Loaded : IsInstanceOf(n, t) <=> t \in Supertypes[n]
  OBVIOUS
<1>4. PICK t \in Loaded : ~(IsInstanceOf(n, t) <=> t \in Supertypes[n])
  BY <1>3
<1>5. IsInstanceOf(n, t) <=> IsInstanceIf(n, t, Instances[Elements(n, t)])
  BY <1>3, InstancesDefined DEF IsJavaTable
<1>6. CASE ~IsArray(n) /\ ~IsArray(t)
  BY <1>3, <1>4, <1>5, <1>6, ClassesAreInstances DEF IsInstanceIf
<1>7. CASE ~IsArray(n) /\ IsArray(t)
  <2>1. t \notin Supertypes[n]
    BY <1>3, <1>7, SupertypeKinds DEF IsJavaTable
  <2> QED BY <1>4, <1>5, <1>7, <2>1 DEF IsInstanceIf
<1>8. CASE IsArray(n) /\ ~IsArray(t)
  <2>1. t \in Supertypes[n] <=> t \in {JavaLangObject, Cloneable, Serializable}
    BY <1>3, <1>8, SupertypesOfArray
  <2>2. /\ t = JavaLangObject => IsClassType(t)
        /\ t \in {Cloneable, Serializable} => IsInterface(t)
    BY DEF IsJavaTable, IsJavaType
  <2> QED BY <1>4, <1>5, <1>8, <2>1, <2>2 DEF IsInstanceIf
<1>9. CASE IsArray(n) /\ IsArray(t)
  <2>1. PICK e, d : e = ElementType(n) /\ d = ElementType(t)
    OBVIOUS
  <2>2. /\ n \in Name /\ t \in Name /\ e \in Name /\ d \in Name
        /\ n = t <=> e = d
    <3>1. n \in Name /\ t \in Name
      BY <1>3 DEF IsJavaTable
    <3>2. e \in Name /\ d \in Name /\ ArrayOf(e) = n /\ ArrayOf(d) = t
      BY <1>9, <2>1, <3>1, ElementFacts, ArrayOfFacts
    <3> QED BY <2>1, <3>1, <3>2
  <2>3. /\ mClasses[n].element = (IF IsPrimitive(e) THEN NoClass ELSE e)
        /\ mClasses[t].element = (IF IsPrimitive(d) THEN NoClass ELSE d)
        /\ ~IsPrimitive(e) => e \in Loaded
        /\ ~IsPrimitive(d) => d \in Loaded
    BY <1>3, <1>9, <2>1, IdleTable DEF ElementOf, IsJavaTable
  <2>4. NoClass \notin Name
    BY InstanceNames
  <2>5. IsInstanceOf(n, t) <=>
          IF IsPrimitive(e) /\ IsPrimitive(d) THEN e = d
          ELSE ~IsPrimitive(e) /\ ~IsPrimitive(d) /\ IsInstanceOf(e, d)
    <3>1. Instances[Elements(n, t)] = IsInstanceOf(mClasses[n].element, mClasses[t].element)
      BY DEF Elements, IsInstanceOf
    <3>2. NoClass \notin {mClasses[n].element, mClasses[t].element}
          <=> ~IsPrimitive(e) /\ ~IsPrimitive(d)
      BY <2>2, <2>3, <2>4
    <3> QED BY <1>5, <1>9, <2>1, <2>3, <3>1, <3>2 DEF IsInstanceIf, IsClassType, IsInterface
  <2>6. t \in Supertypes[n] <=> e = d \/ (~IsPrimitive(e) /\ d \in Supertypes[e])
    <3>1. t \in Supertypes[n] <=> t = n \/ t \in ArraySupertypes(n)
      BY <1>3, <1>9, SupertypesOfArray
    <3>2. t \in ArraySupertypes(n) <=> ~IsPrimitive(e) /\ d \in Supertypes[e]
      BY <1>3, <1>9, <2>1, <2>2, <2>3, ArraySupertypeFacts DEF IsJavaTable
    <3> QED BY <2>2, <3>1, <3>2
  <2>7. ~IsPrimitive(e) => (d \in Loaded => (IsInstanceOf(e, d) <=> d \in Supertypes[e]))
    BY <1>2, <1>9, <2>1, <2>3
  <2>8. ASSUME ~IsPrimitive(e), d \in Supertypes[e] PROVE ~IsPrimitive(d)
    <3>1. CASE IsArray(d)
      BY <3>1 DEF IsArray, IsPrimitive
    <3>2. CASE ~IsArray(d)
      <4>1. d \in Loaded
        BY <2>3, <2>8, <3>2, SupertypeKinds DEF IsJavaTable
      <4> QED BY <4>1, LoadedAreNotPrimitive DEF IsJavaTable
    <3> QED BY <3>1, <3>2
  <2>9. ~IsPrimitive(e) => e \in Supertypes[e]
    BY <2>3, SupertypesDefined DEF IsJavaTable
  <2> QED BY <1>4, <2>3, <2>5, <2>6, <2>7, <2>8, <2>9
<1> QED
  BY <1>6, <1>7, <1>8, <1>9

(***************************************************************************)
(* An object is an instance of exactly the supertypes that the Java        *)
(* language gives its class, for classes, interfaces and arrays of any     *)
(* depth, when the class files form a hierarchy as the language has them   *)
(* (JClass::isInstanceOf).                                                 *)
(***************************************************************************)
THEOREM InstancesFollowSubtyping ==
  ASSUME NoCircularInheritance, JavaHierarchies
  PROVE  PoolSpec => []InstanceOfIsSubtyping
<1>1. TableIsLinked /\ PoolInv => InstanceOfIsSubtyping
  BY JavaTable, InstancesAreSubtypes DEF InstanceOfIsSubtyping
<1> QED
  BY <1>1, PoolInvHolds, PTL
=============================================================================
