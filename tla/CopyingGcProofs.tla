--------------------------- MODULE CopyingGcProofs ---------------------------
(***************************************************************************)
(* Proofs about the copying collector: memory stays well typed, nothing    *)
(* dangles, and what is allocated or copied stays in its region, for any   *)
(* number of objects and roots and any layouts.                            *)
(*                                                                         *)
(* The invariant is Cheney's.  While a collection runs the objects of the  *)
(* old region, the originals, are as the program left them; `map` takes    *)
(* the ones that have been copied one-to-one onto the objects of the new   *)
(* region, the copies; a slot of a copy that the scan has passed holds the *)
(* copy of what the same slot of the original holds, and a slot it has not *)
(* passed holds the same as the original's.                                *)
(***************************************************************************)
EXTENDS CopyingGc, FiniteSetTheorems, TLAPS

Collecting == phase \in {"roots", "scan"}
Copies == {a \in DOMAIN mem : a[1] = mFromRegion}
Originals == {a \in DOMAIN mem : a[1] # mFromRegion}

EndOf(a) == a[2] + AlignedSize(mem[a].shape)

(* Objects end at or before the bump pointer: the space behind it is free. *)
BelowBumpPtr == \A a \in Copies : EndOf(a) <= mBumpPtr

(* The references of the objects in S lead into S. *)
ClosedSet(S) ==
  \A a \in S : \A f \in RefSlots[mem[a].shape] :
    mem[a].refs[f] \in S \cup {NULL}

OneIdentity(S) == \A a, b \in S : mem[a].id = mem[b].id => a = b

(* Between two collections. *)
AtRest ==
  /\ pending = {}
  /\ Originals = {}
  /\ OneIdentity(Copies)
  /\ ClosedSet(Copies)
  /\ \A l \in DOMAIN root : root[l] \in Copies \cup {NULL}

(* The copies fill the new region without gaps, so that the scan pointer,  *)
(* moving from one end of an object to the next, always meets an object.   *)
IsStart(p) == p = mBumpPtr \/ At(p) \in Copies

Tiled ==
  /\ IsStart(scanPtr)
  /\ \A a \in Copies : IsStart(EndOf(a))
  /\ \A a, b \in Copies : a[2] < b[2] => EndOf(a) <= b[2]

Mapped ==
  /\ DOMAIN map \subseteq Originals
  /\ \A a \in DOMAIN map : /\ map[a] \in Copies
                           /\ mem[map[a]].id = mem[a].id
                           /\ mem[map[a]].shape = mem[a].shape
  /\ \A n \in Copies : \E a \in DOMAIN map : map[a] = n
  /\ OneIdentity(Originals)

RootsFollow ==
  \A l \in DOMAIN root :
    root[l] \in (IF l \in pending THEN Originals ELSE Copies) \cup {NULL}

Scanned(n, f) ==
  \/ n[2] < scanPtr
  \/ n[2] = scanPtr /\ phase = "scan" /\ f \notin fields

Forward(r) == IF r = NULL THEN NULL ELSE map[r]

ScannedFollow ==
  \A a \in DOMAIN map : \A f \in RefSlots[mem[a].shape] :
    IF Scanned(map[a], f)
    THEN /\ mem[a].refs[f] \in DOMAIN map \cup {NULL}
         /\ mem[map[a]].refs[f] = Forward(mem[a].refs[f])
    ELSE mem[map[a]].refs[f] = mem[a].refs[f]

(* Where the collection is. *)
Progress ==
  /\ phase = "roots" => scanPtr = 0
  /\ phase = "scan" => pending = {}
  /\ fields \subseteq SlotsAt(scanPtr)

MidCollection ==
  /\ Tiled
  /\ Mapped
  /\ ClosedSet(Originals)
  /\ RootsFollow
  /\ ScannedFollow
  /\ Progress

IInv ==
  /\ TypeOK
  /\ BelowBumpPtr
  /\ ~Collecting => AtRest
  /\ Collecting => MidCollection

-----------------------------------------------------------------------------
(* Sizes, addresses and records.                                           *)

LEMMA AlignedSizePositive ==
  ASSUME NEW s \in Shape
  PROVE  AlignedSize(s) \in Nat \ {0}
<1> DEFINE n == Size[s] + Align - 1
<1>1. Align \in Nat \ {0} /\ n \in Nat /\ n >= Align
  BY LayoutAssumption
<1>2. n \div Align \in Nat /\ n \div Align >= 1
  BY <1>1
<1> HIDE DEF n
<1>3. PICK q \in Nat : q = n \div Align /\ q >= 1
  BY <1>2
<1>4. q * Align \in Nat /\ q * Align >= 1
  BY <1>1, <1>3
<1> QED
  BY <1>3, <1>4 DEF AlignedSize, AlignTo, n

LEMMA AddressParts ==
  ASSUME NEW a \in Address
  PROVE  a[1] \in Region /\ a[2] \in Nat /\ a = <<a[1], a[2]>>
BY DEF Address

(* The address an object is placed at is the only new one. *)
LEMMA BumpPtrIsFree ==
  ASSUME TypeOK, BelowBumpPtr
  PROVE  /\ At(mBumpPtr) \in Address \ DOMAIN mem
         /\ At(mBumpPtr)[1] = mFromRegion
         /\ At(mBumpPtr)[2] = mBumpPtr
<1>1. /\ At(mBumpPtr) \in Address
      /\ At(mBumpPtr)[1] = mFromRegion
      /\ At(mBumpPtr)[2] = mBumpPtr
  BY DEF TypeOK, At, Address
<1>2. ASSUME At(mBumpPtr) \in DOMAIN mem
      PROVE  FALSE
  <2> DEFINE a == At(mBumpPtr)
  <2>1. a[2] + AlignedSize(mem[a].shape) <= mBumpPtr
    BY <1>1, <1>2 DEF BelowBumpPtr, Copies, EndOf
  <2>2. AlignedSize(mem[a].shape) \in Nat \ {0}
    BY <1>2, AlignedSizePositive DEF TypeOK, IsObject
  <2> QED
    BY <1>1, <2>1, <2>2 DEF TypeOK
<1> QED
  BY <1>1, <1>2

-----------------------------------------------------------------------------
(* Steps of the program.                                                   *)

(* A program can only get hold of references to objects in memory. *)
LEMMA ValuesAreObjects ==
  ASSUME IInv, ~Collecting
  PROVE  /\ DOMAIN mem = Copies
         /\ Values \subseteq Copies \cup {NULL}
         /\ Copies \subseteq Address
<1>1. DOMAIN mem = Copies /\ Copies \subseteq Address
  BY DEF IInv, AtRest, Copies, Originals, TypeOK
<1>2. \A l \in DOMAIN root : root[l] \in Copies \cup {NULL}
  BY DEF IInv, AtRest
<1>3. \A a \in Copies : \A f \in RefSlots[mem[a].shape] :
        mem[a].refs[f] \in Copies \cup {NULL}
  BY DEF IInv, AtRest, ClosedSet
<1> QED
  BY <1>1, <1>2, <1>3 DEF Values

(* The roots of a program that runs stay references to objects. *)
LEMMA RootUpdated ==
  ASSUME NEW l \in Location, NEW S, NEW v \in S, NEW r,
         DOMAIN root \subseteq Location, root \in [DOMAIN root -> S],
         r = UpdateRoot(l, v)
  PROVE  /\ DOMAIN r = DOMAIN root \cup {l}
         /\ DOMAIN r \subseteq Location
         /\ r \in [DOMAIN r -> S]
         /\ r[l] = v
         /\ \A k \in DOMAIN root : k # l => r[k] = root[k]
BY DEF UpdateRoot

LEMMA PlaceKeepsInvariant ==
  ASSUME IInv, ~Collecting, NEW s \in Shape, NEW l \in Location, Place(s, l),
         UNCHANGED <<mIsGcLocked, mRunAfterEveryAllocation, phase, gcVars>>,
         request' \in Request
  PROVE  IInv'
<1> PICK n : n = At(mBumpPtr)
  OBVIOUS
<1>1. PICK o \in Object \ Used :
        mem' = [a \in DOMAIN mem \cup {n} |->
                  IF a = n THEN [id |-> o, shape |-> s,
                                 refs |-> [f \in RefSlots[s] |-> NULL]]
                  ELSE mem[a]]
  BY DEF Place
<1>2. /\ n \in Address \ DOMAIN mem
      /\ n[1] = mFromRegion /\ n[2] = mBumpPtr
  BY BumpPtrIsFree DEF IInv
<1>3. /\ DOMAIN mem' = DOMAIN mem \cup {n}
      /\ \A a \in DOMAIN mem : mem'[a] = mem[a]
      /\ mem'[n].id = o /\ mem'[n].shape = s
      /\ \A f \in RefSlots[s] : mem'[n].refs[f] = NULL
      /\ IsObject(mem'[n])
  BY <1>1, <1>2 DEF IsObject, Reference
<1>4. /\ mBumpPtr' = mBumpPtr + AlignedSize(s)
      /\ mFromRegion' = mFromRegion
      /\ AlignedSize(s) \in Nat \ {0}
  BY AlignedSizePositive DEF Place
<1>5. DOMAIN mem = Copies /\ Copies \subseteq Address
  BY ValuesAreObjects
<1>6. Copies' = Copies \cup {n} /\ Originals' = {}
  BY <1>2, <1>3, <1>4, <1>5 DEF Copies, Originals, IInv, AtRest
<1>7. /\ DOMAIN root \subseteq Location
      /\ root \in [DOMAIN root -> Copies \cup {n, NULL}]
  BY DEF IInv, TypeOK, AtRest
<1>8. /\ DOMAIN root' = DOMAIN root \cup {l}
      /\ DOMAIN root' \subseteq Location
      /\ root' \in [DOMAIN root' -> Copies \cup {n, NULL}]
  BY <1>7, RootUpdated DEF Place
<1> SUFFICES TypeOK' /\ BelowBumpPtr' /\ AtRest'
  BY DEF IInv, Collecting
<1>9. TypeOK'
  <2>1. DOMAIN mem' \subseteq Address /\ \A a \in DOMAIN mem' : IsObject(mem'[a])
    BY <1>2, <1>3 DEF IInv, TypeOK
  <2>2. root' \in [DOMAIN root' -> Reference]
    BY <1>2, <1>5, <1>8 DEF Reference
  <2> QED
    BY <1>4, <1>8, <2>1, <2>2 DEF IInv, TypeOK, gcVars
<1>10. BelowBumpPtr'
  <2>1. \A a \in Copies : EndOf(a)' = EndOf(a) /\ EndOf(a) \in Nat
    <3> SUFFICES ASSUME NEW a \in Copies
                 PROVE  EndOf(a)' = EndOf(a) /\ EndOf(a) \in Nat
      OBVIOUS
    <3>1. AlignedSize(mem[a].shape) \in Nat /\ a[2] \in Nat
      BY AlignedSizePositive, AddressParts, <1>5 DEF IInv, TypeOK, IsObject
    <3> QED
      BY <1>3, <1>5, <3>1 DEF EndOf
  <2>2. EndOf(n)' = mBumpPtr'
    BY <1>2, <1>3, <1>4 DEF EndOf
  <2> QED
    BY <1>4, <1>6, <2>1, <2>2 DEF IInv, TypeOK, BelowBumpPtr
<1>11. AtRest'
  <2>1. OneIdentity(Copies)'
    BY <1>1, <1>3, <1>5, <1>6 DEF IInv, AtRest, OneIdentity, Used
  <2>2. ClosedSet(Copies)'
    BY <1>3, <1>5, <1>6 DEF IInv, AtRest, ClosedSet
  <2> QED
    BY <1>6, <1>8, <2>1, <2>2 DEF IInv, AtRest, gcVars
<1> QED
  BY <1>9, <1>10, <1>11

(* A step of the program that leaves the memory as it is. *)
LEMMA SameMemoryKeepsInvariant ==
  ASSUME IInv, ~Collecting, UNCHANGED heapVars, UNCHANGED gcVars,
         DOMAIN root' \subseteq Location,
         root' \in [DOMAIN root' -> Copies \cup {NULL}],
         phase' \in {"program", "panicked"},
         mIsGcLocked' \in BOOLEAN, mRunAfterEveryAllocation' \in BOOLEAN,
         request' \in Request
  PROVE  IInv'
<1>1. Copies' = Copies /\ Originals' = Originals
  BY DEF heapVars, Copies, Originals
<1>2. Copies \subseteq Address
  BY ValuesAreObjects
<1>3. TypeOK'
  BY <1>2 DEF IInv, AtRest, TypeOK, heapVars, gcVars, Reference
<1>4. BelowBumpPtr'
  BY <1>1 DEF IInv, BelowBumpPtr, EndOf, heapVars
<1>5. AtRest'
  BY <1>1 DEF IInv, AtRest, OneIdentity, ClosedSet, heapVars, gcVars
<1> QED
  BY <1>3, <1>4, <1>5 DEF IInv, Collecting

LEMMA PutKeepsInvariant ==
  ASSUME IInv, NEW l \in Location, NEW v \in Values, Put(l, v)
  PROVE  IInv'
<1>1. ~Collecting /\ phase' = "program"
  BY DEF Put, Running, Collecting
<1>2. v \in Copies \cup {NULL}
  BY <1>1, ValuesAreObjects
<1>3. DOMAIN root \subseteq Location /\ root \in [DOMAIN root -> Copies \cup {NULL}]
  BY <1>1 DEF IInv, TypeOK, AtRest
<1>4. root' = UpdateRoot(l, v)
  BY DEF Put
<1>5. /\ DOMAIN root' \subseteq Location
      /\ root' \in [DOMAIN root' -> Copies \cup {NULL}]
  BY <1>2, <1>3, <1>4, RootUpdated
<1> QED
  BY <1>1, <1>5, SameMemoryKeepsInvariant DEF Put, IInv, TypeOK

LEMMA DropKeepsInvariant ==
  ASSUME IInv, NEW l \in Location, Drop(l)
  PROVE  IInv'
<1>1. ~Collecting /\ phase' = "program"
  BY DEF Drop, Running, Collecting
<1>2. /\ DOMAIN root' \subseteq Location
      /\ root' \in [DOMAIN root' -> Copies \cup {NULL}]
  BY <1>1 DEF Drop, IInv, TypeOK, AtRest
<1> QED
  BY <1>1, <1>2, SameMemoryKeepsInvariant DEF Drop, IInv, TypeOK

LEMMA StoreKeepsInvariant ==
  ASSUME IInv, NEW l \in Location, NEW f \in Slot, NEW v \in Values,
         Store(l, f, v)
  PROVE  IInv'
<1>1. ~Collecting /\ UNCHANGED <<phase, pending>>
  BY DEF Store, Running, Collecting, gcVars
<1>2. PICK a \in Copies : a = root[l]
  BY <1>1 DEF Store, IInv, AtRest
<1>3. /\ DOMAIN mem = Copies /\ Copies \subseteq Address
      /\ v \in Copies \cup {NULL}
  BY <1>1, ValuesAreObjects
<1>4. /\ DOMAIN mem' = DOMAIN mem
      /\ \A b \in DOMAIN mem : b # a => mem'[b] = mem[b]
      /\ mem'[a] = [mem[a] EXCEPT !.refs[f] = v]
      /\ f \in RefSlots[mem[a].shape]
      /\ IsObject(mem[a])
  BY <1>2, <1>3 DEF Store, IInv, TypeOK
<1>5. /\ IsObject(mem'[a])
      /\ mem'[a].id = mem[a].id /\ mem'[a].shape = mem[a].shape
      /\ mem'[a].refs[f] = v
      /\ \A g \in RefSlots[mem[a].shape] : g # f => mem'[a].refs[g] = mem[a].refs[g]
  <2>1. v \in Reference
    BY <1>3 DEF Reference
  <2> QED
    BY <1>4, <2>1 DEF IsObject
<1>6. Copies' = Copies /\ Originals' = Originals /\ mBumpPtr' = mBumpPtr
  BY <1>4 DEF Store, Copies, Originals
<1>7. TypeOK'
  <2>1. \A b \in DOMAIN mem' : IsObject(mem'[b])
    BY <1>4, <1>5 DEF IInv, TypeOK
  <2> QED
    BY <1>4, <2>1 DEF IInv, TypeOK, Store, gcVars
<1>8. BelowBumpPtr'
  <2>1. \A b \in Copies : mem'[b].shape = mem[b].shape
    BY <1>3, <1>4, <1>5
  <2> QED
    BY <1>6, <2>1 DEF IInv, BelowBumpPtr, EndOf
<1>9. AtRest'
  <2>1. OneIdentity(Copies)'
    <3>1. \A b \in Copies : mem'[b].id = mem[b].id
      BY <1>3, <1>4, <1>5
    <3> QED
      BY <1>1, <1>6, <3>1 DEF IInv, AtRest, OneIdentity
  <2>2. ClosedSet(Copies)'
    <3> SUFFICES ASSUME NEW b \in Copies',
                        NEW g \in RefSlots[mem'[b].shape]
                 PROVE  mem'[b].refs[g] \in Copies' \cup {NULL}
      BY DEF ClosedSet
    <3>1. CASE b = a
      <4>1. g = f \/ mem'[b].refs[g] = mem[b].refs[g]
        BY <1>5, <3>1
      <4>2. mem[b].refs[g] \in Copies \cup {NULL}
        BY <1>1, <1>5, <1>6, <3>1 DEF IInv, AtRest, ClosedSet
      <4> QED
        BY <1>3, <1>5, <1>6, <3>1, <4>1, <4>2
    <3>2. CASE b # a
      BY <1>1, <1>3, <1>4, <1>6, <3>2 DEF IInv, AtRest, ClosedSet
    <3> QED
      BY <3>1, <3>2
  <2> QED
    BY <1>1, <1>6, <2>1, <2>2 DEF IInv, AtRest, Store
<1> QED
  BY <1>1, <1>7, <1>8, <1>9 DEF IInv, Collecting

(* A collection starts with an empty new region and no root visited. *)
LEMMA BeginKeepsInvariant ==
  ASSUME IInv, ~Collecting, BeginCollection, request' \in Request
  PROVE  IInv'
<1>1. DOMAIN mem = Copies
  BY ValuesAreObjects
<1>2. Copies' = {} /\ Originals' = Copies
  BY <1>1 DEF BeginCollection, Copies, Originals, IInv, TypeOK, Region
<1>3. TypeOK'
  BY DEF BeginCollection, IInv, TypeOK, Region, Empty
<1>4. BelowBumpPtr'
  BY <1>2 DEF BelowBumpPtr
<1>5. Tiled'
  BY <1>2 DEF Tiled, IsStart, BeginCollection
<1>6. Mapped'
  BY <1>2 DEF Mapped, BeginCollection, Empty, IInv, AtRest, OneIdentity
<1>7. ClosedSet(Originals)' /\ RootsFollow'
  BY <1>2 DEF BeginCollection, IInv, AtRest, ClosedSet, RootsFollow
<1>8. ScannedFollow' /\ Progress'
  BY DEF ScannedFollow, BeginCollection, Empty, Progress
<1> QED
  BY <1>3, <1>4, <1>5, <1>6, <1>7, <1>8
     DEF IInv, MidCollection, Collecting, BeginCollection

-----------------------------------------------------------------------------
(* Steps of the collector.                                                 *)

LEMMA ObjectsAreTyped ==
  ASSUME IInv, NEW a \in DOMAIN mem
  PROVE  /\ a \in Address /\ a[1] \in Region /\ a[2] \in Nat
         /\ IsObject(mem[a]) /\ mem[a].shape \in Shape
         /\ AlignedSize(mem[a].shape) \in Nat \ {0}
         /\ EndOf(a) \in Nat /\ a[2] < EndOf(a)
<1>1. a \in Address /\ IsObject(mem[a]) /\ mem[a].shape \in Shape
  BY DEF IInv, TypeOK, IsObject
<1>2. a[1] \in Region /\ a[2] \in Nat /\ AlignedSize(mem[a].shape) \in Nat \ {0}
  BY <1>1, AddressParts, AlignedSizePositive
<1> QED
  BY <1>1, <1>2 DEF EndOf

(* What copyObject(r) does to the layout of memory and to the map. It is   *)
(* all the same whether a slot of a copy is assigned in the same step.     *)
CopyMade(r) ==
  LET n == At(mBumpPtr) IN
  /\ NeedsCopy(r)
  /\ CopyOf(r) = n
  /\ n \in Address \ DOMAIN mem /\ n[1] = mFromRegion /\ n[2] = mBumpPtr
  /\ DOMAIN mem' = DOMAIN mem \cup {n}
  /\ \A a \in DOMAIN mem : mem'[a].id = mem[a].id /\ mem'[a].shape = mem[a].shape
  /\ mem'[n].id = mem[r].id /\ mem'[n].shape = mem[r].shape
  /\ mBumpPtr' = mBumpPtr + AlignedSize(mem[r].shape)
  /\ DOMAIN map' = DOMAIN map \cup {r}
  /\ \A a \in DOMAIN map : map'[a] = map[a]
  /\ map'[r] = n

NoCopyMade(r) ==
  /\ r = NULL \/ r \in DOMAIN map
  /\ CopyOf(r) = Forward(r)
  /\ DOMAIN mem' = DOMAIN mem
  /\ \A a \in DOMAIN mem : mem'[a].id = mem[a].id /\ mem'[a].shape = mem[a].shape
  /\ mBumpPtr' = mBumpPtr
  /\ map' = map

LEMMA NewCopyKeepsLayout ==
  ASSUME IInv, Collecting, NEW r \in Originals, CopyMade(r),
         UNCHANGED <<mFromRegion, scanPtr>>
  PROVE  /\ Originals' = Originals
         /\ Copies' = Copies \cup {At(mBumpPtr)}
         /\ BelowBumpPtr' /\ Tiled' /\ Mapped'
<1> PICK n : n = At(mBumpPtr)
  OBVIOUS
<1>1. /\ r \notin DOMAIN map
      /\ n \in Address \ DOMAIN mem /\ n[1] = mFromRegion /\ n[2] = mBumpPtr
      /\ DOMAIN mem' = DOMAIN mem \cup {n}
      /\ \A a \in DOMAIN mem : mem'[a].id = mem[a].id
                               /\ mem'[a].shape = mem[a].shape
      /\ mem'[n].id = mem[r].id /\ mem'[n].shape = mem[r].shape
      /\ mBumpPtr' = mBumpPtr + AlignedSize(mem[r].shape)
      /\ DOMAIN map' = DOMAIN map \cup {r}
      /\ \A a \in DOMAIN map : map'[a] = map[a]
      /\ map'[r] = n
  BY DEF CopyMade, NeedsCopy
<1>2. /\ \A a \in Copies : a \in DOMAIN mem /\ a[1] = mFromRegion
      /\ \A a \in Originals : a \in DOMAIN mem /\ a[1] # mFromRegion
      /\ Originals' = Originals
      /\ Copies' = Copies \cup {n}
  BY <1>1 DEF Originals, Copies
<1>3. /\ mBumpPtr \in Nat
      /\ AlignedSize(mem[r].shape) \in Nat \ {0}
  BY <1>2, ObjectsAreTyped DEF IInv, TypeOK
<1>4. /\ \A a \in Copies : EndOf(a)' = EndOf(a)
      /\ EndOf(n)' = mBumpPtr'
  BY <1>1, <1>2 DEF EndOf
<1>5. \A a \in Copies : EndOf(a) \in Nat /\ a[2] \in Nat /\ a[2] < EndOf(a)
                        /\ EndOf(a) <= mBumpPtr
  BY <1>2, ObjectsAreTyped DEF IInv, BelowBumpPtr
<1>6. BelowBumpPtr'
  BY <1>1, <1>2, <1>3, <1>4, <1>5 DEF BelowBumpPtr
<1>7. Tiled'
  <2>1. \A p : IsStart(p) => IsStart(p)'
    BY <1>2 DEF IsStart, At
  <2>2. IsStart(scanPtr)' /\ \A a \in Copies : IsStart(EndOf(a))'
    BY <1>4, <2>1 DEF IInv, MidCollection, Tiled
  <2>3. IsStart(EndOf(n))'
    BY <1>4 DEF IsStart
  <2>4. \A a, b \in Copies : a[2] < b[2] => EndOf(a) <= b[2]
    BY DEF IInv, MidCollection, Tiled
  <2>5. \A a, b \in Copies' : a[2] < b[2] => EndOf(a)' <= b[2]
    BY <1>1, <1>2, <1>3, <1>4, <1>5, <2>4
  <2> QED
    BY <1>2, <2>2, <2>3, <2>5 DEF Tiled
<1>8. Mapped'
  <2>1. /\ DOMAIN map \subseteq Originals
        /\ \A a \in DOMAIN map : /\ map[a] \in Copies
                                 /\ mem[map[a]].id = mem[a].id
                                 /\ mem[map[a]].shape = mem[a].shape
        /\ \A c \in Copies : \E a \in DOMAIN map : map[a] = c
        /\ OneIdentity(Originals)
    BY DEF IInv, MidCollection, Mapped
  <2>2. \A a \in DOMAIN map' : /\ map'[a] \in Copies'
                               /\ mem'[map'[a]].id = mem'[a].id
                               /\ mem'[map'[a]].shape = mem'[a].shape
    BY <1>1, <1>2, <2>1
  <2>3. \A c \in Copies' : \E a \in DOMAIN map' : map'[a] = c
    BY <1>1, <1>2, <2>1
  <2>4. OneIdentity(Originals)'
    BY <1>1, <1>2, <2>1 DEF OneIdentity
  <2> QED
    BY <1>1, <1>2, <2>1, <2>2, <2>3, <2>4 DEF Mapped
<1> QED
  BY <1>2, <1>6, <1>7, <1>8

LEMMA NoCopyKeepsLayout ==
  ASSUME IInv, Collecting, NEW r, NoCopyMade(r),
         UNCHANGED <<mFromRegion, scanPtr>>
  PROVE  /\ Originals' = Originals /\ Copies' = Copies
         /\ BelowBumpPtr' /\ Tiled' /\ Mapped'
<1>1. /\ DOMAIN mem' = DOMAIN mem
      /\ \A a \in DOMAIN mem : mem'[a].id = mem[a].id
                               /\ mem'[a].shape = mem[a].shape
      /\ mBumpPtr' = mBumpPtr /\ map' = map
  BY DEF NoCopyMade
<1>2. /\ Originals' = Originals /\ Copies' = Copies
      /\ Originals \subseteq DOMAIN mem /\ Copies \subseteq DOMAIN mem
  BY <1>1 DEF Originals, Copies
<1>3. \A a \in Copies : EndOf(a)' = EndOf(a)
  BY <1>1, <1>2 DEF EndOf
<1>4. \A p : IsStart(p)' <=> IsStart(p)
  BY <1>1, <1>2 DEF IsStart, At
<1>5. BelowBumpPtr'
  BY <1>1, <1>2, <1>3 DEF IInv, BelowBumpPtr
<1>6. Tiled'
  <2>1. IsStart(scanPtr)' /\ \A a \in Copies : IsStart(EndOf(a))'
    BY <1>3, <1>4 DEF IInv, MidCollection, Tiled
  <2> QED
    BY <1>2, <1>3, <2>1 DEF IInv, MidCollection, Tiled
<1>7. Mapped'
  BY <1>1, <1>2 DEF IInv, MidCollection, Mapped, OneIdentity
<1> QED
  BY <1>2, <1>5, <1>6, <1>7

LEMMA CopyObjectCases ==
  ASSUME IInv, Collecting, NEW r \in Originals \cup {NULL}, CopyObject(r),
         DOMAIN mem' = DOMAIN MemWithCopy(r),
         \A a \in DOMAIN MemWithCopy(r) :
           /\ mem'[a].id = MemWithCopy(r)[a].id
           /\ mem'[a].shape = MemWithCopy(r)[a].shape
  PROVE  \/ r \in Originals /\ CopyMade(r)
         \/ NoCopyMade(r)
<1> PICK n : n = At(mBumpPtr)
  OBVIOUS
<1>1. n \in Address \ DOMAIN mem /\ n[1] = mFromRegion /\ n[2] = mBumpPtr
  BY BumpPtrIsFree DEF IInv
<1>2. Originals \subseteq DOMAIN mem /\ NULL \notin DOMAIN mem
  BY NullAssumption DEF Originals, IInv, TypeOK
<1>3. CASE NeedsCopy(r)
  <2>1. r \in Originals /\ r \notin DOMAIN map
    BY <1>3 DEF NeedsCopy
  <2>2. CopyOf(r) = n
    BY <1>3 DEF NeedsCopy, CopyOf
  <2>3. /\ DOMAIN MemWithCopy(r) = DOMAIN mem \cup {n}
        /\ MemWithCopy(r)[n] = mem[r]
        /\ \A a \in DOMAIN mem : MemWithCopy(r)[a] = mem[a]
    BY <1>1, <1>3 DEF MemWithCopy
  <2>4. /\ mBumpPtr' = mBumpPtr + AlignedSize(mem[r].shape)
        /\ DOMAIN map' = DOMAIN map \cup {r}
        /\ \A a \in DOMAIN map : map'[a] = map[a]
        /\ map'[r] = n
    BY <1>3, <2>1 DEF CopyObject
  <2> QED
    BY <1>1, <1>3, <2>1, <2>2, <2>3, <2>4 DEF CopyMade
<1>4. CASE ~NeedsCopy(r)
  <2>1. r = NULL \/ r \in DOMAIN map
    BY <1>4 DEF NeedsCopy
  <2>2. CopyOf(r) = Forward(r)
    BY <2>1 DEF CopyOf, Forward
  <2>3. MemWithCopy(r) = mem /\ UNCHANGED <<mBumpPtr, map>>
    BY <1>4 DEF MemWithCopy, CopyObject
  <2> QED
    BY <2>1, <2>2, <2>3 DEF NoCopyMade
<1> QED
  BY <1>3, <1>4

(* What both kinds of step have in common. *)
LEMMA CopyKeepsLayout ==
  ASSUME IInv, Collecting, NEW r \in Originals \cup {NULL}, CopyObject(r),
         DOMAIN mem' = DOMAIN MemWithCopy(r),
         \A a \in DOMAIN MemWithCopy(r) :
           /\ mem'[a].id = MemWithCopy(r)[a].id
           /\ mem'[a].shape = MemWithCopy(r)[a].shape,
         UNCHANGED <<mFromRegion, scanPtr>>
  PROVE  /\ Originals' = Originals /\ Copies \subseteq Copies'
         /\ DOMAIN mem \subseteq DOMAIN mem'
         /\ BelowBumpPtr' /\ Tiled' /\ Mapped'
         /\ CopyOf(r) \in Copies' \cup {NULL}
         /\ CopyOf(r) = Forward(r)'
         /\ r \in DOMAIN map' \cup {NULL}
         /\ \A a \in DOMAIN map : a \in DOMAIN map' /\ map'[a] = map[a]
         /\ mBumpPtr' \in Nat /\ mBumpPtr <= mBumpPtr'
         /\ DOMAIN map' \subseteq Address /\ map' \in [DOMAIN map' -> Address]
<1>1. /\ mBumpPtr \in Nat
      /\ Copies \subseteq DOMAIN mem /\ Originals \subseteq DOMAIN mem
      /\ DOMAIN mem \subseteq Address /\ NULL \notin Address
      /\ DOMAIN map \subseteq Originals
      /\ map \in [DOMAIN map -> Address]
      /\ \A a \in DOMAIN map : map[a] \in Copies
  BY NullAssumption DEF IInv, TypeOK, MidCollection, Mapped, Copies, Originals
<1>2. CASE r \in Originals /\ CopyMade(r)
  <2> PICK n : n = At(mBumpPtr)
    OBVIOUS
  <2>1. /\ Originals' = Originals /\ Copies' = Copies \cup {n}
        /\ BelowBumpPtr' /\ Tiled' /\ Mapped'
    BY <1>2, NewCopyKeepsLayout
  <2>2. AlignedSize(mem[r].shape) \in Nat
    BY <1>1, <1>2, ObjectsAreTyped
  <2>3. /\ CopyOf(r) = n /\ n \in Address
        /\ DOMAIN mem' = DOMAIN mem \cup {n}
        /\ mBumpPtr' = mBumpPtr + AlignedSize(mem[r].shape)
        /\ DOMAIN map' = DOMAIN map \cup {r}
        /\ \A a \in DOMAIN map : map'[a] = map[a]
        /\ map'[r] = n
    BY <1>2 DEF CopyMade
  <2>4. mBumpPtr' \in Nat /\ mBumpPtr <= mBumpPtr'
    BY <1>1, <2>2, <2>3
  <2>5. CopyOf(r) = Forward(r)' /\ r # NULL
    BY <1>1, <1>2, <2>3 DEF Forward
  <2>6. map' \in [DOMAIN map' -> Address]
    <3>1. \A a \in DOMAIN map' : map'[a] \in Address
      BY <1>1, <2>3
    <3>2. map' = [a \in DOMAIN map' |-> map'[a]]
      BY <1>2 DEF CopyMade, CopyObject
    <3> QED
      BY <3>1, <3>2
  <2> QED
    BY <1>1, <1>2, <2>1, <2>3, <2>4, <2>5, <2>6
<1>3. CASE NoCopyMade(r)
  <2>1. /\ Originals' = Originals /\ Copies' = Copies
        /\ BelowBumpPtr' /\ Tiled' /\ Mapped'
    BY <1>3, NoCopyKeepsLayout
  <2>2. /\ CopyOf(r) = Forward(r) /\ map' = map /\ mBumpPtr' = mBumpPtr
        /\ r \in DOMAIN map \cup {NULL} /\ DOMAIN mem' = DOMAIN mem
    BY <1>3 DEF NoCopyMade
  <2>3. CopyOf(r) = Forward(r)' /\ CopyOf(r) \in Copies \cup {NULL}
    BY <1>1, <2>2 DEF Forward
  <2> QED
    BY <1>1, <2>1, <2>2, <2>3
<1> QED
  BY <1>2, <1>3, CopyObjectCases

(* Where a copy is made, and what it holds. *)
LEMMA MemWithCopyIsTyped ==
  ASSUME IInv, NEW r \in Originals \cup {NULL}
  PROVE  /\ DOMAIN mem \subseteq DOMAIN MemWithCopy(r)
         /\ DOMAIN MemWithCopy(r) \subseteq Address
         /\ \A a \in DOMAIN mem : MemWithCopy(r)[a] = mem[a]
         /\ \A a \in DOMAIN MemWithCopy(r) : IsObject(MemWithCopy(r)[a])
         /\ NeedsCopy(r) => MemWithCopy(r)[At(mBumpPtr)] = mem[r]
<1>1. At(mBumpPtr) \in Address \ DOMAIN mem
  BY BumpPtrIsFree DEF IInv
<1>2. /\ DOMAIN mem \subseteq Address /\ \A a \in DOMAIN mem : IsObject(mem[a])
      /\ NeedsCopy(r) => r \in DOMAIN mem
  BY DEF IInv, TypeOK, NeedsCopy, Originals
<1> QED
  BY <1>1, <1>2 DEF MemWithCopy

(* The slots still to be scanned belong to a copy, as long as memory only  *)
(* grows behind it.                                                        *)
LEMMA FieldsBelongToCopy ==
  ASSUME IInv, Collecting, NEW f \in fields
  PROVE  /\ scanPtr < mBumpPtr /\ scanPtr \in Nat
         /\ At(scanPtr) \in Copies /\ At(scanPtr)[2] = scanPtr
         /\ f \in RefSlots[mem[At(scanPtr)].shape]
<1>1. f \in SlotsAt(scanPtr)
  BY DEF IInv, MidCollection, Progress
<1>2. scanPtr < mBumpPtr /\ f \in RefSlots[mem[At(scanPtr)].shape]
  BY <1>1 DEF SlotsAt
<1>3. scanPtr \in Nat /\ mBumpPtr \in Nat /\ IsStart(scanPtr)
  BY DEF IInv, TypeOK, MidCollection, Tiled
<1> QED
  BY <1>2, <1>3 DEF IsStart, At

LEMMA FieldsStayWithCopy ==
  ASSUME IInv, Collecting, fields' \subseteq fields,
         UNCHANGED <<mFromRegion, scanPtr>>,
         mBumpPtr' \in Nat, mBumpPtr <= mBumpPtr',
         \A a \in Copies : mem'[a].shape = mem[a].shape
  PROVE  fields' \subseteq SlotsAt(scanPtr)'
<1> SUFFICES ASSUME NEW f \in fields'
             PROVE  f \in SlotsAt(scanPtr)'
  OBVIOUS
<1>1. /\ scanPtr < mBumpPtr /\ scanPtr \in Nat
      /\ At(scanPtr) \in Copies
      /\ f \in RefSlots[mem[At(scanPtr)].shape]
  BY FieldsBelongToCopy
<1>2. scanPtr' < mBumpPtr'
  BY <1>1 DEF IInv, TypeOK
<1>3. At(scanPtr)' = At(scanPtr)
  BY DEF At
<1> QED
  BY <1>1, <1>2, <1>3 DEF SlotsAt

LEMMA VisitRootKeepsInvariant ==
  ASSUME IInv, NEW l \in Location, VisitRoot(l)
  PROVE  IInv'
<1>1. /\ Collecting /\ Collecting' /\ phase = "roots" /\ phase' = "roots"
      /\ l \in pending /\ scanPtr = 0
  BY DEF VisitRoot, IsNextRoot, Collecting, IInv, MidCollection, Progress
<1> PICK r \in Originals \cup {NULL} : r = root[l]
  BY <1>1 DEF IInv, MidCollection, RootsFollow, TypeOK
<1>2. /\ mem' = MemWithCopy(r) /\ CopyObject(r)
      /\ root' = [root EXCEPT ![l] = CopyOf(r)]
      /\ pending' = pending \ {l}
      /\ UNCHANGED <<mFromRegion, mIsGcLocked, mRunAfterEveryAllocation,
                     scanPtr, fields, request>>
  BY DEF VisitRoot
<1>3. /\ Originals' = Originals /\ Copies \subseteq Copies'
      /\ BelowBumpPtr' /\ Tiled' /\ Mapped'
      /\ CopyOf(r) \in Copies' \cup {NULL}
      /\ mBumpPtr' \in Nat /\ mBumpPtr <= mBumpPtr'
      /\ DOMAIN map' \subseteq Address /\ map' \in [DOMAIN map' -> Address]
  BY <1>1, <1>2, CopyKeepsLayout
<1>4. /\ DOMAIN mem' \subseteq Address
      /\ \A a \in DOMAIN mem' : IsObject(mem'[a])
      /\ \A a \in DOMAIN mem : mem'[a] = mem[a]
      /\ NeedsCopy(r) => mem'[At(mBumpPtr)] = mem[r]
  BY <1>2, MemWithCopyIsTyped
<1>5. /\ Originals \subseteq DOMAIN mem /\ Copies \subseteq DOMAIN mem
      /\ DOMAIN map \subseteq Originals
      /\ \A a \in DOMAIN map : map[a] \in Copies
  BY <1>1 DEF Originals, Copies, IInv, MidCollection, Mapped
<1>6. l \in DOMAIN root /\ DOMAIN root' = DOMAIN root
  BY <1>1, <1>2 DEF IInv, TypeOK
<1>7. TypeOK'
  <2>1. CopyOf(r) \in Reference
    BY <1>3, <1>4 DEF Reference, Copies
  <2>2. root' \in [DOMAIN root' -> Reference]
    BY <1>2, <1>6, <2>1 DEF IInv, TypeOK
  <2> QED
    BY <1>1, <1>2, <1>3, <1>4, <1>6, <2>2 DEF IInv, TypeOK
<1>8. ClosedSet(Originals)'
  BY <1>1, <1>3, <1>4, <1>5 DEF IInv, MidCollection, ClosedSet
<1>9. RootsFollow'
  <2> SUFFICES ASSUME NEW k \in DOMAIN root
               PROVE  root'[k] \in (IF k \in pending' THEN Originals ELSE Copies')
                                   \cup {NULL}
    BY <1>3, <1>6 DEF RootsFollow
  <2>1. root[k] \in (IF k \in pending THEN Originals ELSE Copies) \cup {NULL}
    BY <1>1 DEF IInv, MidCollection, RootsFollow
  <2>2. CASE k = l
    BY <1>2, <1>3, <1>6, <2>2
  <2>3. CASE k # l
    BY <1>2, <1>3, <2>1, <2>3
  <2> QED
    BY <2>2, <2>3
<1>10. ScannedFollow'
  <2>1. Mapped'
    BY <1>3
  <2>2. \A n : n \in Copies' => n[2] \in Nat
    BY <1>4, AddressParts DEF Copies
  <2>3. \A a \in DOMAIN map' : \A f : ~Scanned(map[a], f)'
    BY <1>1, <1>2, <2>1, <2>2 DEF Mapped, Scanned
  <2>4. \A a \in DOMAIN map : \A f \in RefSlots[mem[a].shape] :
          mem[map[a]].refs[f] = mem[a].refs[f]
    <3>1. \A a \in DOMAIN map : map[a][2] \in Nat
      BY <1>5, ObjectsAreTyped
    <3>2. \A a \in DOMAIN map : \A f : ~Scanned(map[a], f)
      BY <1>1, <3>1 DEF Scanned
    <3> QED
      BY <1>1, <3>2 DEF IInv, MidCollection, ScannedFollow
  <2>5. \/ r \in Originals /\ CopyMade(r)
        \/ NoCopyMade(r)
    BY <1>1, <1>2, CopyObjectCases
  <2>6. \A a \in DOMAIN map' : \A f \in RefSlots[mem'[a].shape] :
          mem'[map'[a]].refs[f] = mem'[a].refs[f]
    <3>1. CASE r \in Originals /\ CopyMade(r)
      <4> PICK n : n = At(mBumpPtr)
        OBVIOUS
      <4>1. /\ DOMAIN map' = DOMAIN map \cup {r}
            /\ \A a \in DOMAIN map : map'[a] = map[a]
            /\ map'[r] = n
        BY <3>1 DEF CopyMade
      <4>2. mem'[n] = mem[r] /\ mem'[r] = mem[r]
        BY <1>4, <1>5, <3>1 DEF CopyMade
      <4> QED
        BY <1>4, <1>5, <2>4, <4>1, <4>2
    <3>2. CASE NoCopyMade(r)
      <4>1. map' = map
        BY <3>2 DEF NoCopyMade
      <4> QED
        BY <1>4, <1>5, <2>4, <4>1
    <3> QED
      BY <2>5, <3>1, <3>2
  <2> QED
    BY <2>3, <2>6 DEF ScannedFollow
<1>11. Progress'
  BY <1>1, <1>2, <1>3, <1>4, <1>5, FieldsStayWithCopy DEF Progress
<1> QED
  BY <1>1, <1>3, <1>7, <1>8, <1>9, <1>10, <1>11 DEF IInv, MidCollection

(* A slot that has not been scanned refers to an original, the same as the *)
(* slot of the object it was copied from.                                  *)
LEMMA ScanReadsOriginals ==
  ASSUME IInv, NEW f \in Slot, ScanField(f)
  PROVE  LET c == At(scanPtr)
             r == mem[c].refs[f]
         IN  /\ r \in Originals \cup {NULL}
             /\ \E o \in DOMAIN map :
                  /\ map[o] = c
                  /\ \A a \in DOMAIN map : map[a] = c => a = o
                  /\ mem[o].refs[f] = r /\ f \in RefSlots[mem[o].shape]
<1>1. Collecting /\ phase = "scan" /\ f \in fields
  BY DEF ScanField, Collecting
<1> PICK c : c = At(scanPtr)
  OBVIOUS
<1> PICK r : r = mem[c].refs[f]
  OBVIOUS
<1>2. c \in Copies /\ c[2] = scanPtr /\ f \in RefSlots[mem[c].shape] /\ scanPtr \in Nat
  BY <1>1, FieldsBelongToCopy
<1>3. DOMAIN map \subseteq Originals
  BY <1>1 DEF IInv, MidCollection, Mapped
<1>4. PICK o \in DOMAIN map : map[o] = c
  BY <1>1, <1>2 DEF IInv, MidCollection, Mapped
<1>5. \A a \in DOMAIN map : map[a] = c => a = o
  BY <1>1, <1>3, <1>4 DEF IInv, MidCollection, Mapped, OneIdentity
<1>6. /\ mem[o].refs[f] = r /\ f \in RefSlots[mem[o].shape]
      /\ r \in Originals \cup {NULL}
  <2>1. mem[o].shape = mem[c].shape
    BY <1>1, <1>4 DEF IInv, MidCollection, Mapped
  <2>2. ~Scanned(c, f)
    BY <1>1, <1>2 DEF Scanned
  <2>3. mem[c].refs[f] = mem[o].refs[f]
    BY <1>1, <1>2, <1>4, <2>1, <2>2 DEF IInv, MidCollection, ScannedFollow
  <2>4. mem[o].refs[f] \in Originals \cup {NULL}
    BY <1>1, <1>2, <1>3, <1>4, <2>1 DEF IInv, MidCollection, ClosedSet
  <2> QED
    BY <1>2, <2>1, <2>3, <2>4
<1> QED
  BY <1>4, <1>5, <1>6

LEMMA ScanFieldKeepsInvariant ==
  ASSUME IInv, NEW f \in Slot, ScanField(f)
  PROVE  IInv'
<1>1. /\ Collecting /\ Collecting' /\ phase = "scan" /\ phase' = "scan"
      /\ f \in fields /\ pending = {}
  BY DEF ScanField, Collecting, IInv, MidCollection, Progress
<1> PICK c : c = At(scanPtr)
  OBVIOUS
<1> PICK r : r = mem[c].refs[f]
  OBVIOUS
<1>2. /\ CopyObject(r)
      /\ mem' = [MemWithCopy(r) EXCEPT ![c].refs[f] = CopyOf(r)]
      /\ fields' = fields \ {f}
      /\ UNCHANGED <<root, mFromRegion, mIsGcLocked, mRunAfterEveryAllocation,
                     pending, scanPtr, request>>
  BY DEF ScanField
<1>3. /\ scanPtr < mBumpPtr /\ scanPtr \in Nat
      /\ c \in Copies /\ c[2] = scanPtr
      /\ f \in RefSlots[mem[c].shape]
  BY <1>1, FieldsBelongToCopy
<1>4. /\ Originals \subseteq DOMAIN mem /\ Copies \subseteq DOMAIN mem
      /\ DOMAIN map \subseteq Originals
      /\ \A a \in DOMAIN map : map[a] \in Copies
      /\ c \notin Originals
  BY <1>1, <1>3 DEF Originals, Copies, IInv, MidCollection, Mapped

(* The original of the copy being scanned has the same in its slot. *)
<1>5. PICK o \in DOMAIN map :
        /\ map[o] = c
        /\ \A a \in DOMAIN map : map[a] = c => a = o
        /\ mem[o].refs[f] = r /\ f \in RefSlots[mem[o].shape]
  BY ScanReadsOriginals
<1>6. \A a \in DOMAIN map : map[a] = c => a = o
  BY <1>5
<1>7. /\ mem[o].refs[f] = r /\ f \in RefSlots[mem[o].shape]
      /\ r \in Originals \cup {NULL}
  BY <1>5, ScanReadsOriginals

(* What the step does to memory. *)
<1>8. /\ DOMAIN mem \subseteq DOMAIN MemWithCopy(r)
      /\ DOMAIN MemWithCopy(r) \subseteq Address
      /\ \A a \in DOMAIN mem : MemWithCopy(r)[a] = mem[a]
      /\ \A a \in DOMAIN MemWithCopy(r) : IsObject(MemWithCopy(r)[a])
      /\ NeedsCopy(r) => MemWithCopy(r)[At(mBumpPtr)] = mem[r]
  BY <1>7, MemWithCopyIsTyped
<1>9. At(mBumpPtr) \in Address \ DOMAIN mem /\ At(mBumpPtr)[2] = mBumpPtr
  BY BumpPtrIsFree DEF IInv
<1>10. CopyOf(r) \in Reference
  BY <1>1, <1>4, <1>8, <1>9 DEF CopyOf, Reference, IInv, TypeOK
<1>11. /\ DOMAIN mem' = DOMAIN MemWithCopy(r)
       /\ \A a \in DOMAIN mem' : a # c => mem'[a] = MemWithCopy(r)[a]
       /\ mem'[c] = [mem[c] EXCEPT !.refs[f] = CopyOf(r)]
  BY <1>2, <1>3, <1>4, <1>8
<1>12. /\ IsObject(mem'[c])
       /\ mem'[c].id = mem[c].id /\ mem'[c].shape = mem[c].shape
       /\ mem'[c].refs[f] = CopyOf(r)
       /\ \A g \in RefSlots[mem[c].shape] :
            g # f => mem'[c].refs[g] = mem[c].refs[g]
  <2>1. IsObject(mem[c])
    BY <1>3, <1>4 DEF IInv, TypeOK
  <2> QED
    BY <1>3, <1>10, <1>11, <2>1 DEF IsObject
<1>13. \A a \in DOMAIN mem' : /\ IsObject(mem'[a])
                              /\ mem'[a].id = MemWithCopy(r)[a].id
                              /\ mem'[a].shape = MemWithCopy(r)[a].shape
  <2> SUFFICES ASSUME NEW a \in DOMAIN mem'
               PROVE  /\ IsObject(mem'[a])
                      /\ mem'[a].id = MemWithCopy(r)[a].id
                      /\ mem'[a].shape = MemWithCopy(r)[a].shape
    OBVIOUS
  <2>1. CASE a = c
    BY <1>3, <1>4, <1>8, <1>12, <2>1
  <2>2. CASE a # c
    BY <1>8, <1>11, <2>2
  <2> QED
    BY <2>1, <2>2
<1>14. /\ Originals' = Originals /\ Copies \subseteq Copies'
       /\ BelowBumpPtr' /\ Tiled' /\ Mapped'
       /\ CopyOf(r) = Forward(r)' /\ r \in DOMAIN map' \cup {NULL}
       /\ \A a \in DOMAIN map : a \in DOMAIN map' /\ map'[a] = map[a]
       /\ mBumpPtr' \in Nat /\ mBumpPtr <= mBumpPtr'
       /\ DOMAIN map' \subseteq Address /\ map' \in [DOMAIN map' -> Address]
  BY <1>1, <1>2, <1>7, <1>11, <1>13, CopyKeepsLayout
<1>15. \A a \in Originals : mem'[a] = mem[a]
  BY <1>4, <1>8, <1>11

<1>16. TypeOK'
  BY <1>1, <1>2, <1>8, <1>11, <1>13, <1>14 DEF IInv, TypeOK
<1>17. ClosedSet(Originals)'
  BY <1>1, <1>14, <1>15 DEF IInv, MidCollection, ClosedSet
<1>18. RootsFollow'
  BY <1>1, <1>2, <1>14 DEF IInv, MidCollection, RootsFollow
<1>19. ScannedFollow'
  <2> SUFFICES ASSUME NEW a \in DOMAIN map', NEW g \in RefSlots[mem'[a].shape]
               PROVE  IF Scanned(map[a], g)'
                      THEN /\ mem'[a].refs[g] \in DOMAIN map' \cup {NULL}
                           /\ mem'[map'[a]].refs[g] = Forward(mem[a].refs[g])'
                      ELSE mem'[map'[a]].refs[g] = mem'[a].refs[g]
    BY DEF ScannedFollow
  <2>1. CASE a = o /\ g = f
    <3>1. /\ map'[a] = c /\ mem'[a] = mem[a]
      BY <1>4, <1>5, <1>14, <1>15, <2>1
    <3>2. Scanned(map[a], g)'
      BY <1>1, <1>2, <1>3, <2>1, <3>1 DEF Scanned
    <3>3. mem'[a].refs[g] = r /\ mem'[map'[a]].refs[g] = CopyOf(r)
      BY <1>7, <1>12, <2>1, <3>1
    <3> QED
      BY <1>14, <3>2, <3>3 DEF Forward
  <2>2. CASE a \in DOMAIN map /\ ~(a = o /\ g = f)
    <3>1. /\ map'[a] = map[a] /\ map[a] \in Copies /\ mem'[a] = mem[a]
          /\ g \in RefSlots[mem[map[a]].shape] /\ g \in RefSlots[mem[a].shape]
      BY <1>1, <1>4, <1>14, <1>15, <2>2 DEF IInv, MidCollection, Mapped
    <3>2. mem'[map[a]].refs[g] = mem[map[a]].refs[g]
      <4>1. CASE map[a] = c
        BY <1>6, <1>12, <2>2, <3>1, <4>1
      <4>2. CASE map[a] # c
        BY <1>4, <1>8, <1>11, <3>1, <4>2
      <4> QED
        BY <4>1, <4>2
    <3>3. Scanned(map[a], g)' <=> Scanned(map[a], g)
      <4>1. map[a][2] = scanPtr => map[a] = c
        BY <1>3, <1>4, <3>1, ObjectsAreTyped, AddressParts DEF Copies
      <4>2. map[a][2] = scanPtr => g # f
        BY <1>6, <2>2, <4>1
      <4> QED
        BY <1>1, <1>2, <3>1, <4>2 DEF Scanned
    <3>4. IF Scanned(map[a], g)
          THEN /\ mem[a].refs[g] \in DOMAIN map \cup {NULL}
               /\ mem[map[a]].refs[g] = Forward(mem[a].refs[g])
          ELSE mem[map[a]].refs[g] = mem[a].refs[g]
      BY <1>1, <2>2, <3>1 DEF IInv, MidCollection, ScannedFollow
    <3>5. mem[a].refs[g] \in DOMAIN map \cup {NULL}
            => Forward(mem[a].refs[g])' = Forward(mem[a].refs[g])
      BY <1>14, <3>1 DEF Forward
    <3> QED
      BY <1>14, <3>1, <3>2, <3>3, <3>4, <3>5
  <2>3. CASE a \notin DOMAIN map
    <3>1. r \in Originals /\ CopyMade(r)
      <4>1. ~NoCopyMade(r)
        BY <2>3 DEF NoCopyMade
      <4> QED
        BY <1>1, <1>2, <1>7, <1>11, <1>13, <4>1, CopyObjectCases
    <3> PICK n : n = At(mBumpPtr)
      OBVIOUS
    <3>2. a = r /\ map'[a] = n /\ NeedsCopy(r)
      BY <2>3, <3>1 DEF CopyMade
    <3>3. n # c /\ n[2] = mBumpPtr
      BY <1>3, <1>4, <1>9
    <3>4. mem'[n] = mem[r] /\ mem'[a] = mem[r]
      <4>1. n \in DOMAIN mem'
        BY <3>1 DEF CopyMade
      <4>2. mem'[n] = MemWithCopy(r)[n]
        BY <1>11, <3>3, <4>1
      <4>3. MemWithCopy(r)[n] = mem[r]
        BY <1>8, <3>2
      <4>4. mem'[a] = mem[r]
        BY <1>15, <3>1, <3>2
      <4> QED
        BY <4>2, <4>3, <4>4
    <3>5. ~Scanned(map[a], g)'
      <4>1. /\ map'[a][2] = mBumpPtr /\ scanPtr' = scanPtr
            /\ scanPtr < mBumpPtr /\ mBumpPtr \in Nat
        BY <1>2, <1>3, <3>2, <3>3 DEF IInv, TypeOK
      <4> QED
        BY <1>3, <4>1 DEF Scanned
    <3> QED
      BY <3>2, <3>4, <3>5
  <2> QED
    BY <2>1, <2>2, <2>3
<1>20. Progress'
  <2>1. fields' \subseteq fields
    BY <1>2
  <2>2. \A a \in Copies : mem'[a].shape = mem[a].shape
    BY <1>4, <1>8, <1>11, <1>13
  <2> QED
    BY <1>1, <1>2, <1>14, <2>1, <2>2, FieldsStayWithCopy DEF Progress
<1> QED
  BY <1>1, <1>14, <1>16, <1>17, <1>18, <1>19, <1>20 DEF IInv, MidCollection

LEMMA BeginScanKeepsInvariant ==
  ASSUME IInv, BeginScan
  PROVE  IInv'
<1>1. /\ Collecting /\ Collecting' /\ phase = "roots" /\ phase' = "scan"
      /\ pending = {} /\ scanPtr = 0
      /\ fields' = SlotsAt(scanPtr)
      /\ UNCHANGED <<mem, root, mFromRegion, mBumpPtr, mIsGcLocked, pending, map,
                     mRunAfterEveryAllocation, scanPtr, request>>
  BY DEF BeginScan, heapVars, Collecting, IInv, MidCollection, Progress
<1>2. /\ Copies' = Copies /\ Originals' = Originals
      /\ \A p : IsStart(p)' <=> IsStart(p)
      /\ \A a : EndOf(a)' = EndOf(a)
      /\ SlotsAt(scanPtr)' = SlotsAt(scanPtr)
  BY <1>1 DEF Copies, Originals, IsStart, At, EndOf, SlotsAt
<1>3. SlotsAt(scanPtr) \subseteq Slot
  <2> SUFFICES ASSUME scanPtr < mBumpPtr
               PROVE  RefSlots[mem[At(scanPtr)].shape] \subseteq Slot
    BY DEF SlotsAt
  <2>1. At(scanPtr) \in DOMAIN mem
    BY <1>1 DEF IInv, TypeOK, MidCollection, Tiled, IsStart, Copies
  <2> QED
    BY <2>1, LayoutAssumption DEF IInv, TypeOK, IsObject
<1>4. TypeOK' /\ BelowBumpPtr'
  BY <1>1, <1>2, <1>3 DEF IInv, TypeOK, BelowBumpPtr
<1>5. Tiled'
  <2>1. IsStart(scanPtr)' /\ \A a \in Copies : IsStart(EndOf(a))'
    BY <1>1, <1>2 DEF IInv, MidCollection, Tiled
  <2> QED
    BY <1>1, <1>2, <2>1 DEF IInv, MidCollection, Tiled
<1>6. Mapped' /\ ClosedSet(Originals)' /\ RootsFollow' /\ Progress'
  BY <1>1, <1>2
     DEF IInv, MidCollection, Mapped, OneIdentity, ClosedSet, RootsFollow, Progress
<1>7. ScannedFollow'
  <2> SUFFICES ASSUME NEW a \in DOMAIN map, NEW f \in RefSlots[mem[a].shape]
               PROVE  /\ ~Scanned(map[a], f)'
                      /\ mem[map[a]].refs[f] = mem[a].refs[f]
    BY <1>1 DEF ScannedFollow
  <2>1. /\ map[a] \in Copies /\ map[a] \in DOMAIN mem
        /\ mem[map[a]].shape = mem[a].shape
        /\ map[a][1] = mFromRegion
    BY <1>1 DEF IInv, MidCollection, Mapped, Copies
  <2>2. map[a][2] \in Nat /\ map[a] = <<map[a][1], map[a][2]>>
    BY <2>1, ObjectsAreTyped, AddressParts
  <2>3. ~Scanned(map[a], f)
    BY <1>1, <2>2 DEF Scanned
  <2>4. map[a][2] = scanPtr => f \in SlotsAt(scanPtr)
    <3> HAVE map[a][2] = scanPtr
    <3>1. map[a] = At(scanPtr)
      BY <2>1, <2>2 DEF At
    <3>2. scanPtr < mBumpPtr
      BY <2>1, ObjectsAreTyped DEF IInv, TypeOK, BelowBumpPtr
    <3> QED
      BY <2>1, <3>1, <3>2 DEF SlotsAt
  <2>5. ~Scanned(map[a], f)'
    BY <1>1, <2>2, <2>4 DEF Scanned
  <2> QED
    BY <1>1, <2>3, <2>5 DEF IInv, MidCollection, ScannedFollow
<1> QED
  BY <1>1, <1>4, <1>5, <1>6, <1>7 DEF IInv, MidCollection

LEMMA AdvanceScanKeepsInvariant ==
  ASSUME IInv, AdvanceScan
  PROVE  IInv'
<1> PICK c : c = At(scanPtr)
  OBVIOUS
<1>1. /\ Collecting /\ Collecting' /\ phase = "scan" /\ phase' = "scan"
      /\ scanPtr < mBumpPtr /\ fields = {} /\ scanPtr \in Nat /\ mBumpPtr \in Nat
      /\ UNCHANGED <<mem, root, mFromRegion, mBumpPtr, mIsGcLocked, pending, map,
                     mRunAfterEveryAllocation, request>>
  BY DEF AdvanceScan, heapVars, Collecting, IInv, TypeOK
<1>2. c \in Copies /\ c \in DOMAIN mem /\ c[2] = scanPtr
  BY <1>1 DEF IInv, MidCollection, Tiled, IsStart, Copies, At
<1>3. /\ scanPtr' = EndOf(c) /\ EndOf(c) \in Nat /\ scanPtr < EndOf(c)
      /\ IsStart(EndOf(c))
  BY <1>1, <1>2, ObjectsAreTyped
     DEF AdvanceScan, EndOf, IInv, MidCollection, Tiled
<1>4. /\ Copies' = Copies /\ Originals' = Originals
      /\ \A p : IsStart(p)' <=> IsStart(p)
      /\ \A a : EndOf(a)' = EndOf(a)
      /\ \A p : SlotsAt(p)' = SlotsAt(p)
  BY <1>1 DEF Copies, Originals, IsStart, At, EndOf, SlotsAt
<1>5. PICK p \in Nat : p = EndOf(c)
  BY <1>3
<1>6. scanPtr' = p /\ fields' = SlotsAt(p) /\ IsStart(p) /\ scanPtr < p
  <2>1. fields' = SlotsAt(scanPtr')
    BY DEF AdvanceScan
  <2> QED
    BY <1>3, <1>5, <2>1
<1>7. SlotsAt(p) \subseteq Slot
  <2> SUFFICES ASSUME p < mBumpPtr
               PROVE  RefSlots[mem[At(p)].shape] \subseteq Slot
    BY DEF SlotsAt
  <2>1. At(p) \in DOMAIN mem
    BY <1>1, <1>6 DEF IsStart, Copies
  <2> QED
    BY <2>1, LayoutAssumption DEF IInv, TypeOK, IsObject
<1>8. TypeOK' /\ BelowBumpPtr'
  BY <1>1, <1>4, <1>6, <1>7 DEF IInv, TypeOK, BelowBumpPtr
<1>9. Tiled'
  <2>1. IsStart(scanPtr)' /\ \A a \in Copies : IsStart(EndOf(a))'
    BY <1>1, <1>4, <1>6 DEF IInv, MidCollection, Tiled
  <2> QED
    BY <1>1, <1>4, <2>1 DEF IInv, MidCollection, Tiled
<1>10. Mapped' /\ ClosedSet(Originals)' /\ RootsFollow' /\ Progress'
  BY <1>1, <1>4, <1>6
     DEF IInv, MidCollection, Mapped, OneIdentity, ClosedSet, RootsFollow, Progress
<1>11. ScannedFollow'
  <2> SUFFICES ASSUME NEW a \in DOMAIN map, NEW f \in RefSlots[mem[a].shape]
               PROVE  Scanned(map[a], f)' <=> Scanned(map[a], f)
    BY <1>1 DEF IInv, MidCollection, ScannedFollow, Forward
  <2> PICK n : n = map[a]
    OBVIOUS
  <2>1. /\ n \in Copies /\ n \in DOMAIN mem
        /\ mem[n].shape = mem[a].shape
        /\ n[1] = mFromRegion
    BY <1>1 DEF IInv, MidCollection, Mapped, Copies
  <2>2. n[2] \in Nat /\ n = <<n[1], n[2]>> /\ n[2] < mBumpPtr
    BY <2>1, ObjectsAreTyped, AddressParts DEF IInv, TypeOK, BelowBumpPtr
  <2>3. Scanned(n, f) <=> n[2] <= scanPtr
    BY <1>1, <2>2 DEF Scanned
  <2>4. n[2] = p => f \in SlotsAt(p)
    BY <2>1, <2>2 DEF SlotsAt, At
  <2>5. (n[2] < p \/ (n[2] = p /\ f \notin SlotsAt(p))) <=> n[2] <= scanPtr
    <3>1. scanPtr < n[2] => p <= n[2]
      BY <1>1, <1>2, <1>5, <2>1 DEF IInv, MidCollection, Tiled
    <3> QED
      BY <1>1, <1>6, <2>2, <2>4, <3>1
  <2> QED
    BY <1>1, <1>6, <2>3, <2>5 DEF Scanned
<1> QED
  BY <1>1, <1>8, <1>9, <1>10, <1>11 DEF IInv, MidCollection

(* When the scan has passed every copy, the copies refer to copies only.   *)
LEMMA ScanIsComplete ==
  ASSUME IInv, FinishCollection
  PROVE  /\ ClosedSet(Copies)
         /\ OneIdentity(Copies)
         /\ \A l \in DOMAIN root : root[l] \in Copies \cup {NULL}
<1>1. /\ Collecting /\ phase = "scan" /\ pending = {} /\ mBumpPtr <= scanPtr
      /\ mBumpPtr \in Nat /\ scanPtr \in Nat
  BY DEF FinishCollection, Collecting, IInv, TypeOK, MidCollection, Progress
<1>2. /\ \A a \in DOMAIN map : /\ map[a] \in Copies
                              /\ mem[map[a]].id = mem[a].id
                              /\ mem[map[a]].shape = mem[a].shape
      /\ DOMAIN map \subseteq Originals
      /\ \A n \in Copies : \E a \in DOMAIN map : map[a] = n
      /\ OneIdentity(Originals)
  BY <1>1 DEF IInv, MidCollection, Mapped
<1>3. \A n \in Copies : n[2] < scanPtr
  <2> SUFFICES ASSUME NEW n \in Copies
               PROVE  n[2] < scanPtr
    OBVIOUS
  <2>1. n \in DOMAIN mem
    BY DEF Copies
  <2>2. n[2] \in Nat /\ EndOf(n) \in Nat /\ n[2] < EndOf(n) /\ EndOf(n) <= mBumpPtr
    BY <2>1, ObjectsAreTyped DEF IInv, BelowBumpPtr
  <2> QED
    BY <1>1, <2>2
<1>4. ClosedSet(Copies)
  <2> SUFFICES ASSUME NEW n \in Copies, NEW f \in RefSlots[mem[n].shape]
               PROVE  mem[n].refs[f] \in Copies \cup {NULL}
    BY DEF ClosedSet
  <2> PICK a \in DOMAIN map : map[a] = n
    BY <1>2
  <2>1. Scanned(map[a], f)
    BY <1>3 DEF Scanned
  <2>2. /\ mem[a].refs[f] \in DOMAIN map \cup {NULL}
        /\ mem[n].refs[f] = Forward(mem[a].refs[f])
    BY <1>1, <1>2, <2>1 DEF IInv, MidCollection, ScannedFollow
  <2> QED
    BY <1>2, <2>2 DEF Forward
<1>5. OneIdentity(Copies)
  <2> SUFFICES ASSUME NEW m \in Copies, NEW n \in Copies, mem[m].id = mem[n].id
               PROVE  m = n
    BY DEF OneIdentity
  <2> PICK a \in DOMAIN map : map[a] = m
    BY <1>2
  <2> PICK b \in DOMAIN map : map[b] = n
    BY <1>2
  <2>1. a \in Originals /\ b \in Originals /\ mem[a].id = mem[b].id
    BY <1>2
  <2> QED
    BY <1>2, <2>1 DEF OneIdentity
<1>6. \A l \in DOMAIN root : root[l] \in Copies \cup {NULL}
  BY <1>1 DEF IInv, MidCollection, RootsFollow
<1> QED
  BY <1>4, <1>5, <1>6

LEMMA FinishKeepsInvariant ==
  ASSUME IInv, FinishCollection
  PROVE  IInv'
<1>1. /\ ClosedSet(Copies) /\ OneIdentity(Copies)
      /\ \A l \in DOMAIN root : root[l] \in Copies \cup {NULL}
  BY ScanIsComplete
<1>2. /\ mem' = [a \in Copies |-> mem[a]]
      /\ UNCHANGED <<root, mFromRegion, mBumpPtr, mRunAfterEveryAllocation,
                     pending, request>>
      /\ mIsGcLocked' = FALSE /\ phase' = "program"
      /\ map' = Empty /\ scanPtr' = 0 /\ fields' = {}
  BY DEF FinishCollection, Copies
<1>3. /\ DOMAIN mem' = Copies /\ \A a \in Copies : mem'[a] = mem[a]
      /\ Copies \subseteq DOMAIN mem
  BY <1>2 DEF Copies
<1>4. Copies' = Copies /\ Originals' = {}
  BY <1>2, <1>3 DEF Copies, Originals
<1>5. TypeOK'
  BY <1>2, <1>3 DEF IInv, TypeOK, Empty
<1>6. BelowBumpPtr'
  <2>1. \A a \in Copies : EndOf(a)' = EndOf(a)
    BY <1>3 DEF EndOf
  <2> QED
    BY <1>2, <1>4, <2>1 DEF IInv, BelowBumpPtr
<1>7. AtRest'
  <2>1. pending' = {}
    BY <1>2 DEF FinishCollection, IInv, MidCollection, Progress, Collecting
  <2>2. OneIdentity(Copies)' /\ ClosedSet(Copies)'
    BY <1>1, <1>3, <1>4 DEF OneIdentity, ClosedSet
  <2> QED
    BY <1>1, <1>2, <1>4, <2>1, <2>2 DEF AtRest
<1> QED
  BY <1>2, <1>5, <1>6, <1>7 DEF IInv, Collecting

-----------------------------------------------------------------------------
(* The invariant holds initially and every step keeps it.                  *)

LEMMA InvariantInit == Init => IInv
<1> SUFFICES ASSUME Init
             PROVE  IInv
  OBVIOUS
<1>1. TypeOK
  BY DEF Init, TypeOK, Empty, Region, Request
<1>2. Copies = {} /\ Originals = {}
  BY DEF Init, Copies, Originals, Empty
<1>3. BelowBumpPtr /\ AtRest
  BY <1>2 DEF Init, BelowBumpPtr, AtRest, OneIdentity, ClosedSet, Empty
<1> QED
  BY <1>1, <1>3 DEF Init, IInv, Collecting

LEMMA AllocateNowKeepsInvariant ==
  ASSUME IInv, NEW s \in Shape, NEW l \in Location, AllocateNow(s, l)
  PROVE  IInv'
<1>1. ~Collecting /\ request' \in Request
  BY DEF AllocateNow, Running, Collecting, IInv, TypeOK
<1> QED
  BY <1>1, PlaceKeepsInvariant DEF AllocateNow

LEMMA AllocateAfterCollectionKeepsInvariant ==
  ASSUME IInv, NEW s \in Shape, NEW l \in Location, AllocateAfterCollection(s, l)
  PROVE  IInv'
<1>1. ~Collecting /\ request' \in Request
  BY DEF AllocateAfterCollection, Running, Collecting, Request
<1> QED
  BY <1>1, BeginKeepsInvariant DEF AllocateAfterCollection

LEMMA FinishAllocationKeepsInvariant ==
  ASSUME IInv, FinishAllocation
  PROVE  IInv'
<1>1. ~Collecting /\ request' \in Request
  BY DEF FinishAllocation, Collecting, Request
<1>2. request.shape \in Shape /\ request.into \in Location
  BY DEF FinishAllocation, IInv, TypeOK, Request
<1> QED
  BY <1>1, <1>2, PlaceKeepsInvariant DEF FinishAllocation

LEMMA OtherStepsKeepInvariant ==
  ASSUME IInv,
         \/ OutOfMemory
         \/ \E locked \in BOOLEAN : SetLock(locked)
         \/ UNCHANGED vars /\ ~Collecting
  PROVE  IInv'
<1>1. /\ ~Collecting /\ phase' \in {"program", "panicked"}
      /\ mIsGcLocked' \in BOOLEAN /\ mRunAfterEveryAllocation' \in BOOLEAN
      /\ request' \in Request
      /\ UNCHANGED heapVars /\ UNCHANGED gcVars /\ UNCHANGED root
  BY DEF OutOfMemory, SetLock, Running, Collecting, IInv, TypeOK, vars, heapVars,
         gcVars
<1>2. DOMAIN root \subseteq Location /\ root \in [DOMAIN root -> Copies \cup {NULL}]
  BY <1>1 DEF IInv, TypeOK, AtRest
<1> QED
  BY <1>1, <1>2, SameMemoryKeepsInvariant

LEMMA StutteringKeepsInvariant ==
  ASSUME IInv, UNCHANGED vars
  PROVE  IInv'
<1>1. CASE ~Collecting
  BY <1>1, OtherStepsKeepInvariant
<1>2. CASE Collecting
  <2>1. UNCHANGED <<mem, root, mFromRegion, mBumpPtr, mIsGcLocked,
                    mRunAfterEveryAllocation, phase, pending, map, scanPtr,
                    fields, request>>
    BY DEF vars
  <2>2. /\ Copies' = Copies /\ Originals' = Originals
        /\ \A p : IsStart(p)' <=> IsStart(p)
        /\ \A a : EndOf(a)' = EndOf(a)
        /\ \A n, f : Scanned(n, f)' <=> Scanned(n, f)
        /\ \A p : SlotsAt(p)' = SlotsAt(p)
    BY <2>1 DEF Copies, Originals, IsStart, At, EndOf, Scanned, SlotsAt
  <2>3. TypeOK' /\ BelowBumpPtr' /\ Collecting'
    BY <1>2, <2>1, <2>2 DEF IInv, TypeOK, BelowBumpPtr, Collecting
  <2>4. Tiled'
    <3>1. IsStart(scanPtr)' /\ \A a \in Copies : IsStart(EndOf(a))'
      BY <1>2, <2>1, <2>2 DEF IInv, MidCollection, Tiled
    <3> QED
      BY <1>2, <2>2, <3>1 DEF IInv, MidCollection, Tiled
  <2>5. Mapped' /\ ClosedSet(Originals)' /\ RootsFollow' /\ Progress'
    BY <1>2, <2>1, <2>2
       DEF IInv, MidCollection, Mapped, OneIdentity, ClosedSet, RootsFollow,
           Progress
  <2>6. ScannedFollow'
    BY <1>2, <2>1, <2>2 DEF IInv, MidCollection, ScannedFollow, Forward
  <2> QED
    BY <2>3, <2>4, <2>5, <2>6 DEF IInv, MidCollection
<1> QED
  BY <1>1, <1>2

LEMMA InvariantStep == IInv /\ [Next]_vars => IInv'
<1> SUFFICES ASSUME IInv, [Next]_vars
             PROVE  IInv'
  OBVIOUS
<1>1. CASE Program
  <2>1. CASE RuntimeGc
    BY <2>1, BeginKeepsInvariant DEF RuntimeGc, Running, Collecting, IInv, TypeOK
  <2> QED
    BY <1>1, <2>1, AllocateNowKeepsInvariant, PutKeepsInvariant,
       AllocateAfterCollectionKeepsInvariant, DropKeepsInvariant,
       StoreKeepsInvariant, OtherStepsKeepInvariant
       DEF Program
<1>2. CASE Collect
  BY <1>2, VisitRootKeepsInvariant, BeginScanKeepsInvariant,
     ScanFieldKeepsInvariant, AdvanceScanKeepsInvariant, FinishKeepsInvariant
     DEF Collect
<1>3. CASE FinishAllocation \/ OutOfMemory
  BY <1>3, FinishAllocationKeepsInvariant, OtherStepsKeepInvariant
<1> QED
  BY <1>1, <1>2, <1>3, StutteringKeepsInvariant DEF Next

LEMMA InvariantAlways == Spec => []IInv
BY InvariantInit, InvariantStep, PTL DEF Spec

-----------------------------------------------------------------------------
(* The variables keep their types. *)
THEOREM TypeCorrect == Spec => []TypeOK
<1>1. IInv => TypeOK
  BY DEF IInv
<1> QED
  BY <1>1, InvariantAlways, PTL

LEMMA InvariantLeavesNothingDangling == IInv => NoDanglingReference
<1> SUFFICES ASSUME IInv
             PROVE  NoDanglingReference
  OBVIOUS
<1>1. Copies \subseteq DOMAIN mem /\ Originals \subseteq DOMAIN mem
      /\ DOMAIN mem = Copies \cup Originals
  BY DEF Copies, Originals
<1>2. CASE ~Collecting
  <2>1. DOMAIN mem = Copies
    BY <1>2, ValuesAreObjects
  <2> QED
    BY <1>2, <2>1
       DEF IInv, AtRest, NoDanglingReference, ClosedSet, OneIdentity
<1>3. CASE Collecting
  <2>1. \A l \in DOMAIN root : root[l] \in DOMAIN mem \cup {NULL}
    BY <1>1, <1>3 DEF IInv, MidCollection, RootsFollow
  <2>2. /\ \A a \in DOMAIN map : /\ map[a] \in Copies
                                 /\ mem[map[a]].shape = mem[a].shape
        /\ DOMAIN map \subseteq Originals
        /\ \A n \in Copies : \E a \in DOMAIN map : map[a] = n
    BY <1>3 DEF IInv, MidCollection, Mapped
  <2>3. \A a \in Originals : \A f \in RefSlots[mem[a].shape] :
          mem[a].refs[f] \in DOMAIN mem \cup {NULL}
    BY <1>1, <1>3 DEF IInv, MidCollection, ClosedSet
  <2>4. ASSUME NEW n \in Copies, NEW f \in RefSlots[mem[n].shape]
        PROVE  mem[n].refs[f] \in DOMAIN mem \cup {NULL}
    <3> PICK a \in DOMAIN map : map[a] = n
      BY <2>2
    <3>1. IF Scanned(map[a], f)
          THEN /\ mem[a].refs[f] \in DOMAIN map \cup {NULL}
               /\ mem[n].refs[f] = Forward(mem[a].refs[f])
          ELSE mem[n].refs[f] = mem[a].refs[f]
      BY <1>3, <2>2 DEF IInv, MidCollection, ScannedFollow
    <3>2. mem[a].refs[f] \in DOMAIN mem \cup {NULL}
      BY <2>2, <2>3
    <3> QED
      BY <1>1, <2>2, <3>1, <3>2 DEF Forward
  <2>5. phase # "program"
    BY <1>3 DEF Collecting
  <2> QED
    BY <1>1, <2>1, <2>3, <2>4, <2>5 DEF NoDanglingReference
<1> QED
  BY <1>2, <1>3

(* At every moment, in and between collections, every root and every slot  *)
(* of an object leads to an object that is in memory: performGarbage-      *)
(* Collection forgets no reference, for any heap and any set of roots.     *)
THEOREM NothingDangles == Spec => []NoDanglingReference
BY InvariantLeavesNothingDangling, InvariantAlways, PTL

-----------------------------------------------------------------------------
(* Pieces that cover the first n places, and have places below h that do   *)
(* not overlap, cover no more than h.                                      *)
LEMMA PiecesFit ==
  ASSUME NEW n \in Nat, NEW h \in Nat, NEW P,
         NEW from \in [P -> Nat], NEW to \in [P -> Nat], NEW len \in [P -> Nat],
         \A p \in P : from[p] + len[p] <= h,
         \A p, q \in P : p = q \/ from[p] + len[p] <= from[q]
                               \/ from[q] + len[q] <= from[p],
         \A k \in 0 .. n - 1 : \E p \in P : to[p] <= k /\ k < to[p] + len[p]
  PROVE  n <= h
<1> SUFFICES ASSUME n > h PROVE FALSE
  OBVIOUS
<1> DEFINE S == 0 .. n - 1
           T == 0 .. h - 1
           piece(k) == CHOOSE p \in P : to[p] <= k /\ k < to[p] + len[p]
           f == [k \in S |-> from[piece(k)] + (k - to[piece(k)])]
<1>1. ASSUME NEW k \in S
      PROVE  /\ piece(k) \in P
             /\ to[piece(k)] <= k /\ k < to[piece(k)] + len[piece(k)]
  <2>1. \E p \in P : to[p] <= k /\ k < to[p] + len[p]
    OBVIOUS
  <2> QED
    BY <2>1
<1> HIDE DEF piece
<1>2. ASSUME NEW k \in S
      PROVE  from[piece(k)] + (k - to[piece(k)]) \in T
  <2> PICK p \in P : p = piece(k)
    BY <1>1
  <2>1. to[p] <= k /\ k < to[p] + len[p] /\ from[p] + len[p] <= h
    BY <1>1
  <2>2. from[p] \in Nat /\ to[p] \in Nat /\ len[p] \in Nat
    OBVIOUS
  <2>3. from[p] + (k - to[p]) \in T
    BY <2>1, <2>2
  <2> QED
    BY <2>3
<1>3. f \in [S -> T]
  BY <1>2
<1>4. \A k \in S : f[k] = from[piece(k)] + (k - to[piece(k)])
  OBVIOUS
<1>5. IsFiniteSet(S) /\ IsFiniteSet(T) /\ Cardinality(T) < Cardinality(S)
  <2>1. IsFiniteSet(S) /\ Cardinality(S) = n
    BY FS_Interval
  <2>2. IsFiniteSet(T) /\ Cardinality(T) = h
    <3> PICK e \in Int : e = h - 1
      OBVIOUS
    <3>1. /\ IsFiniteSet(0 .. e)
          /\ Cardinality(0 .. e) = IF 0 > e THEN 0 ELSE e - 0 + 1
      BY FS_Interval
    <3> QED
      BY <3>1
  <2> QED
    BY <2>1, <2>2
<1> HIDE DEF f, T
<1>6. PICK x \in S, y \in S : x # y /\ f[x] = f[y]
  <2> HIDE DEF S
  <2>1. \E x, y \in S : x # y /\ f[x] = f[y]
    BY <1>3, <1>5, FS_PigeonHole, Zenon
  <2> QED
    BY <2>1
<1> PICK p \in P : p = piece(x)
  BY <1>1
<1> PICK q \in P : q = piece(y)
  BY <1>1
<1>7. /\ to[p] <= x /\ x < to[p] + len[p]
      /\ to[q] <= y /\ y < to[q] + len[q]
  BY <1>1
<1>8. from[p] + (x - to[p]) = from[q] + (y - to[q])
  BY <1>4, <1>6
<1>9. /\ from[p] \in Nat /\ to[p] \in Nat /\ len[p] \in Nat
      /\ from[q] \in Nat /\ to[q] \in Nat /\ len[q] \in Nat
  OBVIOUS
<1>10. p = q \/ from[p] + len[p] <= from[q] \/ from[q] + len[q] <= from[p]
  OBVIOUS
<1>11. CASE p = q
  BY <1>6, <1>7, <1>8, <1>9, <1>11
<1>12. CASE from[p] + len[p] <= from[q] \/ from[q] + len[q] <= from[p]
  BY <1>7, <1>8, <1>9, <1>12
<1> QED
  BY <1>10, <1>11, <1>12

(* Sizes are rounded up to the alignment when the bump pointer is advanced *)
(* but not when the space left is looked at.                               *)
Aligned(b) == \E k \in Nat : b = k * Align

LEMMA RoundedUp ==
  ASSUME NEW s \in Shape, NEW b \in Nat, Aligned(b), Aligned(HalfSize)
  PROVE  /\ Size[s] <= AlignedSize(s)
         /\ Aligned(b + AlignedSize(s))
         /\ b + Size[s] <= HalfSize => b + AlignedSize(s) <= HalfSize
<1> PICK m \in Nat \ {0} : m = Align
  BY LayoutAssumption
<1> PICK h \in Nat : h = HalfSize
  BY LayoutAssumption
<1> PICK z \in Nat \ {0} : z = Size[s]
  BY LayoutAssumption
<1> PICK n \in Nat : n = z + m - 1
  OBVIOUS
<1>1. PICK q \in Nat : q = n \div m /\ q * m <= n /\ n < q * m + m
  OBVIOUS
<1>2. PICK k \in Nat : b = k * m
  BY DEF Aligned
<1>3. PICK j \in Nat : h = j * m
  BY DEF Aligned
<1>4. AlignedSize(s) = q * m /\ q * m \in Nat
  BY <1>1 DEF AlignedSize, AlignTo
<1>5. z <= q * m
  BY <1>1
<1>6. Aligned(b + AlignedSize(s))
  <2>1. b + q * m = (k + q) * m /\ k + q \in Nat
    BY <1>2
  <2> QED
    BY <1>4, <2>1 DEF Aligned
<1>8. ASSUME b + z <= h
      PROVE  b + q * m <= h
  <2>1. z <= j * m - k * m
    BY <1>2, <1>3, <1>8
  <2>2. j * m - k * m = (j - k) * m /\ j - k \in Int
    OBVIOUS
  <2> PICK d \in Int : d = j - k
    BY <2>2
  <2>3. q * m < (d + 1) * m
    <3> PICK u \in Int : u = d * m
      OBVIOUS
    <3> PICK v \in Int : v = q * m
      OBVIOUS
    <3>1. (d + 1) * m = u + m
      OBVIOUS
    <3>2. v <= n /\ z <= u
      BY <1>1, <2>1, <2>2
    <3>3. v < u + m
      BY <3>2
    <3> QED
      BY <3>1, <3>3
  <2>4. q < d + 1
    BY <2>3
  <2>5. q * m <= d * m
    BY <2>4
  <2> QED
    BY <1>2, <1>3, <2>2, <2>5
<1> QED
  BY <1>4, <1>5, <1>6, <1>8

-----------------------------------------------------------------------------
(* What the pending allocation may count on after the collection: nothing  *)
(* looks for space again if there was space before it.                     *)
Reserve ==
  IF request # NoRequest /\ ~request.recheck THEN AlignedSize(request.shape) ELSE 0

Apart(S) == \A a, b \in S : a[2] < b[2] => EndOf(a) <= b[2]

(* Every byte below the bump pointer is of the copy of some original. *)
Covered ==
  \A k \in 0 .. mBumpPtr - 1 : \E a \in DOMAIN map :
    map[a][2] <= k /\ k < map[a][2] + AlignedSize(mem[a].shape)

SpaceInv ==
  /\ Aligned(mBumpPtr)
  /\ mBumpPtr + Reserve <= HalfSize
  /\ Apart(Copies) /\ Apart(Originals)
  /\ \A a \in Originals : EndOf(a) + Reserve <= HalfSize
  /\ Collecting => Covered

LEMMA ReserveIsTyped == ASSUME TypeOK PROVE Reserve \in Nat
<1>1. request # NoRequest => request.shape \in Shape
  BY DEF TypeOK, Request
<1>2. request # NoRequest => AlignedSize(request.shape) \in Nat
  BY <1>1, AlignedSizePositive
<1> QED
  BY <1>2 DEF Reserve

(* The copies never need more space than the originals have. *)
LEMMA CopiesFit ==
  ASSUME IInv, SpaceInv, Collecting, NEW r \in Originals, r \notin DOMAIN map
  PROVE  mBumpPtr + AlignedSize(mem[r].shape) + Reserve <= HalfSize
<1>1. Reserve \in Nat /\ mBumpPtr \in Nat /\ HalfSize \in Nat
  BY ReserveIsTyped, LayoutAssumption DEF IInv, TypeOK
<1> PICK b \in Nat : b = mBumpPtr
  BY <1>1
<1> PICK h \in Nat : h = HalfSize - Reserve
  BY <1>1 DEF SpaceInv
<1> DEFINE P == DOMAIN map \cup {r}
           from == [a \in P |-> a[2]]
           to == [a \in P |-> IF a = r THEN b ELSE map[a][2]]
           len == [a \in P |-> AlignedSize(mem[a].shape)]
<1>2. /\ P \subseteq Originals /\ Originals \subseteq DOMAIN mem
      /\ \A a \in DOMAIN map : map[a] \in DOMAIN mem
  BY DEF IInv, MidCollection, Mapped, Originals, Copies
<1>3. \A a \in P : /\ a[2] \in Nat /\ AlignedSize(mem[a].shape) \in Nat
                   /\ EndOf(a) = a[2] + AlignedSize(mem[a].shape)
  BY <1>2, ObjectsAreTyped DEF EndOf
<1>4. \A a \in DOMAIN map : map[a][2] \in Nat
  BY <1>2, ObjectsAreTyped
<1>5. /\ from \in [P -> Nat] /\ to \in [P -> Nat] /\ len \in [P -> Nat]
  BY <1>3, <1>4
<1>6. \A p \in P : from[p] + len[p] <= h
  <2> SUFFICES ASSUME NEW p \in P
               PROVE  p[2] + AlignedSize(mem[p].shape) <= h
    OBVIOUS
  <2>1. EndOf(p) + Reserve <= HalfSize
    BY <1>2 DEF SpaceInv
  <2> QED
    BY <1>1, <1>3, <2>1
<1>7. \A p, q \in P : p = q \/ from[p] + len[p] <= from[q]
                            \/ from[q] + len[q] <= from[p]
  <2> SUFFICES ASSUME NEW p \in P, NEW q \in P, p # q
               PROVE  EndOf(p) <= q[2] \/ EndOf(q) <= p[2]
    BY <1>3
  <2>1. p[1] = q[1]
    BY <1>2, ObjectsAreTyped DEF Originals, Region, IInv, TypeOK
  <2>2. p = <<p[1], p[2]>> /\ q = <<q[1], q[2]>>
    BY <1>2, ObjectsAreTyped, AddressParts
  <2>3. p[2] # q[2]
    BY <2>1, <2>2
  <2>4. p[2] < q[2] \/ q[2] < p[2]
    BY <1>3, <2>3
  <2> QED
    BY <1>2, <2>4 DEF SpaceInv, Apart
<1> PICK z \in Nat : z = AlignedSize(mem[r].shape)
  BY <1>3
<1>8. \A k \in 0 .. (b + z) - 1 : \E p \in P : to[p] <= k /\ k < to[p] + len[p]
  <2> SUFFICES ASSUME NEW k \in 0 .. (b + z) - 1
               PROVE  \E p \in P : to[p] <= k /\ k < to[p] + len[p]
    OBVIOUS
  <2>1. CASE k < b
    <3>1. k \in 0 .. mBumpPtr - 1
      BY <2>1
    <3>2. PICK a \in DOMAIN map : map[a][2] <= k /\ k < map[a][2] + AlignedSize(mem[a].shape)
      BY <3>1 DEF SpaceInv, Covered
    <3>3. a \in P /\ to[a] = map[a][2] /\ len[a] = AlignedSize(mem[a].shape)
      OBVIOUS
    <3> QED
      BY <3>2, <3>3
  <2>2. CASE b <= k
    <3>1. r \in P /\ to[r] = b /\ len[r] = z
      OBVIOUS
    <3>2. k < b + z
      OBVIOUS
    <3> QED
      BY <2>2, <3>1, <3>2
  <2>3. k < b \/ b <= k
    OBVIOUS
  <2> HIDE DEF P, from, to, len
  <2> QED
    BY <2>1, <2>2, <2>3
<1> HIDE DEF P, from, to, len
<1>9. b + z <= h
  <2>1. b + z \in Nat
    OBVIOUS
  <2> QED
    BY <1>5, <1>6, <1>7, <1>8, <2>1, PiecesFit
<1> QED
  BY <1>1, <1>9

(* Steps that neither place nor remove an object. *)
LEMMA LayoutKept ==
  ASSUME IInv, SpaceInv, DOMAIN mem' = DOMAIN mem,
         \A a \in DOMAIN mem : mem'[a].shape = mem[a].shape,
         UNCHANGED <<mFromRegion, mBumpPtr, map, request>>,
         Collecting' => Collecting
  PROVE  SpaceInv'
<1>1. /\ Copies' = Copies /\ Originals' = Originals
      /\ Copies \subseteq DOMAIN mem /\ Originals \subseteq DOMAIN mem
      /\ Reserve' = Reserve
  BY DEF Copies, Originals, Reserve
<1>2. \A a \in DOMAIN mem : EndOf(a)' = EndOf(a)
  BY DEF EndOf
<1>3. Apart(Copies)' /\ Apart(Originals)'
  BY <1>1, <1>2 DEF SpaceInv, Apart
<1>4. \A a \in Originals : EndOf(a)' + Reserve <= HalfSize
  BY <1>1, <1>2 DEF SpaceInv
<1>5. Collecting' => Covered'
  <2> SUFFICES ASSUME Collecting' PROVE Covered'
    OBVIOUS
  <2>1. DOMAIN map \subseteq DOMAIN mem
    BY DEF IInv, MidCollection, Mapped, Originals
  <2> QED
    BY <2>1 DEF SpaceInv, Covered
<1> QED
  BY <1>1, <1>3, <1>4, <1>5 DEF SpaceInv, Aligned

LEMMA CopyKeepsSpace ==
  ASSUME IInv, SpaceInv, Aligned(HalfSize), Collecting,
         NEW r \in Originals \cup {NULL}, CopyObject(r), DOMAIN mem' = DOMAIN MemWithCopy(r),
         \A a \in DOMAIN MemWithCopy(r) :
           /\ mem'[a].id = MemWithCopy(r)[a].id
           /\ mem'[a].shape = MemWithCopy(r)[a].shape,
         UNCHANGED <<mFromRegion, scanPtr, request>>
  PROVE  SpaceInv'
<1>1. CASE r \in Originals /\ CopyMade(r)
  <2> PICK n : n = At(mBumpPtr)
    OBVIOUS
  <2>1. /\ r \notin DOMAIN map /\ n \notin DOMAIN mem /\ n[2] = mBumpPtr
        /\ \A a \in DOMAIN mem : mem'[a].shape = mem[a].shape
        /\ mem'[n].shape = mem[r].shape
        /\ mBumpPtr' = mBumpPtr + AlignedSize(mem[r].shape)
        /\ DOMAIN map' = DOMAIN map \cup {r}
        /\ \A a \in DOMAIN map : map'[a] = map[a]
        /\ map'[r] = n
    BY <1>1 DEF CopyMade, NeedsCopy
  <2>2. Originals' = Originals /\ Tiled'
    BY <1>1, NewCopyKeepsLayout
  <2>3. /\ Originals \subseteq DOMAIN mem /\ DOMAIN map \subseteq Originals
        /\ mem[r].shape \in Shape /\ AlignedSize(mem[r].shape) \in Nat
        /\ mBumpPtr \in Nat
    BY <1>1, ObjectsAreTyped DEF Originals, IInv, MidCollection, Mapped, TypeOK
  <2>4. Aligned(mBumpPtr')
    BY <2>1, <2>3, RoundedUp DEF SpaceInv
  <2>5. Reserve' = Reserve /\ mBumpPtr' + Reserve <= HalfSize
    BY <1>1, <2>1, CopiesFit DEF Reserve
  <2>6. \A a \in Originals : EndOf(a)' = EndOf(a)
    BY <2>1, <2>3 DEF EndOf
  <2>7. Apart(Originals)' /\ \A a \in Originals : EndOf(a)' + Reserve <= HalfSize
    BY <2>2, <2>6 DEF SpaceInv, Apart
  <2>8. Apart(Copies)'
    BY <2>2 DEF Tiled, Apart
  <2>9. Covered'
    <3> SUFFICES ASSUME NEW k \in 0 .. mBumpPtr' - 1
                 PROVE  \E a \in DOMAIN map' :
                          map'[a][2] <= k /\ k < map'[a][2] + AlignedSize(mem'[a].shape)
      BY DEF Covered
    <3>1. CASE k < mBumpPtr
      <4>1. k \in 0 .. mBumpPtr - 1
        BY <2>3, <3>1
      <4>2. PICK a \in DOMAIN map :
              map[a][2] <= k /\ k < map[a][2] + AlignedSize(mem[a].shape)
        BY <4>1 DEF SpaceInv, Covered
      <4>3. a \in DOMAIN map' /\ map'[a] = map[a] /\ mem'[a].shape = mem[a].shape
        BY <2>1, <2>3
      <4> QED
        BY <4>2, <4>3
    <3>2. CASE mBumpPtr <= k
      <4>1. k < mBumpPtr + AlignedSize(mem[r].shape)
        BY <2>1, <2>3
      <4>2. r \in DOMAIN map' /\ map'[r][2] = mBumpPtr /\ mem'[r].shape = mem[r].shape
        BY <1>1, <2>1, <2>3
      <4> QED
        BY <3>2, <4>1, <4>2
    <3>3. k < mBumpPtr \/ mBumpPtr <= k
      BY <2>3
    <3> QED
      BY <3>1, <3>2, <3>3
  <2> QED
    BY <2>2, <2>4, <2>5, <2>7, <2>8, <2>9 DEF SpaceInv, Aligned
<1>2. CASE NoCopyMade(r)
  <2>1. /\ DOMAIN mem' = DOMAIN mem
        /\ \A a \in DOMAIN mem : mem'[a].shape = mem[a].shape
        /\ mBumpPtr' = mBumpPtr /\ map' = map
    BY <1>2 DEF NoCopyMade
  <2> QED
    BY <2>1, LayoutKept
<1> QED
  BY <1>1, <1>2, CopyObjectCases

LEMMA VisitRootKeepsSpace ==
  ASSUME IInv, SpaceInv, Aligned(HalfSize), NEW l \in Location, VisitRoot(l)
  PROVE  SpaceInv'
<1>1. Collecting /\ l \in pending
  BY DEF VisitRoot, IsNextRoot, Collecting
<1> PICK r \in Originals \cup {NULL} : r = root[l]
  BY <1>1 DEF IInv, MidCollection, RootsFollow, TypeOK
<1>2. /\ mem' = MemWithCopy(r) /\ CopyObject(r)
      /\ UNCHANGED <<mFromRegion, scanPtr, request>>
  BY DEF VisitRoot
<1> QED
  BY <1>1, <1>2, CopyKeepsSpace

LEMMA ScanFieldKeepsSpace ==
  ASSUME IInv, SpaceInv, Aligned(HalfSize), NEW f \in Slot, ScanField(f)
  PROVE  SpaceInv'
<1> PICK c : c = At(scanPtr)
  OBVIOUS
<1> PICK r : r = mem[c].refs[f]
  OBVIOUS
<1>1. Collecting /\ r \in Originals \cup {NULL}
  BY ScanReadsOriginals DEF ScanField, Collecting
<1>2. /\ mem' = [MemWithCopy(r) EXCEPT ![c].refs[f] = CopyOf(r)] /\ CopyObject(r)
      /\ UNCHANGED <<mFromRegion, scanPtr, request>>
  BY DEF ScanField
<1>3. /\ DOMAIN mem' = DOMAIN MemWithCopy(r)
      /\ \A a \in DOMAIN MemWithCopy(r) :
           /\ mem'[a].id = MemWithCopy(r)[a].id
           /\ mem'[a].shape = MemWithCopy(r)[a].shape
  <2>1. \A a \in DOMAIN MemWithCopy(r) : IsObject(MemWithCopy(r)[a])
    BY <1>1, MemWithCopyIsTyped
  <2> QED
    BY <1>2, <2>1 DEF IsObject
<1> QED
  BY <1>1, <1>2, <1>3, CopyKeepsSpace

LEMMA PlaceKeepsSpace ==
  ASSUME IInv, SpaceInv, Aligned(HalfSize), ~Collecting, ~Collecting',
         NEW s \in Shape, NEW l, Place(s, l), UNCHANGED map,
         mBumpPtr + AlignedSize(s) <= HalfSize, request' = NoRequest
  PROVE  SpaceInv'
<1> PICK n : n = At(mBumpPtr)
  OBVIOUS
<1>1. n \in Address \ DOMAIN mem /\ n[1] = mFromRegion /\ n[2] = mBumpPtr
  BY BumpPtrIsFree DEF IInv
<1>2. /\ DOMAIN mem' = DOMAIN mem \cup {n}
      /\ \A a \in DOMAIN mem : mem'[a].shape = mem[a].shape
      /\ mem'[n].shape = s
      /\ mBumpPtr' = mBumpPtr + AlignedSize(s) /\ mFromRegion' = mFromRegion
  BY <1>1 DEF Place
<1>3. DOMAIN mem = Copies /\ mBumpPtr \in Nat /\ AlignedSize(s) \in Nat \ {0}
  BY ValuesAreObjects, AlignedSizePositive DEF IInv, TypeOK
<1>4. Copies' = Copies \cup {n} /\ Originals' = {}
  BY <1>1, <1>2, <1>3 DEF Copies, Originals, IInv, AtRest
<1>5. \A a \in Copies : /\ EndOf(a)' = EndOf(a) /\ EndOf(a) <= mBumpPtr
                        /\ a[2] \in Nat /\ EndOf(a) \in Nat /\ a[2] < EndOf(a)
  BY <1>2, <1>3, ObjectsAreTyped DEF EndOf, IInv, BelowBumpPtr
<1>6. Apart(Copies)'
  <2> SUFFICES ASSUME NEW a \in Copies \cup {n}, NEW b \in Copies \cup {n}, a[2] < b[2]
               PROVE  EndOf(a)' <= b[2]
    BY <1>4 DEF Apart
  <2>1. a \in Copies
    BY <1>1, <1>3, <1>5
  <2>2. CASE b = n
    BY <1>1, <1>5, <2>1, <2>2
  <2>3. CASE b \in Copies
    BY <1>5, <2>1, <2>3 DEF SpaceInv, Apart
  <2> QED
    BY <2>2, <2>3
<1>7. Apart(Originals)' /\ \A a \in Originals' : EndOf(a)' + Reserve' <= HalfSize
  BY <1>4 DEF Apart
<1>8. Aligned(mBumpPtr')
  BY <1>2, <1>3, RoundedUp DEF SpaceInv
<1>9. mBumpPtr' + Reserve' <= HalfSize
  BY <1>2, <1>3 DEF Reserve
<1> QED
  BY <1>6, <1>7, <1>8, <1>9 DEF SpaceInv, Aligned

LEMMA RoomBelow ==
  ASSUME NEW e \in Nat, NEW b \in Nat, NEW v \in Nat, NEW h \in Nat,
         e <= b, b + v <= h
  PROVE  e + v <= h /\ 0 + v <= h
OBVIOUS

LEMMA BeginKeepsSpace ==
  ASSUME IInv, SpaceInv, ~Collecting, BeginCollection,
         mBumpPtr + Reserve' <= HalfSize, Reserve' \in Nat
  PROVE  SpaceInv'
<1>1. DOMAIN mem = Copies /\ mBumpPtr \in Nat
  BY ValuesAreObjects DEF IInv, TypeOK
<1>2. Copies' = {} /\ Originals' = Copies
  BY <1>1 DEF BeginCollection, Copies, Originals, IInv, TypeOK, Region
<1>3. mBumpPtr' = 0 /\ map' = Empty /\ mem' = mem
  BY DEF BeginCollection
<1>4. \A a \in Copies : /\ EndOf(a)' = EndOf(a) /\ EndOf(a) <= mBumpPtr
                        /\ EndOf(a) \in Nat
  BY <1>1, <1>3, ObjectsAreTyped DEF EndOf, IInv, BelowBumpPtr
<1>5. Apart(Copies)' /\ Apart(Originals)'
  BY <1>2, <1>4 DEF Apart, SpaceInv
<1>6. \A a \in Originals' : EndOf(a)' + Reserve' <= HalfSize
  <2> PICK v \in Nat : v = Reserve'
    OBVIOUS
  <2> SUFFICES ASSUME NEW a \in Copies
               PROVE  EndOf(a)' + v <= HalfSize
    BY <1>2
  <2> PICK e \in Nat : e = EndOf(a)' /\ e <= mBumpPtr
    BY <1>4
  <2>1. HalfSize \in Nat /\ mBumpPtr + v <= HalfSize
    BY LayoutAssumption
  <2> QED
    BY <1>1, <2>1, RoomBelow
<1>7. Aligned(mBumpPtr')
  <2>1. 0 = 0 * Align
    BY LayoutAssumption
  <2> QED
    BY <1>3, <2>1 DEF Aligned
<1>8. Covered'
  BY <1>3 DEF Covered
<1>9. mBumpPtr' + Reserve' <= HalfSize
  <2> PICK v \in Nat : v = Reserve'
    OBVIOUS
  <2>1. HalfSize \in Nat /\ mBumpPtr + v <= HalfSize
    BY LayoutAssumption
  <2>2. mBumpPtr <= mBumpPtr
    BY <1>1
  <2>3. 0 + v <= HalfSize
    BY <1>1, <2>1, <2>2, RoomBelow
  <2> QED
    BY <1>3, <2>3
<1> QED
  BY <1>5, <1>6, <1>7, <1>8, <1>9 DEF SpaceInv, Aligned

LEMMA FinishKeepsSpace ==
  ASSUME IInv, SpaceInv, FinishCollection
  PROVE  SpaceInv'
<1>1. /\ mem' = [a \in Copies |-> mem[a]]
      /\ UNCHANGED <<mFromRegion, mBumpPtr, request>> /\ phase' = "program"
  BY DEF FinishCollection, Copies
<1>2. /\ DOMAIN mem' = Copies /\ \A a \in Copies : mem'[a] = mem[a]
      /\ Copies \subseteq DOMAIN mem
  BY <1>1 DEF Copies
<1>3. Copies' = Copies /\ Originals' = {} /\ ~Collecting' /\ Reserve' = Reserve
  BY <1>1, <1>2 DEF Copies, Originals, Collecting, Reserve
<1>4. \A a \in Copies : EndOf(a)' = EndOf(a)
  BY <1>2 DEF EndOf
<1>5. Apart(Copies)' /\ Apart(Originals)'
  BY <1>3, <1>4 DEF Apart, SpaceInv
<1> QED
  BY <1>1, <1>3, <1>5 DEF SpaceInv, Aligned

LEMMA NextKeepsSpace ==
  ASSUME IInv, SpaceInv, Aligned(HalfSize), [Next]_vars
  PROVE  SpaceInv'
<1>1. ASSUME NEW l \in Location, NEW s \in Shape, AllocateNow(s, l)
      PROVE  SpaceInv'
  <2>1. /\ ~Collecting /\ ~Collecting' /\ map' = map
        /\ request' = NoRequest /\ Place(s, l) /\ mBumpPtr + Size[s] <= HalfSize
    BY <1>1 DEF AllocateNow, Running, Collecting, gcVars, Fits
  <2>2. mBumpPtr + AlignedSize(s) <= HalfSize
    BY <2>1, RoundedUp DEF SpaceInv, IInv, TypeOK
  <2> QED
    BY <2>1, <2>2, PlaceKeepsSpace
<1>2. ASSUME NEW l \in Location, NEW s \in Shape, AllocateAfterCollection(s, l)
      PROVE  SpaceInv'
  <2>1. /\ ~Collecting /\ BeginCollection /\ mBumpPtr \in Nat
        /\ request' = [kind |-> "allocate", shape |-> s, into |-> l, recheck |-> ~Fits(s)]
    BY <1>2 DEF AllocateAfterCollection, Running, Collecting, IInv, TypeOK
  <2>2. request' # NoRequest /\ request'.shape = s /\ (request'.recheck <=> ~Fits(s))
    BY <2>1 DEF NoRequest
  <2>3. AlignedSize(s) \in Nat /\ mBumpPtr <= HalfSize
    BY <2>1, AlignedSizePositive, ReserveIsTyped, LayoutAssumption DEF SpaceInv, IInv
  <2>4. CASE Fits(s)
    <3>1. Reserve' = AlignedSize(s)
      BY <2>2, <2>4 DEF Reserve
    <3>2. mBumpPtr + AlignedSize(s) <= HalfSize
      BY <2>1, <2>4, RoundedUp DEF SpaceInv, Fits
    <3> QED
      BY <2>1, <2>3, <3>1, <3>2, BeginKeepsSpace
  <2>5. CASE ~Fits(s)
    <3>1. Reserve' = 0
      BY <2>2, <2>5 DEF Reserve
    <3>2. mBumpPtr + Reserve' <= HalfSize /\ Reserve' \in Nat
      BY <2>1, <2>3, <3>1
    <3> QED
      BY <2>1, <3>2, BeginKeepsSpace
  <2> QED
    BY <2>4, <2>5
<1>3. ASSUME RuntimeGc
      PROVE  SpaceInv'
  <2>1. ~Collecting /\ BeginCollection /\ Reserve' = Reserve
    BY <1>3 DEF RuntimeGc, Running, Collecting, Reserve
  <2>2. mBumpPtr + Reserve <= HalfSize /\ Reserve \in Nat
    BY ReserveIsTyped DEF SpaceInv, IInv
  <2> QED
    BY <2>1, <2>2, BeginKeepsSpace
<1>4. ASSUME FinishAllocation
      PROVE  SpaceInv'
  <2>1. /\ ~Collecting /\ ~Collecting' /\ map' = map
        /\ request # NoRequest /\ request' = NoRequest
        /\ request.recheck => Fits(request.shape)
        /\ Place(request.shape, request.into)
    BY <1>4 DEF FinishAllocation, Collecting, gcVars
  <2> PICK s \in Shape : s = request.shape
    BY <2>1 DEF IInv, TypeOK, Request
  <2>2. mBumpPtr \in Nat /\ AlignedSize(s) \in Nat
    BY AlignedSizePositive DEF IInv, TypeOK
  <2>3. mBumpPtr + AlignedSize(s) <= HalfSize
    <3>1. CASE request.recheck
      BY <2>1, <2>2, <3>1, RoundedUp DEF SpaceInv, Fits
    <3>2. CASE ~request.recheck
      BY <2>1, <3>2 DEF SpaceInv, Reserve
    <3> QED
      BY <3>1, <3>2
  <2> QED
    BY <2>1, <2>3, PlaceKeepsSpace
<1>5. ASSUME NEW l \in Location, NEW f \in Slot, NEW v \in Values, Store(l, f, v)
      PROVE  SpaceInv'
  <2> PICK a : a = root[l]
    OBVIOUS
  <2>1. /\ mem' = [mem EXCEPT ![a].refs[f] = v]
        /\ UNCHANGED <<mFromRegion, mBumpPtr, map, request, phase>>
    BY <1>5 DEF Store, gcVars
  <2>2. \A b \in DOMAIN mem : IsObject(mem[b])
    BY DEF IInv, TypeOK
  <2>3. /\ DOMAIN mem' = DOMAIN mem
        /\ \A b \in DOMAIN mem : mem'[b].shape = mem[b].shape
    BY <2>1, <2>2 DEF IsObject
  <2> QED
    BY <2>1, <2>3, LayoutKept DEF Collecting
<1>6. ASSUME UNCHANGED <<heapVars, map, request>>, Collecting' => Collecting
      PROVE  SpaceInv'
  BY <1>6, LayoutKept DEF heapVars
<1>7. ASSUME NEW l \in Location, NEW v \in Values, Put(l, v)
      PROVE  SpaceInv'
  BY <1>6, <1>7 DEF Put, gcVars, Collecting
<1>8. ASSUME NEW l \in Location, Drop(l)
      PROVE  SpaceInv'
  BY <1>6, <1>8 DEF Drop, gcVars, Collecting
<1>9. ASSUME NEW locked \in BOOLEAN, SetLock(locked)
      PROVE  SpaceInv'
  BY <1>6, <1>9 DEF SetLock, gcVars, Collecting
<1>10. ASSUME OutOfMemory
       PROVE  SpaceInv'
  BY <1>6, <1>10 DEF OutOfMemory, gcVars, Collecting
<1>11. ASSUME BeginScan
       PROVE  SpaceInv'
  BY <1>6, <1>11 DEF BeginScan, Collecting
<1>12. ASSUME AdvanceScan
       PROVE  SpaceInv'
  BY <1>6, <1>12 DEF AdvanceScan, Collecting
<1>13. ASSUME UNCHANGED vars
       PROVE  SpaceInv'
  BY <1>6, <1>13 DEF vars, heapVars, Collecting
<1> QED
  BY <1>1, <1>2, <1>3, <1>4, <1>5, <1>7, <1>8, <1>9, <1>10, <1>11, <1>12, <1>13,
     VisitRootKeepsSpace, ScanFieldKeepsSpace, FinishKeepsSpace
     DEF Next, Program, Collect

(* allocateUnchecked and copyObject place objects without a look at the    *)
(* bounds of the region: where half the heap is a multiple of the          *)
(* alignment, which it is unless the heap's size is set to something odd,  *)
(* what they place lies inside and overlaps nothing.                       *)
THEOREM AllocationStaysInRegion ==
  ASSUME Aligned(HalfSize)
  PROVE  Spec => []ObjectsFit
<1>1. Init => SpaceInv
  <2> SUFFICES ASSUME Init
               PROVE  SpaceInv
    OBVIOUS
  <2>1. mBumpPtr = 0 /\ Reserve = 0 /\ ~Collecting
    BY DEF Init, Reserve, Collecting
  <2>2. Copies = {} /\ Originals = {}
    BY DEF Init, Copies, Originals, Empty
  <2>3. 0 = 0 * Align /\ 0 + 0 <= HalfSize
    BY LayoutAssumption
  <2>4. Aligned(mBumpPtr)
    BY <2>1, <2>3 DEF Aligned
  <2> QED
    BY <2>1, <2>2, <2>3, <2>4 DEF SpaceInv, Apart
<1>2. IInv /\ SpaceInv /\ [Next]_vars => SpaceInv'
  BY NextKeepsSpace
<1>3. IInv /\ SpaceInv => ObjectsFit
  <2> SUFFICES ASSUME IInv, SpaceInv
               PROVE  ObjectsFit
    OBVIOUS
  <2>1. \A a \in DOMAIN mem : a \in Copies \/ a \in Originals
    BY DEF Copies, Originals
  <2>2. Reserve \in Nat /\ mBumpPtr \in Nat /\ HalfSize \in Nat
    BY ReserveIsTyped, LayoutAssumption DEF IInv, TypeOK
  <2>3. ASSUME NEW a \in DOMAIN mem
        PROVE  /\ a[2] \in Nat /\ Size[mem[a].shape] \in Nat /\ EndOf(a) \in Nat
               /\ a[2] + Size[mem[a].shape] <= EndOf(a)
               /\ EndOf(a) <= HalfSize
    <3>1. /\ a[2] \in Nat /\ mem[a].shape \in Shape /\ EndOf(a) \in Nat
          /\ AlignedSize(mem[a].shape) \in Nat
      BY ObjectsAreTyped
    <3>2. Size[mem[a].shape] \in Nat
      BY <3>1, LayoutAssumption
    <3>3. Size[mem[a].shape] <= AlignedSize(mem[a].shape)
      BY <2>2, <3>1, RoundedUp DEF SpaceInv
    <3>4. EndOf(a) <= HalfSize
      <4>1. CASE a \in Copies
        BY <2>2, <3>1, <4>1 DEF SpaceInv, IInv, BelowBumpPtr
      <4>2. CASE a \in Originals
        BY <2>2, <3>1, <4>2 DEF SpaceInv
      <4> QED
        BY <2>1, <4>1, <4>2
    <3> QED
      BY <3>1, <3>2, <3>3, <3>4 DEF EndOf
  <2>4. ASSUME NEW a \in DOMAIN mem, NEW b \in DOMAIN mem, a[1] = b[1], a[2] < b[2]
        PROVE  EndOf(a) <= b[2]
    <3>1. \/ a \in Copies /\ b \in Copies
          \/ a \in Originals /\ b \in Originals
      BY <2>4 DEF Copies, Originals
    <3> QED
      BY <2>4, <3>1 DEF SpaceInv, Apart
  <2> QED
    BY <2>2, <2>3, <2>4 DEF ObjectsFit
<1> QED
  BY <1>1, <1>2, <1>3, InvariantAlways, PTL DEF Spec

-----------------------------------------------------------------------------
(* What a collection keeps can be reached.  While it runs, every copy can  *)
(* be reached from the roots it has visited, through slots it has scanned. *)

Justified(S) ==
  /\ \A l \in DOMAIN root \ pending : root[l] \in S \cup {NULL}
  /\ \A n \in S : \A f \in RefSlots[mem[n].shape] :
       Scanned(n, f) => mem[n].refs[f] \in S \cup {NULL}

CopiesAreJustified == \A S \in SUBSET Copies : Justified(S) => Copies \subseteq S

(* Nothing happens between a collection and the allocation it was for.     *)
ReachInv ==
  /\ Collecting => CopiesAreJustified
  /\ ~Collecting /\ request # NoRequest => DOMAIN mem = Reachable
  /\ phase = "panicked" /\ request # NoRequest => ~Fits(request.shape)

(* What the references of visited roots and scanned slots lead to. *)
LEMMA ScannedSlotsLeadToCopies ==
  ASSUME IInv, Collecting
  PROVE  /\ Copies \subseteq DOMAIN mem
         /\ \A l \in DOMAIN root \ pending : root[l] \in Copies \cup {NULL}
         /\ \A n \in Copies : \A f \in RefSlots[mem[n].shape] :
              Scanned(n, f) => mem[n].refs[f] \in Copies \cup {NULL}
<1>1. \A l \in DOMAIN root \ pending : root[l] \in Copies \cup {NULL}
  BY DEF IInv, MidCollection, RootsFollow
<1>2. ASSUME NEW n \in Copies, NEW f \in RefSlots[mem[n].shape], Scanned(n, f)
      PROVE  mem[n].refs[f] \in Copies \cup {NULL}
  <2> PICK a \in DOMAIN map : map[a] = n
    BY DEF IInv, MidCollection, Mapped
  <2>1. mem[a].shape = mem[n].shape
    BY DEF IInv, MidCollection, Mapped
  <2>2. /\ mem[a].refs[f] \in DOMAIN map \cup {NULL}
        /\ mem[n].refs[f] = Forward(mem[a].refs[f])
    BY <1>2, <2>1 DEF IInv, MidCollection, ScannedFollow
  <2>3. \A b \in DOMAIN map : map[b] \in Copies
    BY DEF IInv, MidCollection, Mapped
  <2> QED
    BY <2>2, <2>3 DEF Forward
<1>3. Copies \subseteq DOMAIN mem
  BY DEF Copies
<1> QED
  BY <1>1, <1>2, <1>3

(* A step of the collection visits and scans more, and what it copies is   *)
(* referred to by what it has visited or scanned.                          *)
LEMMA GrowthIsJustified ==
  ASSUME IInv, Collecting, CopiesAreJustified,
         Copies \subseteq Copies',
         \A l \in DOMAIN root \ pending :
           l \in DOMAIN root' \ pending' /\ root'[l] = root[l],
         \A n \in Copies : mem'[n].shape = mem[n].shape,
         \A n \in Copies : \A f \in RefSlots[mem[n].shape] :
           Scanned(n, f) => Scanned(n, f)' /\ mem'[n].refs[f] = mem[n].refs[f],
         \A S \in SUBSET Copies' : Copies \subseteq S /\ Justified(S)' => Copies' \subseteq S
  PROVE  CopiesAreJustified'
<1> SUFFICES ASSUME NEW S \in SUBSET Copies', Justified(S)'
             PROVE  Copies' \subseteq S
  BY DEF CopiesAreJustified
<1> PICK T : T = S \cap Copies
  OBVIOUS
<1>1. \A l \in DOMAIN root \ pending : root[l] \in T \cup {NULL}
  <2> SUFFICES ASSUME NEW l \in DOMAIN root \ pending
               PROVE  root[l] \in T \cup {NULL}
    OBVIOUS
  <2>1. root[l] \in Copies \cup {NULL}
    BY ScannedSlotsLeadToCopies
  <2>2. root'[l] \in S \cup {NULL} /\ root'[l] = root[l]
    BY DEF Justified
  <2> QED
    BY <2>1, <2>2
<1>2. ASSUME NEW n \in T, NEW f \in RefSlots[mem[n].shape], Scanned(n, f)
      PROVE  mem[n].refs[f] \in T \cup {NULL}
  <2>1. n \in Copies /\ n \in S
    OBVIOUS
  <2>2. mem[n].refs[f] \in Copies \cup {NULL}
    BY <1>2, <2>1, ScannedSlotsLeadToCopies
  <2>3. /\ Scanned(n, f)' /\ mem'[n].refs[f] = mem[n].refs[f]
        /\ mem'[n].shape = mem[n].shape
    BY <1>2, <2>1
  <2>4. mem'[n].refs[f] \in S \cup {NULL}
    BY <1>2, <2>1, <2>3 DEF Justified
  <2> QED
    BY <2>2, <2>3, <2>4
<1>3. Justified(T)
  BY <1>1, <1>2 DEF Justified
<1>4. Copies \subseteq S
  BY <1>3 DEF CopiesAreJustified
<1> QED
  BY <1>4

LEMMA VisitRootIsJustified ==
  ASSUME IInv, CopiesAreJustified, NEW l \in Location, VisitRoot(l)
  PROVE  CopiesAreJustified'
<1>1. Collecting /\ l \in pending /\ l \in DOMAIN root
  BY DEF VisitRoot, IsNextRoot, Collecting, IInv, TypeOK
<1> PICK r \in Originals \cup {NULL} : r = root[l]
  BY <1>1 DEF IInv, MidCollection, RootsFollow, TypeOK
<1> PICK n : n = CopyOf(r)
  OBVIOUS
<1>2. /\ mem' = MemWithCopy(r) /\ CopyObject(r)
      /\ root' = [root EXCEPT ![l] = n]
      /\ pending' = pending \ {l}
      /\ UNCHANGED <<mFromRegion, scanPtr, phase, fields>>
  BY DEF VisitRoot
<1>3. Copies \subseteq Copies' /\ Copies' \subseteq Copies \cup {n} /\ n \in Copies' \cup {NULL}
  <2>1. DOMAIN mem' \subseteq DOMAIN mem \cup {n}
    BY <1>2 DEF MemWithCopy, CopyOf, NeedsCopy
  <2> QED
    BY <1>1, <1>2, <2>1, CopyKeepsLayout DEF Copies
<1>4. \A a \in Copies : mem'[a] = mem[a]
  BY <1>2, MemWithCopyIsTyped DEF Copies
<1>5. \A a, f : Scanned(a, f)' <=> Scanned(a, f)
  BY <1>2 DEF Scanned
<1>6. \A k \in DOMAIN root \ pending :
        k \in DOMAIN root' \ pending' /\ root'[k] = root[k]
  BY <1>1, <1>2
<1>7. ASSUME NEW S \in SUBSET Copies', Copies \subseteq S, Justified(S)'
      PROVE  Copies' \subseteq S
  <2>1. l \in DOMAIN root' \ pending' /\ root'[l] = n
    BY <1>1, <1>2
  <2>2. n \in S \cup {NULL}
    BY <1>7, <2>1 DEF Justified
  <2>3. NULL \notin Copies'
    BY <1>2, MemWithCopyIsTyped, NullAssumption DEF Copies
  <2> QED
    BY <1>3, <1>7, <2>2, <2>3
<1> QED
  BY <1>1, <1>3, <1>4, <1>5, <1>6, <1>7, GrowthIsJustified

LEMMA ScanFieldIsJustified ==
  ASSUME IInv, CopiesAreJustified, NEW f \in Slot, ScanField(f)
  PROVE  CopiesAreJustified'
<1>1. Collecting /\ phase = "scan" /\ f \in fields
  BY DEF ScanField, Collecting
<1> PICK c : c = At(scanPtr)
  OBVIOUS
<1> PICK r : r = mem[c].refs[f]
  OBVIOUS
<1> PICK n : n = CopyOf(r)
  OBVIOUS
<1>2. r \in Originals \cup {NULL}
  BY ScanReadsOriginals
<1>3. /\ mem' = [MemWithCopy(r) EXCEPT ![c].refs[f] = n] /\ CopyObject(r)
      /\ fields' = fields \ {f}
      /\ UNCHANGED <<root, mFromRegion, scanPtr, phase, pending>>
  BY DEF ScanField
<1>4. /\ c \in Copies /\ c \in DOMAIN mem /\ c[2] = scanPtr
      /\ f \in RefSlots[mem[c].shape] /\ ~Scanned(c, f)
  BY <1>1, FieldsBelongToCopy DEF Copies, Scanned
<1>5. /\ DOMAIN mem \subseteq DOMAIN MemWithCopy(r)
      /\ DOMAIN MemWithCopy(r) \subseteq Address
      /\ \A a \in DOMAIN mem : MemWithCopy(r)[a] = mem[a]
      /\ \A a \in DOMAIN MemWithCopy(r) : IsObject(MemWithCopy(r)[a])
  BY <1>2, MemWithCopyIsTyped
<1>6. /\ DOMAIN mem' = DOMAIN MemWithCopy(r)
      /\ \A a \in DOMAIN mem' : a # c => mem'[a] = MemWithCopy(r)[a]
      /\ mem'[c] = [mem[c] EXCEPT !.refs[f] = n]
  BY <1>3, <1>4, <1>5
<1>7. /\ mem'[c].shape = mem[c].shape /\ mem'[c].refs[f] = n
      /\ \A g \in RefSlots[mem[c].shape] : g # f => mem'[c].refs[g] = mem[c].refs[g]
  BY <1>4, <1>5, <1>6 DEF IsObject
<1>8. Copies \subseteq Copies' /\ Copies' \subseteq Copies \cup {n} /\ NULL \notin Copies'
  <2>1. DOMAIN MemWithCopy(r) \subseteq DOMAIN mem \cup {n}
    BY DEF MemWithCopy, CopyOf, NeedsCopy
  <2> QED
    BY <1>3, <1>5, <1>6, <2>1, NullAssumption DEF Copies
<1>9. \A a \in Copies : a # c => mem'[a] = mem[a]
  BY <1>5, <1>6 DEF Copies
<1>10. \A a, g : Scanned(a, g) => Scanned(a, g)'
  BY <1>3 DEF Scanned
<1>11. \A a \in Copies : mem'[a].shape = mem[a].shape
  BY <1>7, <1>9
<1>12. ASSUME NEW a \in Copies, NEW g \in RefSlots[mem[a].shape], Scanned(a, g)
       PROVE  Scanned(a, g)' /\ mem'[a].refs[g] = mem[a].refs[g]
  <2>1. a = c => g # f
    BY <1>4, <1>12
  <2> QED
    BY <1>7, <1>9, <1>10, <1>12, <2>1
<1>13. ASSUME NEW S \in SUBSET Copies', Copies \subseteq S, Justified(S)'
       PROVE  Copies' \subseteq S
  <2>1. c \in S /\ f \in RefSlots[mem'[c].shape] /\ Scanned(c, f)'
    BY <1>1, <1>3, <1>4, <1>7, <1>13 DEF Scanned
  <2>2. mem'[c].refs[f] \in S \cup {NULL}
    BY <1>13, <2>1 DEF Justified
  <2> QED
    BY <1>7, <1>8, <1>13, <2>2
<1> QED
  BY <1>1, <1>3, <1>8, <1>11, <1>12, <1>13, GrowthIsJustified

(* Steps that only move the scan on. *)
LEMMA ProgressIsJustified ==
  ASSUME IInv, Collecting, CopiesAreJustified,
         BeginScan \/ AdvanceScan
  PROVE  CopiesAreJustified'
<1>1. /\ UNCHANGED <<mem, mFromRegion, root, pending>>
      /\ Copies' = Copies
  BY DEF BeginScan, AdvanceScan, heapVars, Copies
<1>2. ASSUME NEW n \in Copies, NEW f \in RefSlots[mem[n].shape], Scanned(n, f)
      PROVE  Scanned(n, f)'
  <2>1. n \in DOMAIN mem /\ n[2] \in Nat /\ scanPtr \in Nat
    BY ObjectsAreTyped DEF Copies, IInv, TypeOK
  <2>2. CASE BeginScan
    BY <1>2, <2>2 DEF BeginScan, Scanned
  <2>3. CASE AdvanceScan
    <3>1. scanPtr < mBumpPtr /\ mBumpPtr \in Nat /\ IsStart(scanPtr)
      BY <2>3 DEF AdvanceScan, IInv, TypeOK, MidCollection, Tiled
    <3>2. At(scanPtr) \in DOMAIN mem
      BY <2>1, <3>1 DEF IsStart, Copies
    <3> PICK s \in Nat \ {0} : s = AlignedSize(mem[At(scanPtr)].shape)
      BY <3>2, ObjectsAreTyped
    <3>3. scanPtr' = scanPtr + s
      BY <2>3 DEF AdvanceScan
    <3>4. n[2] <= scanPtr
      BY <1>2, <2>1 DEF Scanned
    <3>5. n[2] < scanPtr'
      BY <2>1, <3>3, <3>4
    <3> QED
      BY <3>5 DEF Scanned
  <2> QED
    BY <2>2, <2>3
<1>3. CopiesAreJustified'
  BY <1>1, <1>2, GrowthIsJustified
<1> QED
  BY <1>3

LEMMA FinishKeepsReachable ==
  ASSUME IInv, CopiesAreJustified, FinishCollection
  PROVE  DOMAIN mem' = Reachable'
<1>1. Collecting /\ pending = {} /\ pending' = {} /\ root' = root
  BY DEF FinishCollection, Collecting, IInv, MidCollection, Progress
<1>2. mem' = [a \in Copies |-> mem[a]]
  BY DEF FinishCollection, Copies
<1>3. /\ DOMAIN mem' = Copies /\ \A a \in Copies : mem'[a] = mem[a]
  BY <1>2
<1>4. /\ ClosedSet(Copies)
      /\ \A l \in DOMAIN root : root[l] \in Copies \cup {NULL}
  BY ScanIsComplete
<1>5. ASSUME NEW S \in SUBSET DOMAIN mem', KeepsReachable(S)'
      PROVE  DOMAIN mem' \subseteq S
  <2>1. \A l \in DOMAIN root \ pending : root[l] \in S \cup {NULL}
    BY <1>1, <1>3, <1>4, <1>5 DEF KeepsReachable
  <2>2. \A n \in S : \A f \in RefSlots[mem[n].shape] : mem[n].refs[f] \in S \cup {NULL}
    <3> SUFFICES ASSUME NEW n \in S, NEW f \in RefSlots[mem[n].shape]
                 PROVE  mem[n].refs[f] \in S \cup {NULL}
      OBVIOUS
    <3>1. n \in Copies /\ mem'[n] = mem[n]
      BY <1>3
    <3>2. mem[n].refs[f] \in Copies \cup {NULL}
      BY <1>4, <3>1 DEF ClosedSet
    <3>3. mem'[n].refs[f] \in DOMAIN mem' => mem'[n].refs[f] \in S
      BY <1>5, <3>1 DEF KeepsReachable
    <3> QED
      BY <1>3, <3>1, <3>2, <3>3
  <2>3. Justified(S)
    BY <2>1, <2>2 DEF Justified
  <2> QED
    BY <1>3, <2>3 DEF CopiesAreJustified
<1> QED
  BY <1>5 DEF Reachable

LEMMA BeginIsJustified ==
  ASSUME IInv, ~Collecting, BeginCollection
  PROVE  Collecting' /\ CopiesAreJustified' /\ phase' = "roots"
<1>1. Originals = {} /\ mem' = mem /\ mFromRegion' = 1 - mFromRegion /\ phase' = "roots"
  BY DEF IInv, AtRest, BeginCollection
<1>2. mFromRegion' # mFromRegion
  BY <1>1 DEF IInv, TypeOK, Region
<1>3. Copies' = {}
  BY <1>1, <1>2 DEF Copies, Originals
<1> QED
  BY <1>1, <1>3 DEF CopiesAreJustified, Collecting

LEMMA NextKeepsReachInv ==
  ASSUME IInv, ReachInv, [Next]_vars
  PROVE  ReachInv'
<1>1. ASSUME request' = NoRequest, ~Collecting'
      PROVE  ReachInv'
  BY <1>1 DEF ReachInv
<1>2. ASSUME BeginCollection, ~Collecting
      PROVE  ReachInv'
  BY <1>2, BeginIsJustified DEF ReachInv
<1>3. ASSUME NEW l \in Location, NEW s \in Shape,
             AllocateNow(s, l) \/ AllocateAfterCollection(s, l)
      PROVE  ReachInv'
  BY <1>1, <1>2, <1>3 DEF AllocateNow, AllocateAfterCollection, Running, Collecting
<1>4. ASSUME NEW l \in Location, NEW v \in Values, Put(l, v)
      PROVE  ReachInv'
  BY <1>1, <1>4 DEF Put, Running, Collecting
<1>5. ASSUME NEW l \in Location, Drop(l)
      PROVE  ReachInv'
  BY <1>1, <1>5 DEF Drop, Running, Collecting
<1>6. ASSUME NEW l \in Location, NEW f \in Slot, NEW v \in Values, Store(l, f, v)
      PROVE  ReachInv'
  BY <1>1, <1>6 DEF Store, Running, Collecting
<1>7. ASSUME NEW locked \in BOOLEAN, SetLock(locked)
      PROVE  ReachInv'
  BY <1>1, <1>7 DEF SetLock, Running, Collecting
<1>8. ASSUME RuntimeGc
      PROVE  ReachInv'
  BY <1>2, <1>8 DEF RuntimeGc, Running, Collecting
<1>9. ASSUME NEW l \in Location, VisitRoot(l)
      PROVE  ReachInv'
  <2>1. Collecting /\ Collecting' /\ phase' = "roots"
    BY <1>9 DEF VisitRoot, Collecting
  <2> QED
    BY <1>9, <2>1, VisitRootIsJustified DEF ReachInv
<1>10. ASSUME NEW f \in Slot, ScanField(f)
       PROVE  ReachInv'
  <2>1. Collecting /\ Collecting' /\ phase' = "scan"
    BY <1>10 DEF ScanField, Collecting
  <2> QED
    BY <1>10, <2>1, ScanFieldIsJustified DEF ReachInv
<1>11. ASSUME BeginScan \/ AdvanceScan
       PROVE  ReachInv'
  <2>1. Collecting /\ Collecting' /\ phase' = "scan"
    BY <1>11 DEF BeginScan, AdvanceScan, Collecting
  <2> QED
    BY <1>11, <2>1, ProgressIsJustified DEF ReachInv
<1>12. ASSUME FinishCollection
       PROVE  ReachInv'
  <2>1. Collecting /\ ~Collecting' /\ phase' = "program"
    BY <1>12 DEF FinishCollection, Collecting
  <2> QED
    BY <1>12, <2>1, FinishKeepsReachable DEF ReachInv
<1>13. ASSUME FinishAllocation
       PROVE  ReachInv'
  BY <1>1, <1>13 DEF FinishAllocation, Collecting
<1>14. ASSUME UNCHANGED <<mem, root>>
       PROVE  Reachable' = Reachable
  BY <1>14 DEF Reachable, KeepsReachable
<1>15. ASSUME OutOfMemory
       PROVE  ReachInv'
  <2>1. /\ ~Collecting /\ ~Collecting'
        /\ UNCHANGED <<mem, root, mBumpPtr, request>>
        /\ request # NoRequest => ~Fits(request.shape)
    BY <1>15 DEF OutOfMemory, Collecting, heapVars
  <2>2. \A s : Fits(s)' <=> Fits(s)
    BY <2>1 DEF Fits
  <2> QED
    BY <1>14, <2>1, <2>2 DEF ReachInv
<1>16. ASSUME UNCHANGED vars
       PROVE  ReachInv'
  <2>1. UNCHANGED <<mem, root, mFromRegion, mBumpPtr, phase, pending, scanPtr, fields, request>>
    BY <1>16 DEF vars
  <2>2. /\ Copies' = Copies /\ \A n, f : Scanned(n, f)' <=> Scanned(n, f)
        /\ \A s : Fits(s)' <=> Fits(s)
        /\ Collecting' <=> Collecting
    BY <2>1 DEF Copies, Scanned, Fits, Collecting
  <2>3. \A S : Justified(S)' <=> Justified(S)
    BY <2>1, <2>2 DEF Justified
  <2>4. CopiesAreJustified' <=> CopiesAreJustified
    BY <2>2, <2>3 DEF CopiesAreJustified
  <2> QED
    BY <1>14, <2>1, <2>2, <2>4 DEF ReachInv
<1> QED
  BY <1>3, <1>4, <1>5, <1>6, <1>7, <1>8, <1>9, <1>10, <1>11, <1>12, <1>13, <1>15, <1>16
     DEF Next, Program, Collect

LEMMA ReachInvAlways == Spec => [](IInv /\ ReachInv)
<1>1. Init => ReachInv
  BY DEF Init, ReachInv, Collecting
<1> QED
  BY <1>1, InvariantAlways, NextKeepsReachInv, PTL DEF Spec

(* The VM gives up only after a collection that has left nothing but what  *)
(* the program can reach, and no room for the object it wants: allocate,   *)
(* which collects once and tries once more.                                *)
THEOREM OutOfMemoryIsJustified == Spec => []OutOfMemoryIsReal
<1>1. IInv /\ ReachInv => OutOfMemoryIsReal
  BY DEF ReachInv, OutOfMemoryIsReal, Collecting
<1> QED
  BY <1>1, ReachInvAlways, PTL

(* performGarbageCollection leaves in memory what can be reached from the  *)
(* roots, and nothing else.                                                *)
THEOREM GarbageIsCollected == Spec => OnlyReachableSurvive
<1>1. ASSUME IInv, ReachInv, [Next]_vars, phase = "scan", phase' = "program"
      PROVE  DOMAIN mem' = Reachable'
  <2>1. Collecting
    BY <1>1 DEF Collecting
  <2>2. FinishCollection
    BY <1>1 DEF Next, Program, Collect, AllocateNow, AllocateAfterCollection, Running, Put, Drop,
                Store, SetLock, RuntimeGc, BeginCollection, VisitRoot, BeginScan, ScanField,
                AdvanceScan, FinishAllocation, OutOfMemory, vars
  <2> QED
    BY <1>1, <2>1, <2>2, FinishKeepsReachable DEF ReachInv
<1>2. IInv /\ ReachInv /\ [Next]_vars
        => [phase = "scan" /\ phase' = "program" => DOMAIN mem' = Reachable']_vars
  BY <1>1
<1> QED
  BY <1>2, ReachInvAlways, PTL DEF Spec, OnlyReachableSurvive

-----------------------------------------------------------------------------
(***************************************************************************)
(* The copying collector implements JavaHeap: seen through the identities  *)
(* of objects, every step of the VM is a step of the abstract heap or      *)
(* changes nothing.                                                        *)
(***************************************************************************)

(* What an object looks like through identities. *)
View(a) ==
  [shape |-> mem[a].shape,
   refs |-> [f \in RefSlots[mem[a].shape] |-> IdOf(mem[a].refs[f])]]

-----------------------------------------------------------------------------
(* The two copies of an object look the same. *)
LEMMA SameObjects ==
  ASSUME IInv, NEW a \in DOMAIN mem, NEW b \in DOMAIN mem,
         mem[a].id = mem[b].id
  PROVE  View(a) = View(b)
<1>1. DOMAIN mem = Copies \cup Originals
  BY DEF Copies, Originals
<1>2. CASE ~Collecting
  BY <1>2, ValuesAreObjects DEF IInv, AtRest, OneIdentity
<1>3. CASE Collecting
  <2>1. /\ \A c \in DOMAIN map : /\ map[c] \in Copies
                                 /\ mem[map[c]].id = mem[c].id
                                 /\ mem[map[c]].shape = mem[c].shape
        /\ DOMAIN map \subseteq Originals
        /\ \A n \in Copies : \E c \in DOMAIN map : map[c] = n
        /\ OneIdentity(Originals)
    BY <1>3 DEF IInv, MidCollection, Mapped
  <2>2. ASSUME NEW c \in DOMAIN map
        PROVE  View(map[c]) = View(c)
    <3> SUFFICES ASSUME NEW f \in RefSlots[mem[c].shape]
                 PROVE  IdOf(mem[map[c]].refs[f]) = IdOf(mem[c].refs[f])
      BY <2>1 DEF View
    <3>1. \/ mem[map[c]].refs[f] = mem[c].refs[f]
          \/ /\ mem[c].refs[f] \in DOMAIN map \cup {NULL}
             /\ mem[map[c]].refs[f] = Forward(mem[c].refs[f])
      BY <1>3 DEF IInv, MidCollection, ScannedFollow
    <3>2. \A r \in DOMAIN map \cup {NULL} : IdOf(Forward(r)) = IdOf(r)
      <4>1. \A r \in DOMAIN map : r # NULL /\ map[r] # NULL
        BY <2>1, NullAssumption DEF IInv, TypeOK, Copies
      <4> QED
        BY <2>1, <4>1 DEF IdOf, Forward
    <3> QED
      BY <3>1, <3>2
  (* Every object in memory is, or is a copy of, exactly one original. *)
  <2>3. ASSUME NEW n \in DOMAIN mem
        PROVE  \E c \in Originals : mem[c].id = mem[n].id /\ View(c) = View(n)
    BY <1>1, <2>1, <2>2
  <2>4. PICK c \in Originals : mem[c].id = mem[a].id /\ View(c) = View(a)
    BY <2>3
  <2>5. PICK d \in Originals : mem[d].id = mem[b].id /\ View(d) = View(b)
    BY <2>3
  <2>6. c = d
    BY <2>1, <2>4, <2>5 DEF OneIdentity
  <2> QED
    BY <2>4, <2>5, <2>6
<1> QED
  BY <1>2, <1>3

HeapIsViewed ==
  /\ DOMAIN ProgramHeap = Used
  /\ ProgramHeap = [o \in Used |-> ProgramHeap[o]]
  /\ \A a \in DOMAIN mem : mem[a].id \in Used
                           /\ ProgramHeap[mem[a].id] = View(a)
  /\ \A o \in Used : \E a \in DOMAIN mem : mem[a].id = o

LEMMA HeapIsView == IInv => HeapIsViewed
<1> SUFFICES ASSUME IInv
             PROVE  HeapIsViewed
  OBVIOUS
<1>1. /\ DOMAIN ProgramHeap = Used
      /\ ProgramHeap = [o \in Used |-> ProgramHeap[o]]
  BY DEF ProgramHeap
<1>2. ASSUME NEW a \in DOMAIN mem
      PROVE  mem[a].id \in Used /\ ProgramHeap[mem[a].id] = View(a)
  <2> DEFINE b == CHOOSE b \in DOMAIN mem : mem[b].id = mem[a].id
  <2>1. b \in DOMAIN mem /\ mem[b].id = mem[a].id
    OBVIOUS
  <2>2. mem[a].id \in Used
    BY DEF Used
  <2>3. ProgramHeap[mem[a].id] = View(b)
    BY <2>2 DEF ProgramHeap, View
  <2> QED
    BY <2>1, <2>2, <2>3, SameObjects
<1> QED
  BY <1>1, <1>2 DEF Used, HeapIsViewed

LEMMA HeapIsViewNext ==
  ASSUME IInv'
  PROVE  HeapIsViewed'
BY HeapIsView, PTL

LEMMA RootIsView ==
  /\ DOMAIN ProgramRoot = DOMAIN root
  /\ ProgramRoot = [l \in DOMAIN root |-> ProgramRoot[l]]
  /\ \A l \in DOMAIN root : ProgramRoot[l] = IdOf(root[l])
BY DEF ProgramRoot

(* References in memory have identities, and different ones from null. *)
LEMMA IdsOfReferences ==
  ASSUME IInv
  PROVE  /\ \A a \in DOMAIN mem : /\ a # NULL /\ IdOf(a) = mem[a].id
                                  /\ IdOf(a) \in Used /\ IdOf(a) \in Object
                                  /\ IdOf(a) # NULL
         /\ IdOf(NULL) = NULL
BY NullAssumption DEF IInv, TypeOK, IsObject, IdOf, Used

-----------------------------------------------------------------------------
(* Steps that change nothing the program sees. *)

LEMMA SameViewsSameHeap ==
  ASSUME IInv, IInv', DOMAIN mem \subseteq DOMAIN mem', Used' = Used,
         \A a \in DOMAIN mem : mem'[a].id = mem[a].id /\ View(a)' = View(a)
  PROVE  ProgramHeap' = ProgramHeap
<1>1. /\ ProgramHeap = [o \in Used |-> ProgramHeap[o]]
      /\ \A a \in DOMAIN mem : ProgramHeap[mem[a].id] = View(a)
      /\ \A o \in Used : \E a \in DOMAIN mem : mem[a].id = o
  BY HeapIsView DEF HeapIsViewed
<1>2. /\ ProgramHeap' = [o \in Used' |-> ProgramHeap'[o]]
      /\ \A a \in DOMAIN mem' : ProgramHeap'[mem'[a].id] = View(a)'
  BY HeapIsViewNext DEF HeapIsViewed
<1>3. ASSUME NEW o \in Used
      PROVE  ProgramHeap'[o] = ProgramHeap[o]
  <2> PICK a \in DOMAIN mem : mem[a].id = o
    BY <1>1
  <2>1. ProgramHeap[o] = View(a)
    BY <1>1
  <2>2. mem'[a].id = o /\ View(a)' = View(a) /\ a \in DOMAIN mem'
    OBVIOUS
  <2>3. ProgramHeap'[o] = View(a)'
    BY <1>2, <2>2
  <2> QED
    BY <2>1, <2>2, <2>3
<1> QED
  BY <1>1, <1>2, <1>3

LEMMA IdsStay ==
  ASSUME IInv, NEW r \in DOMAIN mem \cup {NULL}, r \in DOMAIN mem' \cup {NULL},
         \A a \in DOMAIN mem \cap DOMAIN mem' : mem'[a].id = mem[a].id
  PROVE  IdOf(r)' = IdOf(r)
BY DEF IdOf

(* copyObject adds no identity, and its result stands for its argument.    *)
LEMMA CopyKeepsIds ==
  ASSUME IInv, Collecting, NEW r \in Originals \cup {NULL}, CopyObject(r),
         DOMAIN mem' = DOMAIN MemWithCopy(r),
         \A a \in DOMAIN MemWithCopy(r) :
           /\ mem'[a].id = MemWithCopy(r)[a].id
           /\ mem'[a].shape = MemWithCopy(r)[a].shape,
         NEW q, q = CopyOf(r)
  PROVE  /\ Used' = Used
         /\ IdOf(q)' = IdOf(r)
         /\ DOMAIN mem \subseteq DOMAIN mem'
         /\ \A a \in DOMAIN mem : /\ mem'[a].id = mem[a].id
                                  /\ mem'[a].shape = mem[a].shape
<1>1. Originals \subseteq DOMAIN mem /\ NULL \notin Address /\ DOMAIN mem \subseteq Address
  BY NullAssumption DEF Originals, IInv, TypeOK
<1>2. CASE r \in Originals /\ CopyMade(r)
  <2> PICK n : n = At(mBumpPtr)
    OBVIOUS
  <2>1. /\ q = n /\ n \in Address
        /\ DOMAIN mem' = DOMAIN mem \cup {n}
        /\ \A a \in DOMAIN mem : mem'[a].id = mem[a].id
                                 /\ mem'[a].shape = mem[a].shape
        /\ mem'[n].id = mem[r].id
    BY <1>2 DEF CopyMade
  <2>2. Used' = Used
    BY <1>1, <1>2, <2>1 DEF Used
  <2>3. IdOf(q)' = IdOf(r)
    BY <1>1, <1>2, <2>1 DEF IdOf
  <2> QED
    BY <2>1, <2>2, <2>3
<1>3. CASE NoCopyMade(r)
  <2>1. /\ r = NULL \/ r \in DOMAIN map
        /\ q = Forward(r)
        /\ DOMAIN mem' = DOMAIN mem
        /\ \A a \in DOMAIN mem : mem'[a].id = mem[a].id
                                 /\ mem'[a].shape = mem[a].shape
    BY <1>3 DEF NoCopyMade
  <2>2. Used' = Used
    BY <2>1 DEF Used
  <2>3. r \in DOMAIN map => /\ map[r] \in DOMAIN mem /\ r \in DOMAIN mem
                            /\ mem[map[r]].id = mem[r].id
    BY <1>1 DEF IInv, MidCollection, Mapped, Copies
  <2>4. IdOf(q)' = IdOf(r)
    BY <1>1, <2>1, <2>3 DEF IdOf, Forward
  <2> QED
    BY <2>1, <2>2, <2>4
<1> QED
  BY <1>2, <1>3, CopyObjectCases

LEMMA VisitRootIsInvisible ==
  ASSUME IInv, IInv', NEW l \in Location, VisitRoot(l)
  PROVE  ProgramHeap' = ProgramHeap /\ ProgramRoot' = ProgramRoot
<1>1. Collecting /\ l \in pending /\ l \in DOMAIN root
  BY DEF VisitRoot, IsNextRoot, Collecting, IInv, TypeOK
<1> PICK r \in Originals \cup {NULL} : r = root[l]
  BY <1>1 DEF IInv, MidCollection, RootsFollow
<1> PICK q : q = CopyOf(r)
  OBVIOUS
<1>2. /\ mem' = MemWithCopy(r) /\ CopyObject(r)
      /\ root' = [root EXCEPT ![l] = q]
  BY DEF VisitRoot
<1>3. /\ Used' = Used /\ IdOf(q)' = IdOf(r)
      /\ DOMAIN mem \subseteq DOMAIN mem'
      /\ \A a \in DOMAIN mem : mem'[a] = mem[a]
  BY <1>1, <1>2, CopyKeepsIds, MemWithCopyIsTyped
<1>4. NoDanglingReference
  BY InvariantLeavesNothingDangling
<1>5. \A r1 \in DOMAIN mem \cup {NULL} : IdOf(r1)' = IdOf(r1)
  BY <1>3, IdsStay
<1>6. \A a \in DOMAIN mem : View(a)' = View(a)
  BY <1>3, <1>4, <1>5 DEF View, NoDanglingReference
<1>7. ProgramHeap' = ProgramHeap
  BY <1>3, <1>6, SameViewsSameHeap
<1>8. ASSUME NEW k \in DOMAIN root
      PROVE  IdOf(root[k])' = IdOf(root[k])
  <2>1. CASE k = l
    <3>1. root'[k] = q /\ root[k] = r
      BY <1>1, <1>2, <2>1
    <3> QED
      BY <1>3, <3>1 DEF IdOf
  <2>2. CASE k # l
    <3> PICK v : v = root[k]
      OBVIOUS
    <3>1. root'[k] = v /\ v \in DOMAIN mem \cup {NULL}
      BY <1>2, <1>4, <2>2 DEF NoDanglingReference
    <3> QED
      BY <1>5, <3>1 DEF IdOf
  <2> QED
    BY <2>1, <2>2
<1>9. ProgramRoot' = ProgramRoot
  BY <1>2, <1>8 DEF ProgramRoot
<1> QED
  BY <1>7, <1>9

LEMMA ScanFieldIsInvisible ==
  ASSUME IInv, IInv', NEW f \in Slot, ScanField(f)
  PROVE  ProgramHeap' = ProgramHeap /\ ProgramRoot' = ProgramRoot
<1>1. Collecting /\ f \in fields
  BY DEF ScanField, Collecting
<1> PICK c : c = At(scanPtr)
  OBVIOUS
<1> PICK r : r = mem[c].refs[f]
  OBVIOUS
<1> PICK q : q = CopyOf(r)
  OBVIOUS
<1>2. /\ CopyObject(r) /\ root' = root
      /\ mem' = [MemWithCopy(r) EXCEPT ![c].refs[f] = q]
  BY DEF ScanField
<1>3. c \in DOMAIN mem /\ f \in RefSlots[mem[c].shape]
  BY <1>1, FieldsBelongToCopy DEF Copies
<1>4. r \in Originals \cup {NULL}
  BY ScanReadsOriginals
<1>5. /\ DOMAIN mem \subseteq DOMAIN MemWithCopy(r)
      /\ \A a \in DOMAIN mem : MemWithCopy(r)[a] = mem[a]
      /\ \A a \in DOMAIN MemWithCopy(r) : IsObject(MemWithCopy(r)[a])
  BY <1>4, MemWithCopyIsTyped
<1>6. /\ DOMAIN mem' = DOMAIN MemWithCopy(r)
      /\ \A a \in DOMAIN mem' : a # c => mem'[a] = MemWithCopy(r)[a]
      /\ mem'[c] = [mem[c] EXCEPT !.refs[f] = q]
  BY <1>2, <1>3, <1>5
<1>7. IsObject(mem[c])
  BY <1>3 DEF IInv, TypeOK
<1>8. /\ mem'[c].id = mem[c].id /\ mem'[c].shape = mem[c].shape
      /\ mem'[c].refs[f] = q
      /\ \A g \in RefSlots[mem[c].shape] : g # f => mem'[c].refs[g] = mem[c].refs[g]
  BY <1>3, <1>6, <1>7 DEF IsObject
<1>9. ASSUME NEW a \in DOMAIN MemWithCopy(r)
      PROVE  mem'[a].id = MemWithCopy(r)[a].id
             /\ mem'[a].shape = MemWithCopy(r)[a].shape
  <2>1. CASE a = c
    <3>1. MemWithCopy(r)[c] = mem[c]
      BY <1>3, <1>5
    <3> QED
      BY <1>8, <2>1, <3>1
  <2>2. CASE a # c
    <3>1. mem'[a] = MemWithCopy(r)[a]
      BY <1>6, <2>2
    <3> QED
      BY <3>1
  <2> QED
    BY <2>1, <2>2
<1>10. /\ Used' = Used /\ IdOf(q)' = IdOf(r)
       /\ DOMAIN mem \subseteq DOMAIN mem'
       /\ \A a \in DOMAIN mem : mem'[a].id = mem[a].id /\ mem'[a].shape = mem[a].shape
  <2>1. IInv /\ Collecting /\ CopyObject(r)
    BY <1>1, <1>2
  <2>2. DOMAIN mem' = DOMAIN MemWithCopy(r)
    BY <1>6
  <2> HIDE DEF CopyObject, MemWithCopy, CopyOf, Originals, Collecting, IInv, IdOf, Used
  <2> QED
    BY <1>4, <1>9, <2>1, <2>2, CopyKeepsIds
<1>11. NoDanglingReference
  BY InvariantLeavesNothingDangling
<1>12. \A r1 \in DOMAIN mem \cup {NULL} : IdOf(r1)' = IdOf(r1)
  BY <1>10, IdsStay
<1>13. ASSUME NEW a \in DOMAIN mem
       PROVE  View(a)' = View(a)
  <2> SUFFICES ASSUME NEW g \in RefSlots[mem[a].shape]
               PROVE  IdOf(mem[a].refs[g])' = IdOf(mem[a].refs[g])
    BY <1>10 DEF View
  <2>1. CASE a = c /\ g = f
    <3>1. mem'[a].refs[g] = q /\ mem[a].refs[g] = r
      BY <1>8, <2>1
    <3> QED
      BY <1>10, <3>1 DEF IdOf
  <2>2. CASE ~(a = c /\ g = f)
    <3> PICK v : v = mem[a].refs[g]
      OBVIOUS
    <3>1. mem'[a].refs[g] = v
      <4>1. CASE a = c
        BY <1>8, <2>2, <4>1
      <4>2. CASE a # c
        BY <1>5, <1>6, <4>2
      <4> QED
        BY <4>1, <4>2
    <3>2. v \in DOMAIN mem \cup {NULL}
      BY <1>11 DEF NoDanglingReference
    <3> QED
      BY <1>12, <3>1, <3>2 DEF IdOf
  <2> QED
    BY <2>1, <2>2
<1>14. ProgramHeap' = ProgramHeap
  BY <1>10, <1>13, SameViewsSameHeap
<1>15. ProgramRoot' = ProgramRoot
  <2>1. \A k \in DOMAIN root : IdOf(root[k])' = IdOf(root[k])
    <3> SUFFICES ASSUME NEW k \in DOMAIN root
                 PROVE  IdOf(root[k])' = IdOf(root[k])
      OBVIOUS
    <3> PICK v : v = root[k]
      OBVIOUS
    <3>1. root'[k] = v /\ v \in DOMAIN mem \cup {NULL}
      BY <1>2, <1>11 DEF NoDanglingReference
    <3> QED
      BY <1>12, <3>1 DEF IdOf
  <2> QED
    BY <1>2, <2>1 DEF ProgramRoot
<1> QED
  BY <1>14, <1>15
-----------------------------------------------------------------------------
(* Steps of the program are steps of the abstract heap. *)

LEMMA ValuesAreVisible ==
  ASSUME IInv, ~Collecting, NEW v \in Values
  PROVE  IdOf(v) \in Heap!Values /\ IdOf(v) \in Object \cup {NULL}
<1>1. /\ DOMAIN mem = Copies /\ v \in DOMAIN mem \cup {NULL}
      /\ \A l \in DOMAIN root : root[l] \in DOMAIN mem \cup {NULL}
  BY ValuesAreObjects DEF IInv, AtRest
<1>2. IdOf(v) \in Object \cup {NULL}
  BY <1>1, IdsOfReferences
<1>3. CASE v = NULL
  BY <1>3, IdsOfReferences DEF Heap!Values
<1>4. ASSUME NEW l \in DOMAIN root, v = root[l]
      PROVE  IdOf(v) \in Heap!Values
  BY <1>4, RootIsView DEF Heap!Values
<1>5. ASSUME NEW l \in DOMAIN root, root[l] # NULL,
             NEW f \in RefSlots[mem[root[l]].shape], v = mem[root[l]].refs[f]
      PROVE  IdOf(v) \in Heap!Values
  <2> PICK a \in DOMAIN mem : a = root[l]
    BY <1>1, <1>5
  <2>1. l \in DOMAIN ProgramRoot /\ ProgramRoot[l] = mem[a].id /\ ProgramRoot[l] # NULL
    BY RootIsView, IdsOfReferences
  <2>2. ProgramHeap[ProgramRoot[l]] = View(a)
    BY <2>1, HeapIsView DEF HeapIsViewed
  <2>3. /\ f \in RefSlots[ProgramHeap[ProgramRoot[l]].shape]
        /\ ProgramHeap[ProgramRoot[l]].refs[f] = IdOf(v)
    BY <1>5, <2>2 DEF View
  <2> QED
    BY <2>1, <2>3 DEF Heap!Values
<1> QED
  BY <1>2, <1>3, <1>4, <1>5 DEF Values

LEMMA RootUpdateIsUpdate ==
  ASSUME IInv, NEW l \in Location, NEW v, NEW o, root' = UpdateRoot(l, v),
         IdOf(v)' = o,
         \A r \in DOMAIN mem \cup {NULL} : IdOf(r)' = IdOf(r)
  PROVE  ProgramRoot' = Heap!Update(l, o)
<1>1. /\ DOMAIN root' = DOMAIN root \cup {l}
      /\ root'[l] = v
      /\ \A k \in DOMAIN root : k # l => root'[k] = root[k]
  BY DEF UpdateRoot
<1>2. IdOf(root[l])' = o
  BY <1>1 DEF IdOf
<1>3. ASSUME NEW k \in DOMAIN root, k # l
      PROVE  IdOf(root[k])' = IdOf(root[k])
  <2> PICK r : r = root[k]
    OBVIOUS
  <2>1. r \in DOMAIN mem \cup {NULL} /\ root'[k] = r
    BY <1>1, <1>3, InvariantLeavesNothingDangling DEF NoDanglingReference
  <2> QED
    BY <2>1 DEF IdOf
<1>4. ProgramRoot' = [k \in DOMAIN root \cup {l} |->
                        IF k = l THEN o ELSE IdOf(root[k])]
  BY <1>1, <1>2, <1>3 DEF ProgramRoot
<1> QED
  BY <1>4, RootIsView DEF Heap!Update

LEMMA PlaceIsNew ==
  ASSUME IInv, IInv', ~Collecting, NEW s \in Shape, NEW l \in Location,
         Place(s, l)
  PROVE  Heap!New(l, s)
<1> PICK n : n = At(mBumpPtr)
  OBVIOUS
<1>1. PICK o \in Object \ Used :
        mem' = [a \in DOMAIN mem \cup {n} |->
                  IF a = n THEN [id |-> o, shape |-> s,
                                 refs |-> [f \in RefSlots[s] |-> NULL]]
                  ELSE mem[a]]
  BY DEF Place
<1>2. n \in Address \ DOMAIN mem /\ n # NULL
  BY BumpPtrIsFree, NullAssumption DEF IInv
<1>3. /\ DOMAIN mem' = DOMAIN mem \cup {n}
      /\ \A a \in DOMAIN mem : mem'[a] = mem[a]
      /\ mem'[n].id = o /\ mem'[n].shape = s
      /\ \A f \in RefSlots[s] : mem'[n].refs[f] = NULL
  BY <1>1, <1>2
<1>4. Used' = Used \cup {o}
  BY <1>2, <1>3 DEF Used
<1>5. \A r \in DOMAIN mem \cup {NULL} : IdOf(r)' = IdOf(r)
  BY <1>3, IdsStay
<1>6. NoDanglingReference
  BY InvariantLeavesNothingDangling
<1>7. \A a \in DOMAIN mem : View(a)' = View(a)
  BY <1>3, <1>5, <1>6 DEF View, NoDanglingReference
<1>8. View(n)' = [shape |-> s, refs |-> [f \in RefSlots[s] |-> NULL]]
  BY <1>3 DEF View, IdOf
<1>9. ProgramHeap' = [p \in DOMAIN ProgramHeap \cup {o} |->
                        IF p = o
                        THEN [shape |-> s, refs |-> [f \in RefSlots[s] |-> NULL]]
                        ELSE ProgramHeap[p]]
  <2>1. /\ ProgramHeap' = [p \in Used \cup {o} |-> ProgramHeap'[p]]
        /\ \A a \in DOMAIN mem' : ProgramHeap'[mem'[a].id] = View(a)'
    BY <1>4, HeapIsViewNext DEF HeapIsViewed
  <2>2. /\ DOMAIN ProgramHeap = Used
        /\ \A a \in DOMAIN mem : ProgramHeap[mem[a].id] = View(a)
        /\ \A p \in Used : \E a \in DOMAIN mem : mem[a].id = p
    BY HeapIsView DEF HeapIsViewed
  <2>3. ProgramHeap'[o] = View(n)'
    BY <1>3, <2>1
  <2>4. ASSUME NEW p \in Used
        PROVE  ProgramHeap'[p] = ProgramHeap[p]
    <3> PICK a \in DOMAIN mem : mem[a].id = p
      BY <2>2
    <3>1. ProgramHeap[p] = View(a)
      BY <2>2
    <3>2. a \in DOMAIN mem' /\ mem'[a].id = p
      BY <1>3
    <3>3. ProgramHeap'[p] = View(a)'
      BY <2>1, <3>2
    <3> QED
      BY <1>7, <3>1, <3>3
  <2> QED
    BY <1>1, <1>8, <2>1, <2>2, <2>3, <2>4
<1>10. ProgramRoot' = Heap!Update(l, o)
  <2>1. root' = UpdateRoot(l, n)
    BY DEF Place
  <2>2. IdOf(n)' = o
    BY <1>2, <1>3 DEF IdOf
  <2> QED
    BY <1>5, <2>1, <2>2, RootUpdateIsUpdate
<1>11. o \in Object \ DOMAIN ProgramHeap
  BY <1>1, HeapIsView DEF HeapIsViewed
<1> QED
  BY <1>9, <1>10, <1>11 DEF Heap!New


LEMMA SameMemorySameHeap ==
  ASSUME IInv, mem' = mem
  PROVE  /\ ProgramHeap' = ProgramHeap
         /\ \A r : IdOf(r)' = IdOf(r)
BY DEF ProgramHeap, IdOf, Used

LEMMA PutIsPut ==
  ASSUME IInv, NEW l \in Location, NEW v \in Values, Put(l, v)
  PROVE  \E o \in Object \cup {NULL} : Heap!Put(l, o)
<1>1. ~Collecting /\ mem' = mem /\ root' = UpdateRoot(l, v)
  BY DEF Put, Running, Collecting, heapVars
<1> PICK o : o = IdOf(v)
  OBVIOUS
<1>2. o \in Heap!Values /\ o \in Object \cup {NULL}
  BY <1>1, ValuesAreVisible
<1>3. ProgramHeap' = ProgramHeap /\ \A r : IdOf(r)' = IdOf(r)
  BY <1>1, SameMemorySameHeap
<1>4. v \in DOMAIN mem \cup {NULL}
  BY <1>1, ValuesAreObjects
<1>5. IdOf(v)' = o
  BY <1>1, <1>3, <1>4
<1>6. ProgramRoot' = Heap!Update(l, o)
  BY <1>1, <1>3, <1>5, RootUpdateIsUpdate
<1> QED
  BY <1>2, <1>3, <1>6 DEF Heap!Put

LEMMA DropIsDrop ==
  ASSUME IInv, NEW l \in Location, Drop(l)
  PROVE  Heap!Drop(l)
<1>1. mem' = mem /\ root' = [k \in DOMAIN root \ {l} |-> root[k]]
  BY DEF Drop, heapVars
<1>2. ProgramHeap' = ProgramHeap
  BY <1>1, SameMemorySameHeap
<1>3. ProgramRoot' = [k \in DOMAIN root \ {l} |-> IdOf(root[k])]
  BY <1>1 DEF ProgramRoot, IdOf
<1>4. ProgramRoot' = [k \in DOMAIN ProgramRoot \ {l} |-> ProgramRoot[k]]
  BY <1>3, RootIsView
<1> QED
  BY <1>2, <1>4 DEF Heap!Drop

LEMMA ViewWithSlot ==
  ASSUME NEW s, NEW refs, NEW f, NEW o
  PROVE  [[shape |-> s, refs |-> refs] EXCEPT !.refs[f] = o]
           = [shape |-> s, refs |-> [refs EXCEPT ![f] = o]]
OBVIOUS

LEMMA StoreIsStore ==
  ASSUME IInv, IInv', NEW l \in Location, NEW f \in Slot, NEW v \in Values,
         Store(l, f, v)
  PROVE  \E o \in Object \cup {NULL} : Heap!Store(l, f, o)
<1>1. ~Collecting /\ root' = root /\ l \in DOMAIN root /\ root[l] # NULL
  BY DEF Store, Running, Collecting
<1>2. DOMAIN mem = Copies /\ v \in DOMAIN mem \cup {NULL}
  BY <1>1, ValuesAreObjects
<1> PICK a \in DOMAIN mem : a = root[l]
  BY <1>1, <1>2 DEF IInv, AtRest
<1>3. /\ DOMAIN mem' = DOMAIN mem
      /\ \A b \in DOMAIN mem : b # a => mem'[b] = mem[b]
      /\ mem'[a] = [mem[a] EXCEPT !.refs[f] = v]
      /\ f \in RefSlots[mem[a].shape]
      /\ IsObject(mem[a])
  BY DEF Store, IInv, TypeOK
<1>4. /\ mem'[a].id = mem[a].id /\ mem'[a].shape = mem[a].shape
      /\ mem'[a].refs[f] = v
      /\ \A g \in RefSlots[mem[a].shape] : g # f => mem'[a].refs[g] = mem[a].refs[g]
  BY <1>3 DEF IsObject
<1>5. \A b \in DOMAIN mem : mem'[b].id = mem[b].id
  BY <1>3, <1>4
<1>6. Used' = Used
  BY <1>3, <1>5 DEF Used
<1>7. \A r \in DOMAIN mem \cup {NULL} : IdOf(r)' = IdOf(r)
  BY <1>3, <1>5, IdsStay
<1>8. NoDanglingReference
  BY InvariantLeavesNothingDangling
<1> PICK o : o = IdOf(v)
  OBVIOUS
<1>9. o \in Heap!Values /\ o \in Object \cup {NULL}
  BY <1>1, ValuesAreVisible
<1> PICK i : i = mem[a].id
  OBVIOUS
<1>10. /\ i \in DOMAIN ProgramHeap /\ ProgramHeap[i] = View(a)
       /\ DOMAIN ProgramHeap = Used
       /\ ProgramHeap = [p \in Used |-> ProgramHeap[p]]
       /\ l \in DOMAIN ProgramRoot /\ ProgramRoot[l] = i /\ ProgramRoot[l] # NULL
  BY <1>1, HeapIsView, RootIsView, IdsOfReferences DEF HeapIsViewed
<1>11. View(a)' = [View(a) EXCEPT !.refs[f] = o]
  <2>1. View(a)' = [shape |-> mem[a].shape,
                    refs |-> [g \in RefSlots[mem[a].shape] |->
                                IF g = f THEN o ELSE IdOf(mem[a].refs[g])]]
    <3>1. ASSUME NEW g \in RefSlots[mem[a].shape]
          PROVE  IdOf(mem[a].refs[g])' = IF g = f THEN o ELSE IdOf(mem[a].refs[g])
      <4> PICK r : r = mem'[a].refs[g]
        OBVIOUS
      <4>1. IdOf(r)' = IdOf(r) /\ r = IF g = f THEN v ELSE mem[a].refs[g]
        BY <1>2, <1>4, <1>7, <1>8 DEF NoDanglingReference
      <4>2. IdOf(mem[a].refs[g])' = IdOf(r)'
        BY DEF IdOf
      <4> QED
        BY <4>1, <4>2
    <3> QED
      BY <1>4, <3>1 DEF View
  <2> PICK refs : refs = [g \in RefSlots[mem[a].shape] |-> IdOf(mem[a].refs[g])]
    OBVIOUS
  <2>2. View(a)' = [shape |-> mem[a].shape, refs |-> [refs EXCEPT ![f] = o]]
    BY <1>3, <2>1
  <2>3. View(a) = [shape |-> mem[a].shape, refs |-> refs]
    BY DEF View
  <2>4. [View(a) EXCEPT !.refs[f] = o]
          = [shape |-> mem[a].shape, refs |-> [refs EXCEPT ![f] = o]]
    BY <2>3, ViewWithSlot
  <2> QED
    BY <2>2, <2>4
<1>12. ASSUME NEW b \in DOMAIN mem, b # a
       PROVE  View(b)' = View(b)
  BY <1>3, <1>7, <1>8, <1>12 DEF View, NoDanglingReference
<1>13. ProgramHeap' = [ProgramHeap EXCEPT ![ProgramRoot[l]].refs[f] = o]
  <2>1. /\ ProgramHeap' = [p \in Used |-> ProgramHeap'[p]]
        /\ \A b \in DOMAIN mem : ProgramHeap'[mem[b].id] = View(b)'
    BY <1>3, <1>5, <1>6, HeapIsViewNext DEF HeapIsViewed
  <2>2. ProgramHeap'[i] = [ProgramHeap[i] EXCEPT !.refs[f] = o]
    BY <1>10, <1>11, <2>1
  <2>3. ASSUME NEW p \in Used, p # i
        PROVE  ProgramHeap'[p] = ProgramHeap[p]
    <3> PICK b \in DOMAIN mem : mem[b].id = p
      BY HeapIsView DEF HeapIsViewed
    <3>1. b # a /\ ProgramHeap[p] = View(b) /\ ProgramHeap'[p] = View(b)'
      BY <2>1, <2>3, HeapIsView DEF HeapIsViewed
    <3> QED
      BY <1>12, <3>1
  <2>4. ProgramHeap' = [p \in Used |-> IF p = i THEN [ProgramHeap[i] EXCEPT !.refs[f] = o]
                                               ELSE ProgramHeap[p]]
    BY <2>1, <2>2, <2>3
  <2> QED
    BY <1>10, <2>4
<1>14. UNCHANGED ProgramRoot
  <2>1. \A k \in DOMAIN root : IdOf(root[k])' = IdOf(root[k])
    BY <1>1, <1>3, <1>5, <1>8 DEF IdOf, NoDanglingReference
  <2> QED
    BY <1>1, <2>1 DEF ProgramRoot
<1>15. f \in RefSlots[ProgramHeap[ProgramRoot[l]].shape]
  BY <1>3, <1>10 DEF View
<1> QED
  BY <1>9, <1>10, <1>13, <1>14, <1>15 DEF Heap!Store

-----------------------------------------------------------------------------
(* The end of a collection: objects nothing refers to disappear.           *)

LEMMA FinishIsDiscard ==
  ASSUME IInv, IInv', FinishCollection
  PROVE  \E Kept \in SUBSET DOMAIN ProgramHeap : Heap!Discard(Kept)
<1>1. /\ ClosedSet(Copies)
      /\ \A l \in DOMAIN root : root[l] \in Copies \cup {NULL}
  BY ScanIsComplete
<1>2. mem' = [a \in Copies |-> mem[a]] /\ root' = root
  BY DEF FinishCollection, Copies
<1>3. /\ DOMAIN mem' = Copies /\ \A a \in Copies : mem'[a] = mem[a]
      /\ Copies \subseteq DOMAIN mem
  BY <1>2 DEF Copies
<1> PICK Kept : Kept = Used'
  OBVIOUS
<1>4. /\ Kept \subseteq Used
      /\ \A a \in Copies : mem[a].id \in Kept
      /\ \A o \in Kept : \E a \in Copies : mem[a].id = o
  BY <1>3 DEF Used
<1>5. \A r \in Copies \cup {NULL} : /\ IdOf(r)' = IdOf(r)
                                  /\ IdOf(r) \in Kept \cup {NULL}
  <2>1. \A r \in Copies \cup {NULL} : IdOf(r)' = IdOf(r)
    BY <1>3, IdsStay
  <2>2. \A r \in Copies \cup {NULL} : IdOf(r) \in Kept \cup {NULL}
    BY <1>3, <1>4, IdsOfReferences
  <2> QED
    BY <2>1, <2>2
<1>6. \A a \in Copies : View(a)' = View(a)
  BY <1>1, <1>3, <1>5 DEF View, ClosedSet
<1>7. /\ DOMAIN ProgramHeap = Used
      /\ \A a \in Copies : ProgramHeap[mem[a].id] = View(a)
  BY <1>3, HeapIsView DEF HeapIsViewed
<1>8. ProgramHeap' = [o \in Kept |-> ProgramHeap[o]]
  <2>1. /\ ProgramHeap' = [o \in Kept |-> ProgramHeap'[o]]
        /\ \A a \in Copies : ProgramHeap'[mem[a].id] = View(a)'
    BY <1>3, HeapIsViewNext DEF HeapIsViewed
  <2>2. ASSUME NEW o \in Kept
        PROVE  ProgramHeap'[o] = ProgramHeap[o]
    <3> PICK a \in Copies : mem[a].id = o
      BY <1>4
    <3> QED
      BY <1>6, <1>7, <2>1
  <2> QED
    BY <2>1, <2>2
<1>9. UNCHANGED ProgramRoot
  <2>1. \A l \in DOMAIN root : IdOf(root[l])' = IdOf(root[l])
    <3> SUFFICES ASSUME NEW l \in DOMAIN root
                 PROVE  IdOf(root[l])' = IdOf(root[l])
      OBVIOUS
    <3> PICK r \in Copies \cup {NULL} : r = root[l]
      BY <1>1
    <3> QED
      BY <1>2, <1>5 DEF IdOf
  <2> QED
    BY <1>2, <2>1 DEF ProgramRoot
<1>10. \A l \in DOMAIN ProgramRoot : ProgramRoot[l] \in Kept \cup {NULL}
  BY <1>1, <1>5, RootIsView
<1>11. ASSUME NEW o \in Kept, NEW f \in RefSlots[ProgramHeap[o].shape]
       PROVE  ProgramHeap[o].refs[f] \in Kept \cup {NULL}
  <2> PICK a \in Copies : mem[a].id = o
    BY <1>4
  <2>1. ProgramHeap[o] = View(a)
    BY <1>7
  <2>2. f \in RefSlots[mem[a].shape] /\ ProgramHeap[o].refs[f] = IdOf(mem[a].refs[f])
    BY <1>11, <2>1 DEF View
  <2> QED
    BY <1>1, <1>5, <2>2 DEF ClosedSet
<1>12. Heap!Discard(Kept)
  BY <1>8, <1>9, <1>10, <1>11 DEF Heap!Discard
<1> QED
  BY <1>4, <1>7, <1>12

-----------------------------------------------------------------------------
LEMMA InitIsInit == Init => Heap!Init
<1> SUFFICES ASSUME Init
             PROVE  Heap!Init
  OBVIOUS
<1>1. Used = {} /\ DOMAIN root = {}
  BY DEF Init, Used, Empty
<1> QED
  BY <1>1 DEF Heap!Init, ProgramHeap, ProgramRoot

(* Steps that leave memory and roots as they are. *)
LEMMA NothingMoves ==
  ASSUME IInv, mem' = mem, root' = root
  PROVE  UNCHANGED Heap!vars
<1>1. ProgramHeap' = ProgramHeap /\ \A r : IdOf(r)' = IdOf(r)
  BY SameMemorySameHeap
<1>2. ProgramRoot' = ProgramRoot
  BY DEF ProgramRoot, IdOf
<1> QED
  BY <1>1, <1>2 DEF Heap!vars

LEMMA StepIsStep == IInv /\ IInv' /\ [Next]_vars => [Heap!Next]_(Heap!vars)
<1> SUFFICES ASSUME IInv, IInv', [Next]_vars
             PROVE  Heap!Next \/ UNCHANGED Heap!vars
  OBVIOUS
<1>1. ASSUME NEW l \in Location, NEW s \in Shape, AllocateNow(s, l)
      PROVE  Heap!Next
  <2>1. Heap!New(l, s)
    BY <1>1, PlaceIsNew DEF AllocateNow, Running, Collecting
  <2> QED
    BY <2>1 DEF Heap!Next
<1>2. CASE FinishAllocation
  <2>1. request.shape \in Shape /\ request.into \in Location /\ ~Collecting
    BY <1>2 DEF FinishAllocation, IInv, TypeOK, Request, Collecting
  <2>2. Heap!New(request.into, request.shape)
    BY <1>2, <2>1, PlaceIsNew DEF FinishAllocation
  <2> QED
    BY <2>1, <2>2 DEF Heap!Next
<1>3. ASSUME NEW l \in Location, NEW v \in Values, Put(l, v)
      PROVE  Heap!Next
  BY <1>3, PutIsPut DEF Heap!Next
<1>4. ASSUME NEW l \in Location, Drop(l)
      PROVE  Heap!Next
  BY <1>4, DropIsDrop DEF Heap!Next
<1>5. ASSUME NEW l \in Location, NEW f \in Slot, NEW v \in Values, Store(l, f, v)
      PROVE  Heap!Next
  BY <1>5, StoreIsStore DEF Heap!Next
<1>6. CASE \/ \E l \in Location, s \in Shape : AllocateAfterCollection(s, l)
           \/ \E locked \in BOOLEAN : SetLock(locked)
           \/ RuntimeGc \/ OutOfMemory \/ BeginScan \/ AdvanceScan
           \/ UNCHANGED vars
  <2>1. mem' = mem /\ root' = root
    BY <1>6 DEF AllocateAfterCollection, BeginCollection, SetLock, RuntimeGc,
                OutOfMemory, BeginScan, AdvanceScan, heapVars, vars
  <2> QED
    BY <2>1, NothingMoves
<1>7. CASE (\E l \in Location : VisitRoot(l)) \/ (\E f \in Slot : ScanField(f))
  BY <1>7, VisitRootIsInvisible, ScanFieldIsInvisible DEF Heap!vars
<1>8. CASE FinishCollection
  BY <1>8, FinishIsDiscard DEF Heap!Next
<1> QED
  BY <1>1, <1>2, <1>3, <1>4, <1>5, <1>6, <1>7, <1>8 DEF Next, Program, Collect

(* For any heap, any roots and any layouts, no program can tell that the   *)
(* collector moves objects: GarbageCollector and JavaHeap keep the promise *)
(* module JavaHeap makes for them.                                         *)
THEOREM CollectorIsInvisible == Spec => SameHeap
  BY InitIsInit, StepIsStep, InvariantAlways, PTL
  DEF Spec, SameHeap, Heap!Spec

==============================================================================
