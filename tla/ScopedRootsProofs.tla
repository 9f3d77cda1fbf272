-------------------------- MODULE ScopedRootsProofs --------------------------
(***************************************************************************)
(* Theorems about the list of pinned roots, for any number of nodes, and   *)
(* about the references to it, for any number of those.                    *)
(*                                                                         *)
(* The inductive invariant of the list is WellLinked: a relation between   *)
(* the nodes' order, the links and the position of a collection's          *)
(* iterator.  The steps that change the list produce the new order from    *)
(* the old one.  That of the references is their types and OneOwner: every *)
(* node of the list has one owner, and the references use the list within  *)
(* its contract.                                                           *)
(***************************************************************************)
EXTENDS ScopedRoots, TLAPS

LEMMA TypeInit == Init => TypeOK /\ WellLinked
<1> SUFFICES ASSUME Init PROVE TypeOK /\ WellLinked
  OBVIOUS
<1> PICK older : older = [n \in {} |-> {}]
  OBVIOUS
<1>1. Live = {}
  BY DEF Init, Live
<1>2. older \in [Live -> SUBSET Live]
  BY <1>1
<1>3. IsListOrder(older) /\ IsWalkedTo(older)
  BY <1>1 DEF Init, IsListOrder, IsWalkedTo
<1>4. TypeOK
  BY <1>1 DEF Init, TypeOK, NodeOrNull, Region
<1> QED
  BY <1>2, <1>3, <1>4 DEF WellLinked

(* Only the iterator's step needs more than types: it reads the node it    *)
(* stands on, which WellLinked says is allocated.                          *)
LEMMA TypeStep == TypeOK /\ WellLinked /\ [Next]_vars => TypeOK'
<1> USE NullAssumption DEF TypeOK, Live, NodeRecord, NodeOrNull, Region
<1> SUFFICES ASSUME TypeOK, WellLinked, [Next]_vars
             PROVE  TypeOK'
  OBVIOUS
<1>1. ASSUME NEW n \in Node, NEW o \in Object, Pin(n, o)
      PROVE  TypeOK'
  BY <1>1 DEF Pin, Insert
<1>2. ASSUME NEW n \in Node, Release(n)
      PROVE  TypeOK'
  <2>1. node[n] \in NodeRecord /\ n \in Live
    BY <1>2 DEF Release, Remove
  <2>2. ASSUME NEW m \in Live \ {n}
        PROVE  node'[m] \in NodeRecord
    BY <1>2, <2>1, <2>2 DEF Release, Remove
  <2>3. node' \in [Live \ {n} -> NodeRecord] /\ Live' = Live \ {n}
    BY <1>2, <2>2 DEF Release, Remove
  <2>4. mHead' \in NodeOrNull /\ UNCHANGED <<mFromRegion, collecting, cursor>>
    BY <1>2, <2>1 DEF Release, Remove
  <2> QED
    BY <2>3, <2>4
<1>3. CASE BeginWalk
  BY <1>3 DEF BeginWalk
<1>4. CASE VisitNode
  <2>1. cursor \in Live
    BY <1>4 DEF VisitNode, WellLinked, IsWalkedTo
  <2> QED
    BY <1>4, <2>1 DEF VisitNode
<1>5. CASE EndWalk
  BY <1>5 DEF EndWalk
<1>6. CASE UNCHANGED vars
  BY <1>6 DEF vars
<1> QED
  BY <1>1, <1>2, <1>3, <1>4, <1>5, <1>6 DEF Next

-----------------------------------------------------------------------------
(* What the two list operations do to the links. *)
LEMMA InsertLinks ==
  ASSUME TypeOK, NEW n \in Node, NEW o \in Object, Insert(n, o)
  PROVE  /\ n \notin Live
         /\ Live' = Live \cup {n}
         /\ mHead' = n
         /\ node'[n].next = mHead /\ node'[n].prev = NULL
         /\ node'[n].object = o /\ node'[n].region = mFromRegion
         /\ \A m \in Live :
              /\ node'[m].next = node[m].next
              /\ node'[m].prev = IF m = mHead THEN n ELSE node[m].prev
              /\ node'[m].object = node[m].object
              /\ node'[m].region = node[m].region
<1>1. ASSUME NEW m \in Live
      PROVE  /\ node[m] \in NodeRecord
             /\ node'[m] = [node[m] EXCEPT !.prev = IF m = mHead THEN n ELSE @]
  BY DEF TypeOK, Insert
<1> QED
  BY <1>1 DEF Insert, Live, NodeRecord

LEMMA RemoveLinks ==
  ASSUME TypeOK, NEW n \in Node, Remove(n)
  PROVE  /\ n \in Live
         /\ Live' = Live \ {n}
         /\ mHead' = IF n = mHead THEN node[n].next ELSE mHead
         /\ \A m \in Live \ {n} :
              /\ node'[m].next =
                   IF m = node[n].prev THEN node[n].next ELSE node[m].next
              /\ node'[m].prev =
                   IF m = node[n].next THEN node[n].prev ELSE node[m].prev
              /\ node'[m].object = node[m].object
              /\ node'[m].region = node[m].region
<1>1. ASSUME NEW m \in Live \ {n}
      PROVE  /\ node'[m].next =
                  IF m = node[n].prev THEN node[n].next ELSE node[m].next
             /\ node'[m].prev =
                  IF m = node[n].next THEN node[n].prev ELSE node[m].prev
             /\ node'[m].object = node[m].object
             /\ node'[m].region = node[m].region
  <2>1. /\ node[m] \in NodeRecord
        /\ node'[m] =
             [node[m] EXCEPT
                !.prev = IF m = node[n].next THEN node[n].prev ELSE @,
                !.next = IF m = node[n].prev THEN node[n].next ELSE @]
    BY DEF TypeOK, Remove
  <2> QED
    BY <2>1 DEF NodeRecord
<1>2. n \in Live /\ Live' = Live \ {n}
  BY DEF Remove, Live
<1>3. mHead' = IF n = mHead THEN node[n].next ELSE mHead
  BY DEF Remove
<1> QED
  BY <1>1, <1>2, <1>3

-----------------------------------------------------------------------------
(* A new head precedes every node that was in the list. *)
LEMMA InsertExtendsTheOrder ==
  ASSUME TypeOK,
         NEW n \in Node, NEW o \in Object, Insert(n, o),
         NEW older \in [Live -> SUBSET Live], IsListOrder(older),
         NEW longer,
         longer = [m \in Live \cup {n} |-> IF m = n THEN Live ELSE older[m]]
  PROVE  IsListOrder(longer)'
<1>1. NULL \notin Live' /\ n # NULL /\ NULL \notin Live
  BY InsertLinks, NullAssumption DEF TypeOK
<1>2. /\ n \notin Live /\ Live' = Live \cup {n}
      /\ mHead' = n
      /\ node'[n].next = mHead /\ node'[n].prev = NULL
      /\ \A m \in Live :
           /\ node'[m].next = node[m].next
           /\ node'[m].prev = IF m = mHead THEN n ELSE node[m].prev
  BY InsertLinks
<1>3. longer[n] = Live /\ \A m \in Live : longer[m] = older[m]
  BY <1>2
<1>4. \A m \in Live : older[m] \subseteq Live
  OBVIOUS
<1>5. ASSUME NEW m \in Live'
      PROVE  /\ m \notin longer[m]
             /\ m # mHead' => node'[m].prev \in Live'
             /\ node'[m].prev # NULL => /\ node'[m].prev \in Live'
                                        /\ node'[node'[m].prev].next = m
             /\ node'[m].next = NULL => longer[m] = {}
             /\ node'[m].next # NULL =>
                  /\ node'[m].next \in Live'
                  /\ node'[node'[m].next].prev = m
                  /\ longer[m] = {node'[m].next} \cup longer[node'[m].next]
  <2>1. CASE m = n
    BY <1>1, <1>2, <1>3, <2>1 DEF IsListOrder
  <2>2. CASE m # n
    BY <1>1, <1>2, <1>3, <1>4, <2>2 DEF IsListOrder
  <2> QED
    BY <2>1, <2>2
<1> QED
  BY <1>1, <1>2, <1>3, <1>5 DEF IsListOrder

(* Without the removed node, the rest is ordered as before. *)
LEMMA RemoveRestrictsTheOrder ==
  ASSUME TypeOK,
         NEW n \in Node, Remove(n),
         NEW older \in [Live -> SUBSET Live], IsListOrder(older),
         NEW shorter,
         shorter = [m \in Live \ {n} |-> older[m] \ {n}]
  PROVE  IsListOrder(shorter)'
<1>1. NULL \notin Live
  BY NullAssumption DEF TypeOK
<1>2. /\ n \in Live /\ Live' = Live \ {n}
      /\ mHead' = IF n = mHead THEN node[n].next ELSE mHead
      /\ \A m \in Live \ {n} :
           /\ node'[m].next =
                IF m = node[n].prev THEN node[n].next ELSE node[m].next
           /\ node'[m].prev =
                IF m = node[n].next THEN node[n].prev ELSE node[m].prev
  BY RemoveLinks
<1>3. \A m \in Live \ {n} : shorter[m] = older[m] \ {n}
  OBVIOUS
<1>4. /\ mHead = NULL => Live = {}
      /\ mHead # NULL => /\ mHead \in Live
                         /\ node[mHead].prev = NULL
                         /\ Live = {mHead} \cup older[mHead]
  BY DEF IsListOrder
<1>5. ASSUME NEW m \in Live
      PROVE  /\ m \notin older[m]
             /\ m # mHead => node[m].prev \in Live
             /\ node[m].prev # NULL => /\ node[m].prev \in Live
                                       /\ node[node[m].prev].next = m
             /\ node[m].next = NULL => older[m] = {}
             /\ node[m].next # NULL =>
                  /\ node[m].next \in Live
                  /\ node[node[m].next].prev = m
                  /\ older[m] = {node[m].next} \cup older[node[m].next]
  BY DEF IsListOrder
<1>6. node[n].next # n /\ node[n].prev # n
  BY <1>1, <1>2, <1>5
<1>7. /\ mHead' = NULL => Live' = {}
      /\ mHead' # NULL => /\ mHead' \in Live'
                          /\ node'[mHead'].prev = NULL
                          /\ Live' = {mHead'} \cup shorter[mHead']
  <2>1. CASE n = mHead
    <3>1. Live \ {n} = older[n]
      BY <1>1, <1>2, <1>4, <1>5, <2>1
    <3>2. CASE node[n].next = NULL
      BY <1>2, <1>5, <2>1, <3>1, <3>2
    <3>3. CASE node[n].next # NULL
      <4>1. mHead' = node[n].next /\ mHead' \in Live'
        BY <1>2, <1>5, <1>6, <2>1, <3>3
      <4>2. node'[mHead'].prev = NULL
        BY <1>1, <1>2, <1>4, <2>1, <4>1
      <4>3. shorter[mHead'] = older[mHead'] \ {n}
        BY <1>2, <1>3, <4>1
      <4> QED
        BY <1>2, <1>5, <1>6, <3>1, <3>3, <4>1, <4>2, <4>3
    <3> QED
      BY <3>2, <3>3
  <2>2. CASE n # mHead
    <3>1. mHead' = mHead /\ mHead # NULL /\ mHead \in Live'
      BY <1>2, <1>4, <2>2
    <3>2. node[n].next # mHead
      BY <1>1, <1>2, <1>4, <1>5, <3>1
    <3>3. node'[mHead].prev = NULL
      BY <1>2, <1>4, <3>1, <3>2
    <3>4. shorter[mHead] = older[mHead] \ {n}
      BY <1>2, <1>3, <3>1
    <3> QED
      BY <1>2, <1>4, <2>2, <3>1, <3>3, <3>4
  <2> QED
    BY <2>1, <2>2
<1>8. ASSUME NEW m \in Live'
      PROVE  /\ m \notin shorter[m]
             /\ m # mHead' => node'[m].prev \in Live'
             /\ node'[m].prev # NULL => /\ node'[m].prev \in Live'
                                        /\ node'[node'[m].prev].next = m
             /\ node'[m].next = NULL => shorter[m] = {}
             /\ node'[m].next # NULL =>
                  /\ node'[m].next \in Live'
                  /\ node'[node'[m].next].prev = m
                  /\ shorter[m] = {node'[m].next} \cup shorter[node'[m].next]
  <2>1. m \in Live /\ m # n /\ shorter[m] = older[m] \ {n}
    BY <1>2, <1>3
  <2>2. m \notin shorter[m]
    BY <1>5, <2>1
  <2>3. /\ node[m].prev = n <=> m = node[n].next
        /\ node[m].next = n <=> m = node[n].prev
    BY <1>1, <1>2, <1>5, <2>1
  <2>4. m # mHead' => node'[m].prev \in Live'
    <3>1. CASE m = node[n].next
      BY <1>1, <1>2, <1>4, <1>5, <1>6, <2>1, <3>1
    <3>2. CASE m # node[n].next
      BY <1>1, <1>2, <1>5, <2>1, <2>3, <3>2
    <3> QED
      BY <3>1, <3>2
  <2>5. node'[m].prev # NULL => /\ node'[m].prev \in Live'
                                /\ node'[node'[m].prev].next = m
    <3>1. CASE m = node[n].next
      BY <1>1, <1>2, <1>5, <1>6, <2>1, <3>1
    <3>2. CASE m # node[n].next
      BY <1>1, <1>2, <1>5, <2>1, <2>3, <3>2
    <3> QED
      BY <3>1, <3>2
  <2>6. CASE m = node[n].prev
    <3>1. node'[m].next = node[n].next /\ older[m] = {n} \cup older[n]
      BY <1>1, <1>2, <1>5, <2>1, <2>3, <2>6
    <3>2. n \notin older[n] /\ shorter[m] = older[n]
      BY <1>2, <1>5, <2>1, <3>1
    <3>3. CASE node[n].next = NULL
      <4>1. older[n] = {}
        BY <1>2, <1>5, <3>3
      <4>2. node'[m].next = NULL /\ shorter[m] = {}
        BY <3>1, <3>2, <3>3, <4>1
      <4> QED
        BY <2>2, <2>4, <2>5, <4>2
    <3>4. CASE node[n].next # NULL
      <4>1. node[n].next \in Live' /\ node'[node[n].next].prev = m
        BY <1>1, <1>2, <1>5, <1>6, <2>6, <3>4
      <4>2. older[n] = {node[n].next} \cup older[node[n].next]
        BY <1>2, <1>5, <3>4
      <4>3. shorter[node[n].next] = older[node[n].next]
        <5>1. shorter[node[n].next] = older[node[n].next] \ {n}
          BY <1>2, <1>3, <4>1
        <5>2. n \notin older[node[n].next]
          BY <3>2, <4>2
        <5> QED
          BY <5>1, <5>2
      <4> QED
        BY <2>2, <2>4, <2>5, <3>1, <3>2, <3>4, <4>1, <4>2, <4>3
    <3> QED
      BY <3>3, <3>4
  <2>7. CASE m # node[n].prev
    <3>1. node'[m].next = node[m].next /\ node[m].next # n
      BY <1>2, <2>1, <2>3, <2>7
    <3>2. CASE node[m].next = NULL
      BY <1>5, <2>1, <2>2, <2>4, <2>5, <3>1, <3>2
    <3>3. CASE node[m].next # NULL
      <4>1. node[m].next \in Live' /\ node[node[m].next].prev = m
        BY <1>2, <1>5, <2>1, <3>1, <3>3
      <4>2. node[m].next # node[n].next
        BY <1>2, <1>5, <2>1, <3>3, <4>1
      <4>3. node'[node[m].next].prev = m
        BY <1>2, <4>1, <4>2
      <4>4. /\ shorter[node[m].next] = older[node[m].next] \ {n}
            /\ older[m] = {node[m].next} \cup older[node[m].next]
        BY <1>2, <1>3, <1>5, <2>1, <3>3, <4>1
      <4> QED
        BY <2>1, <2>2, <2>4, <2>5, <3>1, <3>3, <4>1, <4>3, <4>4
    <3> QED
      BY <3>2, <3>3
  <2> QED
    BY <2>6, <2>7
<1> QED
  BY <1>7, <1>8 DEF IsListOrder

-----------------------------------------------------------------------------
(* A step of the walk changes regions only. *)
LEMMA VisitLinks ==
  ASSUME TypeOK, VisitNode, cursor \in Live
  PROVE  /\ Live' = Live
         /\ \A m \in Live :
              /\ node'[m].next = node[m].next
              /\ node'[m].prev = node[m].prev
              /\ node'[m].object = node[m].object
              /\ node'[m].region = IF m = cursor THEN mFromRegion
                                   ELSE node[m].region
<1>1. ASSUME NEW m \in Live
      PROVE  /\ node[m] \in NodeRecord
             /\ node'[m] = IF m = cursor
                           THEN [node[m] EXCEPT !.region = mFromRegion]
                           ELSE node[m]
  BY DEF TypeOK, VisitNode, Live
<1> QED
  BY <1>1 DEF VisitNode, Live, NodeRecord

(* The list stays a list whose walked part is ahead of the iterator.       *)
LEMMA WellLinkedStep == TypeOK /\ WellLinked /\ [Next]_vars => WellLinked'
<1> SUFFICES ASSUME TypeOK, WellLinked, [Next]_vars
             PROVE  WellLinked'
  OBVIOUS
<1> PICK older \in [Live -> SUBSET Live] : IsListOrder(older) /\ IsWalkedTo(older)
  BY DEF WellLinked
<1>0. /\ NULL \notin Live
      /\ \A m \in Live : older[m] \subseteq Live
  BY NullAssumption DEF TypeOK
<1>1. ASSUME NEW n \in Node, NEW o \in Object, Pin(n, o)
      PROVE  WellLinked'
  <2> PICK longer :
        longer = [m \in Live \cup {n} |-> IF m = n THEN Live ELSE older[m]]
    OBVIOUS
  <2>1. Insert(n, o)
    BY <1>1 DEF Pin
  <2>2. IsListOrder(longer)'
    BY <2>1, InsertExtendsTheOrder
  <2>3. IsWalkedTo(longer)'
    BY <1>1, <2>1, InsertLinks DEF IsWalkedTo, Remaining, Pin
  <2>4. longer \in [Live' -> SUBSET Live']
    BY <1>0, <2>1, InsertLinks
  <2> QED
    BY <2>2, <2>3, <2>4 DEF WellLinked
<1>2. ASSUME NEW n \in Node, Release(n)
      PROVE  WellLinked'
  <2> PICK shorter : shorter = [m \in Live \ {n} |-> older[m] \ {n}]
    OBVIOUS
  <2>1. Remove(n)
    BY <1>2 DEF Release
  <2>2. IsListOrder(shorter)'
    BY <2>1, RemoveRestrictsTheOrder
  <2>3. IsWalkedTo(shorter)'
    BY <1>2, <2>1, RemoveLinks DEF IsWalkedTo, Remaining, Release
  <2>4. shorter \in [Live' -> SUBSET Live']
    BY <1>0, <2>1, RemoveLinks
  <2> QED
    BY <2>2, <2>3, <2>4 DEF WellLinked
<1>3. CASE BeginWalk
  <2>1. IsListOrder(older)'
    BY <1>3 DEF BeginWalk, IsListOrder, Live
  <2>2. \A m \in Live : node[m].region = mFromRegion
    BY <1>3 DEF BeginWalk, IsWalkedTo, Remaining
  <2>3. mFromRegion' # mFromRegion
    BY <1>3 DEF BeginWalk, TypeOK, Region
  <2>4. IsWalkedTo(older)'
    BY <1>3, <2>2, <2>3 DEF BeginWalk, IsWalkedTo, Remaining, IsListOrder, Live
  <2>5. Live' = Live
    BY <1>3 DEF BeginWalk, Live
  <2> QED
    BY <2>1, <2>4, <2>5 DEF WellLinked
<1>4. CASE VisitNode
  <2>1. cursor \in Live
    BY <1>4 DEF VisitNode, IsWalkedTo
  <2>2. /\ Live' = Live
        /\ \A m \in Live :
             /\ node'[m].next = node[m].next
             /\ node'[m].prev = node[m].prev
             /\ node'[m].region = IF m = cursor THEN mFromRegion
                                  ELSE node[m].region
    BY <1>4, <2>1, VisitLinks
  <2>3. IsListOrder(older)'
    BY <1>4, <2>2 DEF IsListOrder, VisitNode
  <2>4. Remaining(older)' = older[cursor] /\ cursor \notin older[cursor]
    BY <1>4, <2>1 DEF VisitNode, Remaining, IsListOrder
  <2>5. Remaining(older) = {cursor} \cup older[cursor]
    BY <1>4 DEF VisitNode, Remaining
  <2>6. collecting' /\ cursor' # NULL => cursor' \in Live'
    BY <1>4, <2>1, <2>2 DEF VisitNode, IsListOrder
  <2>7. IsWalkedTo(older)'
    BY <1>4, <2>2, <2>4, <2>5, <2>6 DEF IsWalkedTo, VisitNode
  <2> QED
    BY <2>2, <2>3, <2>7 DEF WellLinked
<1>5. CASE EndWalk
  <2>1. IsListOrder(older)' /\ IsWalkedTo(older)' /\ Live' = Live
    BY <1>5 DEF EndWalk, IsListOrder, IsWalkedTo, Remaining, Live
  <2> QED
    BY <2>1 DEF WellLinked
<1>6. CASE UNCHANGED vars
  <2>1. IsListOrder(older)' /\ IsWalkedTo(older)' /\ Live' = Live
    BY <1>6 DEF vars, IsListOrder, IsWalkedTo, Remaining, Live
  <2> QED
    BY <2>1 DEF WellLinked
<1> QED
  BY <1>1, <1>2, <1>3, <1>4, <1>5, <1>6 DEF Next

-----------------------------------------------------------------------------
(* The fields of every node, the head and the iterator keep their types.   *)
THEOREM TypeCorrect == Spec => []TypeOK
  BY TypeInit, TypeStep, WellLinkedStep, PTL DEF Spec

(* RootList::insert and remove keep the doubly linked list intact: whatever *)
(* nodes are pinned and released, no link leads to a freed node and every  *)
(* pinned node can be reached from the head.                               *)
THEOREM ListStaysWellLinked == Spec => []WellLinked
  BY TypeInit, TypeStep, WellLinkedStep, PTL DEF Spec

(* Outside a collection every pinned root points into the current region:  *)
(* the loop of performGarbageCollection reaches all of them.               *)
THEOREM PinsAreRelocated == Spec => []PinnedAreCurrent
<1>1. WellLinked => PinnedAreCurrent
  BY DEF WellLinked, PinnedAreCurrent, IsWalkedTo, Remaining
<1> QED
  BY <1>1, ListStaysWellLinked, PTL

(* A pinned root denotes the same object from pin to release. *)
THEOREM PinsAreFaithful == Spec => PinsKeepTheirObject
<1>1. TypeOK /\ WellLinked /\ [Next]_vars =>
        [\A n \in Live \cap Live' : node'[n].object = node[n].object]_vars
  <2> SUFFICES ASSUME TypeOK, WellLinked, Next
               PROVE  \A n \in Live \cap Live' :
                        node'[n].object = node[n].object
    OBVIOUS
  <2>1. ASSUME NEW n \in Node, NEW o \in Object, Pin(n, o)
        PROVE  \A m \in Live \cap Live' : node'[m].object = node[m].object
    BY <2>1, InsertLinks DEF Pin
  <2>2. ASSUME NEW n \in Node, Release(n)
        PROVE  \A m \in Live \cap Live' : node'[m].object = node[m].object
    BY <2>2, RemoveLinks DEF Release
  <2>3. CASE BeginWalk \/ EndWalk
    BY <2>3 DEF BeginWalk, EndWalk
  <2>4. CASE VisitNode
    <3>1. cursor \in Live
      BY <2>4 DEF VisitNode, WellLinked, IsWalkedTo
    <3> QED
      BY <2>4, <3>1, VisitLinks
  <2> QED
    BY <2>1, <2>2, <2>3, <2>4 DEF Next
<1> QED
  BY <1>1, TypeCorrect, ListStaysWellLinked, PTL DEF Spec, PinsKeepTheirObject

-----------------------------------------------------------------------------
(* The references. *)

RefTypes ==
  /\ scoped \in [Scope -> Node \cup {NULL, OutOfScope}]
  /\ raw \in [Raw -> Node \cup {NULL}]
  /\ owed \subseteq Node

IInv == RefTypes /\ OneOwner

ListNext == [Next]_vars

(* Pinning and releasing, as the set of allocated nodes sees them. *)
LEMMA PinNode ==
  ASSUME NEW n \in Node, NEW o \in Object, Pin(n, o)
  PROVE  /\ ListNext
         /\ n \notin Live
         /\ Live' = Live \cup {n}
<1>1. ListNext
  BY DEF ListNext, Next
<1> QED
  BY <1>1 DEF Pin, Insert, Live

LEMMA ReleaseLiveNode ==
  ASSUME NEW n, n \in Live \cup {NULL}, ReleaseNode(n), RefTypes, OneOwner
  PROVE  /\ ListNext
         /\ Live' = Live \ {n}
<1>1. Live \subseteq Node
  BY DEF RefTypes, OneOwner, HeldBy
<1>2. CASE n = NULL
  <2>1. UNCHANGED vars
    BY <1>1, <1>2, NullAssumption DEF ReleaseNode
  <2> QED
    BY <1>1, <1>2, <2>1, NullAssumption DEF ListNext, vars, Live
<1>3. CASE n # NULL
  <2>1. Release(n) /\ n \in Node
    BY <1>1, <1>3 DEF ReleaseNode
  <2>2. ListNext
    BY <2>1 DEF ListNext, Next
  <2> QED
    BY <2>1, <2>2 DEF Release, Remove, Live
<1> QED
  BY <1>2, <1>3

LEMMA SameList ==
  UNCHANGED vars => ListNext /\ Live' = Live
BY DEF ListNext, vars, Live

(* Each operation on references keeps the invariant and is, for the list,  *)
(* one of the list's own steps or none.                                    *)
LEMMA OwnershipStep == IInv /\ [RefsNext]_refsVars => IInv' /\ ListNext
<1> SUFFICES ASSUME IInv, [RefsNext]_refsVars
             PROVE  IInv' /\ ListNext
  OBVIOUS
<1> USE NullAssumption, OutOfScopeAssumption DEF IInv, RefTypes
<1>1. ASSUME NEW h \in Scope, NEW o \in Object, PinScoped(h, o)
      PROVE  IInv' /\ ListNext
  <2> PICK n \in Node : Pin(n, o) /\ scoped' = [scoped EXCEPT ![h] = n]
    BY <1>1 DEF PinScoped
  <2>1. ListNext /\ n \notin Live /\ Live' = Live \cup {n}
    BY PinNode
  <2>2. RefTypes'
    BY <1>1 DEF PinScoped
  <2>3. HeldBy(Scope)' = HeldBy(Scope) \cup {n}
    BY <1>1 DEF PinScoped, HeldBy, InScope
  <2>4. OneOwner'
    BY <1>1, <2>1, <2>3 DEF OneOwner, PinScoped, HeldBy, InScope
  <2> QED
    BY <2>1, <2>2, <2>4
<1>2. ASSUME NEW h \in Scope, PinNull(h)
      PROVE  IInv' /\ ListNext
  <2>1. ListNext /\ Live' = Live
    BY <1>2, SameList DEF PinNull
  <2>2. HeldBy(Scope)' = HeldBy(Scope)
    BY <1>2 DEF PinNull, HeldBy, InScope
  <2> QED
    BY <1>2, <2>1, <2>2 DEF OneOwner, PinNull, HeldBy, InScope
<1>3. ASSUME NEW h \in Scope, NEW g \in Scope, MoveConstruct(h, g)
      PROVE  IInv' /\ ListNext
  <2>1. ListNext /\ Live' = Live
    BY <1>3, SameList DEF MoveConstruct
  <2>2. HeldBy(Scope)' = HeldBy(Scope)
    BY <1>3 DEF MoveConstruct, HeldBy, InScope
  <2> QED
    BY <1>3, <2>1, <2>2 DEF OneOwner, MoveConstruct, InScope
<1>4. ASSUME NEW h \in Scope, NEW g \in Scope, MoveAssign(h, g)
      PROVE  IInv' /\ ListNext
  <2>1. scoped[g] \in Live \cup {NULL}
    BY <1>4 DEF MoveAssign, OneOwner, HeldBy, InScope
  <2>2. ListNext /\ Live' = Live \ {scoped[g]}
    BY <1>4, <2>1, ReleaseLiveNode DEF MoveAssign
  <2>3. HeldBy(Scope)' = HeldBy(Scope) \ {scoped[g]}
    BY <1>4 DEF MoveAssign, OneOwner, HeldBy, InScope
  <2>4. RefTypes'
    BY <1>4 DEF MoveAssign
  <2>5. scoped[g] \notin owed
    BY <1>4, <2>1 DEF OneOwner, HeldBy
  <2>6. \A k, i \in Scope :
          k # i /\ scoped'[k] \in Node => scoped'[i] # scoped'[k]
    BY <1>4 DEF OneOwner, MoveAssign, InScope
  <2>7. OneOwner'
    BY <1>4, <2>2, <2>3, <2>5, <2>6 DEF OneOwner, MoveAssign
  <2> QED
    BY <2>2, <2>4, <2>7
<1>5. ASSUME NEW h \in Scope, NEW r \in Raw, ReleaseScoped(h, r)
      PROVE  IInv' /\ ListNext
  <2>1. ListNext /\ Live' = Live
    BY <1>5, SameList DEF ReleaseScoped
  <2>2. HeldBy(Scope)' = HeldBy(Scope) \ {scoped[h]}
    BY <1>5 DEF ReleaseScoped, OneOwner, HeldBy, InScope
  <2>3. RefTypes'
    BY <1>5 DEF ReleaseScoped, InScope
  <2>4. /\ {scoped[h]} \cap Node \subseteq HeldBy(Scope)
        /\ HeldBy(Scope) \subseteq Node
        /\ owed' = owed \cup ({scoped[h]} \cap Node)
    BY <1>5 DEF HeldBy, ReleaseScoped
  <2>5. HeldBy(Scope)' \cup owed' = HeldBy(Scope) \cup owed
    BY <2>2, <2>4
  <2>6. HeldBy(Scope)' \cap owed' = {}
    BY <2>2, <2>4 DEF OneOwner
  <2>7. \A k, i \in Scope :
          k # i /\ scoped'[k] \in Node => scoped'[i] # scoped'[k]
    BY <1>5 DEF OneOwner, ReleaseScoped
  <2>8. OneOwner'
    BY <2>1, <2>5, <2>6, <2>7 DEF OneOwner
  <2> QED
    BY <2>1, <2>3, <2>8
<1>6. ASSUME NEW h \in Scope, Destroy(h)
      PROVE  IInv' /\ ListNext
  <2>1. scoped[h] \in Live \cup {NULL}
    BY <1>6 DEF Destroy, OneOwner, HeldBy, InScope
  <2>2. ListNext /\ Live' = Live \ {scoped[h]}
    BY <1>6, <2>1, ReleaseLiveNode DEF Destroy
  <2>3. HeldBy(Scope)' = HeldBy(Scope) \ {scoped[h]}
    BY <1>6 DEF Destroy, OneOwner, HeldBy, InScope
  <2>4. scoped[h] \notin owed
    BY <1>6, <2>1 DEF OneOwner, HeldBy
  <2>5. \A k, g \in Scope :
          k # g /\ scoped'[k] \in Node => scoped'[g] # scoped'[k]
    BY <1>6 DEF OneOwner, Destroy
  <2>6. OneOwner'
    BY <1>6, <2>2, <2>3, <2>4, <2>5 DEF OneOwner, Destroy
  <2>7. RefTypes'
    BY <1>6 DEF Destroy
  <2> QED
    BY <2>2, <2>6, <2>7
<1>7. ASSUME NEW r \in Raw, ReleaseRaw(r)
      PROVE  IInv' /\ ListNext
  <2>1. ListNext /\ Live' = Live \ {raw[r]}
    BY <1>7, ReleaseLiveNode DEF ReleaseRaw, OneOwner
  <2>2. HeldBy(Scope)' = HeldBy(Scope) /\ raw[r] \notin HeldBy(Scope)
    BY <1>7 DEF ReleaseRaw, OneOwner, HeldBy
  <2> QED
    BY <1>7, <2>1, <2>2 DEF OneOwner, ReleaseRaw
<1>8. ASSUME NEW r \in Raw, NEW s \in Raw, CopyRaw(r, s)
      PROVE  IInv' /\ ListNext
  <2>1. ListNext /\ Live' = Live
    BY <1>8, SameList DEF CopyRaw
  <2> QED
    BY <1>8, <2>1 DEF OneOwner, CopyRaw, HeldBy
<1>9. CASE Walk \/ Collect
  <2>1. ListNext
    BY <1>9 DEF Walk, Collect, ListNext, Next
  <2>2. Live' = Live
    BY <1>9 DEF Walk, Collect, BeginWalk, VisitNode, EndWalk, Live
  <2> QED
    BY <1>9, <2>1, <2>2 DEF OneOwner, Walk, Collect, HeldBy
<1>10. CASE UNCHANGED refsVars
  <2>1. ListNext /\ Live' = Live
    BY <1>10, SameList DEF refsVars
  <2> QED
    BY <1>10, <2>1 DEF OneOwner, refsVars, HeldBy
<1> QED
  BY <1>1, <1>2, <1>3, <1>4, <1>5, <1>6, <1>7, <1>8, <1>9, <1>10 DEF RefsNext

LEMMA OwnershipInit == RefsInit => IInv /\ Init
BY NullAssumption, OutOfScopeAssumption
   DEF RefsInit, IInv, RefTypes, OneOwner, HeldBy, Init, Live

(* No pinned root has two owners and none in the list is without one: the  *)
(* move operations of ScopedGcRootRef neither free a node twice nor leave  *)
(* a reference on a freed node.                                            *)
THEOREM EveryPinHasOneOwner == RefsSpec => []OneOwner
<1>1. IInv => OneOwner
  BY DEF IInv
<1> QED
  BY <1>1, OwnershipInit, OwnershipStep, PTL DEF RefsSpec

(* Every behaviour of the references is one of the list, so what is proved *)
(* about the list holds for it.                                            *)
THEOREM ReferencesUseTheList == RefsSpec => UsesTheList
  BY OwnershipInit, OwnershipStep, PTL DEF RefsSpec, UsesTheList, Spec, ListNext

(* Whoever goes through a reference outside a collection finds the object  *)
(* in the current region: what the list promises holds under its clients.  *)
THEOREM ReferencesAreCurrent == RefsSpec => []PinnedAreCurrent
  BY ReferencesUseTheList, PinsAreRelocated, PTL DEF UsesTheList

(* Move construction and assignment: a node that a scoped reference holds  *)
(* before a step and one holds after it has an owner all along, so the     *)
(* list keeps it and the object behind it.                                 *)
THEOREM MovesAreFaithful == RefsSpec => MovesKeepTheObject
<1> DEFINE Kept == \A n \in Live \cap Live' : node'[n].object = node[n].object
           Moved == \A h, g \in Scope :
                      scoped[h] \in Node /\ scoped'[g] = scoped[h]
                        => /\ scoped[h] \in DOMAIN node'
                           /\ node'[scoped[h]].object = node[scoped[h]].object
<1>1. OneOwner /\ OneOwner' /\ [Kept]_vars => [Moved]_refsVars
  <2> SUFFICES ASSUME OneOwner, OneOwner', [Kept]_vars,
                      NEW h \in Scope, NEW g \in Scope,
                      scoped[h] \in Node, scoped'[g] = scoped[h]
               PROVE  /\ scoped[h] \in DOMAIN node'
                      /\ node'[scoped[h]].object = node[scoped[h]].object
    OBVIOUS
  <2> PICK n \in Node : n = scoped[h]
    OBVIOUS
  <2>1. n \in Live
    BY DEF OneOwner, HeldBy
  <2>2. n \in Live'
    BY DEF OneOwner, HeldBy
  <2>3. CASE Kept
    BY <2>1, <2>2, <2>3 DEF Live
  <2>4. CASE UNCHANGED vars
    BY <2>1, <2>4 DEF Live, vars
  <2> QED
    BY <2>3, <2>4
<1>2. RefsSpec => [][Kept]_vars
  BY ReferencesUseTheList, PinsAreFaithful, PTL DEF UsesTheList, PinsKeepTheirObject
<1> QED
  BY <1>1, <1>2, EveryPinHasOneOwner, PTL DEF MovesKeepTheObject
=============================================================================
