------------------------------ MODULE RootList ------------------------------
(***************************************************************************)
(* The list of manually pinned GC roots (RootList.cpp, GarbageCollector.h) *)
(* and the loop with which a collection walks it.                          *)
(*                                                                         *)
(* A pinned object is held through a heap-allocated list node; the node    *)
(* stays where it is when the collector moves the object, and the          *)
(* collector overwrites the node's `instance` pointer while it walks the   *)
(* list.  Nodes are members of Node; the ones that are allocated are the   *)
(* domain of `node`.  An instance pointer is the pair of the object and    *)
(* the heap region the pointer points into: it is stale as soon as that    *)
(* region is no longer the "from" region.                                  *)
(***************************************************************************)

EXTENDS Naturals

CONSTANTS
  Node,    \* addresses of list nodes
  Object,  \* objects on the garbage-collected heap
  NULL     \* the null pointer

ASSUME NullAssumption == NULL \notin Node

VARIABLES
  mHead,        \* RootList::mHead
  node,         \* the allocated nodes: Node -> [object, region, next, prev]
  mFromRegion,  \* the region objects are allocated in, 0 or 1
  collecting,   \* a collection is walking the list
  cursor        \* RootList::Iterator of that walk

vars == <<mHead, node, mFromRegion, collecting, cursor>>

Region == {0, 1}
NodeOrNull == Node \cup {NULL}
Live == DOMAIN node

NodeRecord ==
  [object : Object, region : Region, next : NodeOrNull, prev : NodeOrNull]

TypeOK ==
  /\ Live \subseteq Node
  /\ node \in [Live -> NodeRecord]
  /\ mHead \in NodeOrNull
  /\ mFromRegion \in Region
  /\ collecting \in BOOLEAN
  /\ cursor \in NodeOrNull

Init ==
  /\ mHead = NULL
  /\ node = [n \in {} |-> NULL]
  /\ mFromRegion = 0
  /\ collecting = FALSE
  /\ cursor = NULL

-----------------------------------------------------------------------------
(* Mutant: the old head does not learn about the node in front of it. *)
InsertWithoutBackLink(n, o) ==
  /\ n \in Node \ Live
  /\ node' = [m \in Live \cup {n} |->
                IF m = n
                THEN [object |-> o, region |-> mFromRegion,
                      next |-> mHead, prev |-> NULL]
                ELSE node[m]]
  /\ mHead' = n

(* RootList::insert: a new node in front of the old head. *)
Insert(n, o) ==
  /\ n \in Node \ Live
  /\ node' = [m \in Live \cup {n} |->
                IF m = n
                THEN [object |-> o, region |-> mFromRegion,
                      next |-> mHead, prev |-> NULL]
                ELSE [node[m] EXCEPT !.prev = IF m = mHead THEN n ELSE @]]
  /\ mHead' = n

(* Mutant: the textbook removal that needs no link to the predecessor,     *)
(* which copies the successor into the node and frees the successor.       *)
RemoveByOverwriting(n) ==
  LET next == node[n].next
      victim == IF next = NULL THEN n ELSE next
  IN
  /\ n \in Live
  /\ node' = [m \in Live \ {victim} |->
                IF m = n THEN [node[next] EXCEPT !.prev = node[n].prev]
                ELSE [node[m] EXCEPT
                        !.prev = IF m = node[victim].next THEN node[victim].prev
                                                          ELSE @,
                        !.next = IF m = node[victim].prev THEN node[victim].next
                                                          ELSE @]]
  /\ mHead' = IF victim = mHead THEN NULL ELSE mHead

(* RootList::remove of a node that is not null: both neighbours are linked *)
(* past it, the head moves on if it was the head, and the node is freed.   *)
Remove(n) ==
  /\ n \in Live
  /\ node' = [m \in Live \ {n} |->
                [node[m] EXCEPT
                   !.prev = IF m = node[n].next THEN node[n].prev ELSE @,
                   !.next = IF m = node[n].prev THEN node[n].next ELSE @]]
  /\ mHead' = IF n = mHead THEN node[n].next ELSE mHead

(* GarbageCollector::pin of a heap object and GarbageCollector::release.   *)
(* Nothing pins or releases while a collection walks the list: the         *)
(* collector and the program share one thread.                             *)
Pin(n, o) ==
  /\ ~collecting
  /\ Insert(n, o)
  /\ UNCHANGED <<mFromRegion, collecting, cursor>>

Release(n) ==
  /\ ~collecting
  /\ Remove(n)
  /\ UNCHANGED <<mFromRegion, collecting, cursor>>

-----------------------------------------------------------------------------
(* Mutants: a region number that does not come back to 0; a walk that      *)
(* starts behind the head.                                                 *)
BeginWalkInThirdRegion ==
  /\ ~collecting
  /\ collecting' = TRUE
  /\ mFromRegion' = mFromRegion + 1
  /\ cursor' = mHead
  /\ UNCHANGED <<mHead, node>>

BeginWalkBehindHead ==
  /\ ~collecting
  /\ collecting' = TRUE
  /\ mFromRegion' = 1 - mFromRegion
  /\ cursor' = IF mHead = NULL THEN NULL ELSE node[mHead].next
  /\ UNCHANGED <<mHead, node>>

(* A collection as the list sees it: the regions are swapped, the iterator *)
(* starts at begin() and every node it stands on is given the address of   *)
(* its object's copy in the new region, until the iterator equals end().   *)
BeginWalk ==
  /\ ~collecting
  /\ collecting' = TRUE
  /\ mFromRegion' = 1 - mFromRegion
  /\ cursor' = mHead
  /\ UNCHANGED <<mHead, node>>

VisitNode ==
  /\ collecting
  /\ cursor # NULL
  /\ node' = [node EXCEPT ![cursor].region = mFromRegion]
  /\ cursor' = node[cursor].next
  /\ UNCHANGED <<mHead, mFromRegion, collecting>>

EndWalk ==
  /\ collecting
  /\ cursor = NULL
  /\ collecting' = FALSE
  /\ UNCHANGED <<mHead, node, mFromRegion, cursor>>

Next ==
  \/ \E n \in Node, o \in Object : Pin(n, o)
  \/ \E n \in Node : Release(n)
  \/ BeginWalk
  \/ VisitNode
  \/ EndWalk

Spec == Init /\ [][Next]_vars

-----------------------------------------------------------------------------
(* `older[n]` is the set of nodes that follow n in the list.               *)
IsListOrder(older) ==
  /\ mHead = NULL => Live = {}
  /\ mHead # NULL => /\ mHead \in Live
                     /\ node[mHead].prev = NULL
                     /\ Live = {mHead} \cup older[mHead]
  /\ \A n \in Live :
       /\ n \notin older[n]
       /\ n # mHead => node[n].prev \in Live
       /\ node[n].prev # NULL => node[n].prev \in Live
                                 /\ node[node[n].prev].next = n
       /\ node[n].next = NULL => older[n] = {}
       /\ node[n].next # NULL =>
            /\ node[n].next \in Live
            /\ node[node[n].next].prev = n
            /\ older[n] = {node[n].next} \cup older[node[n].next]

(* The iterator's position separates the nodes that already point into the *)
(* new region from those that still have to be visited.                    *)
Remaining(older) ==
  IF collecting /\ cursor # NULL THEN {cursor} \cup older[cursor] ELSE {}

IsWalkedTo(older) ==
  /\ collecting /\ cursor # NULL => cursor \in Live
  /\ \A n \in Live :
       (node[n].region = mFromRegion) <=> (n \notin Remaining(older))

(* The list is a list: its nodes can be ordered so that mHead, next and    *)
(* prev are what the order says, no link leads to a freed node, and every  *)
(* allocated node follows from the head.  RootList::remove relies on it to *)
(* write through `next` and `prev`.                                        *)
WellLinked ==
  \E older \in [Live -> SUBSET Live] : IsListOrder(older) /\ IsWalkedTo(older)

(* What GcRootRef promises ("safe access to an object, even if the GC      *)
(* decides to relocate the object"): outside a collection every pinned     *)
(* root points into the current region, so no pin was left out of a walk.  *)
PinnedAreCurrent ==
  ~collecting => \A n \in Live : node[n].region = mFromRegion

(* A pin keeps denoting the object it was made for until it is released,   *)
(* whatever other pins come and go and however often objects move.         *)
PinsKeepTheirObject ==
  [][\A n \in Live \cap Live' : node'[n].object = node[n].object]_vars

(* The walk of a collection comes to its end. *)
WalkEnds == collecting ~> ~collecting
=============================================================================
