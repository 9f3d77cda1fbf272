------------------------------ MODULE JavaHeap ------------------------------
(***************************************************************************)
(* The garbage-collected heap as a Java program sees it: objects have an   *)
(* identity, never move, and a location or a field that refers to an       *)
(* object keeps referring to that object until it is assigned.  The memory *)
(* of objects may be taken back, silently, once nothing refers to them.    *)
(*                                                                         *)
(* This is what JavaHeap and GarbageCollector promise to the rest of the   *)
(* VM; module CopyingGc shows that the collector keeps the promise.        *)
(***************************************************************************)
CONSTANTS
  Object,    \* object identities
  Location,  \* where a root may be: pinned roots, static fields, frame slots
  Shape,     \* layouts: a class, or an array class and a length
  Slot,      \* names of fields and array elements that hold references
  RefSlots,  \* Shape -> SUBSET Slot: the reference slots of a layout
  NULL

VARIABLES
  heap,  \* the objects that exist: Object -> [shape, refs]
  root   \* the locations in use: Location -> Object or NULL

vars == <<heap, root>>

Init ==
  /\ heap = [o \in {} |-> NULL]
  /\ root = [l \in {} |-> NULL]

(* What the program can get hold of in one step: null, what a location     *)
(* holds, and what a slot of an object held by a location holds.           *)
Values ==
  {NULL} \cup {root[l] : l \in DOMAIN root}
    \cup UNION {{heap[root[l]].refs[f] : f \in RefSlots[heap[root[l]].shape]} :
                  l \in {k \in DOMAIN root : root[k] # NULL}}

Update(l, v) == [k \in DOMAIN root \cup {l} |-> IF k = l THEN v ELSE root[k]]

(* A new object, all its references null, appears in a location. *)
New(l, s) ==
  \E o \in Object \ DOMAIN heap :
    /\ heap' = [p \in DOMAIN heap \cup {o} |->
                  IF p = o
                  THEN [shape |-> s, refs |-> [f \in RefSlots[s] |-> NULL]]
                  ELSE heap[p]]
    /\ root' = Update(l, o)

Put(l, v) ==
  /\ v \in Values
  /\ root' = Update(l, v)
  /\ UNCHANGED heap

Drop(l) ==
  /\ root' = [k \in DOMAIN root \ {l} |-> root[k]]
  /\ UNCHANGED heap

Store(l, f, v) ==
  /\ l \in DOMAIN root /\ root[l] # NULL
  /\ f \in RefSlots[heap[root[l]].shape]
  /\ v \in Values
  /\ heap' = [heap EXCEPT ![root[l]].refs[f] = v]
  /\ UNCHANGED root

(* The objects outside Kept disappear; nothing refers to them. *)
Discard(Kept) ==
  /\ \A l \in DOMAIN root : root[l] \in Kept \cup {NULL}
  /\ \A o \in Kept : \A f \in RefSlots[heap[o].shape] :
       heap[o].refs[f] \in Kept \cup {NULL}
  /\ heap' = [o \in Kept |-> heap[o]]
  /\ UNCHANGED root

Next ==
  \/ \E l \in Location :
       \/ \E s \in Shape : New(l, s)
       \/ \E v \in Object \cup {NULL} : Put(l, v)
       \/ Drop(l)
       \/ \E f \in Slot, v \in Object \cup {NULL} : Store(l, f, v)
  \/ \E Kept \in SUBSET DOMAIN heap : Discard(Kept)

Spec == Init /\ [][Next]_vars
=============================================================================
