------------------------------ MODULE CopyingGc ------------------------------
(***************************************************************************)
(* The copying collector of GarbageCollector.cpp, with the allocation path *)
(* of JavaHeap and the program that uses both.                             *)
(*                                                                         *)
(* The heap is two regions of equal size.  Objects are allocated in the    *)
(* "from" region by advancing mBumpPtr.  A collection swaps the regions,   *)
(* copies what the roots refer to, then scans the copies in address order  *)
(* and copies what they refer to, until scanPtr catches up with mBumpPtr.  *)
(* It is modelled one root and one field at a time: these are the reads    *)
(* and writes the correctness of the collector depends on.                 *)
(*                                                                         *)
(* An address is a region and an offset in it, in the unit the sizes are   *)
(* given in.  An object's identity is carried by its memory, as its header *)
(* and its primitive fields are: copying an object copies it.              *)
(***************************************************************************)
EXTENDS Naturals, FiniteSets

CONSTANTS
  Object,      \* object identities (bounds the objects that exist at a time)
  Pinned,      \* roots in the list of pinned roots
  Static,      \* static fields of reference type
  FrameSlot,   \* locals and operand stack entries that hold references
  Shape,       \* layouts: a class, or an array class and a length
  Slot,        \* names of fields and elements that hold references
  RefSlots,    \* Shape -> SUBSET Slot: the reference slots of a layout
  Size,        \* Shape -> Nat \ {0}: allocationSize of a layout
  Align,       \* alignof(std::max_align_t)
  HalfSize,    \* mHeapSize / 2
  NULL

Location == Pinned \cup Static \cup FrameSlot
Region == {0, 1}
Address == Region \X Nat
Reference == Address \cup {NULL}

ASSUME LayoutAssumption ==
  /\ RefSlots \in [Shape -> SUBSET Slot]
  /\ Size \in [Shape -> Nat \ {0}]
  /\ Align \in Nat \ {0}
  /\ HalfSize \in Nat

ASSUME NullAssumption == NULL \notin Address /\ NULL \notin Object

VARIABLES
  mem,          \* the objects in memory: Address -> [id, shape, refs]
  root,         \* the root locations in use: Location -> Reference
  mFromRegion,  \* the region objects are allocated in
  mBumpPtr,     \* offset of the first free byte of that region
  mIsGcLocked,
  mRunAfterEveryAllocation,
  phase,        \* what the thread is doing: running the program, copying
                \* the roots, scanning the copies, or stopped by a panic
  pending,      \* roots the collection has not visited
  map,          \* copyObject's map: old address -> new address
  scanPtr,      \* offset of the copy that is being scanned
  fields,       \* slots of that copy that have not been processed
  request       \* the allocation that waits for the collection, if any

heapVars == <<mem, mFromRegion, mBumpPtr>>
gcVars == <<pending, map, scanPtr, fields>>
vars == <<mem, root, mFromRegion, mBumpPtr, mIsGcLocked,
          mRunAfterEveryAllocation, phase, pending, map, scanPtr, fields,
          request>>

NoRequest == [kind |-> "none"]
Request == {NoRequest}
  \cup [kind : {"allocate"}, shape : Shape, into : Location, recheck : BOOLEAN]

IsObject(r) ==
  /\ DOMAIN r = {"id", "shape", "refs"}
  /\ r.id \in Object
  /\ r.shape \in Shape
  /\ r.refs \in [RefSlots[r.shape] -> Reference]

TypeOK ==
  /\ DOMAIN mem \subseteq Address
  /\ \A a \in DOMAIN mem : IsObject(mem[a])
  /\ DOMAIN root \subseteq Location
  /\ root \in [DOMAIN root -> Reference]
  /\ mFromRegion \in Region
  /\ mBumpPtr \in Nat
  /\ mIsGcLocked \in BOOLEAN
  /\ mRunAfterEveryAllocation \in BOOLEAN
  /\ phase \in {"program", "roots", "scan", "panicked"}
  /\ pending \subseteq DOMAIN root
  /\ DOMAIN map \subseteq Address
  /\ map \in [DOMAIN map -> Address]
  /\ scanPtr \in Nat
  /\ fields \subseteq Slot
  /\ request \in Request

Empty == [a \in {} |-> NULL]

Init ==
  /\ mem = Empty
  /\ root = Empty
  /\ mFromRegion = 0
  /\ mBumpPtr = 0
  /\ mIsGcLocked = FALSE
  /\ mRunAfterEveryAllocation \in BOOLEAN
  /\ phase = "program"
  /\ pending = {}
  /\ map = Empty
  /\ scanPtr = 0
  /\ fields = {}
  /\ request = NoRequest

-----------------------------------------------------------------------------
AlignTo(size, alignment) ==
  ((size + alignment - 1) \div alignment) * alignment

AlignedSize(s) == AlignTo(Size[s], Align)

At(offset) == <<mFromRegion, offset>>

(* Mutant: space for one more byte is taken for space for the object. *)
FitsOneByte(s) == mBumpPtr < HalfSize

Fits(s) == mBumpPtr + Size[s] <= HalfSize
Used == {mem[a].id : a \in DOMAIN mem}

(* The program runs and no allocation is under way. *)
Running == phase = "program" /\ request = NoRequest

(* Where a new pointer may go: a frame slot, or a new pinned root. *)
Destination == FrameSlot \cup (Pinned \ DOMAIN root)

UpdateRoot(l, v) ==
  [k \in DOMAIN root \cup {l} |-> IF k = l THEN v ELSE root[k]]

(* allocateUnchecked, the constructor of the instance, which clears its    *)
(* reference slots, and the caller that stores the pointer in a root.      *)
Place(s, l) ==
  /\ \E o \in Object \ Used :
       mem' = [a \in DOMAIN mem \cup {At(mBumpPtr)} |->
                 IF a = At(mBumpPtr)
                 THEN [id |-> o, shape |-> s,
                       refs |-> [f \in RefSlots[s] |-> NULL]]
                 ELSE mem[a]]
  /\ mBumpPtr' = mBumpPtr + AlignedSize(s)
  /\ root' = UpdateRoot(l, At(mBumpPtr))
  /\ UNCHANGED mFromRegion

(* Mutant: the collection forgets the static fields.                       *)
BeginCollectionWithoutStatics ==
  /\ ~mIsGcLocked
  /\ mIsGcLocked' = TRUE
  /\ mFromRegion' = 1 - mFromRegion
  /\ mBumpPtr' = 0
  /\ phase' = "roots"
  /\ pending' = DOMAIN root \ Static
  /\ map' = Empty
  /\ scanPtr' = 0
  /\ fields' = {}
  /\ UNCHANGED <<mem, root, mRunAfterEveryAllocation>>

(* performGarbageCollection up to its first loop; it returns at once when  *)
(* the collector is locked, which the callers below treat.                 *)
BeginCollection ==
  /\ ~mIsGcLocked
  /\ mIsGcLocked' = TRUE
  /\ mFromRegion' = 1 - mFromRegion
  /\ mBumpPtr' = 0
  /\ phase' = "roots"
  /\ pending' = DOMAIN root
  /\ map' = Empty
  /\ scanPtr' = 0
  /\ fields' = {}
  /\ UNCHANGED <<mem, root, mRunAfterEveryAllocation>>

-----------------------------------------------------------------------------
(* GarbageCollector::allocate.                                             *)

(* There is space, and either no collection is asked for or it is locked.  *)
AllocateNow(s, l) ==
  /\ Running
  /\ l \in Destination
  /\ Fits(s)
  /\ mRunAfterEveryAllocation => mIsGcLocked
  /\ Place(s, l)
  /\ UNCHANGED <<mIsGcLocked, mRunAfterEveryAllocation, phase, gcVars, request>>

(* A collection runs first. Its outcome is looked at again only if there   *)
(* was no space before it.                                                 *)
AllocateAfterCollection(s, l) ==
  /\ Running
  /\ l \in Destination
  /\ ~Fits(s) \/ mRunAfterEveryAllocation
  /\ BeginCollection
  /\ request' = [kind |-> "allocate", shape |-> s, into |-> l,
                 recheck |-> ~Fits(s)]

FinishAllocation ==
  /\ phase = "program" /\ request # NoRequest
  /\ request.recheck => Fits(request.shape)
  /\ Place(request.shape, request.into)
  /\ request' = NoRequest
  /\ UNCHANGED <<mIsGcLocked, mRunAfterEveryAllocation, phase, gcVars>>

(* Mutants: giving up without a look at what the collection freed, and     *)
(* collecting again for as long as there is no space.                      *)
OutOfMemoryTooEarly ==
  /\ phase = "program"
  /\ \/ request # NoRequest /\ request.recheck
     \/ request = NoRequest /\ mIsGcLocked /\ \E s \in Shape : ~Fits(s)
  /\ phase' = "panicked"
  /\ UNCHANGED <<heapVars, root, mIsGcLocked, mRunAfterEveryAllocation, gcVars,
                 request>>

CollectAgain ==
  /\ phase = "program"
  /\ request # NoRequest /\ request.recheck /\ ~Fits(request.shape)
  /\ BeginCollection
  /\ UNCHANGED request

(* "out of heap memory": after a collection that did not free enough, or   *)
(* at once if the collection is locked.                                    *)
OutOfMemory ==
  /\ phase = "program"
  /\ \/ request # NoRequest /\ request.recheck /\ ~Fits(request.shape)
     \/ request = NoRequest /\ mIsGcLocked /\ \E s \in Shape : ~Fits(s)
  /\ phase' = "panicked"
  /\ UNCHANGED <<heapVars, root, mIsGcLocked, mRunAfterEveryAllocation, gcVars,
                 request>>

-----------------------------------------------------------------------------
(* The rest of the program: what it does between two allocations.          *)

Values ==
  {NULL} \cup {root[l] : l \in DOMAIN root}
    \cup UNION {{mem[root[l]].refs[f] : f \in RefSlots[mem[root[l]].shape]} :
                  l \in {k \in DOMAIN root : root[k] # NULL}}

(* A frame slot or a static field is written, or a new root is pinned;     *)
(* pinning null makes no root.                                             *)
Put(l, v) ==
  /\ Running
  /\ v \in Values
  /\ l \in Destination \cup Static
  /\ l \in Pinned => v # NULL
  /\ root' = UpdateRoot(l, v)
  /\ UNCHANGED <<heapVars, mIsGcLocked, mRunAfterEveryAllocation, phase, gcVars,
                 request>>

(* A root is released, a value popped, a frame left. *)
Drop(l) ==
  /\ Running
  /\ l \in DOMAIN root \ Static
  /\ root' = [k \in DOMAIN root \ {l} |-> root[k]]
  /\ UNCHANGED <<heapVars, mIsGcLocked, mRunAfterEveryAllocation, phase, gcVars,
                 request>>

(* putfield and aastore. *)
Store(l, f, v) ==
  /\ Running
  /\ l \in DOMAIN root /\ root[l] # NULL
  /\ f \in RefSlots[mem[root[l]].shape]
  /\ v \in Values
  /\ mem' = [mem EXCEPT ![root[l]].refs[f] = v]
  /\ UNCHANGED <<root, mFromRegion, mBumpPtr, mIsGcLocked,
                 mRunAfterEveryAllocation, phase, gcVars, request>>

(* lockGC and unlockGC. *)
SetLock(locked) ==
  /\ Running
  /\ mIsGcLocked' = locked
  /\ UNCHANGED <<heapVars, root, mRunAfterEveryAllocation, phase, gcVars,
                 request>>

(* java.lang.Runtime.gc; nothing happens while the collector is locked.    *)
RuntimeGc ==
  /\ Running
  /\ BeginCollection
  /\ UNCHANGED request

-----------------------------------------------------------------------------
(* copyObject(a): null stays null, an object in the map has been copied,   *)
(* any other is copied to mBumpPtr without a look at the region's bounds.  *)
NeedsCopy(a) == a # NULL /\ a \notin DOMAIN map

CopyOf(a) ==
  IF a = NULL THEN NULL
  ELSE IF a \in DOMAIN map THEN map[a] ELSE At(mBumpPtr)

MemWithCopy(a) ==
  IF NeedsCopy(a)
  THEN [b \in DOMAIN mem \cup {At(mBumpPtr)} |->
          IF b = At(mBumpPtr) THEN mem[a] ELSE mem[b]]
  ELSE mem

(* Mutant: the copy is not remembered. *)
CopyAndForget(a) ==
  IF NeedsCopy(a)
  THEN mBumpPtr' = mBumpPtr + AlignedSize(mem[a].shape) /\ UNCHANGED map
  ELSE UNCHANGED <<mBumpPtr, map>>

CopyObject(a) ==
  IF NeedsCopy(a)
  THEN /\ mBumpPtr' = mBumpPtr + AlignedSize(mem[a].shape)
       /\ map' = [b \in DOMAIN map \cup {a} |->
                    IF b = a THEN At(mBumpPtr) ELSE map[b]]
  ELSE UNCHANGED <<mBumpPtr, map>>

(* Pinned roots come first, then static fields, then frames. *)
IsNextRoot(l) ==
  /\ l \in pending
  /\ l \notin Pinned => pending \cap Pinned = {}
  /\ l \in FrameSlot => pending \cap Static = {}

VisitRoot(l) ==
  /\ phase = "roots"
  /\ IsNextRoot(l)
  /\ mem' = MemWithCopy(root[l])
  /\ CopyObject(root[l])
  /\ root' = [root EXCEPT ![l] = CopyOf(root[l])]
  /\ pending' = pending \ {l}
  /\ UNCHANGED <<mFromRegion, mIsGcLocked, mRunAfterEveryAllocation, phase,
                 scanPtr, fields, request>>

SlotsAt(offset) ==
  IF offset < mBumpPtr THEN RefSlots[mem[At(offset)].shape] ELSE {}

BeginScan ==
  /\ phase = "roots" /\ pending = {}
  /\ phase' = "scan"
  /\ fields' = SlotsAt(scanPtr)
  /\ UNCHANGED <<heapVars, root, mIsGcLocked, mRunAfterEveryAllocation, pending,
                 map, scanPtr, request>>

(* processReferences: one field, or one element of an array. *)
ScanField(f) ==
  LET a == mem[At(scanPtr)].refs[f] IN
  /\ phase = "scan"
  /\ f \in fields
  /\ mem' = [MemWithCopy(a) EXCEPT ![At(scanPtr)].refs[f] = CopyOf(a)]
  /\ CopyObject(a)
  /\ fields' = fields \ {f}
  /\ UNCHANGED <<root, mFromRegion, mIsGcLocked, mRunAfterEveryAllocation,
                 phase, pending, scanPtr, request>>

(* Mutant: the same copy is scanned again. *)
RepeatScan ==
  /\ phase = "scan"
  /\ scanPtr < mBumpPtr /\ fields = {}
  /\ fields' = SlotsAt(scanPtr)
  /\ UNCHANGED <<heapVars, root, mIsGcLocked, mRunAfterEveryAllocation, phase,
                 pending, map, scanPtr, request>>

AdvanceScan ==
  /\ phase = "scan"
  /\ scanPtr < mBumpPtr /\ fields = {}
  /\ scanPtr' = scanPtr + AlignedSize(mem[At(scanPtr)].shape)
  /\ fields' = SlotsAt(scanPtr')
  /\ UNCHANGED <<heapVars, root, mIsGcLocked, mRunAfterEveryAllocation, phase,
                 pending, map, request>>

(* Mutant: the old region is not cleared. *)
FinishWithoutClearing ==
  /\ phase = "scan"
  /\ scanPtr >= mBumpPtr
  /\ mIsGcLocked' = FALSE
  /\ phase' = "program"
  /\ map' = Empty
  /\ scanPtr' = 0
  /\ fields' = {}
  /\ UNCHANGED <<mem, root, mFromRegion, mBumpPtr, mRunAfterEveryAllocation,
                 pending, request>>

(* The old region is cleared and the collector unlocked. *)
FinishCollection ==
  /\ phase = "scan"
  /\ scanPtr >= mBumpPtr
  /\ mem' = [a \in {b \in DOMAIN mem : b[1] = mFromRegion} |-> mem[a]]
  /\ mIsGcLocked' = FALSE
  /\ phase' = "program"
  /\ map' = Empty
  /\ scanPtr' = 0
  /\ fields' = {}
  /\ UNCHANGED <<root, mFromRegion, mBumpPtr, mRunAfterEveryAllocation, pending,
                 request>>

Collect ==
  \/ \E l \in Location : VisitRoot(l)
  \/ BeginScan
  \/ \E f \in Slot : ScanField(f)
  \/ AdvanceScan
  \/ FinishCollection

Program ==
  \/ \E l \in Location :
       \/ \E s \in Shape : AllocateNow(s, l) \/ AllocateAfterCollection(s, l)
       \/ \E v \in Values : Put(l, v)
       \/ Drop(l)
       \/ \E f \in Slot, v \in Values : Store(l, f, v)
  \/ \E locked \in BOOLEAN : SetLock(locked)
  \/ RuntimeGc

Next == Program \/ Collect \/ FinishAllocation \/ OutOfMemory

Spec == Init /\ [][Next]_vars

(* The thread that called the collector runs it to its end, and goes on    *)
(* with the allocation it needed it for; the program itself may stop.      *)
Fairness == WF_vars(Collect) /\ WF_vars(FinishAllocation \/ OutOfMemory)

FairSpec == Spec /\ Fairness

-----------------------------------------------------------------------------
IdOf(a) == IF a = NULL THEN NULL ELSE mem[a].id

(* The objects of the program's heap. While a collection runs there may be *)
(* two copies of an object; which of them is looked at makes no difference *)
(* (see SameObjects in CopyingGcProofs).                                   *)
ProgramHeap ==
  [o \in Used |->
     LET a == CHOOSE b \in DOMAIN mem : mem[b].id = o
     IN  [shape |-> mem[a].shape,
          refs |-> [f \in RefSlots[mem[a].shape] |-> IdOf(mem[a].refs[f])]]]

ProgramRoot == [l \in DOMAIN root |-> IdOf(root[l])]

Heap == INSTANCE JavaHeap WITH heap <- ProgramHeap, root <- ProgramRoot

(* The program cannot tell that objects move: seen through identities,     *)
(* every step of the collector leaves roots and objects as they are, until *)
(* the last one makes objects disappear that nothing refers to.            *)
SameHeap == Heap!Spec

(* Every reference in a root or in an object leads to an object in memory, *)
(* also half-way through a collection, when old and new copies coexist; no *)
(* object is in memory twice once the collection is over.                  *)
NoDanglingReference ==
  /\ \A l \in DOMAIN root : root[l] \in DOMAIN mem \cup {NULL}
  /\ \A a \in DOMAIN mem : \A f \in RefSlots[mem[a].shape] :
       mem[a].refs[f] \in DOMAIN mem \cup {NULL}
  /\ phase = "program" =>
       \A a, b \in DOMAIN mem : mem[a].id = mem[b].id => a = b

(* "Used inside the garbage collector when it is known that there is       *)
(* enough space available" (GarbageCollector.h:287): the space an object   *)
(* is placed or copied in lies within its region and is not shared.        *)
ObjectsFit ==
  /\ \A a \in DOMAIN mem : a[2] + Size[mem[a].shape] <= HalfSize
  /\ \A a, b \in DOMAIN mem :
       a[1] = b[1] /\ a[2] < b[2] => a[2] + Size[mem[a].shape] <= b[2]

(* What can be reached from the roots: the objects that belong to every    *)
(* set that has what the roots refer to and, with an object, what it does. *)
KeepsReachable(S) ==
  /\ \A l \in DOMAIN root : root[l] \in DOMAIN mem => root[l] \in S
  /\ \A a \in S : \A f \in RefSlots[mem[a].shape] :
       mem[a].refs[f] \in DOMAIN mem => mem[a].refs[f] \in S

Reachable ==
  {a \in DOMAIN mem : \A S \in SUBSET DOMAIN mem : KeepsReachable(S) => a \in S}

(* The collector keeps nothing else than the class comment says it does:   *)
(* "all GC roots ... and all objects reachable from GC roots"              *)
(* (GarbageCollector.h:236): what is left after a collection is reachable. *)
OnlyReachableSurvive ==
  [][phase = "scan" /\ phase' = "program" => DOMAIN mem' = Reachable']_vars

(* The VM runs out of memory only when the reachable objects leave no room *)
(* for the new one, or when the program itself has locked the collector.   *)
OutOfMemoryIsReal ==
  phase = "panicked" /\ request # NoRequest =>
    /\ DOMAIN mem = Reachable
    /\ ~Fits(request.shape)

(* A collection that has begun comes to its end, and the allocation that   *)
(* waits for it gets its memory or stops the VM.                           *)
CollectionEnds == phase \in {"roots", "scan"} ~> phase = "program"

AllocationIsAnswered ==
  request # NoRequest ~> request = NoRequest \/ phase = "panicked"
=============================================================================
