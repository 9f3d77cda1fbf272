----------------------------- MODULE ScopedRoots -----------------------------
(***************************************************************************)
(* The two kinds of reference the VM's C++ code holds to a pinned object   *)
(* (GarbageCollector.h), on top of the list of roots.                      *)
(*                                                                         *)
(* A ScopedGcRootRef owns its list node: it frees the node when it leaves  *)
(* its scope, gives the node away when it is moved from, and hands it out  *)
(* with release().  A GcRootRef only points to a node; whoever got one     *)
(* from release() owes the collector one release of that node.             *)
(*                                                                         *)
(* Not modelled: assigning a scoped reference to itself, which no caller   *)
(* does, and the list's destructor, which runs when the VM is gone.        *)
(***************************************************************************)
EXTENDS RootList

CONSTANTS
  Scope,               \* ScopedGcRootRef variables
  Raw,                 \* GcRootRef variables
  OutOfScope           \* a ScopedGcRootRef variable that does not exist now

ASSUME OutOfScopeAssumption == OutOfScope \notin Node \cup {NULL}

VARIABLES
  scoped,  \* the mReference of every scoped reference
  raw,     \* the mReference of every plain reference
  owed     \* history: nodes handed out by release() and not yet freed

refsVars == <<vars, scoped, raw, owed>>

InScope(h) == scoped[h] # OutOfScope
HeldBy(S) == {scoped[h] : h \in S} \cap Node

RefsTypeOK ==
  /\ TypeOK
  /\ scoped \in [Scope -> Node \cup {NULL, OutOfScope}]
  /\ raw \in [Raw -> Node \cup {NULL}]
  /\ owed \subseteq Node

RefsInit ==
  /\ Init
  /\ scoped = [h \in Scope |-> OutOfScope]
  /\ raw = [r \in Raw |-> NULL]
  /\ owed = {}

-----------------------------------------------------------------------------
(* GarbageCollector::release, also called by the scoped destructor: nothing *)
(* for a null reference, otherwise the node leaves the list. Releasing a   *)
(* freed node is undefined: the list is written through pointers read from *)
(* memory that holds something else by now, here any new head.             *)
ReleaseNode(n) ==
  \/ n = NULL /\ ~collecting /\ UNCHANGED vars
  \/ n \in Live /\ Release(n)
  \/ /\ n \in Node \ Live
     /\ ~collecting
     /\ mHead' \in Node \cup {NULL}
     /\ UNCHANGED <<node, mFromRegion, collecting, cursor>>

(* auto h = gc.pin(object); a null object gives a reference with no node.  *)
PinScoped(h, o) ==
  /\ ~InScope(h)
  /\ \E n \in Node :
       /\ Pin(n, o)
       /\ scoped' = [scoped EXCEPT ![h] = n]
  /\ UNCHANGED <<raw, owed>>

PinNull(h) ==
  /\ ~collecting
  /\ ~InScope(h)
  /\ scoped' = [scoped EXCEPT ![h] = NULL]
  /\ UNCHANGED <<vars, raw, owed>>

(* Mutant: the source of the move keeps its node. *)
MoveConstructAsCopy(h, g) ==
  /\ ~collecting
  /\ InScope(h) /\ ~InScope(g)
  /\ scoped' = [scoped EXCEPT ![g] = scoped[h]]
  /\ UNCHANGED <<vars, raw, owed>>

(* The move constructor takes the node and leaves null behind. *)
MoveConstruct(h, g) ==
  /\ ~collecting
  /\ InScope(h) /\ ~InScope(g)
  /\ scoped' = [scoped EXCEPT ![g] = scoped[h], ![h] = NULL]
  /\ UNCHANGED <<vars, raw, owed>>

(* Mutant: the node that is freed is the one that is being moved.          *)
MoveAssignFreesSource(h, g) ==
  /\ h # g /\ InScope(h) /\ InScope(g)
  /\ ReleaseNode(scoped[h])
  /\ scoped' = [scoped EXCEPT ![g] = scoped[h], ![h] = NULL]
  /\ UNCHANGED <<raw, owed>>

(* The move assignment first destroys the target, which frees its node.    *)
MoveAssign(h, g) ==
  /\ h # g /\ InScope(h) /\ InScope(g)
  /\ ReleaseNode(scoped[g])
  /\ scoped' = [scoped EXCEPT ![g] = scoped[h], ![h] = NULL]
  /\ UNCHANGED <<raw, owed>>

(* r = h.release(): the caller now owes the collector a release of r. *)
ReleaseScoped(h, r) ==
  /\ ~collecting
  /\ InScope(h)
  /\ raw' = [raw EXCEPT ![r] = scoped[h]]
  /\ scoped' = [scoped EXCEPT ![h] = NULL]
  /\ owed' = owed \cup ({scoped[h]} \cap Node)
  /\ UNCHANGED vars

(* A scoped reference leaves its scope. *)
Destroy(h) ==
  /\ InScope(h)
  /\ ReleaseNode(scoped[h])
  /\ scoped' = [scoped EXCEPT ![h] = OutOfScope]
  /\ UNCHANGED <<raw, owed>>

(* Mutant: the node may be released a second time. *)
ReleaseRawAgain(r) ==
  /\ raw[r] \in owed
  /\ ReleaseNode(raw[r])
  /\ UNCHANGED <<scoped, raw, owed>>

(* gc.release(r) by the one that owes it. The reference itself, and every  *)
(* copy of it, keep the pointer to the freed node.                         *)
ReleaseRaw(r) ==
  /\ raw[r] \in owed
  /\ ReleaseNode(raw[r])
  /\ owed' = owed \ {raw[r]}
  /\ UNCHANGED <<scoped, raw>>

CopyRaw(r, s) ==
  /\ ~collecting
  /\ raw' = [raw EXCEPT ![s] = raw[r]]
  /\ UNCHANGED <<vars, scoped, owed>>

(* A collection begins, and walks over the list. *)
Collect == BeginWalk /\ UNCHANGED <<scoped, raw, owed>>
Walk == (VisitNode \/ EndWalk) /\ UNCHANGED <<scoped, raw, owed>>

RefsNext ==
  \/ \E h \in Scope : \/ \E o \in Object : PinScoped(h, o)
                      \/ PinNull(h)
                      \/ \E g \in Scope : MoveConstruct(h, g) \/ MoveAssign(h, g)
                      \/ \E r \in Raw : ReleaseScoped(h, r)
                      \/ Destroy(h)
  \/ \E r \in Raw : ReleaseRaw(r) \/ \E s \in Raw : CopyRaw(r, s)
  \/ Collect
  \/ Walk

RefsSpec == RefsInit /\ [][RefsNext]_refsVars

(* The thread that runs a collection takes the next step of its loop. *)
RefsFairSpec == RefsSpec /\ WF_refsVars(Walk)

-----------------------------------------------------------------------------
(* Every pinned node has exactly one owner: the nodes of the list are the  *)
(* ones scoped references hold and the ones release() handed out, no two   *)
(* references own the same node, and a reference in scope never holds a    *)
(* freed one. So a node that stays in the list is one somebody still has   *)
(* to free, none is freed twice, and going through a scoped reference is   *)
(* always a valid access.                                                  *)
OneOwner ==
  /\ Live = HeldBy(Scope) \cup owed
  /\ HeldBy(Scope) \cap owed = {}
  /\ \A h, g \in Scope : h # g /\ scoped[h] \in Node => scoped[g] # scoped[h]

(* Moving references around never changes the object they denote: while a  *)
(* scoped reference stays on a node, or gives it to another one, the object *)
(* behind the node is the same.                                            *)
MovesKeepTheObject ==
  [][\A h, g \in Scope :
       scoped[h] \in Node /\ scoped'[g] = scoped[h]
         => /\ scoped[h] \in DOMAIN node'
            /\ node'[scoped[h]].object = node[scoped[h]].object]_refsVars

(* The references use the list within its contract: a node is removed only *)
(* while it is allocated, and never while a collection walks the list.     *)
UsesTheList == Spec
=============================================================================
