---------------------------- MODULE MCCopyingGc ----------------------------
(***************************************************************************)
(* Model-checking instance of CopyingGc: two layouts, one of which does    *)
(* not fill its last unit of alignment, in regions that hold three objects *)
(* of the smaller one; one root of each kind.                              *)
(***************************************************************************)
EXTENDS CopyingGc, TLC

CONSTANTS box, pair, f, g

MCRefSlots == box :> {f} @@ pair :> {f, g}
MCSize == box :> 1 @@ pair :> 4

Symmetry == Permutations(Object)
=============================================================================
