---------------------------- MODULE MCScopedRoots ----------------------------
(* Model-checking instance of RootList and ScopedRoots. *)
EXTENDS ScopedRoots

=============================================================================
