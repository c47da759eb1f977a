------------------------ MODULE MCNamespaceDeletion -------------------------
(* Instances of module NamespaceDeletion for TLC. *)
EXTENDS NamespaceDeletion

\* The claim of the data volume and the resources of an operator that is gone.
StuckKinds == {"pvc", "custom"}
=============================================================================
