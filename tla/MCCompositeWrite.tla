-------------------------- MODULE MCCompositeWrite --------------------------
(* Small instances of CompositeWrite for TLC. *)
EXTENDS CompositeWrite

AllKinds == Splits \cup Merges
=============================================================================
