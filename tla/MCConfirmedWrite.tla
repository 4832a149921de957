-------------------------- MODULE MCConfirmedWrite --------------------------
(* Small instances of ConfirmedWrite for TLC. *)
EXTENDS ConfirmedWrite

AllKinds == GitHubKinds \cup LinearKinds
=============================================================================
