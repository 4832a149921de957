---------------------------- MODULE MCActivation ----------------------------
(* Small instances of Activation for TLC. *)
EXTENDS Activation

BothSettings == {"voice", "other"}
=============================================================================
