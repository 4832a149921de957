----------------------------- MODULE MCVoiceTurn -----------------------------
(***************************************************************************)
(* Instances of VoiceTurn for TLC.                                         *)
(***************************************************************************)
EXTENDS VoiceTurn, TLC

CONSTANTS v1, v2, d1

OneVoice == {v1}
TwoVoices == {v1, v2}
OneDictated == {d1}
NoDictated == {}
VoicePermutations == Permutations(Voice)
=============================================================================
