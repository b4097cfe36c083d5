---------------------------- MODULE MCVoiceLines ----------------------------
(* VoiceLines on a small instance. *)
EXTENDS VoiceLines, TLC

Symmetry == Permutations(Call)
=============================================================================
