---- MODULE MCPartyOpenAI ----
(* PartyOpenAI on a small instance. *)
EXTENDS PartyOpenAI, TLC

Symmetry == Permutations(Request)
====
