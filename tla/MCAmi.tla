------------------------------- MODULE MCAmi -------------------------------
(* Two phones, one with two registrations, a channel each; two rooms.       *)
EXTENDS Ami, TLC

CONSTANTS e1, e2, k1, k2, c1, c2, r1, r2

MCOwner == k1 :> e1 @@ k2 :> e1 @@ c1 :> e1 @@ c2 :> e2

Symmetry == Permutations(Room) \cup Permutations({k1, k2})
=============================================================================
