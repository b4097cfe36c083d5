------------------------------- MODULE MCSignIn -------------------------------
(* SignIn on a small instance. *)
EXTENDS SignIn, TLC

Symmetry == Permutations(Request) \cup Permutations(Slip)
=============================================================================
