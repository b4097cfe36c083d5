---- MODULE MCReconciler ----
(* Reconciler on a small instance. *)
EXTENDS Reconciler, TLC

Symmetry == Permutations(Request)
====
