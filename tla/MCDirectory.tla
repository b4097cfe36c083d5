---- MODULE MCDirectory ----
(* Directory on a small instance. *)
EXTENDS Directory, TLC

Symmetry == Permutations(User) \cup Permutations(ValidExtension)
            \cup Permutations(Username) \cup Permutations(PushToken)
====
