------------------------------- MODULE Tables -------------------------------
(***************************************************************************)
(* Tables of the database: functions from the live primary keys to rows.   *)
(***************************************************************************)
EXTENDS Integers

IsTable(f, Row) == f \in [DOMAIN f -> Row]

(* Keys that are issued in order and never again.                          *)
IssuedBelow(f, n) == \A k \in DOMAIN f : k \in Nat /\ 0 < k /\ k < n

Put(f, k, row) == [x \in DOMAIN f \cup {k} |-> IF x = k THEN row ELSE f[x]]

Without(f, K) == [x \in DOMAIN f \ K |-> f[x]]
=============================================================================
