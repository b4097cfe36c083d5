---------------------------- MODULE TablesProofs ----------------------------
(***************************************************************************)
(* Facts about Tables, and about counting events in a history.             *)
(***************************************************************************)
EXTENDS Tables, Sequences, TLAPS

LEMMA PutTable ==
  ASSUME NEW f, NEW Row, IsTable(f, Row), NEW k, NEW row \in Row
  PROVE  /\ IsTable(Put(f, k, row), Row)
         /\ DOMAIN Put(f, k, row) = DOMAIN f \cup {k}
BY DEF IsTable, Put

LEMMA PutIssued ==
  ASSUME NEW f, NEW k \in Nat \ {0}, NEW row, IssuedBelow(f, k)
  PROVE  IssuedBelow(Put(f, k, row), k + 1)
BY DEF IssuedBelow, Put

LEMMA WithoutTable ==
  ASSUME NEW f, NEW Row, IsTable(f, Row), NEW K
  PROVE  /\ IsTable(Without(f, K), Row)
         /\ DOMAIN Without(f, K) = DOMAIN f \ K
BY DEF IsTable, Without

LEMMA WithoutIssued ==
  ASSUME NEW f, NEW n, NEW K, IssuedBelow(f, n)
  PROVE  IssuedBelow(Without(f, K), n)
BY DEF IssuedBelow, Without

(* Counting one more event of a history.                                   *)
LEMMA Bump ==
  ASSUME NEW s \in Seq(Nat), NEW k
  PROVE  LET t == [s EXCEPT ![k] = @ + 1]
         IN  /\ t \in Seq(Nat) /\ DOMAIN t = DOMAIN s /\ Len(t) = Len(s)
             /\ \A j \in DOMAIN s : t[j] = IF j = k THEN s[j] + 1 ELSE s[j]
<1> DEFINE t == [s EXCEPT ![k] = @ + 1]
<1>1. s \in [1..Len(s) -> Nat] /\ DOMAIN s = 1..Len(s) /\ Len(s) \in Nat
  OBVIOUS
<1>2. t \in [1..Len(s) -> Nat] /\ \A j \in 1..Len(s) : t[j] = IF j = k THEN s[j] + 1 ELSE s[j]
  <2>1. CASE k \in 1..Len(s)
    BY <1>1, <2>1
  <2>2. CASE k \notin 1..Len(s)
    BY <1>1, <2>2
  <2> QED
    BY <2>1, <2>2
<1>3. t \in Seq(Nat) /\ Len(t) = Len(s)
  BY <1>1, <1>2
<1> QED
  BY <1>1, <1>2, <1>3
=============================================================================
