--------------------------- MODULE CredentialLife ---------------------------
(***************************************************************************)
(* What the directory promises about phone credentials, numbered in order  *)
(* of issue: each is issued once, to one phone; a setup link hands it out  *)
(* once at most and only while its phone uses it; and one that is retired, *)
(* by a rotation, a revocation or a deletion, never comes back.            *)
(***************************************************************************)
EXTENDS Integers

VARIABLES
  issued,      \* how many credentials have been issued
  live,        \* those of the phones in service
  offered,     \* those a setup link will still hand out
  disclosed    \* those a setup link has handed out

lifeVars == <<issued, live, offered, disclosed>>

LifeInit == issued = 0 /\ live = {} /\ offered = {} /\ disclosed = {}

(* A new credential, for a new phone or in place of that phone's old one.  *)
Issue(old, link) ==
  /\ issued' = issued + 1
  /\ live' = (live \ old) \cup {issued'}
  /\ offered' = (offered \ old) \cup link
  /\ UNCHANGED disclosed

Disclose(k) ==
  /\ offered' = offered \ {k}
  /\ disclosed' = disclosed \cup {k}
  /\ UNCHANGED <<issued, live>>

Retire(K) ==
  /\ live' = live \ K
  /\ offered' = offered \ K
  /\ UNCHANGED <<issued, disclosed>>

LifeNext ==
  \/ \E old \in {{}} \cup {{k} : k \in live}, link \in {{}, {issued'}} :
       Issue(old, link)
  \/ \E k \in offered : Disclose(k)
  \/ \E K \in SUBSET live : Retire(K)

LifeSpec == LifeInit /\ [][LifeNext]_lifeVars
=============================================================================
