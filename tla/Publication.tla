---------------------------- MODULE Publication ----------------------------
(***************************************************************************)
(* What reconciliation promises about one kind of routing data: it moves   *)
(* from the database to the phone system in order of commitment, never     *)
(* back, and a change whose publication is acknowledged has arrived.       *)
(***************************************************************************)
EXTENDS Integers

VARIABLES
  committed,   \* changes made to the data so far
  published,   \* how many of them the phone system acts on
  acked        \* the changes acknowledged as published

pubVars == <<committed, published, acked>>

PubInit == committed = 0 /\ published = 0 /\ acked = {}

Commit == /\ committed' = committed + 1
          /\ UNCHANGED <<published, acked>>

(* The phone system catches up, by one step or several.                    *)
Publish == /\ published' \in published..committed
           /\ UNCHANGED <<committed, acked>>

Acknowledge == /\ \E v \in 0..published : acked' = acked \cup {v}
               /\ UNCHANGED <<committed, published>>

PubNext == Commit \/ Publish \/ Acknowledge

PubSpec == PubInit /\ [][PubNext]_pubVars
=============================================================================
