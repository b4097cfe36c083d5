----------------------------- MODULE Admission -----------------------------
(***************************************************************************)
(* What the directory promises about membership: nobody becomes a member   *)
(* of a party but by an open invitation of that party, which is spent by   *)
(* it, and an invitation spent or withdrawn never opens again.             *)
(***************************************************************************)
EXTENDS Integers

VARIABLES
  offers,      \* how many invitations have been made
  open,        \* the open ones: [invitation, party]
  joined,      \* how many members there have been
  membership   \* those there are: [member, party]

admissionVars == <<offers, open, joined, membership>>

AdmissionInit == offers = 0 /\ open = {} /\ joined = 0 /\ membership = {}

Offer ==
  /\ offers' = offers + 1
  /\ \E o \in open' : o.invitation = offers' /\ open' = open \cup {o}
  /\ UNCHANGED <<joined, membership>>

Admit(o) ==
  /\ open' = open \ {o}
  /\ joined' = joined + 1
  /\ membership' = membership \cup {[member |-> joined', party |-> o.party]}
  /\ UNCHANGED offers

(* Invitations are withdrawn and members leave, some or all of a party.    *)
Withdraw ==
  /\ open' \subseteq open /\ membership' \subseteq membership
  /\ UNCHANGED <<offers, joined>>

AdmissionNext == Offer \/ (\E o \in open : Admit(o)) \/ Withdraw

AdmissionSpec == AdmissionInit /\ [][AdmissionNext]_admissionVars
=============================================================================
