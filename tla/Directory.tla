----------------------------- MODULE Directory -----------------------------
(***************************************************************************)
(* The party directory of internal/store: parties, invitations, members,   *)
(* devices, one-use setup links, readiness checks and push registrations.  *)
(* SQLite is opened with a single connection, and every operation is one   *)
(* statement or one transaction, so each is one action here.               *)
(*                                                                         *)
(* Identifiers, secrets and link tokens are long random values that never  *)
(* repeat: they are numbered in order of issue.  SIP usernames are short   *)
(* (six digits) and do repeat, so they come from a small set.  A web       *)
(* credential is always issued together with its setup link, so the        *)
(* secret's number also names the link's token.                            *)
(*                                                                         *)
(* The clock counts half seconds; the database stores whole seconds.       *)
(***************************************************************************)
EXTENDS Integers, FiniteSets, Sequences, Tables

CONSTANTS
  User,                 \* host accounts
  Extension,            \* what a claimant or caller may ask for as a number
  ValidExtension,       \* those extension.Valid accepts
  Username,             \* the SIP usernames the generator may draw
  PushToken,            \* APNs tokens of the phones' apps
  Check,                \* the readiness checks a host may tick
  MaxDevicesPerMember,  \* store.MaxDevicesPerMember
  InviteTTL, SetupTTL,  \* lifetimes of an invitation and of a setup link
  MaxHandlerDelay,      \* how long after reading the clock a handler commits
  MaxParties, MaxMembers, MaxDevices, MaxInvitations, MaxSecrets, MaxTime

ASSUME DirectoryAssumption ==
  /\ ValidExtension \subseteq Extension
  /\ MaxDevicesPerMember \in Nat \ {0}
  /\ InviteTTL \in Nat \ {0} /\ SetupTTL \in Nat \ {0}
  /\ MaxHandlerDelay \in Nat

VARIABLES
  now,          \* wall clock, in half seconds
  parties,      \* party -> its host_user_id
  invitations,  \* invitation -> [party, expires, used]
  members,      \* member -> [party, ext]
  devices,      \* device -> [member, username, secret, revoked]
  setupLinks,   \* device -> [secret, expires, used]
  readiness,    \* device -> (confirmed check -> secret when first confirmed)
  pushTokens,   \* device -> its registered push token
  nextParty, nextMember, nextDevice,  \* identifiers not issued yet
  admitted,     \* history: members each invitation has admitted
  fetched       \* history: times each secret left through a setup link

vars == <<now, parties, invitations, members, devices, setupLinks,
          readiness, pushTokens, nextParty, nextMember, nextDevice,
          admitted, fetched>>

counters == <<nextParty, nextMember, nextDevice>>

----------------------------------------------------------------------------
(* Times and rows.                                                         *)

(* unix() and fromUnix(): the database keeps whole seconds.                *)
Unix(t) == t \div 2
FromUnix(s) == 2 * s

InvitationRow == [party : Nat, expires : Nat, used : BOOLEAN]
MemberRow == [party : Nat, ext : ValidExtension]
DeviceRow == [member : Nat, username : Username, secret : Nat,
              revoked : BOOLEAN]
LinkRow == [secret : Nat, expires : Nat, used : BOOLEAN]
Checklist == UNION {[C -> Nat] : C \in SUBSET Check}

NextInvitation == Len(admitted) + 1
NextSecret == Len(fetched) + 1

MembersOf(p) == {m \in DOMAIN members : members[m].party = p}
DevicesOf(M) == {d \in DOMAIN devices : devices[d].member \in M}
InvitationsOf(p) == {i \in DOMAIN invitations : invitations[i].party = p}

(* extension.Valid, which every assignment of a number goes through; an    *)
(* extension of any shape would be a bug.                                  *)
AnyExtension(x) == x \in Extension

Valid(x) == x \in ValidExtension

ExtensionTaken(p, x) == \E m \in MembersOf(p) : members[m].ext = x

(* The unique index on SIP usernames covers revoked phones too; one of the *)
(* phones in service only would be a bug.                                  *)
UsernameInService(un, D) ==
  \E d \in D : devices[d].username = un /\ ~devices[d].revoked

UsernameTaken(un, D) == \E d \in D : devices[d].username = un

Hosts(u, p) == p \in DOMAIN parties /\ parties[p] = u

HostedMember(u, m) == m \in DOMAIN members /\ Hosts(u, members[m].party)

(* deviceForHostTx: the party, member and device must belong together.     *)
HostedDevice(u, d) == d \in DOMAIN devices /\ HostedMember(u, devices[d].member)

(* A handler reads the clock before it waits for the database connection.  *)
HandlerTimes == {at \in 0..now : now - at <= MaxHandlerDelay}

(* What CancelActiveInvitationsForHost and the count shown to the host call *)
(* active, and what ClaimInvitation accepts.                                *)
ActiveBeforeExpiry(i, at) ==
  ~invitations[i].used /\ invitations[i].expires > Unix(at)

Active(i, at) == ~invitations[i].used /\ invitations[i].expires >= Unix(at)

ClaimableUntilExpiry(i, at) == ~(FromUnix(invitations[i].expires) < at)

Claimable(i, at) ==
  ~invitations[i].used /\ ~(FromUnix(invitations[i].expires) < at)

----------------------------------------------------------------------------
Init ==
  /\ now = 0
  /\ parties = <<>> /\ invitations = <<>> /\ members = <<>>
  /\ devices = <<>> /\ setupLinks = <<>> /\ readiness = <<>>
  /\ pushTokens = <<>>
  /\ nextParty = 1 /\ nextMember = 1 /\ nextDevice = 1
  /\ admitted = <<>> /\ fetched = <<>>

Tick ==
  /\ now < MaxTime
  /\ now' = now + 1
  /\ UNCHANGED <<parties, invitations, members, devices, setupLinks,
                 readiness, pushTokens, counters, admitted, fetched>>

CreateParty(u) ==
  /\ nextParty <= MaxParties
  /\ parties' = Put(parties, nextParty, u)
  /\ nextParty' = nextParty + 1
  /\ UNCHANGED <<now, invitations, members, devices, setupLinks, readiness,
                 pushTokens, nextMember, nextDevice, admitted, fetched>>

(* The handler asks for the host's party; the foreign key covers a party   *)
(* deleted between that read and the insert.                               *)
CreateInvitation(u, p, at) ==
  /\ Hosts(u, p)
  /\ NextInvitation <= MaxInvitations
  /\ invitations' = Put(invitations, NextInvitation,
                        [party |-> p, expires |-> Unix(at + InviteTTL),
                         used |-> FALSE])
  /\ admitted' = Append(admitted, 0)
  /\ UNCHANGED <<now, parties, members, devices, setupLinks, readiness,
                 pushTokens, counters, fetched>>

(* Canceling the host's links to every party would be a bug.               *)
CancelForHost(u, p, at) ==
  /\ Hosts(u, p)
  /\ invitations' = Without(invitations, {i \in DOMAIN invitations :
                       Hosts(u, invitations[i].party) /\ Active(i, at)})
  /\ UNCHANGED <<now, parties, members, devices, setupLinks, readiness,
                 pushTokens, counters, admitted, fetched>>

CancelActiveInvitationsForHost(u, p, at) ==
  /\ Hosts(u, p)
  /\ invitations' = Without(invitations, {i \in InvitationsOf(p) : Active(i, at)})
  /\ UNCHANGED <<now, parties, members, devices, setupLinks, readiness,
                 pushTokens, counters, admitted, fetched>>

(* replaceProvisioningTokenTx for the secret being issued at time at; the  *)
(* insert alone, ignored when the phone has a link, would be a bug.        *)
InsertProvisioningToken(d, at) ==
  setupLinks' = IF d \in DOMAIN setupLinks THEN setupLinks
                ELSE Put(setupLinks, d, [secret |-> NextSecret,
                                         expires |-> Unix(at + SetupTTL),
                                         used |-> FALSE])

ReplaceProvisioningToken(d, at) ==
  setupLinks' = Put(setupLinks, d, [secret |-> NextSecret,
                                    expires |-> Unix(at + SetupTTL),
                                    used |-> FALSE])

(* One claim, by the web form (which also gets a setup link) or by the     *)
(* phone app (which gets its credential in the answer).                    *)
ClaimInvitation(i, x, un, at, web) ==
  /\ Valid(x)
  /\ i \in DOMAIN invitations
  /\ Claimable(i, at)
  /\ ~ExtensionTaken(invitations[i].party, x)
  /\ ~UsernameTaken(un, DOMAIN devices)
  /\ nextMember <= MaxMembers /\ nextDevice <= MaxDevices
  /\ NextSecret <= MaxSecrets
  /\ members' = Put(members, nextMember,
                    [party |-> invitations[i].party, ext |-> x])
  /\ devices' = Put(devices, nextDevice,
                    [member |-> nextMember, username |-> un,
                     secret |-> NextSecret, revoked |-> FALSE])
  /\ IF web THEN ReplaceProvisioningToken(nextDevice, at)
            ELSE UNCHANGED setupLinks
  /\ invitations' = [invitations EXCEPT ![i].used = TRUE]
  /\ admitted' = [admitted EXCEPT ![i] = @ + 1]
  /\ fetched' = Append(fetched, 0)
  /\ nextMember' = nextMember + 1 /\ nextDevice' = nextDevice + 1
  /\ UNCHANGED <<now, parties, readiness, pushTokens, nextParty>>

(* Revoked phones count; leaving them out would be a bug.                  *)
LimitReachedInService(m) ==
  Cardinality({d \in DevicesOf({m}) : ~devices[d].revoked}) >= MaxDevicesPerMember

LimitReached(m) == Cardinality(DevicesOf({m})) >= MaxDevicesPerMember

AddDeviceForHost(u, m, un, at) ==
  /\ HostedMember(u, m)
  /\ ~LimitReached(m)
  /\ ~UsernameTaken(un, DOMAIN devices)
  /\ nextDevice <= MaxDevices /\ NextSecret <= MaxSecrets
  /\ devices' = Put(devices, nextDevice,
                    [member |-> m, username |-> un,
                     secret |-> NextSecret, revoked |-> FALSE])
  /\ ReplaceProvisioningToken(nextDevice, at)
  /\ fetched' = Append(fetched, 0)
  /\ nextDevice' = nextDevice + 1
  /\ UNCHANGED <<now, parties, invitations, members, readiness, pushTokens,
                 nextParty, nextMember, admitted>>

(* What was confirmed and registered under the old credential goes with    *)
(* it; keeping the confirmations would be a bug.                           *)
ForgetPushToken(d) ==
  /\ pushTokens' = Without(pushTokens, {d})
  /\ UNCHANGED readiness

ForgetCredential(d) ==
  /\ readiness' = Without(readiness, {d})
  /\ pushTokens' = Without(pushTokens, {d})

(* A new identity and secret; a revoked device comes back into service,    *)
(* which with its old identity and secret would be a bug.                  *)
RestoreDevice(u, d, un, at) ==
  /\ HostedDevice(u, d)
  /\ devices[d].revoked
  /\ devices' = [devices EXCEPT ![d].revoked = FALSE]
  /\ UNCHANGED <<now, parties, invitations, members, setupLinks, readiness,
                 pushTokens, counters, admitted, fetched>>

RotateDevice(u, d, un, at) ==
  /\ HostedDevice(u, d)
  /\ ~UsernameTaken(un, DOMAIN devices \ {d})
  /\ NextSecret <= MaxSecrets
  /\ devices' = [devices EXCEPT ![d] = [member |-> @.member, username |-> un,
                                        secret |-> NextSecret,
                                        revoked |-> FALSE]]
  /\ ForgetCredential(d)
  /\ ReplaceProvisioningToken(d, at)
  /\ fetched' = Append(fetched, 0)
  /\ UNCHANGED <<now, parties, invitations, members, counters, admitted>>

RevokeDevice(u, d) ==
  /\ HostedDevice(u, d)
  /\ devices' = [devices EXCEPT ![d].revoked = TRUE]
  /\ setupLinks' = Without(setupLinks, {d})
  /\ pushTokens' = Without(pushTokens, {d})
  /\ UNCHANGED <<now, parties, invitations, members, readiness, counters,
                 admitted, fetched>>

(* The first fetch of link k discloses the secret its device has now.      *)
ConsumeProvisioningToken(k, at) ==
  \E d \in DOMAIN setupLinks :
    /\ setupLinks[d].secret = k
    /\ ~setupLinks[d].used
    /\ ~devices[d].revoked
    /\ FromUnix(setupLinks[d].expires) > at
    /\ setupLinks' = [setupLinks EXCEPT ![d].used = TRUE]
    /\ fetched' = [fetched EXCEPT ![devices[d].secret] = @ + 1]
    /\ UNCHANGED <<now, parties, invitations, members, devices, readiness,
                   pushTokens, counters, admitted>>

(* Ticking a check keeps its first confirmation; clearing all of them      *)
(* deletes the row.                                                        *)
UpdateDeviceReadiness(u, d, ticked) ==
  LET old == IF d \in DOMAIN readiness THEN readiness[d] ELSE <<>>
      row == [c \in ticked |-> IF c \in DOMAIN old THEN old[c]
                                                   ELSE devices[d].secret]
  IN /\ HostedDevice(u, d)
     /\ ~devices[d].revoked
     /\ readiness' = IF ticked = {} THEN Without(readiness, {d})
                                    ELSE Put(readiness, d, row)
     /\ UNCHANGED <<now, parties, invitations, members, devices, setupLinks,
                    pushTokens, counters, admitted, fetched>>

(* The extension chooser *15: the phone that called is an active device of *)
(* the party, found by its SIP username.                                   *)
ChangeMemberExtensionByDevice(p, un, x) ==
  /\ Valid(x)
  /\ \E d \in DOMAIN devices :
       LET m == devices[d].member
       IN /\ devices[d].username = un /\ ~devices[d].revoked
          /\ m \in MembersOf(p)
          /\ ~\E other \in MembersOf(p) \ {m} : members[other].ext = x
          /\ members' = [members EXCEPT ![m].ext = x]
  /\ UNCHANGED <<now, parties, invitations, devices, setupLinks, readiness,
                 pushTokens, counters, admitted, fetched>>

(* An upsert by device; a token another phone registered is refused.       *)
(* Accepting it from a phone that is no longer in service would be a bug.  *)
SaveForAnyDevice(d, t) ==
  /\ d \in DOMAIN devices
  /\ \A e \in DOMAIN pushTokens \ {d} : pushTokens[e] # t
  /\ pushTokens' = Put(pushTokens, d, t)
  /\ UNCHANGED <<now, parties, invitations, members, devices, setupLinks,
                 readiness, counters, admitted, fetched>>

SavePhonePushRegistration(d, t) ==
  /\ d \in DOMAIN devices /\ ~devices[d].revoked
  /\ \A e \in DOMAIN pushTokens \ {d} : pushTokens[e] # t
  /\ pushTokens' = Put(pushTokens, d, t)
  /\ UNCHANGED <<now, parties, invitations, members, devices, setupLinks,
                 readiness, counters, admitted, fetched>>

DeletePhonePushRegistration(d) ==
  /\ pushTokens' = Without(pushTokens, {d})
  /\ UNCHANGED <<now, parties, invitations, members, devices, setupLinks,
                 readiness, counters, admitted, fetched>>

(* APNs answered that the token is no longer registered.                   *)
DeletePhonePushRegistrationByHash(t) ==
  /\ pushTokens' = Without(pushTokens, {d \in DOMAIN pushTokens :
                                          pushTokens[d] = t})
  /\ UNCHANGED <<now, parties, invitations, members, devices, setupLinks,
                 readiness, counters, admitted, fetched>>

(* Deletion goes through the tables from the leaves to the root; leaving   *)
(* the setup links behind, as without foreign keys, would be a bug.        *)
DropDevicesOnly(D) ==
  /\ pushTokens' = Without(pushTokens, D)
  /\ readiness' = Without(readiness, D)
  /\ devices' = Without(devices, D)
  /\ UNCHANGED setupLinks

DropDevices(D) ==
  /\ pushTokens' = Without(pushTokens, D)
  /\ readiness' = Without(readiness, D)
  /\ setupLinks' = Without(setupLinks, D)
  /\ devices' = Without(devices, D)

DeleteMember(u, m) ==
  /\ HostedMember(u, m)
  /\ DropDevices(DevicesOf({m}))
  /\ members' = Without(members, {m})
  /\ UNCHANGED <<now, parties, invitations, counters, admitted, fetched>>

DeleteParty(u, p) ==
  /\ Hosts(u, p)
  /\ DropDevices(DevicesOf(MembersOf(p)))
  /\ members' = Without(members, MembersOf(p))
  /\ invitations' = Without(invitations, InvitationsOf(p))
  /\ parties' = Without(parties, {p})
  /\ UNCHANGED <<now, counters, admitted, fetched>>

----------------------------------------------------------------------------
(* The host's forms on a party, and on its members and their phones.  The  *)
(* latter also choose a username: the generator's next draw.               *)
PartyForms(u) ==
  \/ CreateParty(u)
  \/ \E p \in DOMAIN parties :
       \/ DeleteParty(u, p)
       \/ \E at \in HandlerTimes :
            \/ CreateInvitation(u, p, at)
            \/ CancelActiveInvitationsForHost(u, p, at)

PhoneForms(u) ==
  \/ \E m \in DOMAIN members :
       \/ DeleteMember(u, m)
       \/ \E un \in Username, at \in HandlerTimes : AddDeviceForHost(u, m, un, at)
  \/ \E d \in DOMAIN devices :
       \/ RevokeDevice(u, d)
       \/ \E un \in Username, at \in HandlerTimes : RotateDevice(u, d, un, at)
       \/ \E ticked \in SUBSET Check : UpdateDeviceReadiness(u, d, ticked)

HostStep(u) == PartyForms(u) \/ PhoneForms(u)

JoinStep ==
  \E i \in DOMAIN invitations, x \in Extension, un \in Username,
     at \in HandlerTimes, web \in BOOLEAN : ClaimInvitation(i, x, un, at, web)

(* A phone or its app: the setup link, the *15 call, the push token, which *)
(* the app registers and withdraws and APNs reports dead.                  *)
SetupStep ==
  \E k \in DOMAIN fetched, at \in HandlerTimes : ConsumeProvisioningToken(k, at)

PushStep ==
  \/ \E d \in DOMAIN devices :
       \/ DeletePhonePushRegistration(d)
       \/ \E t \in PushToken : SavePhonePushRegistration(d, t)
  \/ \E t \in PushToken : DeletePhonePushRegistrationByHash(t)

PhoneStep ==
  \/ SetupStep \/ PushStep
  \/ \E p \in DOMAIN parties, un \in Username, x \in Extension :
       ChangeMemberExtensionByDevice(p, un, x)

Next == Tick \/ (\E u \in User : HostStep(u)) \/ JoinStep \/ PhoneStep

Spec == Init /\ [][Next]_vars

----------------------------------------------------------------------------
(* Properties.                                                             *)

(* Every table has rows of its schema, under keys already issued.          *)
TypeOK ==
  /\ now \in Nat
  /\ {nextParty, nextMember, nextDevice} \subseteq Nat \ {0}
  /\ admitted \in Seq(Nat) /\ fetched \in Seq(Nat)
  /\ IsTable(parties, User) /\ IssuedBelow(parties, nextParty)
  /\ IsTable(invitations, InvitationRow)
  /\ IssuedBelow(invitations, NextInvitation)
  /\ IsTable(members, MemberRow) /\ IssuedBelow(members, nextMember)
  /\ IsTable(devices, DeviceRow) /\ IssuedBelow(devices, nextDevice)
  /\ \A d \in DOMAIN devices : devices[d].secret \in DOMAIN fetched
  /\ IsTable(setupLinks, LinkRow)
  /\ IsTable(pushTokens, PushToken)
  /\ IsTable(readiness, Checklist)

(* No row outlives the row it refers to: deleting a member or a party      *)
(* leaves no invitation, phone, setup link, readiness row or push token    *)
(* behind, whatever was created concurrently.  (The foreign keys that      *)
(* startup's repairOrphanedRows has to restore when they were not on.)     *)
ReferencesResolve ==
  /\ \A i \in DOMAIN invitations : invitations[i].party \in DOMAIN parties
  /\ \A m \in DOMAIN members : members[m].party \in DOMAIN parties
  /\ \A d \in DOMAIN devices : devices[d].member \in DOMAIN members
  /\ DOMAIN setupLinks \subseteq DOMAIN devices
  /\ DOMAIN readiness \subseteq DOMAIN devices
  /\ DOMAIN pushTokens \subseteq DOMAIN devices

(* A number dialled in a party, a SIP username and a push token each lead  *)
(* to at most one member or phone, through claims, the *15 chooser,        *)
(* rotations that draw a username again and tokens that move.              *)
NamesAreUnambiguous ==
  /\ \A m, n \in DOMAIN members :
       members[m].party = members[n].party /\ members[m].ext = members[n].ext
         => m = n
  /\ \A d, e \in DOMAIN devices :
       devices[d].username = devices[e].username => d = e
  /\ \A d, e \in DOMAIN pushTokens : pushTokens[d] = pushTokens[e] => d = e

(* A revoked phone keeps neither a setup link nor a push token, and        *)
(* nothing but a rotation gives it one again.                              *)
RevokedPhoneHoldsNothing ==
  \A d \in DOMAIN devices :
    devices[d].revoked => d \notin DOMAIN setupLinks \cup DOMAIN pushTokens

(* An invitation admits one member at most, for as long as it exists and   *)
(* whatever becomes of that member.                                        *)
InvitationAdmitsOnce == \A i \in DOMAIN admitted : admitted[i] <= 1

(* A setup link opens the secret it was made for, never a later one of the *)
(* same phone, and hands it out at most once.                              *)
SetupLinkOpensOnce ==
  /\ \A d \in DOMAIN setupLinks : setupLinks[d].secret = devices[d].secret
  /\ \A k \in DOMAIN fetched : fetched[k] <= 1

(* A readiness check still shown was confirmed under the phone's present   *)
(* credential: rotation resets the checklist, revocation freezes it.       *)
ReadinessIsOfThisCredential ==
  \A d \in DOMAIN readiness :
    \A c \in DOMAIN readiness[d] : readiness[d][c] = devices[d].secret

(* No member has more saved phones than the limit, revoked ones included.  *)
DeviceLimitHolds ==
  \A m \in DOMAIN members :
    Cardinality(DevicesOf({m})) <= MaxDevicesPerMember

(* Once the host cancels a party's links, none that stays in the table can *)
(* be claimed by a request that starts from then on, although the          *)
(* cancellation compares whole seconds and the claim compares the exact    *)
(* time.                                                                   *)
CancelLeavesNoLiveLink ==
  [][\A p \in DOMAIN parties \cap DOMAIN parties' :
       InvitationsOf(p) # InvitationsOf(p)' /\ InvitationsOf(p)' \subseteq InvitationsOf(p)
         => \A i \in InvitationsOf(p)' : ~Claimable(i, now)']_vars

(* Parties never share anything: a step changes the rows of one party at   *)
(* most, though devices are found by username, push tokens by hash, and    *)
(* invitations and members by identifiers of all parties.                  *)
Only(f, K) == [k \in DOMAIN f \cap K |-> f[k]]

PartyRows(p) ==
  LET D == DevicesOf(MembersOf(p))
  IN <<Only(parties, {p}), Only(invitations, InvitationsOf(p)),
       Only(members, MembersOf(p)), Only(devices, D), Only(setupLinks, D),
       Only(readiness, D), Only(pushTokens, D)>>

OnePartyAtATime ==
  [][\A p, q \in DOMAIN parties \cup DOMAIN parties' :
       p < q => PartyRows(p)' = PartyRows(p) \/ PartyRows(q)' = PartyRows(q)]_vars

(* The credentials in service, and those a link still hands out.           *)
InService == {d \in DOMAIN devices : ~devices[d].revoked}
LiveSecrets == {devices[d].secret : d \in InService}
Unspent == {d \in DOMAIN setupLinks : ~setupLinks[d].used}
OfferedSecrets == {setupLinks[d].secret : d \in Unspent}
DisclosedSecrets == {k \in DOMAIN fetched : fetched[k] > 0}

Life == INSTANCE CredentialLife
  WITH issued <- Len(fetched), live <- LiveSecrets,
       offered <- OfferedSecrets, disclosed <- DisclosedSecrets

(* The life of the phones' credentials is CredentialLife's, through every  *)
(* rotation, revocation, restoration and deletion: a link hands one out    *)
(* once at most, and what is retired stays so.                             *)
CredentialsLive == Life!LifeSpec

(* The invitations not yet claimed, and who belongs to which party.        *)
Offer(i) == [invitation |-> i, party |-> invitations[i].party]
OpenInvitations == {i \in DOMAIN invitations : ~invitations[i].used}
OpenOffers == {Offer(i) : i \in OpenInvitations}
Membership(m) == [member |-> m, party |-> members[m].party]
Memberships == {Membership(m) : m \in DOMAIN members}

Joining == INSTANCE Admission
  WITH offers <- Len(admitted), open <- OpenOffers,
       joined <- nextMember - 1, membership <- Memberships

(* Membership is Admission's: by one open invitation of the party each, in *)
(* whatever order links are made, canceled and claimed and members and     *)
(* parties deleted.                                                        *)
MembersAreInvited == Joining!AdmissionSpec
=============================================================================
