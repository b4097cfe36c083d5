-------------------------- MODULE DirectoryProofs --------------------------
(***************************************************************************)
(* Proofs about Directory, for any number of hosts, parties, phones and    *)
(* links.                                                                  *)
(***************************************************************************)
EXTENDS Directory, TablesProofs, FiniteSetTheorems, TLAPS

----------------------------------------------------------------------------
LEMMA HandlerTime ==
  ASSUME TypeOK
  PROVE  \A at \in HandlerTimes : at \in Nat /\ at <= now
BY DEF TypeOK, HandlerTimes

LEMMA UnixNat ==
  /\ \A t \in Nat : Unix(t) \in Nat
  /\ \A t \in Nat : Unix(t + InviteTTL) \in Nat /\ Unix(t + SetupTTL) \in Nat
BY DirectoryAssumption DEF Unix, DirectoryAssumption

----------------------------------------------------------------------------
(* What the shared parts of the operations do to the tables.               *)

LEMMA DropTypes ==
  ASSUME TypeOK, NEW D, DropDevices(D)
  PROVE  /\ IsTable(pushTokens', PushToken) /\ IsTable(readiness', Checklist)
         /\ IsTable(setupLinks', LinkRow) /\ IsTable(devices', DeviceRow)
         /\ IssuedBelow(devices', nextDevice)
         /\ \A d \in DOMAIN devices' : devices'[d].secret \in DOMAIN fetched
<1>1. \A d \in DOMAIN devices' : d \in DOMAIN devices /\ devices'[d] = devices[d]
  BY DEF DropDevices, Without
<1> QED
  BY <1>1, WithoutTable, WithoutIssued DEF DropDevices, TypeOK

LEMMA LinkTypes ==
  ASSUME TypeOK, NEW d, NEW at \in Nat, ReplaceProvisioningToken(d, at)
  PROVE  IsTable(setupLinks', LinkRow)
<1>1. [secret |-> NextSecret, expires |-> Unix(at + SetupTTL), used |-> FALSE]
        \in LinkRow
  BY UnixNat DEF TypeOK, LinkRow, NextSecret
<1> QED
  BY <1>1, PutTable DEF ReplaceProvisioningToken, TypeOK

LEMMA IssuedSecret ==
  ASSUME TypeOK, NEW d, NEW row, row.secret = NextSecret,
         devices' = Put(devices, d, row), fetched' = Append(fetched, 0)
  PROVE  /\ fetched' \in Seq(Nat)
         /\ \A e \in DOMAIN devices' : devices'[e].secret \in DOMAIN fetched'
<1>1. fetched' \in Seq(Nat) /\ DOMAIN fetched' = DOMAIN fetched \cup {NextSecret}
  BY DEF TypeOK, NextSecret
<1> QED
  BY <1>1 DEF TypeOK, Put

(* A new secret belongs to no phone or link yet and nobody has fetched it. *)
LEMMA NewSecret ==
  ASSUME TypeOK, ReferencesResolve, fetched' = Append(fetched, 0)
  PROVE  /\ NextSecret \notin DOMAIN fetched
         /\ \A d \in DOMAIN devices : devices[d].secret # NextSecret
         /\ DOMAIN fetched' = DOMAIN fetched \cup {NextSecret}
         /\ fetched'[NextSecret] = 0
         /\ \A k \in DOMAIN fetched : fetched'[k] = fetched[k]
         /\ nextDevice \notin DOMAIN devices
BY DEF TypeOK, NextSecret, IssuedBelow

----------------------------------------------------------------------------
(* Type correctness, one step per operation.                               *)

LEMMA TypeInit == Init => TypeOK
BY DEF Init, TypeOK, IsTable, IssuedBelow, NextInvitation

LEMMA TypeNext == TypeOK /\ [Next]_vars => TypeOK'
<1> SUFFICES ASSUME TypeOK, [Next]_vars PROVE TypeOK'
  OBVIOUS
<1> USE DEF counters
<1>1. CASE Tick
  BY <1>1 DEF TypeOK, Tick, NextInvitation
<1>2. ASSUME NEW u \in User, CreateParty(u) PROVE TypeOK'
  <2>1. IsTable(parties', User) /\ IssuedBelow(parties', nextParty')
    BY <1>2, PutTable, PutIssued DEF CreateParty, TypeOK
  <2> QED
    BY <1>2, <2>1 DEF TypeOK, CreateParty, NextInvitation
<1>3. ASSUME NEW u \in User, NEW p \in DOMAIN parties,
             NEW at \in HandlerTimes, CreateInvitation(u, p, at)
      PROVE TypeOK'
  <2>1. [party |-> p, expires |-> Unix(at + InviteTTL), used |-> FALSE]
          \in InvitationRow
    BY UnixNat, HandlerTime DEF TypeOK, IssuedBelow, InvitationRow
  <2>2. admitted' \in Seq(Nat) /\ NextInvitation \in Nat \ {0}
        /\ NextInvitation' = NextInvitation + 1
    BY <1>3 DEF CreateInvitation, TypeOK, NextInvitation
  <2>3. /\ IsTable(invitations', InvitationRow)
        /\ IssuedBelow(invitations', NextInvitation')
    BY <1>3, <2>1, <2>2, PutTable, PutIssued DEF CreateInvitation, TypeOK
  <2> QED
    BY <1>3, <2>2, <2>3 DEF TypeOK, CreateInvitation
<1>4. ASSUME NEW u \in User, NEW p \in DOMAIN parties,
             NEW at \in HandlerTimes, CancelActiveInvitationsForHost(u, p, at)
      PROVE TypeOK'
  <2>1. /\ IsTable(invitations', InvitationRow)
        /\ IssuedBelow(invitations', NextInvitation)
    BY <1>4, WithoutTable, WithoutIssued DEF CancelActiveInvitationsForHost, TypeOK
  <2> QED
    BY <1>4, <2>1 DEF TypeOK, CancelActiveInvitationsForHost, NextInvitation
<1>5. ASSUME NEW u \in User, NEW p \in DOMAIN parties, DeleteParty(u, p)
      PROVE TypeOK'
  <2>1. /\ IsTable(pushTokens', PushToken) /\ IsTable(readiness', Checklist)
        /\ IsTable(setupLinks', LinkRow) /\ IsTable(devices', DeviceRow)
        /\ IssuedBelow(devices', nextDevice)
        /\ \A d \in DOMAIN devices' : devices'[d].secret \in DOMAIN fetched
    BY <1>5, DropTypes DEF DeleteParty
  <2>2. /\ IsTable(members', MemberRow) /\ IssuedBelow(members', nextMember)
        /\ IsTable(invitations', InvitationRow)
        /\ IssuedBelow(invitations', NextInvitation)
        /\ IsTable(parties', User) /\ IssuedBelow(parties', nextParty)
    BY <1>5, WithoutTable, WithoutIssued DEF DeleteParty, TypeOK
  <2> QED
    BY <1>5, <2>1, <2>2 DEF TypeOK, DeleteParty, NextInvitation
<1>6. ASSUME NEW u \in User, NEW m \in DOMAIN members, DeleteMember(u, m)
      PROVE TypeOK'
  <2>1. /\ IsTable(pushTokens', PushToken) /\ IsTable(readiness', Checklist)
        /\ IsTable(setupLinks', LinkRow) /\ IsTable(devices', DeviceRow)
        /\ IssuedBelow(devices', nextDevice)
        /\ \A d \in DOMAIN devices' : devices'[d].secret \in DOMAIN fetched
    BY <1>6, DropTypes DEF DeleteMember
  <2>2. IsTable(members', MemberRow) /\ IssuedBelow(members', nextMember)
    BY <1>6, WithoutTable, WithoutIssued DEF DeleteMember, TypeOK
  <2> QED
    BY <1>6, <2>1, <2>2 DEF TypeOK, DeleteMember, NextInvitation
<1>7. ASSUME NEW u \in User, NEW m \in DOMAIN members, NEW un \in Username,
             NEW at \in HandlerTimes, AddDeviceForHost(u, m, un, at)
      PROVE TypeOK'
  <2>1. [member |-> m, username |-> un, secret |-> NextSecret,
         revoked |-> FALSE] \in DeviceRow
    BY DEF TypeOK, IssuedBelow, DeviceRow, NextSecret
  <2>2. IsTable(devices', DeviceRow) /\ IssuedBelow(devices', nextDevice')
    BY <1>7, <2>1, PutTable, PutIssued DEF AddDeviceForHost, TypeOK
  <2>3. IsTable(setupLinks', LinkRow)
    BY <1>7, HandlerTime, LinkTypes DEF AddDeviceForHost, TypeOK
  <2>4. fetched' \in Seq(Nat) /\ \A d \in DOMAIN devices' : devices'[d].secret \in DOMAIN fetched'
    BY <1>7, IssuedSecret DEF AddDeviceForHost
  <2>5. /\ {nextParty', nextMember', nextDevice'} \subseteq Nat \ {0}
        /\ UNCHANGED <<now, nextParty, nextMember, parties, invitations, admitted,
                       members, readiness, pushTokens>>
    BY <1>7 DEF AddDeviceForHost, TypeOK
  <2> QED
    BY <2>2, <2>3, <2>4, <2>5 DEF TypeOK, NextInvitation
<1>8. ASSUME NEW u \in User, NEW d \in DOMAIN devices, RevokeDevice(u, d)
      PROVE TypeOK'
  <2>1. IsTable(devices', DeviceRow) /\ DOMAIN devices' = DOMAIN devices
        /\ \A e \in DOMAIN devices : devices'[e].secret = devices[e].secret
    BY <1>8 DEF RevokeDevice, TypeOK, IsTable, DeviceRow
  <2>2. IsTable(setupLinks', LinkRow) /\ IsTable(pushTokens', PushToken)
    BY <1>8, WithoutTable DEF RevokeDevice, TypeOK
  <2> QED
    BY <1>8, <2>1, <2>2 DEF TypeOK, RevokeDevice, NextInvitation, IssuedBelow
<1>9. ASSUME NEW u \in User, NEW d \in DOMAIN devices, NEW un \in Username,
             NEW at \in HandlerTimes, RotateDevice(u, d, un, at)
      PROVE TypeOK'
  <2>1. IsTable(devices', DeviceRow) /\ DOMAIN devices' = DOMAIN devices
        /\ \A e \in DOMAIN devices :
             devices'[e].secret \in {devices[e].secret, NextSecret}
    <3> DEFINE row == [member |-> devices[d].member, username |-> un,
                       secret |-> NextSecret, revoked |-> FALSE]
    <3>1. devices[d] \in DeviceRow /\ NextSecret \in Nat
      BY DEF TypeOK, IsTable, NextSecret
    <3>2. row \in DeviceRow
      BY <3>1 DEF DeviceRow
    <3>3. devices' = [devices EXCEPT ![d] = row]
      BY <1>9, <3>1 DEF RotateDevice, ForgetCredential, DeviceRow
    <3> QED
      BY <3>2, <3>3 DEF TypeOK, IsTable
  <2>2. /\ IsTable(setupLinks', LinkRow) /\ IsTable(pushTokens', PushToken)
        /\ IsTable(readiness', Checklist)
    BY <1>9, WithoutTable, HandlerTime, LinkTypes DEF RotateDevice, ForgetCredential, TypeOK
  <2>3. /\ fetched' \in Seq(Nat)
        /\ DOMAIN fetched' = DOMAIN fetched \cup {NextSecret}
    BY <1>9 DEF RotateDevice, ForgetCredential, TypeOK, NextSecret
  <2> QED
    BY <1>9, <2>1, <2>2, <2>3 DEF TypeOK, RotateDevice, NextInvitation, IssuedBelow
<1>10. ASSUME NEW u \in User, NEW d \in DOMAIN devices, NEW ticked \in SUBSET Check,
              UpdateDeviceReadiness(u, d, ticked)
       PROVE TypeOK'
  <2> DEFINE old == IF d \in DOMAIN readiness THEN readiness[d] ELSE <<>>
             row == [c \in ticked |-> IF c \in DOMAIN old THEN old[c]
                                                          ELSE devices[d].secret]
  <2>1. \A c \in DOMAIN old : old[c] \in Nat
    BY DEF TypeOK, IsTable, Checklist
  <2>2. row \in Checklist
    BY <2>1 DEF TypeOK, IsTable, Checklist, DeviceRow
  <2>3. IsTable(readiness', Checklist)
    <3> HIDE DEF row
    <3> QED
    BY <1>10, <2>2, PutTable, WithoutTable DEF UpdateDeviceReadiness, TypeOK, row
  <2> QED
    BY <1>10, <2>3 DEF TypeOK, UpdateDeviceReadiness, NextInvitation
<1>11. ASSUME NEW i \in DOMAIN invitations, NEW x \in Extension, NEW un \in Username,
              NEW at \in HandlerTimes, NEW web \in BOOLEAN,
              ClaimInvitation(i, x, un, at, web)
       PROVE TypeOK'
  <2>1. /\ [party |-> invitations[i].party, ext |-> x] \in MemberRow
        /\ [member |-> nextMember, username |-> un, secret |-> NextSecret,
            revoked |-> FALSE] \in DeviceRow
    BY <1>11 DEF ClaimInvitation, Valid, TypeOK, IsTable, InvitationRow, MemberRow,
                 DeviceRow, NextSecret
  <2>2. IsTable(members', MemberRow) /\ IssuedBelow(members', nextMember')
    BY <1>11, <2>1, PutTable, PutIssued DEF ClaimInvitation, TypeOK
  <2>3. IsTable(devices', DeviceRow) /\ IssuedBelow(devices', nextDevice')
    BY <1>11, <2>1, PutTable, PutIssued DEF ClaimInvitation, TypeOK
  <2>4. IsTable(setupLinks', LinkRow)
    BY <1>11, HandlerTime, LinkTypes DEF ClaimInvitation, TypeOK
  <2>5. /\ fetched' \in Seq(Nat)
        /\ \A d \in DOMAIN devices' : devices'[d].secret \in DOMAIN fetched'
    BY <1>11, IssuedSecret DEF ClaimInvitation
  <2>6. /\ IsTable(invitations', InvitationRow)
        /\ DOMAIN invitations' = DOMAIN invitations
    BY <1>11 DEF ClaimInvitation, TypeOK, IsTable, InvitationRow
  <2>7. admitted' \in Seq(Nat) /\ NextInvitation' = NextInvitation
    BY <1>11, Bump DEF ClaimInvitation, TypeOK, NextInvitation
  <2>8. IssuedBelow(invitations', NextInvitation')
    BY <2>6, <2>7 DEF TypeOK, IssuedBelow
  <2>9. /\ {nextParty', nextMember', nextDevice'} \subseteq Nat \ {0}
        /\ UNCHANGED <<now, nextParty, parties, readiness, pushTokens>>
    BY <1>11 DEF ClaimInvitation, TypeOK
  <2> QED
    BY <2>2, <2>3, <2>4, <2>5, <2>6, <2>7, <2>8, <2>9 DEF TypeOK
<1>12. ASSUME NEW k \in DOMAIN fetched, NEW at \in HandlerTimes,
             ConsumeProvisioningToken(k, at)
       PROVE TypeOK'
  <2>2. PICK d \in DOMAIN setupLinks :
          /\ setupLinks' = [setupLinks EXCEPT ![d].used = TRUE]
          /\ fetched' = [fetched EXCEPT ![devices[d].secret] = @ + 1]
    BY <1>12 DEF ConsumeProvisioningToken
  <2>1. IsTable(setupLinks', LinkRow)
    BY <2>2 DEF TypeOK, IsTable, LinkRow
  <2>3. fetched' \in Seq(Nat) /\ DOMAIN fetched' = DOMAIN fetched
    BY <2>2, Bump DEF TypeOK
  <2> QED
    BY <1>12, <2>1, <2>3 DEF TypeOK, ConsumeProvisioningToken, NextInvitation
<1>13. ASSUME NEW p \in DOMAIN parties, NEW un \in Username, NEW x \in Extension,
              ChangeMemberExtensionByDevice(p, un, x)
       PROVE TypeOK'
  <2>0. PICK m \in MembersOf(p) : members' = [members EXCEPT ![m].ext = x]
    BY <1>13 DEF ChangeMemberExtensionByDevice
  <2>1. IsTable(members', MemberRow) /\ DOMAIN members' = DOMAIN members
    <3>1. m \in DOMAIN members /\ members[m] \in MemberRow
      BY DEF MembersOf, TypeOK, IsTable
    <3>2. [members[m] EXCEPT !.ext = x] \in MemberRow
      BY <3>1, <1>13 DEF MemberRow, ChangeMemberExtensionByDevice, Valid
    <3> QED
      BY <2>0, <3>1, <3>2 DEF TypeOK, IsTable
  <2>2. UNCHANGED <<now, parties, invitations, devices, setupLinks, readiness,
                    pushTokens, counters, admitted, fetched>>
    BY <1>13 DEF ChangeMemberExtensionByDevice
  <2>3. NextInvitation' = NextInvitation
    BY <2>2 DEF NextInvitation
  <2>4. IssuedBelow(members', nextMember') /\ IssuedBelow(invitations', NextInvitation')
    BY <2>1, <2>2, <2>3 DEF TypeOK, IssuedBelow, counters
  <2> QED
    BY <2>1, <2>2, <2>4 DEF TypeOK, counters
<1>14. ASSUME NEW d \in DOMAIN devices, DeletePhonePushRegistration(d)
       PROVE TypeOK'
  <2>1. IsTable(pushTokens', PushToken)
    BY <1>14, WithoutTable DEF DeletePhonePushRegistration, TypeOK
  <2> QED
    BY <1>14, <2>1 DEF TypeOK, DeletePhonePushRegistration, NextInvitation
<1>15. ASSUME NEW d \in DOMAIN devices, NEW t \in PushToken,
              SavePhonePushRegistration(d, t)
       PROVE TypeOK'
  <2>1. IsTable(pushTokens', PushToken)
    BY <1>15, PutTable DEF SavePhonePushRegistration, TypeOK
  <2> QED
    BY <1>15, <2>1 DEF TypeOK, SavePhonePushRegistration, NextInvitation
<1>16. ASSUME NEW t \in PushToken, DeletePhonePushRegistrationByHash(t)
       PROVE TypeOK'
  <2>1. IsTable(pushTokens', PushToken)
    BY <1>16, WithoutTable DEF DeletePhonePushRegistrationByHash, TypeOK
  <2> QED
    BY <1>16, <2>1 DEF TypeOK, DeletePhonePushRegistrationByHash, NextInvitation
<1>17. CASE UNCHANGED vars
  BY <1>17 DEF vars, TypeOK, NextInvitation
<1> QED
  BY <1>1, <1>2, <1>3, <1>4, <1>5, <1>6, <1>7, <1>8, <1>9, <1>10, <1>11, <1>12,
     <1>13, <1>14, <1>15, <1>16, <1>17 DEF Next, HostStep, PartyForms, PhoneForms,
     JoinStep, PhoneStep, SetupStep, PushStep

(* Every table of the directory keeps its schema, in any number of steps.  *)
THEOREM TypeCorrect == Spec => []TypeOK
BY TypeInit, TypeNext, PTL DEF Spec

----------------------------------------------------------------------------
(* No row outlives the row it refers to.                                   *)

LEMMA ReferencesNext ==
  TypeOK /\ ReferencesResolve /\ [Next]_vars => ReferencesResolve'
<1> SUFFICES ASSUME TypeOK, ReferencesResolve, [Next]_vars
             PROVE  ReferencesResolve'
  OBVIOUS
<1> USE DEF ReferencesResolve, Put, Without, counters
<1>1. ASSUME NEW u \in User, CreateParty(u) PROVE ReferencesResolve'
  BY <1>1 DEF CreateParty
<1>2. ASSUME NEW u \in User, NEW p \in DOMAIN parties,
             NEW at \in HandlerTimes, CreateInvitation(u, p, at)
      PROVE ReferencesResolve'
  BY <1>2 DEF CreateInvitation
<1>3. ASSUME NEW u \in User, NEW p \in DOMAIN parties,
             NEW at \in HandlerTimes, CancelActiveInvitationsForHost(u, p, at)
      PROVE ReferencesResolve'
  BY <1>3 DEF CancelActiveInvitationsForHost
<1>4. ASSUME NEW u \in User, NEW p \in DOMAIN parties, DeleteParty(u, p)
      PROVE ReferencesResolve'
  BY <1>4 DEF DeleteParty, DropDevices, DevicesOf, MembersOf, InvitationsOf
<1>5. ASSUME NEW u \in User, NEW m \in DOMAIN members, DeleteMember(u, m)
      PROVE ReferencesResolve'
  BY <1>5 DEF DeleteMember, DropDevices, DevicesOf
<1>6. ASSUME NEW u \in User, NEW m \in DOMAIN members, NEW un \in Username,
             NEW at \in HandlerTimes, AddDeviceForHost(u, m, un, at)
      PROVE ReferencesResolve'
  BY <1>6 DEF AddDeviceForHost, ReplaceProvisioningToken
<1>7. ASSUME NEW u \in User, NEW d \in DOMAIN devices, RevokeDevice(u, d)
      PROVE ReferencesResolve'
  BY <1>7 DEF RevokeDevice, TypeOK, IsTable, DeviceRow
<1>8. ASSUME NEW u \in User, NEW d \in DOMAIN devices, NEW un \in Username,
             NEW at \in HandlerTimes, RotateDevice(u, d, un, at)
      PROVE ReferencesResolve'
  BY <1>8 DEF RotateDevice, ForgetCredential, ReplaceProvisioningToken
<1>9. ASSUME NEW u \in User, NEW d \in DOMAIN devices, NEW ticked \in SUBSET Check,
             UpdateDeviceReadiness(u, d, ticked)
      PROVE ReferencesResolve'
  BY <1>9 DEF UpdateDeviceReadiness
<1>10. ASSUME NEW i \in DOMAIN invitations, NEW x \in Extension, NEW un \in Username,
              NEW at \in HandlerTimes, NEW web \in BOOLEAN,
              ClaimInvitation(i, x, un, at, web)
       PROVE ReferencesResolve'
  <2>1. /\ DOMAIN invitations' = DOMAIN invitations
        /\ \A j \in DOMAIN invitations : invitations'[j].party = invitations[j].party
    BY <1>10 DEF ClaimInvitation, TypeOK, IsTable, InvitationRow
  <2> QED
    BY <1>10, <2>1 DEF ClaimInvitation, ReplaceProvisioningToken
<1>11. ASSUME NEW k \in DOMAIN fetched, NEW at \in HandlerTimes,
             ConsumeProvisioningToken(k, at)
       PROVE ReferencesResolve'
  BY <1>11 DEF ConsumeProvisioningToken
<1>12. ASSUME NEW p \in DOMAIN parties, NEW un \in Username, NEW x \in Extension,
              ChangeMemberExtensionByDevice(p, un, x)
       PROVE ReferencesResolve'
  BY <1>12 DEF ChangeMemberExtensionByDevice, TypeOK, IsTable, MemberRow
<1>13. ASSUME NEW d \in DOMAIN devices, NEW t \in PushToken,
              SavePhonePushRegistration(d, t)
       PROVE ReferencesResolve'
  BY <1>13 DEF SavePhonePushRegistration
<1>14. ASSUME NEW d \in DOMAIN devices, DeletePhonePushRegistration(d)
       PROVE ReferencesResolve'
  BY <1>14 DEF DeletePhonePushRegistration
<1>15. ASSUME NEW t \in PushToken, DeletePhonePushRegistrationByHash(t)
       PROVE ReferencesResolve'
  BY <1>15 DEF DeletePhonePushRegistrationByHash
<1>16. CASE UNCHANGED <<parties, invitations, members, devices, setupLinks,
                        readiness, pushTokens>>
  BY <1>16
<1> QED
  BY <1>1, <1>2, <1>3, <1>4, <1>5, <1>6, <1>7, <1>8, <1>9, <1>10, <1>11, <1>12,
     <1>13, <1>14, <1>15, <1>16
     DEF Next, HostStep, PartyForms, PhoneForms,
     JoinStep, PhoneStep, SetupStep, PushStep, Tick, vars

(* Deletions cascade completely: every reference in the directory resolves. *)
THEOREM References == Spec => []ReferencesResolve
<1>1. Init => ReferencesResolve
  BY DEF Init, ReferencesResolve
<1> QED
  BY <1>1, ReferencesNext, TypeCorrect, PTL DEF Spec

----------------------------------------------------------------------------
(* An extension of a party, a SIP username and a push token each lead to   *)
(* one row.                                                                *)

LEMMA NamesNext ==
  TypeOK /\ ReferencesResolve /\ NamesAreUnambiguous /\ [Next]_vars
    => NamesAreUnambiguous'
<1> SUFFICES ASSUME TypeOK, ReferencesResolve, NamesAreUnambiguous, [Next]_vars
             PROVE  NamesAreUnambiguous'
  OBVIOUS
<1> USE DEF NamesAreUnambiguous, Put, Without, counters
<1>1. ASSUME NEW u \in User, NEW p \in DOMAIN parties, DeleteParty(u, p)
      PROVE NamesAreUnambiguous'
  BY <1>1 DEF DeleteParty, DropDevices
<1>2. ASSUME NEW u \in User, NEW m \in DOMAIN members, DeleteMember(u, m)
      PROVE NamesAreUnambiguous'
  BY <1>2 DEF DeleteMember, DropDevices
<1>3. ASSUME NEW u \in User, NEW m \in DOMAIN members, NEW un \in Username,
             NEW at \in HandlerTimes, AddDeviceForHost(u, m, un, at)
      PROVE NamesAreUnambiguous'
  BY <1>3 DEF AddDeviceForHost, UsernameTaken
<1>4. ASSUME NEW u \in User, NEW d \in DOMAIN devices, RevokeDevice(u, d)
      PROVE NamesAreUnambiguous'
  <2>1. DOMAIN devices' = DOMAIN devices
        /\ \A e \in DOMAIN devices : devices'[e].username = devices[e].username
    BY <1>4 DEF RevokeDevice, TypeOK, IsTable, DeviceRow
  <2> QED
    BY <1>4, <2>1 DEF RevokeDevice
<1>5. ASSUME NEW u \in User, NEW d \in DOMAIN devices, NEW un \in Username,
             NEW at \in HandlerTimes, RotateDevice(u, d, un, at)
      PROVE NamesAreUnambiguous'
  <2>1. DOMAIN devices' = DOMAIN devices
        /\ \A e \in DOMAIN devices :
             devices'[e].username = IF e = d THEN un ELSE devices[e].username
    BY <1>5 DEF RotateDevice, ForgetCredential, TypeOK, IsTable, DeviceRow
  <2> QED
    BY <1>5, <2>1 DEF RotateDevice, ForgetCredential, UsernameTaken
<1>6. ASSUME NEW i \in DOMAIN invitations, NEW x \in Extension, NEW un \in Username,
             NEW at \in HandlerTimes, NEW web \in BOOLEAN,
             ClaimInvitation(i, x, un, at, web)
      PROVE NamesAreUnambiguous'
  <2>1. /\ members' = Put(members, nextMember, [party |-> invitations[i].party, ext |-> x])
        /\ \A m \in DOMAIN members :
             members[m].party = invitations[i].party => members[m].ext # x
    BY <1>6 DEF ClaimInvitation, ExtensionTaken, MembersOf
  <2>2. /\ \A e \in DOMAIN devices : devices[e].username # un
        /\ devices' = Put(devices, nextDevice, [member |-> nextMember, username |-> un,
                          secret |-> NextSecret, revoked |-> FALSE])
        /\ UNCHANGED pushTokens
    BY <1>6 DEF ClaimInvitation, UsernameTaken
  <2>3. \A m, n \in DOMAIN members' :
          members'[m].party = members'[n].party /\ members'[m].ext = members'[n].ext
            => m = n
    BY <2>1
  <2>4. \A d, e \in DOMAIN devices' :
          devices'[d].username = devices'[e].username => d = e
    BY <2>2
  <2> QED
    BY <2>2, <2>3, <2>4
<1>7. ASSUME NEW p \in DOMAIN parties, NEW un \in Username, NEW x \in Extension,
             ChangeMemberExtensionByDevice(p, un, x)
      PROVE NamesAreUnambiguous'
  <2>1. PICK d \in DOMAIN devices :
          /\ devices[d].member \in MembersOf(p)
          /\ ~\E other \in MembersOf(p) \ {devices[d].member} : members[other].ext = x
          /\ members' = [members EXCEPT ![devices[d].member].ext = x]
    BY <1>7 DEF ChangeMemberExtensionByDevice
  <2>2. /\ DOMAIN members' = DOMAIN members
        /\ \A m \in DOMAIN members :
             /\ members'[m].party = members[m].party
             /\ members'[m].ext = IF m = devices[d].member THEN x ELSE members[m].ext
    BY <2>1 DEF TypeOK, IsTable, MemberRow
  <2> QED
    BY <1>7, <2>1, <2>2 DEF ChangeMemberExtensionByDevice, MembersOf
<1>8. ASSUME NEW d \in DOMAIN devices, NEW t \in PushToken,
             SavePhonePushRegistration(d, t)
      PROVE NamesAreUnambiguous'
  BY <1>8 DEF SavePhonePushRegistration
<1>9. ASSUME NEW d \in DOMAIN devices, DeletePhonePushRegistration(d)
      PROVE NamesAreUnambiguous'
  BY <1>9 DEF DeletePhonePushRegistration
<1>10. ASSUME NEW t \in PushToken, DeletePhonePushRegistrationByHash(t)
       PROVE NamesAreUnambiguous'
  BY <1>10 DEF DeletePhonePushRegistrationByHash
<1>11. ASSUME NEW k \in DOMAIN fetched, NEW at \in HandlerTimes,
             ConsumeProvisioningToken(k, at)
       PROVE UNCHANGED <<members, devices, pushTokens>>
  BY <1>11 DEF ConsumeProvisioningToken
<1>12. ASSUME NEW u \in User, NEW d \in DOMAIN devices, NEW ticked \in SUBSET Check,
              UpdateDeviceReadiness(u, d, ticked)
       PROVE UNCHANGED <<members, devices, pushTokens>>
  BY <1>12 DEF UpdateDeviceReadiness
<1>13. ASSUME NEW u \in User, \/ CreateParty(u)
                              \/ \E p \in DOMAIN parties, at \in HandlerTimes :
                                   \/ CreateInvitation(u, p, at)
                                   \/ CancelActiveInvitationsForHost(u, p, at)
       PROVE UNCHANGED <<members, devices, pushTokens>>
  BY <1>13 DEF CreateParty, CreateInvitation, CancelActiveInvitationsForHost
<1>14. CASE UNCHANGED <<members, devices, pushTokens>>
  BY <1>14
<1>15. Tick \/ UNCHANGED vars => UNCHANGED <<members, devices, pushTokens>>
  BY DEF Tick, vars
<1> HIDE DEF NamesAreUnambiguous, Put, Without, counters
<1> QED
  BY <1>1, <1>2, <1>3, <1>4, <1>5, <1>6, <1>7, <1>8, <1>9, <1>10, <1>11, <1>12,
     <1>13, <1>14, <1>15 DEF Next, HostStep, PartyForms, PhoneForms,
     JoinStep, PhoneStep, SetupStep, PushStep

(* Whatever the interleaving of claims, rotations, *15 calls and push      *)
(* registrations, a dialled number or a credential names one row.          *)
THEOREM Names == Spec => []NamesAreUnambiguous
<1>1. Init => NamesAreUnambiguous
  BY DEF Init, NamesAreUnambiguous
<1> QED
  BY <1>1, NamesNext, TypeCorrect, References, PTL DEF Spec

----------------------------------------------------------------------------
(* A revoked phone holds nothing.                                          *)

LEMMA RevokedNext ==
  TypeOK /\ ReferencesResolve /\ RevokedPhoneHoldsNothing /\ [Next]_vars
    => RevokedPhoneHoldsNothing'
<1> SUFFICES ASSUME TypeOK, ReferencesResolve, RevokedPhoneHoldsNothing, [Next]_vars
             PROVE  RevokedPhoneHoldsNothing'
  OBVIOUS
<1> USE DEF RevokedPhoneHoldsNothing, Put, Without, counters
<1>1. ASSUME NEW u \in User, NEW p \in DOMAIN parties, DeleteParty(u, p)
      PROVE RevokedPhoneHoldsNothing'
  BY <1>1 DEF DeleteParty, DropDevices
<1>2. ASSUME NEW u \in User, NEW m \in DOMAIN members, DeleteMember(u, m)
      PROVE RevokedPhoneHoldsNothing'
  BY <1>2 DEF DeleteMember, DropDevices
<1>3. ASSUME NEW u \in User, NEW m \in DOMAIN members, NEW un \in Username,
             NEW at \in HandlerTimes, AddDeviceForHost(u, m, un, at)
      PROVE RevokedPhoneHoldsNothing'
  BY <1>3 DEF AddDeviceForHost, ReplaceProvisioningToken
<1>4. ASSUME NEW u \in User, NEW d \in DOMAIN devices, RevokeDevice(u, d)
      PROVE RevokedPhoneHoldsNothing'
  <2>1. DOMAIN devices' = DOMAIN devices
        /\ \A e \in DOMAIN devices \ {d} : devices'[e] = devices[e]
    BY <1>4 DEF RevokeDevice, TypeOK, IsTable
  <2> QED
    BY <1>4, <2>1 DEF RevokeDevice
<1>5. ASSUME NEW u \in User, NEW d \in DOMAIN devices, NEW un \in Username,
             NEW at \in HandlerTimes, RotateDevice(u, d, un, at)
      PROVE RevokedPhoneHoldsNothing'
  <2>1. DOMAIN devices' = DOMAIN devices /\ ~devices'[d].revoked
        /\ \A e \in DOMAIN devices \ {d} : devices'[e] = devices[e]
    BY <1>5 DEF RotateDevice, ForgetCredential, TypeOK, IsTable
  <2> QED
    BY <1>5, <2>1 DEF RotateDevice, ForgetCredential, ReplaceProvisioningToken
<1>6. ASSUME NEW i \in DOMAIN invitations, NEW x \in Extension, NEW un \in Username,
             NEW at \in HandlerTimes, NEW web \in BOOLEAN,
             ClaimInvitation(i, x, un, at, web)
      PROVE RevokedPhoneHoldsNothing'
  <2>1. nextDevice \notin DOMAIN devices
    BY DEF TypeOK, IssuedBelow
  <2>2. nextDevice \notin DOMAIN pushTokens
    BY <2>1 DEF ReferencesResolve
  <2> QED
    BY <1>6, <2>1, <2>2 DEF ClaimInvitation, ReplaceProvisioningToken
<1>7. ASSUME NEW k \in DOMAIN fetched, NEW at \in HandlerTimes,
             ConsumeProvisioningToken(k, at)
      PROVE RevokedPhoneHoldsNothing'
  BY <1>7 DEF ConsumeProvisioningToken
<1>8. ASSUME NEW d \in DOMAIN devices, NEW t \in PushToken,
             SavePhonePushRegistration(d, t)
      PROVE RevokedPhoneHoldsNothing'
  BY <1>8 DEF SavePhonePushRegistration
<1>9. ASSUME NEW d \in DOMAIN devices, DeletePhonePushRegistration(d)
      PROVE RevokedPhoneHoldsNothing'
  BY <1>9 DEF DeletePhonePushRegistration
<1>10. ASSUME NEW t \in PushToken, DeletePhonePushRegistrationByHash(t)
       PROVE RevokedPhoneHoldsNothing'
  BY <1>10 DEF DeletePhonePushRegistrationByHash
<1>11. CASE UNCHANGED <<devices, setupLinks, pushTokens>>
  BY <1>11
<1> QED
  BY <1>1, <1>2, <1>3, <1>4, <1>5, <1>6, <1>7, <1>8, <1>9, <1>10, <1>11
     DEF Next, HostStep, PartyForms, PhoneForms,
     JoinStep, PhoneStep, SetupStep, PushStep, Tick, CreateParty, CreateInvitation,
         CancelActiveInvitationsForHost, UpdateDeviceReadiness,
         ChangeMemberExtensionByDevice, vars

(* Revocation removes the setup link and the push token for good: only a   *)
(* rotation puts the phone back in a position to hold either.              *)
THEOREM Revoked == Spec => []RevokedPhoneHoldsNothing
<1>1. Init => RevokedPhoneHoldsNothing
  BY DEF Init, RevokedPhoneHoldsNothing
<1> QED
  BY <1>1, RevokedNext, TypeCorrect, References, PTL DEF Spec

----------------------------------------------------------------------------
(* Invitations are single use: one that can still be claimed has admitted  *)
(* nobody.                                                                 *)

InvitationsSpent ==
  InvitationAdmitsOnce
  /\ \A i \in DOMAIN invitations : ~invitations[i].used => admitted[i] = 0

LEMMA InvitationsNext ==
  TypeOK /\ InvitationsSpent /\ [Next]_vars => InvitationsSpent'
<1> SUFFICES ASSUME TypeOK, InvitationsSpent, [Next]_vars
             PROVE  InvitationsSpent'
  OBVIOUS
<1> USE DEF InvitationsSpent, InvitationAdmitsOnce, Put, Without
<1>1. ASSUME NEW u \in User, NEW p \in DOMAIN parties,
             NEW at \in HandlerTimes, CreateInvitation(u, p, at)
      PROVE InvitationsSpent'
  BY <1>1 DEF CreateInvitation, TypeOK, IssuedBelow, NextInvitation
<1>2. ASSUME NEW u \in User, NEW p \in DOMAIN parties,
             NEW at \in HandlerTimes, CancelActiveInvitationsForHost(u, p, at)
      PROVE InvitationsSpent'
  BY <1>2 DEF CancelActiveInvitationsForHost
<1>3. ASSUME NEW u \in User, NEW p \in DOMAIN parties, DeleteParty(u, p)
      PROVE InvitationsSpent'
  BY <1>3 DEF DeleteParty
<1>4. ASSUME NEW i \in DOMAIN invitations, NEW x \in Extension, NEW un \in Username,
             NEW at \in HandlerTimes, NEW web \in BOOLEAN,
             ClaimInvitation(i, x, un, at, web)
      PROVE InvitationsSpent'
  <2>1. /\ ~invitations[i].used
        /\ invitations' = [invitations EXCEPT ![i].used = TRUE]
        /\ admitted' = [admitted EXCEPT ![i] = @ + 1]
    BY <1>4 DEF ClaimInvitation, Claimable
  <2>2. /\ DOMAIN invitations' = DOMAIN invitations
        /\ invitations'[i].used
        /\ \A j \in DOMAIN invitations \ {i} : invitations'[j] = invitations[j]
    BY <2>1 DEF TypeOK, IsTable, InvitationRow
  <2>3. /\ DOMAIN admitted' = DOMAIN admitted
        /\ \A j \in DOMAIN admitted :
             admitted'[j] = IF j = i THEN admitted[j] + 1 ELSE admitted[j]
    BY <2>1, Bump DEF TypeOK
  <2>4. i \in DOMAIN admitted /\ admitted[i] = 0
    BY <2>1 DEF TypeOK, IssuedBelow, NextInvitation
  <2>5. DOMAIN invitations \subseteq DOMAIN admitted
    BY DEF TypeOK, IssuedBelow, NextInvitation
  <2> QED
    BY <2>2, <2>3, <2>4, <2>5
<1>5. CASE UNCHANGED <<invitations, admitted>>
  BY <1>5
<1>6. ASSUME NEW u \in User,
             \/ CreateParty(u)
             \/ \E m \in DOMAIN members :
                  \/ DeleteMember(u, m)
                  \/ \E un \in Username, at \in HandlerTimes : AddDeviceForHost(u, m, un, at)
             \/ \E d \in DOMAIN devices :
                  \/ RevokeDevice(u, d)
                  \/ \E un \in Username, at \in HandlerTimes : RotateDevice(u, d, un, at)
                  \/ \E ticked \in SUBSET Check : UpdateDeviceReadiness(u, d, ticked)
      PROVE UNCHANGED <<invitations, admitted>>
  BY <1>6 DEF CreateParty, DeleteMember, AddDeviceForHost, RevokeDevice,
              RotateDevice, ForgetCredential, UpdateDeviceReadiness
<1>7. PhoneStep \/ Tick \/ UNCHANGED vars => UNCHANGED <<invitations, admitted>>
  BY DEF PhoneStep, SetupStep, PushStep, ConsumeProvisioningToken, ChangeMemberExtensionByDevice,
         DeletePhonePushRegistration, SavePhonePushRegistration,
         DeletePhonePushRegistrationByHash, Tick, vars
<1> HIDE DEF InvitationsSpent, InvitationAdmitsOnce, Put, Without
<1> QED
  BY <1>1, <1>2, <1>3, <1>4, <1>5, <1>6, <1>7 DEF Next, HostStep, PartyForms, PhoneForms, JoinStep

(* One invitation never admits two members, whatever is deleted, canceled  *)
(* or claimed in between.                                                  *)
THEOREM InvitationOnce == Spec => []InvitationAdmitsOnce
<1>1. Init => InvitationsSpent
  BY DEF Init, InvitationsSpent, InvitationAdmitsOnce
<1>2. InvitationsSpent => InvitationAdmitsOnce
  BY DEF InvitationsSpent
<1> QED
  BY <1>1, <1>2, InvitationsNext, TypeCorrect, PTL DEF Spec

----------------------------------------------------------------------------
(* Secrets.  A setup link belongs to its phone's present secret, an unspent *)
(* link has disclosed nothing, no two phones share a secret, and a          *)
(* checklist is of the present secret.                                      *)

SecretsKept ==
  /\ SetupLinkOpensOnce /\ ReadinessIsOfThisCredential
  /\ \A d \in DOMAIN setupLinks :
       ~setupLinks[d].used => fetched[setupLinks[d].secret] = 0
  /\ \A d, e \in DOMAIN devices : devices[d].secret = devices[e].secret => d = e

(* Removing phones with everything that hangs off them.                    *)
LEMMA DropKeeps ==
  ASSUME SecretsKept, ReferencesResolve, NEW D, DropDevices(D), UNCHANGED fetched
  PROVE  SecretsKept'
<1>1. /\ DOMAIN devices' = DOMAIN devices \ D
      /\ \A d \in DOMAIN devices' : devices'[d] = devices[d]
  BY DEF DropDevices, Without
<1>2. /\ DOMAIN setupLinks' = DOMAIN setupLinks \ D
      /\ \A d \in DOMAIN setupLinks' : setupLinks'[d] = setupLinks[d]
  BY DEF DropDevices, Without
<1>3. /\ DOMAIN readiness' = DOMAIN readiness \ D
      /\ \A d \in DOMAIN readiness' : readiness'[d] = readiness[d]
  BY DEF DropDevices, Without
<1>4. DOMAIN setupLinks \cup DOMAIN readiness \subseteq DOMAIN devices
  BY DEF ReferencesResolve
<1>5. SetupLinkOpensOnce'
  BY <1>1, <1>2, <1>4 DEF SecretsKept, SetupLinkOpensOnce
<1>6. ReadinessIsOfThisCredential'
  BY <1>1, <1>3, <1>4 DEF SecretsKept, ReadinessIsOfThisCredential
<1>7. \A d \in DOMAIN setupLinks' :
        ~setupLinks'[d].used => fetched'[setupLinks'[d].secret] = 0
  BY <1>2 DEF SecretsKept
<1>8. \A d, e \in DOMAIN devices' : devices'[d].secret = devices'[e].secret => d = e
  BY <1>1 DEF SecretsKept
<1> QED
  BY <1>5, <1>6, <1>7, <1>8 DEF SecretsKept

(* Issuing the next secret to a phone, new or not, with a link or, if the  *)
(* phone has none, without one; its old checklist is gone.                 *)
LEMMA IssueKeeps ==
  ASSUME TypeOK, ReferencesResolve, SecretsKept, NEW d,
         fetched' = Append(fetched, 0),
         DOMAIN devices' = DOMAIN devices \cup {d},
         devices'[d].secret = NextSecret,
         \A e \in DOMAIN devices \ {d} : devices'[e].secret = devices[e].secret,
         \/ \E at : ReplaceProvisioningToken(d, at)
         \/ UNCHANGED setupLinks /\ d \notin DOMAIN devices,
         readiness' = Without(readiness, {d})
  PROVE  SecretsKept'
<1>1. /\ NextSecret \notin DOMAIN fetched
      /\ \A e \in DOMAIN devices : devices[e].secret \in DOMAIN fetched
      /\ DOMAIN fetched' = DOMAIN fetched \cup {NextSecret}
      /\ fetched'[NextSecret] = 0
      /\ \A k \in DOMAIN fetched : fetched'[k] = fetched[k]
  BY NewSecret DEF TypeOK
<1>2. DOMAIN setupLinks \cup DOMAIN readiness \subseteq DOMAIN devices
  BY DEF ReferencesResolve
<1>3. \A e \in DOMAIN setupLinks' :
        \/ e = d /\ setupLinks'[e].secret = NextSecret
        \/ e # d /\ e \in DOMAIN setupLinks /\ setupLinks'[e] = setupLinks[e]
  BY <1>2 DEF ReplaceProvisioningToken, Put
<1>4. \A e \in DOMAIN setupLinks : setupLinks[e].secret = devices[e].secret
  BY DEF SecretsKept, SetupLinkOpensOnce
<1>5. \A e \in DOMAIN setupLinks' : setupLinks'[e].secret = devices'[e].secret
  BY <1>2, <1>3, <1>4
<1>6. \A k \in DOMAIN fetched' : fetched'[k] <= 1
  BY <1>1 DEF SecretsKept, SetupLinkOpensOnce
<1>7. \A e \in DOMAIN setupLinks' :
        ~setupLinks'[e].used => fetched'[setupLinks'[e].secret] = 0
  BY <1>1, <1>2, <1>3, <1>4 DEF SecretsKept
<1>8. \A e, f \in DOMAIN devices' : devices'[e].secret = devices'[f].secret => e = f
  BY <1>1 DEF SecretsKept
<1>9. /\ DOMAIN readiness' = DOMAIN readiness \ {d}
      /\ \A e \in DOMAIN readiness' : readiness'[e] = readiness[e]
  BY DEF Without
<1>10. ReadinessIsOfThisCredential'
  <2>1. \A e \in DOMAIN readiness' :
          /\ devices'[e].secret = devices[e].secret
          /\ \A c \in DOMAIN readiness[e] : readiness[e][c] = devices[e].secret
    BY <1>2, <1>9 DEF SecretsKept, ReadinessIsOfThisCredential
  <2> QED
    BY <1>9, <2>1 DEF ReadinessIsOfThisCredential
<1> QED
  BY <1>5, <1>6, <1>7, <1>8, <1>10 DEF SecretsKept, SetupLinkOpensOnce

(* A phone that is not in the directory has no checklist to drop.          *)
LEMMA NothingToDrop ==
  ASSUME TypeOK, ReferencesResolve, NEW d, d \notin DOMAIN devices
  PROVE  readiness = Without(readiness, {d})
<1>1. DOMAIN readiness \ {d} = DOMAIN readiness
  BY DEF ReferencesResolve
<1>2. readiness = [e \in DOMAIN readiness |-> readiness[e]]
  BY DEF TypeOK, IsTable
<1> QED
  BY <1>1, <1>2 DEF Without

LEMMA SecretsNext ==
  TypeOK /\ ReferencesResolve /\ SecretsKept /\ [Next]_vars => SecretsKept'
<1> SUFFICES ASSUME TypeOK, ReferencesResolve, SecretsKept, [Next]_vars
             PROVE  SecretsKept'
  OBVIOUS
<1>a. nextDevice \notin DOMAIN devices
  BY DEF TypeOK, IssuedBelow
<1>1. ASSUME NEW u \in User, NEW p \in DOMAIN parties, DeleteParty(u, p)
      PROVE SecretsKept'
  BY <1>1, DropKeeps DEF DeleteParty
<1>2. ASSUME NEW u \in User, NEW m \in DOMAIN members, DeleteMember(u, m)
      PROVE SecretsKept'
  BY <1>2, DropKeeps DEF DeleteMember
<1>3. ASSUME NEW u \in User, NEW m \in DOMAIN members, NEW un \in Username,
             NEW at \in HandlerTimes, AddDeviceForHost(u, m, un, at)
      PROVE SecretsKept'
  <2>1. /\ fetched' = Append(fetched, 0)
        /\ DOMAIN devices' = DOMAIN devices \cup {nextDevice}
        /\ devices'[nextDevice].secret = NextSecret
        /\ \A e \in DOMAIN devices \ {nextDevice} : devices'[e].secret = devices[e].secret
        /\ \E t : ReplaceProvisioningToken(nextDevice, t)
        /\ readiness' = Without(readiness, {nextDevice})
    BY <1>3, <1>a, NothingToDrop DEF AddDeviceForHost, Put
  <2> QED
    BY <2>1, IssueKeeps
<1>4. ASSUME NEW u \in User, NEW d \in DOMAIN devices, RevokeDevice(u, d)
      PROVE SecretsKept'
  <2>1. /\ DOMAIN devices' = DOMAIN devices
        /\ \A e \in DOMAIN devices : devices'[e].secret = devices[e].secret
        /\ UNCHANGED <<readiness, fetched>>
    BY <1>4 DEF RevokeDevice, TypeOK, IsTable, DeviceRow
  <2>2. /\ DOMAIN setupLinks' = DOMAIN setupLinks \ {d}
        /\ \A e \in DOMAIN setupLinks' : setupLinks'[e] = setupLinks[e]
    BY <1>4 DEF RevokeDevice, Without
  <2>3. DOMAIN setupLinks \cup DOMAIN readiness \subseteq DOMAIN devices
    BY DEF ReferencesResolve
  <2> QED
    BY <2>1, <2>2, <2>3 DEF SecretsKept, SetupLinkOpensOnce, ReadinessIsOfThisCredential
<1>5. ASSUME NEW u \in User, NEW d \in DOMAIN devices, NEW un \in Username,
             NEW at \in HandlerTimes, RotateDevice(u, d, un, at)
      PROVE SecretsKept'
  <2>1. /\ fetched' = Append(fetched, 0)
        /\ DOMAIN devices' = DOMAIN devices \cup {d}
        /\ devices'[d].secret = NextSecret
        /\ \A e \in DOMAIN devices \ {d} : devices'[e].secret = devices[e].secret
        /\ \E t : ReplaceProvisioningToken(d, t)
        /\ readiness' = Without(readiness, {d})
    BY <1>5 DEF RotateDevice, ForgetCredential, TypeOK, IsTable, DeviceRow
  <2> QED
    BY <2>1, IssueKeeps
<1>6. ASSUME NEW i \in DOMAIN invitations, NEW x \in Extension, NEW un \in Username,
             NEW at \in HandlerTimes, NEW web \in BOOLEAN,
             ClaimInvitation(i, x, un, at, web)
      PROVE SecretsKept'
  <2>1. /\ fetched' = Append(fetched, 0)
        /\ devices' = Put(devices, nextDevice,
                          [member |-> nextMember, username |-> un,
                           secret |-> NextSecret, revoked |-> FALSE])
        /\ UNCHANGED readiness
        /\ IF web THEN ReplaceProvisioningToken(nextDevice, at)
                  ELSE UNCHANGED setupLinks
    BY <1>6 DEF ClaimInvitation
  <2>2. /\ DOMAIN devices' = DOMAIN devices \cup {nextDevice}
        /\ devices'[nextDevice].secret = NextSecret
        /\ \A e \in DOMAIN devices \ {nextDevice} : devices'[e].secret = devices[e].secret
    BY <2>1 DEF Put
  <2>3. readiness' = Without(readiness, {nextDevice})
    BY <1>a, <2>1, NothingToDrop
  <2> QED
    BY <1>a, <2>1, <2>2, <2>3, IssueKeeps
<1>7. ASSUME NEW k \in DOMAIN fetched, NEW at \in HandlerTimes,
             ConsumeProvisioningToken(k, at)
      PROVE SecretsKept'
  <2>1. PICK d \in DOMAIN setupLinks :
          /\ ~setupLinks[d].used
          /\ setupLinks' = [setupLinks EXCEPT ![d].used = TRUE]
          /\ fetched' = [fetched EXCEPT ![devices[d].secret] = @ + 1]
          /\ UNCHANGED <<devices, readiness>>
    BY <1>7 DEF ConsumeProvisioningToken
  <2>2. /\ DOMAIN setupLinks' = DOMAIN setupLinks
        /\ \A e \in DOMAIN setupLinks : setupLinks'[e].secret = setupLinks[e].secret
        /\ \A e \in DOMAIN setupLinks \ {d} : setupLinks'[e] = setupLinks[e]
        /\ setupLinks'[d].used
    BY <2>1 DEF TypeOK, IsTable, LinkRow
  <2>3. /\ DOMAIN fetched' = DOMAIN fetched
        /\ \A j \in DOMAIN fetched :
             fetched'[j] = IF j = devices[d].secret THEN fetched[j] + 1 ELSE fetched[j]
    BY <2>1, Bump DEF TypeOK
  <2>4. /\ DOMAIN setupLinks \subseteq DOMAIN devices
        /\ \A e \in DOMAIN setupLinks : setupLinks[e].secret = devices[e].secret
        /\ fetched[devices[d].secret] = 0
        /\ \A e \in DOMAIN devices : devices[e].secret \in DOMAIN fetched
    BY <2>1 DEF SecretsKept, SetupLinkOpensOnce, ReferencesResolve, TypeOK
  <2>5. SetupLinkOpensOnce'
    BY <2>1, <2>2, <2>3, <2>4 DEF SecretsKept, SetupLinkOpensOnce
  <2>6. \A e \in DOMAIN setupLinks' :
          ~setupLinks'[e].used => fetched'[setupLinks'[e].secret] = 0
    BY <2>1, <2>2, <2>3, <2>4 DEF SecretsKept
  <2> QED
    BY <2>1, <2>5, <2>6 DEF SecretsKept, ReadinessIsOfThisCredential
<1>8. ASSUME NEW u \in User, NEW d \in DOMAIN devices, NEW ticked \in SUBSET Check,
             UpdateDeviceReadiness(u, d, ticked)
      PROVE SecretsKept'
  <2>1. ReadinessIsOfThisCredential'
    BY <1>8 DEF UpdateDeviceReadiness, SecretsKept, ReadinessIsOfThisCredential,
                Put, Without
  <2> QED
    BY <1>8, <2>1 DEF UpdateDeviceReadiness, SecretsKept, SetupLinkOpensOnce
<1>9. CASE UNCHANGED <<devices, setupLinks, readiness, fetched>>
  BY <1>9 DEF SecretsKept, SetupLinkOpensOnce, ReadinessIsOfThisCredential
<1>10. ASSUME NEW u \in User, \/ CreateParty(u)
                              \/ \E p \in DOMAIN parties, at \in HandlerTimes :
                                   \/ CreateInvitation(u, p, at)
                                   \/ CancelActiveInvitationsForHost(u, p, at)
       PROVE UNCHANGED <<devices, setupLinks, readiness, fetched>>
  BY <1>10 DEF CreateParty, CreateInvitation, CancelActiveInvitationsForHost
<1>11. ASSUME \/ \E p \in DOMAIN parties, un \in Username, x \in Extension :
                   ChangeMemberExtensionByDevice(p, un, x)
              \/ \E d \in DOMAIN devices :
                   \/ DeletePhonePushRegistration(d)
                   \/ \E t \in PushToken : SavePhonePushRegistration(d, t)
              \/ \E t \in PushToken : DeletePhonePushRegistrationByHash(t)
       PROVE UNCHANGED <<devices, setupLinks, readiness, fetched>>
  BY <1>11 DEF ChangeMemberExtensionByDevice, DeletePhonePushRegistration,
               SavePhonePushRegistration, DeletePhonePushRegistrationByHash
<1>12. Tick \/ UNCHANGED vars => UNCHANGED <<devices, setupLinks, readiness, fetched>>
  BY DEF Tick, vars
<1> QED
  BY <1>1, <1>2, <1>3, <1>4, <1>5, <1>6, <1>7, <1>8, <1>9, <1>10, <1>11, <1>12
     DEF Next, HostStep, PartyForms, PhoneForms,
     JoinStep, PhoneStep, SetupStep, PushStep

LEMMA Secrets == Spec => []SecretsKept
<1>1. Init => SecretsKept
  BY DEF Init, SecretsKept, SetupLinkOpensOnce, ReadinessIsOfThisCredential
<1> QED
  BY <1>1, SecretsNext, TypeCorrect, References, PTL DEF Spec

(* A setup link discloses the credential it was issued with, at most once. *)
THEOREM SetupLinkOnce == Spec => []SetupLinkOpensOnce
<1>1. SecretsKept => SetupLinkOpensOnce
  BY DEF SecretsKept
<1> QED
  BY <1>1, Secrets, PTL

(* A confirmation never survives the credential it was made with.          *)
THEOREM Readiness == Spec => []ReadinessIsOfThisCredential
<1>1. SecretsKept => ReadinessIsOfThisCredential
  BY DEF SecretsKept
<1> QED
  BY <1>1, Secrets, PTL

----------------------------------------------------------------------------
(* The device limit, by the finite sets of phones saved for each member.   *)

LEMMA DevicesFinite ==
  ASSUME TypeOK, NEW M
  PROVE  IsFiniteSet(DevicesOf(M))
<1>1. DOMAIN devices \subseteq 1..(nextDevice - 1)
  BY DEF TypeOK, IssuedBelow
<1>2. IsFiniteSet(1..(nextDevice - 1))
  <2>1. 1 \in Int /\ nextDevice - 1 \in Int
    BY DEF TypeOK
  <2> QED
    BY <2>1, FS_Interval
<1>3. DevicesOf(M) \subseteq 1..(nextDevice - 1)
  BY <1>1 DEF DevicesOf
<1> QED
  BY <1>2, <1>3, FS_Subset

(* A step after which nobody has a phone more keeps the limit.             *)
LEMMA FewerDevices ==
  ASSUME TypeOK, DeviceLimitHolds,
         \A m \in DOMAIN members' :
           m \in DOMAIN members /\ DevicesOf({m})' \subseteq DevicesOf({m})
  PROVE  DeviceLimitHolds'
<1> SUFFICES ASSUME NEW m \in DOMAIN members'
             PROVE  Cardinality(DevicesOf({m})') <= MaxDevicesPerMember
  BY DEF DeviceLimitHolds, DevicesOf
<1> DEFINE old == DevicesOf({m})
           new == DevicesOf({m})'
<1>1. IsFiniteSet(old)
  BY DevicesFinite
<1>2. new \subseteq old /\ Cardinality(old) <= MaxDevicesPerMember
  BY DEF DeviceLimitHolds
<1>3. IsFiniteSet(new) /\ Cardinality(new) <= Cardinality(old)
  BY <1>1, <1>2, FS_Subset
<1>4. Cardinality(old) \in Nat /\ Cardinality(new) \in Nat
  BY <1>1, <1>3, FS_CardinalityType
<1> HIDE DEF old, new
<1>5. Cardinality(new) <= MaxDevicesPerMember
  BY <1>2, <1>3, <1>4, DirectoryAssumption DEF DirectoryAssumption
<1> QED
  BY <1>5 DEF new

LEMMA LimitNext ==
  TypeOK /\ ReferencesResolve /\ DeviceLimitHolds /\ [Next]_vars
    => DeviceLimitHolds'
<1> SUFFICES ASSUME TypeOK, ReferencesResolve, DeviceLimitHolds, [Next]_vars
             PROVE  DeviceLimitHolds'
  OBVIOUS
<1> DEFINE Fewer == \A m \in DOMAIN members' :
             m \in DOMAIN members /\ DevicesOf({m})' \subseteq DevicesOf({m})
<1>1. ASSUME NEW u \in User, NEW p \in DOMAIN parties, DeleteParty(u, p)
      PROVE DeviceLimitHolds'
  <2>1. Fewer
    BY <1>1 DEF DeleteParty, DropDevices, DevicesOf, Without
  <2> QED
    BY <2>1, FewerDevices
<1>2. ASSUME NEW u \in User, NEW m \in DOMAIN members, DeleteMember(u, m)
      PROVE DeviceLimitHolds'
  <2>1. Fewer
    BY <1>2 DEF DeleteMember, DropDevices, DevicesOf, Without
  <2> QED
    BY <2>1, FewerDevices
<1>3. ASSUME NEW u \in User, NEW m \in DOMAIN members, NEW un \in Username,
             NEW at \in HandlerTimes, AddDeviceForHost(u, m, un, at)
      PROVE DeviceLimitHolds'
  <2> SUFFICES ASSUME NEW n \in DOMAIN members
               PROVE  Cardinality(DevicesOf({n})') <= MaxDevicesPerMember
    BY <1>3 DEF AddDeviceForHost, DeviceLimitHolds, DevicesOf
  <2>1. IsFiniteSet(DevicesOf({n})) /\ Cardinality(DevicesOf({n})) <= MaxDevicesPerMember
    BY DevicesFinite DEF DeviceLimitHolds
  <2>2. nextDevice \notin DOMAIN devices
    BY DEF TypeOK, IssuedBelow
  <2>3. CASE n = m
    <3>1. DevicesOf({n})' = DevicesOf({n}) \cup {nextDevice}
      BY <1>3, <2>2, <2>3 DEF AddDeviceForHost, DevicesOf, Put
    <3>2. nextDevice \notin DevicesOf({n})
      BY <2>2 DEF DevicesOf
    <3>3. Cardinality(DevicesOf({n})) < MaxDevicesPerMember
      <4>1. ~(Cardinality(DevicesOf({n})) >= MaxDevicesPerMember)
        BY <1>3, <2>3 DEF AddDeviceForHost, LimitReached
      <4> QED
        BY <2>1, <4>1, FS_CardinalityType, DirectoryAssumption DEF DirectoryAssumption
    <3>4. Cardinality(DevicesOf({n}) \cup {nextDevice}) = Cardinality(DevicesOf({n})) + 1
      BY <2>1, <3>2, FS_AddElement
    <3>5. Cardinality(DevicesOf({n})) \in Nat
      BY <2>1, FS_CardinalityType
    <3> QED
      BY <3>1, <3>3, <3>4, <3>5, DirectoryAssumption DEF DirectoryAssumption
  <2>4. CASE n # m
    <3>1. DevicesOf({n})' = DevicesOf({n})
      BY <1>3, <2>2, <2>4 DEF AddDeviceForHost, DevicesOf, Put
    <3> QED
      BY <2>1, <3>1
  <2> QED
    BY <2>3, <2>4
<1>4. ASSUME NEW u \in User, NEW d \in DOMAIN devices, RevokeDevice(u, d)
      PROVE DeviceLimitHolds'
  <2>1. UNCHANGED members /\ DOMAIN devices' = DOMAIN devices
        /\ \A e \in DOMAIN devices : devices'[e].member = devices[e].member
    BY <1>4 DEF RevokeDevice, TypeOK, IsTable, DeviceRow
  <2>2. Fewer
    BY <2>1 DEF DevicesOf
  <2> QED
    BY <2>2, FewerDevices
<1>5. ASSUME NEW u \in User, NEW d \in DOMAIN devices, NEW un \in Username,
             NEW at \in HandlerTimes, RotateDevice(u, d, un, at)
      PROVE DeviceLimitHolds'
  <2>1. UNCHANGED members /\ DOMAIN devices' = DOMAIN devices
        /\ \A e \in DOMAIN devices : devices'[e].member = devices[e].member
    BY <1>5 DEF RotateDevice, ForgetCredential, TypeOK, IsTable, DeviceRow
  <2>2. Fewer
    BY <2>1 DEF DevicesOf
  <2> QED
    BY <2>2, FewerDevices
<1>6. ASSUME NEW i \in DOMAIN invitations, NEW x \in Extension, NEW un \in Username,
             NEW at \in HandlerTimes, NEW web \in BOOLEAN,
             ClaimInvitation(i, x, un, at, web)
      PROVE DeviceLimitHolds'
  <2>1. /\ DOMAIN members' = DOMAIN members \cup {nextMember}
        /\ devices' = Put(devices, nextDevice, [member |-> nextMember, username |-> un,
                          secret |-> NextSecret, revoked |-> FALSE])
    BY <1>6 DEF ClaimInvitation, Put
  <2>2. nextDevice \notin DOMAIN devices /\ nextMember \notin DOMAIN members
    BY DEF TypeOK, IssuedBelow
  <2> SUFFICES ASSUME NEW n \in DOMAIN members \cup {nextMember}
               PROVE  Cardinality(DevicesOf({n})') <= MaxDevicesPerMember
    BY <2>1 DEF DeviceLimitHolds, DevicesOf
  <2>3. CASE n = nextMember
    <3>1. DevicesOf({n})' = {nextDevice}
      BY <2>1, <2>2, <2>3 DEF DevicesOf, Put, ReferencesResolve
    <3>2. Cardinality({nextDevice}) = 1
      BY FS_Singleton
    <3> QED
      BY <3>1, <3>2, DirectoryAssumption DEF DirectoryAssumption
  <2>4. CASE n # nextMember
    <3>1. DevicesOf({n})' = DevicesOf({n})
      BY <2>1, <2>2, <2>4 DEF DevicesOf, Put
    <3> QED
      BY <2>4, <3>1 DEF DeviceLimitHolds
  <2> QED
    BY <2>3, <2>4
<1>7. ASSUME NEW p \in DOMAIN parties, NEW un \in Username, NEW x \in Extension,
             ChangeMemberExtensionByDevice(p, un, x)
      PROVE DeviceLimitHolds'
  <2>1. DOMAIN members' = DOMAIN members /\ UNCHANGED devices
    BY <1>7 DEF ChangeMemberExtensionByDevice
  <2>2. Fewer
    BY <2>1 DEF DevicesOf
  <2> QED
    BY <2>2, FewerDevices
<1>8. CASE UNCHANGED <<members, devices>>
  <2>1. Fewer
    BY <1>8 DEF DevicesOf
  <2> QED
    BY <2>1, FewerDevices
<1>9. ASSUME NEW u \in User,
             \/ CreateParty(u)
             \/ \E p \in DOMAIN parties, at \in HandlerTimes :
                  \/ CreateInvitation(u, p, at)
                  \/ CancelActiveInvitationsForHost(u, p, at)
             \/ \E d \in DOMAIN devices, ticked \in SUBSET Check :
                  UpdateDeviceReadiness(u, d, ticked)
      PROVE UNCHANGED <<members, devices>>
  BY <1>9 DEF CreateParty, CreateInvitation, CancelActiveInvitationsForHost,
              UpdateDeviceReadiness
<1>10. ASSUME \/ \E k \in DOMAIN fetched, at \in HandlerTimes : ConsumeProvisioningToken(k, at)
              \/ \E d \in DOMAIN devices :
                   \/ DeletePhonePushRegistration(d)
                   \/ \E t \in PushToken : SavePhonePushRegistration(d, t)
              \/ \E t \in PushToken : DeletePhonePushRegistrationByHash(t)
       PROVE UNCHANGED <<members, devices>>
  BY <1>10 DEF ConsumeProvisioningToken, DeletePhonePushRegistration,
               SavePhonePushRegistration, DeletePhonePushRegistrationByHash
<1>11. Tick \/ UNCHANGED vars => UNCHANGED <<members, devices>>
  BY DEF Tick, vars
<1> QED
  BY <1>1, <1>2, <1>3, <1>4, <1>5, <1>6, <1>7, <1>8, <1>9, <1>10, <1>11
     DEF Next, HostStep, PartyForms, PhoneForms,
     JoinStep, PhoneStep, SetupStep, PushStep

(* No member ever has more saved phones than the limit: the count is read  *)
(* in the transaction that inserts, and a claim starts a new member.       *)
THEOREM DeviceLimit == Spec => []DeviceLimitHolds
<1>1. Init => DeviceLimitHolds
  BY DEF Init, DeviceLimitHolds
<1> QED
  BY <1>1, LimitNext, TypeCorrect, References, PTL DEF Spec

----------------------------------------------------------------------------
(* Cancellation.                                                           *)

CancelStep ==
  \A p \in DOMAIN parties \cap DOMAIN parties' :
    InvitationsOf(p) # InvitationsOf(p)' /\ InvitationsOf(p)' \subseteq InvitationsOf(p)
      => \A i \in InvitationsOf(p)' : ~Claimable(i, now)'

(* An expiry in an earlier whole second is past, to the half second.       *)
LEMMA SecondsAgo ==
  \A s, t \in Nat : s < Unix(t) => FromUnix(s) < t
BY DEF Unix, FromUnix

(* Nothing but a cancellation shortens the list of a party that stays.     *)
LEMMA ListKept ==
  ASSUME \A p \in DOMAIN parties \cap DOMAIN parties' :
           \/ InvitationsOf(p)' = InvitationsOf(p)
           \/ ~(InvitationsOf(p)' \subseteq InvitationsOf(p))
  PROVE  CancelStep
BY DEF CancelStep

LEMMA CancelNext == TypeOK /\ [Next]_vars => CancelStep
<1> SUFFICES ASSUME TypeOK, [Next]_vars PROVE CancelStep
  OBVIOUS
<1> DEFINE Kept == \A p \in DOMAIN parties \cap DOMAIN parties' :
                     InvitationsOf(p)' = InvitationsOf(p)
<1>a. Kept => CancelStep
  BY ListKept
<1>1. ASSUME NEW u \in User, NEW p \in DOMAIN parties,
             NEW at \in HandlerTimes, CancelActiveInvitationsForHost(u, p, at)
      PROVE CancelStep
  <2> DEFINE live == {i \in InvitationsOf(p) : Active(i, at)}
  <2>1. /\ DOMAIN invitations' = DOMAIN invitations \ live
        /\ \A i \in DOMAIN invitations' : invitations'[i] = invitations[i]
        /\ now' = now
    BY <1>1 DEF CancelActiveInvitationsForHost, Without
  <2> SUFFICES ASSUME NEW q \in DOMAIN parties, NEW i \in InvitationsOf(q)',
                      InvitationsOf(q) # InvitationsOf(q)',
                      InvitationsOf(q)' \subseteq InvitationsOf(q)
               PROVE  ~Claimable(i, now)'
    BY DEF CancelStep
  <2>2. CASE q = p
    <3>1. i \in InvitationsOf(p) /\ ~Active(i, at) /\ invitations'[i] = invitations[i]
      BY <2>1, <2>2 DEF InvitationsOf
    <3>2. invitations[i].expires \in Nat /\ now \in Nat /\ at \in Nat /\ at <= now
      BY <3>1, HandlerTime DEF InvitationsOf, TypeOK, IsTable, InvitationRow
    <3>3. \/ invitations[i].used
          \/ invitations[i].expires < Unix(at)
      BY <3>1, <3>2 DEF Active, Unix
    <3>4. invitations[i].used \/ FromUnix(invitations[i].expires) < now
      BY <3>2, <3>3, SecondsAgo DEF FromUnix
    <3> QED
      BY <2>1, <3>1, <3>4 DEF Claimable
  <2>3. CASE q # p
    <3>1. InvitationsOf(q)' = InvitationsOf(q)
      BY <2>1, <2>3 DEF InvitationsOf
    <3> QED
      BY <3>1
  <2> QED
    BY <2>2, <2>3
<1>2. ASSUME NEW u \in User, NEW p \in DOMAIN parties,
             NEW at \in HandlerTimes, CreateInvitation(u, p, at)
      PROVE CancelStep
  <2>1. NextInvitation \notin DOMAIN invitations
    BY DEF TypeOK, IssuedBelow
  <2>2. /\ DOMAIN invitations' = DOMAIN invitations \cup {NextInvitation}
        /\ \A i \in DOMAIN invitations : invitations'[i] = invitations[i]
        /\ invitations'[NextInvitation].party = p
    BY <1>2, <2>1 DEF CreateInvitation, Put
  <2>3. ASSUME NEW q \in DOMAIN parties, q # p
        PROVE  InvitationsOf(q)' = InvitationsOf(q)
    BY <2>2, <2>3 DEF InvitationsOf
  <2>4. ~(InvitationsOf(p)' \subseteq InvitationsOf(p))
    BY <2>1, <2>2 DEF InvitationsOf
  <2> QED
    BY <2>3, <2>4, ListKept
<1>3. ASSUME NEW u \in User, NEW p \in DOMAIN parties, DeleteParty(u, p)
      PROVE CancelStep
  <2>1. Kept
    BY <1>3 DEF DeleteParty, InvitationsOf, Without
  <2> QED
    BY <1>a, <2>1
<1>4. ASSUME NEW i \in DOMAIN invitations, NEW x \in Extension, NEW un \in Username,
             NEW at \in HandlerTimes, NEW web \in BOOLEAN,
             ClaimInvitation(i, x, un, at, web)
      PROVE CancelStep
  <2>1. DOMAIN invitations' = DOMAIN invitations
        /\ \A j \in DOMAIN invitations : invitations'[j].party = invitations[j].party
    BY <1>4 DEF ClaimInvitation, TypeOK, IsTable, InvitationRow
  <2>2. Kept
    BY <2>1 DEF InvitationsOf
  <2> QED
    BY <1>a, <2>2
<1>5. CASE UNCHANGED invitations
  <2>1. Kept
    BY <1>5 DEF InvitationsOf
  <2> QED
    BY <1>a, <2>1
<1>6. ASSUME NEW u \in User,
             \/ CreateParty(u)
             \/ \E m \in DOMAIN members :
                  \/ DeleteMember(u, m)
                  \/ \E un \in Username, at \in HandlerTimes : AddDeviceForHost(u, m, un, at)
             \/ \E d \in DOMAIN devices :
                  \/ RevokeDevice(u, d)
                  \/ \E un \in Username, at \in HandlerTimes : RotateDevice(u, d, un, at)
                  \/ \E ticked \in SUBSET Check : UpdateDeviceReadiness(u, d, ticked)
      PROVE UNCHANGED invitations
  BY <1>6 DEF CreateParty, DeleteMember, AddDeviceForHost, RevokeDevice,
              RotateDevice, ForgetCredential, UpdateDeviceReadiness
<1>7. PhoneStep \/ Tick \/ UNCHANGED vars => UNCHANGED invitations
  BY DEF PhoneStep, SetupStep, PushStep, ConsumeProvisioningToken, ChangeMemberExtensionByDevice,
         DeletePhonePushRegistration, SavePhonePushRegistration,
         DeletePhonePushRegistrationByHash, Tick, vars
<1> QED
  BY <1>1, <1>2, <1>3, <1>4, <1>5, <1>6, <1>7 DEF Next, HostStep, PartyForms, PhoneForms, JoinStep

(* After a cancellation no request that starts later finds a live link:    *)
(* comparing whole seconds never spares a link the exact time would accept. *)
THEOREM Cancellation == Spec => CancelLeavesNoLiveLink
<1>1. TypeOK /\ [Next]_vars
        => [\A p \in DOMAIN parties \cap DOMAIN parties' :
              InvitationsOf(p) # InvitationsOf(p)' /\ InvitationsOf(p)' \subseteq InvitationsOf(p)
                => \A i \in InvitationsOf(p)' : ~Claimable(i, now)']_vars
  BY CancelNext DEF CancelStep
<1> QED
  BY <1>1, TypeCorrect, PTL DEF Spec, CancelLeavesNoLiveLink

----------------------------------------------------------------------------
(* The directory implements CredentialLife.                                *)

DirInv == /\ TypeOK /\ ReferencesResolve /\ RevokedPhoneHoldsNothing
          /\ SecretsKept

LEMMA DirInvariant == Spec => []DirInv
<1>1. TypeOK /\ ReferencesResolve /\ RevokedPhoneHoldsNothing /\ SecretsKept => DirInv
  BY DEF DirInv
<1> QED
  BY <1>1, TypeCorrect, References, Revoked, Secrets, PTL

(* A link opens the secret of a phone in service, and a secret has one     *)
(* phone.                                                                  *)
LEMMA OwnSecrets ==
  ASSUME DirInv
  PROVE  /\ \A d \in DOMAIN setupLinks :
              d \in InService /\ setupLinks[d].secret = devices[d].secret
         /\ \A d, e \in DOMAIN devices : devices[d].secret = devices[e].secret => d = e
         /\ \A d \in DOMAIN devices : devices[d].secret \in DOMAIN fetched
         /\ DOMAIN fetched = 1..Len(fetched) /\ Len(fetched) \in Nat
         /\ \A k \in DOMAIN fetched : fetched[k] \in Nat
BY DEF DirInv, TypeOK, ReferencesResolve, RevokedPhoneHoldsNothing, SecretsKept,
       SetupLinkOpensOnce, InService

(* Phones D leave the service, with their links.                           *)
LEMMA RetireStep ==
  ASSUME DirInv, NEW D, UNCHANGED fetched,
         setupLinks' = Without(setupLinks, D),
         InService' = InService \ D,
         \A d \in InService \ D : devices'[d].secret = devices[d].secret
  PROVE  \E K \in SUBSET LiveSecrets : Life!Retire(K)
<1> DEFINE K == {devices[d].secret : d \in InService \cap D}
<1>1. K \in SUBSET LiveSecrets
  BY DEF LiveSecrets
<1>2. LiveSecrets' = LiveSecrets \ K
  BY OwnSecrets DEF LiveSecrets, InService
<1>3. /\ DOMAIN setupLinks' = DOMAIN setupLinks \ D
      /\ \A d \in DOMAIN setupLinks' : setupLinks'[d] = setupLinks[d]
  BY DEF Without
<1>4. OfferedSecrets' = OfferedSecrets \ K
  BY <1>3, OwnSecrets DEF OfferedSecrets, Unspent, InService
<1>5. DisclosedSecrets' = DisclosedSecrets
  BY DEF DisclosedSecrets
<1> QED
  BY <1>1, <1>2, <1>4, <1>5 DEF Life!Retire

(* Phone d, new or not, gets the next secret.                              *)
LEMMA IssueStep ==
  ASSUME DirInv, NEW d, NEW at,
         fetched' = Append(fetched, 0),
         DOMAIN devices' = DOMAIN devices \cup {d},
         devices'[d].secret = NextSecret, ~devices'[d].revoked,
         \A e \in DOMAIN devices \ {d} : devices'[e] = devices[e],
         \/ ReplaceProvisioningToken(d, at)
         \/ UNCHANGED setupLinks /\ d \notin DOMAIN devices
  PROVE  Life!LifeNext
<1> DEFINE old == {devices[e].secret : e \in InService \cap {d}}
           link == {setupLinks'[e].secret : e \in DOMAIN setupLinks' \cap {d}}
<1>1. /\ NextSecret \notin DOMAIN fetched
      /\ NextSecret = Len(fetched) + 1 /\ Len(fetched') = NextSecret
      /\ DOMAIN fetched' = DOMAIN fetched \cup {NextSecret}
      /\ fetched'[NextSecret] = 0
      /\ \A k \in DOMAIN fetched : fetched'[k] = fetched[k]
  BY NewSecret DEF DirInv, TypeOK, NextSecret
<1>2. DisclosedSecrets' = DisclosedSecrets
  BY <1>1, OwnSecrets DEF DisclosedSecrets
<1>3. LiveSecrets' = (LiveSecrets \ old) \cup {NextSecret}
  BY <1>1, OwnSecrets DEF LiveSecrets, InService
<1>4. \A e \in DOMAIN setupLinks' :
        \/ e = d /\ setupLinks'[e].secret = NextSecret /\ ~setupLinks'[e].used
        \/ e # d /\ e \in DOMAIN setupLinks /\ setupLinks'[e] = setupLinks[e]
  BY OwnSecrets DEF ReplaceProvisioningToken, Put, InService
<1>5. DOMAIN setupLinks \ {d} \subseteq DOMAIN setupLinks'
  BY DEF ReplaceProvisioningToken, Put
<1>6. OfferedSecrets' = (OfferedSecrets \ old) \cup link
  BY <1>4, <1>5, OwnSecrets DEF OfferedSecrets, Unspent, InService
<1>7. old \in {{}} \cup {{k} : k \in LiveSecrets}
  <2>1. CASE d \notin InService
    <3>1. old = {}
      BY <2>1
    <3> QED
      BY <3>1
  <2>2. CASE d \in InService
    <3>1. old = {devices[d].secret} /\ devices[d].secret \in LiveSecrets
      BY <2>2 DEF LiveSecrets
    <3> QED
      BY <3>1
  <2> QED
    BY <2>1, <2>2
<1>8. link \in {{}, {NextSecret}}
  BY <1>4
<1> HIDE DEF old, link
<1>9. Life!Issue(old, link)
  BY <1>1, <1>2, <1>3, <1>6 DEF Life!Issue
<1> QED
  BY <1>1, <1>7, <1>8, <1>9 DEF Life!LifeNext

(* A setup link hands out its phone's secret.                              *)
LEMMA DiscloseStep ==
  ASSUME DirInv, NEW k, NEW at, ConsumeProvisioningToken(k, at)
  PROVE  \E j \in OfferedSecrets : Life!Disclose(j)
<1>1. PICK d \in DOMAIN setupLinks :
        /\ setupLinks[d].secret = k /\ ~setupLinks[d].used
        /\ setupLinks' = [setupLinks EXCEPT ![d].used = TRUE]
        /\ fetched' = [fetched EXCEPT ![devices[d].secret] = @ + 1]
        /\ UNCHANGED devices
  BY DEF ConsumeProvisioningToken
<1>2. k = devices[d].secret /\ k \in DOMAIN fetched /\ k \in OfferedSecrets
  BY <1>1, OwnSecrets DEF OfferedSecrets, Unspent, InService
<1>3. /\ DOMAIN setupLinks' = DOMAIN setupLinks /\ setupLinks'[d].used
      /\ \A e \in DOMAIN setupLinks \ {d} : setupLinks'[e] = setupLinks[e]
  BY <1>1 DEF DirInv, TypeOK, IsTable, LinkRow
<1>4. OfferedSecrets' = OfferedSecrets \ {k}
  BY <1>1, <1>2, <1>3, OwnSecrets DEF OfferedSecrets, Unspent, InService
<1>5. /\ DOMAIN fetched' = DOMAIN fetched /\ fetched'[k] = fetched[k] + 1
      /\ \A j \in DOMAIN fetched \ {k} : fetched'[j] = fetched[j]
      /\ Len(fetched') = Len(fetched)
  BY <1>1, <1>2, Bump DEF DirInv, TypeOK
<1>6. DisclosedSecrets' = DisclosedSecrets \cup {k}
  BY <1>2, <1>5, OwnSecrets DEF DisclosedSecrets
<1>7. LiveSecrets' = LiveSecrets
  BY <1>1 DEF LiveSecrets, InService
<1> QED
  BY <1>2, <1>4, <1>5, <1>6, <1>7 DEF Life!Disclose

LEMMA LifeStep == DirInv /\ [Next]_vars => [Life!LifeNext]_(Life!lifeVars)
<1> SUFFICES ASSUME DirInv, [Next]_vars
             PROVE  [Life!LifeNext]_(Life!lifeVars)
  OBVIOUS
<1> DEFINE Retires == \E K \in SUBSET LiveSecrets : Life!Retire(K)
<1>a. Retires => Life!LifeNext
  BY DEF Life!LifeNext
<1>b. ASSUME NEW D, DropDevices(D), UNCHANGED fetched PROVE Retires
  <2>1. /\ InService' = InService \ D
        /\ \A d \in InService \ D : devices'[d].secret = devices[d].secret
    BY <1>b DEF DropDevices, Without, InService
  <2> QED
    BY <1>b, <2>1, RetireStep DEF DropDevices
<1>1. ASSUME NEW u \in User, NEW p \in DOMAIN parties, DeleteParty(u, p)
      PROVE Retires
  BY <1>1, <1>b DEF DeleteParty
<1>2. ASSUME NEW u \in User, NEW m \in DOMAIN members, DeleteMember(u, m)
      PROVE Retires
  BY <1>2, <1>b DEF DeleteMember
<1>3. ASSUME NEW u \in User, NEW d \in DOMAIN devices, RevokeDevice(u, d)
      PROVE Retires
  <2>1. /\ DOMAIN devices' = DOMAIN devices /\ devices'[d].revoked
        /\ \A e \in DOMAIN devices \ {d} : devices'[e] = devices[e]
        /\ UNCHANGED fetched /\ setupLinks' = Without(setupLinks, {d})
    BY <1>3 DEF RevokeDevice, DirInv, TypeOK, IsTable, DeviceRow
  <2>2. /\ InService' = InService \ {d}
        /\ \A e \in InService \ {d} : devices'[e].secret = devices[e].secret
    BY <2>1 DEF InService
  <2> QED
    BY <2>1, <2>2, RetireStep
<1>4. ASSUME NEW u \in User, NEW m \in DOMAIN members, NEW un \in Username,
             NEW at \in HandlerTimes, AddDeviceForHost(u, m, un, at)
      PROVE Life!LifeNext
  <2>1. /\ DOMAIN devices' = DOMAIN devices \cup {nextDevice}
        /\ devices'[nextDevice].secret = NextSecret /\ ~devices'[nextDevice].revoked
        /\ \A e \in DOMAIN devices \ {nextDevice} : devices'[e] = devices[e]
    BY <1>4 DEF AddDeviceForHost, Put
  <2> QED
    BY <1>4, <2>1, IssueStep DEF AddDeviceForHost
<1>5. ASSUME NEW u \in User, NEW d \in DOMAIN devices, NEW un \in Username,
             NEW at \in HandlerTimes, RotateDevice(u, d, un, at)
      PROVE Life!LifeNext
  <2>1. /\ DOMAIN devices' = DOMAIN devices \cup {d}
        /\ devices'[d].secret = NextSecret /\ ~devices'[d].revoked
        /\ \A e \in DOMAIN devices \ {d} : devices'[e] = devices[e]
    BY <1>5 DEF RotateDevice, ForgetCredential, DirInv, TypeOK, IsTable
  <2> QED
    BY <1>5, <2>1, IssueStep DEF RotateDevice, ForgetCredential
<1>6. ASSUME NEW i \in DOMAIN invitations, NEW x \in Extension, NEW un \in Username,
             NEW at \in HandlerTimes, NEW web \in BOOLEAN,
             ClaimInvitation(i, x, un, at, web)
      PROVE Life!LifeNext
  <2>1. /\ DOMAIN devices' = DOMAIN devices \cup {nextDevice}
        /\ devices'[nextDevice].secret = NextSecret /\ ~devices'[nextDevice].revoked
        /\ \A e \in DOMAIN devices \ {nextDevice} : devices'[e] = devices[e]
    BY <1>6 DEF ClaimInvitation, Put
  <2>2. nextDevice \notin DOMAIN devices
    BY DEF DirInv, TypeOK, IssuedBelow
  <2> QED
    BY <1>6, <2>1, <2>2, IssueStep DEF ClaimInvitation
<1>7. ASSUME NEW k \in DOMAIN fetched, NEW at \in HandlerTimes,
             ConsumeProvisioningToken(k, at)
      PROVE Life!LifeNext
  BY <1>7, DiscloseStep DEF Life!LifeNext
<1>8. UNCHANGED <<devices, setupLinks, fetched>> => UNCHANGED Life!lifeVars
  BY DEF Life!lifeVars, LiveSecrets, InService, OfferedSecrets, Unspent, DisclosedSecrets
<1>9. ASSUME NEW u \in User,
             \/ PartyForms(u) /\ ~\E p \in DOMAIN parties : DeleteParty(u, p)
             \/ \E d \in DOMAIN devices, ticked \in SUBSET Check :
                  UpdateDeviceReadiness(u, d, ticked)
      PROVE UNCHANGED <<devices, setupLinks, fetched>>
  BY <1>9 DEF PartyForms, CreateParty, CreateInvitation,
              CancelActiveInvitationsForHost, UpdateDeviceReadiness
<1>10. ASSUME \/ Tick \/ PushStep \/ UNCHANGED vars
              \/ \E p \in DOMAIN parties, un \in Username, x \in Extension :
                   ChangeMemberExtensionByDevice(p, un, x)
       PROVE UNCHANGED <<devices, setupLinks, fetched>>
  BY <1>10 DEF Tick, vars, PushStep, ChangeMemberExtensionByDevice,
               DeletePhonePushRegistration, SavePhonePushRegistration,
               DeletePhonePushRegistrationByHash
<1> QED
  BY <1>a, <1>1, <1>2, <1>3, <1>4, <1>5, <1>6, <1>7, <1>8, <1>9, <1>10
     DEF Next, HostStep, PartyForms, PhoneForms, JoinStep, PhoneStep, SetupStep

(* Every rotation, revocation, deletion, claim and setup link is a step of *)
(* CredentialLife, for any number of phones and hosts.                     *)
THEOREM ImplementsCredentialLife == Spec => CredentialsLive
<1>1. Init => Life!LifeInit
  BY DEF Init, Life!LifeInit, LiveSecrets, InService, OfferedSecrets, Unspent,
         DisclosedSecrets
<1> QED
  BY <1>1, LifeStep, DirInvariant, PTL DEF Spec, CredentialsLive, Life!LifeSpec

(* What that promises of one credential: after a rotation, a revocation or *)
(* a deletion has taken it out of service, no sequence of operations makes *)
(* it work again or hands it out.                                          *)
RetiredForGood ==
  [][\A k \in DOMAIN fetched : k \notin LiveSecrets =>
       k \notin LiveSecrets' /\ (k \in DisclosedSecrets' => k \in DisclosedSecrets)]_vars

(* It follows from CredentialLife, for any number of credentials.          *)
THEOREM NoCredentialReturns == Spec => RetiredForGood
<1> DEFINE Gone == \A k \in DOMAIN fetched : k \notin LiveSecrets =>
             k \notin LiveSecrets' /\ (k \in DisclosedSecrets' => k \in DisclosedSecrets)
<1>1. ASSUME DirInv, Life!LifeNext PROVE Gone
  <2>1. DOMAIN fetched = 1..Len(fetched) /\ Len(fetched) \in Nat
    BY <1>1, OwnSecrets
  <2>2. OfferedSecrets \subseteq LiveSecrets
    BY <1>1, OwnSecrets DEF OfferedSecrets, LiveSecrets, Unspent, InService
  <2>3. CASE \E old, link : Life!Issue(old, link)
    BY <2>1, <2>3 DEF Life!Issue
  <2>4. CASE \E k \in OfferedSecrets : Life!Disclose(k)
    BY <2>2, <2>4 DEF Life!Disclose
  <2>5. CASE \E K \in SUBSET LiveSecrets : Life!Retire(K)
    BY <2>5 DEF Life!Retire
  <2> QED
    BY <1>1, <2>3, <2>4, <2>5 DEF Life!LifeNext
<1>2. UNCHANGED Life!lifeVars => Gone
  BY DEF Life!lifeVars
<1>3. DirInv /\ [Next]_vars => [Gone]_vars
  BY <1>1, <1>2, LifeStep
<1> QED
  BY <1>3, DirInvariant, PTL DEF Spec, RetiredForGood

----------------------------------------------------------------------------
(* The directory implements Admission.                                     *)

(* Links are canceled, members leave, or neither.                          *)
LEMMA WithdrawStep ==
  ASSUME OpenInvitations' \subseteq OpenInvitations,
         \A i \in OpenInvitations' : invitations'[i].party = invitations[i].party,
         DOMAIN members' \subseteq DOMAIN members,
         \A m \in DOMAIN members' : members'[m].party = members[m].party,
         UNCHANGED <<admitted, nextMember>>
  PROVE  Joining!Withdraw
<1>1. OpenOffers' \subseteq OpenOffers
  BY DEF OpenOffers, Offer
<1>2. Memberships' \subseteq Memberships
  BY DEF Memberships, Membership
<1> QED
  BY <1>1, <1>2 DEF Joining!Withdraw

LEMMA OfferStep ==
  ASSUME TypeOK, NEW u, NEW p, NEW at, CreateInvitation(u, p, at)
  PROVE  Joining!Offer
<1> DEFINE o == [invitation |-> NextInvitation, party |-> p]
<1>1. /\ NextInvitation \notin DOMAIN invitations
      /\ Len(admitted') = Len(admitted) + 1 /\ Len(admitted') = NextInvitation
  BY DEF CreateInvitation, TypeOK, NextInvitation, IssuedBelow
<1>2. /\ OpenInvitations' = OpenInvitations \cup {NextInvitation}
      /\ \A i \in OpenInvitations :
           i # NextInvitation /\ invitations'[i] = invitations[i]
      /\ invitations'[NextInvitation].party = p
  BY <1>1 DEF CreateInvitation, Put, OpenInvitations
<1>3. \A i \in OpenInvitations' : Offer(i)' = IF i = NextInvitation THEN o ELSE Offer(i)
  BY <1>2 DEF Offer
<1>4. OpenOffers' = OpenOffers \cup {o}
  <2>1. \A y \in OpenOffers' : y \in OpenOffers \cup {o}
    BY <1>2, <1>3 DEF OpenOffers
  <2>2. \A y \in OpenOffers : y \in OpenOffers'
    BY <1>2, <1>3 DEF OpenOffers
  <2>3. o \in OpenOffers'
    BY <1>2, <1>3 DEF OpenOffers
  <2> QED
    BY <2>1, <2>2, <2>3
<1>5. o.invitation = NextInvitation
  OBVIOUS
<1>6. Memberships' = Memberships /\ nextMember' = nextMember
  BY DEF CreateInvitation, Memberships, Membership, counters
<1> HIDE DEF o
<1>7. o \in OpenOffers'
  BY <1>4
<1> QED
  BY <1>1, <1>4, <1>5, <1>6, <1>7 DEF Joining!Offer

LEMMA AdmitStep ==
  ASSUME TypeOK, NEW i, NEW x, NEW un, NEW at, NEW web \in BOOLEAN,
         ClaimInvitation(i, x, un, at, web)
  PROVE  \E o \in OpenOffers : Joining!Admit(o)
<1> DEFINE new == [member |-> nextMember, party |-> invitations[i].party]
<1>1. /\ i \in OpenInvitations
      /\ invitations' = [invitations EXCEPT ![i].used = TRUE]
      /\ members' = Put(members, nextMember, [party |-> invitations[i].party, ext |-> x])
      /\ admitted' = [admitted EXCEPT ![i] = @ + 1]
      /\ nextMember' = nextMember + 1
  BY DEF ClaimInvitation, Claimable, OpenInvitations
<1>2. OpenInvitations' = OpenInvitations \ {i}
      /\ \A j \in OpenInvitations \ {i} : invitations'[j] = invitations[j]
  BY <1>1 DEF OpenInvitations, TypeOK, IsTable, InvitationRow
<1>3. /\ \A j \in OpenInvitations \ {i} : Offer(j)' = Offer(j)
      /\ \A j \in OpenInvitations : Offer(j) = Offer(i) => j = i
  BY <1>2 DEF Offer
<1>4. OpenOffers' = OpenOffers \ {Offer(i)}
  BY <1>1, <1>2, <1>3 DEF OpenOffers
<1>5. nextMember \notin DOMAIN members /\ nextMember \in Nat
  BY DEF TypeOK, IssuedBelow
<1>6. /\ DOMAIN members' = DOMAIN members \cup {nextMember}
      /\ \A m \in DOMAIN members : m # nextMember /\ members'[m] = members[m]
      /\ members'[nextMember].party = invitations[i].party
  BY <1>1, <1>5 DEF Put
<1>7. \A m \in DOMAIN members' :
        Membership(m)' = IF m = nextMember THEN new ELSE Membership(m)
  BY <1>6 DEF Membership
<1>8. Memberships' = Memberships \cup {new}
  <2>1. \A y \in Memberships' : y \in Memberships \cup {new}
    BY <1>6, <1>7 DEF Memberships
  <2>2. \A y \in Memberships : y \in Memberships'
    BY <1>6, <1>7 DEF Memberships
  <2>3. new \in Memberships'
    BY <1>6, <1>7 DEF Memberships
  <2> QED
    BY <2>1, <2>2, <2>3
<1>9. new = [member |-> nextMember' - 1, party |-> Offer(i).party]
  BY <1>1, <1>5 DEF Offer
<1>10. nextMember' - 1 = (nextMember - 1) + 1 /\ Len(admitted') = Len(admitted)
  BY <1>1, <1>5, Bump DEF TypeOK, OpenInvitations, IssuedBelow, NextInvitation
<1>11. Offer(i) \in OpenOffers
  BY <1>1 DEF OpenOffers
<1> QED
  BY <1>4, <1>8, <1>9, <1>10, <1>11 DEF Joining!Admit

LEMMA AdmissionStep ==
  TypeOK /\ [Next]_vars => [Joining!AdmissionNext]_(Joining!admissionVars)
<1> SUFFICES ASSUME TypeOK, [Next]_vars
             PROVE  [Joining!AdmissionNext]_(Joining!admissionVars)
  OBVIOUS
<1> USE DEF OpenInvitations
<1>1. ASSUME NEW u \in User, NEW p \in DOMAIN parties,
             NEW at \in HandlerTimes, CreateInvitation(u, p, at)
      PROVE Joining!Offer
  BY <1>1, OfferStep
<1>2. ASSUME NEW i \in DOMAIN invitations, NEW x \in Extension, NEW un \in Username,
             NEW at \in HandlerTimes, NEW web \in BOOLEAN,
             ClaimInvitation(i, x, un, at, web)
      PROVE \E o \in OpenOffers : Joining!Admit(o)
  BY <1>2, AdmitStep
<1>3. ASSUME NEW u \in User, NEW p \in DOMAIN parties,
             NEW at \in HandlerTimes, CancelActiveInvitationsForHost(u, p, at)
      PROVE Joining!Withdraw
  BY <1>3, WithdrawStep DEF CancelActiveInvitationsForHost, Without, counters
<1>4. ASSUME NEW u \in User, NEW p \in DOMAIN parties, DeleteParty(u, p)
      PROVE Joining!Withdraw
  BY <1>4, WithdrawStep DEF DeleteParty, Without, counters
<1>5. ASSUME NEW u \in User, NEW m \in DOMAIN members, DeleteMember(u, m)
      PROVE Joining!Withdraw
  BY <1>5, WithdrawStep DEF DeleteMember, Without, counters
<1>6. ASSUME NEW p \in DOMAIN parties, NEW un \in Username, NEW x \in Extension,
             ChangeMemberExtensionByDevice(p, un, x)
      PROVE Joining!Withdraw
  <2>1. /\ DOMAIN members' = DOMAIN members
        /\ \A m \in DOMAIN members : members'[m].party = members[m].party
        /\ UNCHANGED <<invitations, admitted, nextMember>>
    BY <1>6 DEF ChangeMemberExtensionByDevice, TypeOK, IsTable, MemberRow, counters
  <2> QED
    BY <2>1, WithdrawStep
<1>7. UNCHANGED <<invitations, members, admitted, nextMember>>
        => UNCHANGED Joining!admissionVars
  BY DEF Joining!admissionVars, OpenOffers, Offer, Memberships, Membership
<1>8. ASSUME NEW u \in User,
             \/ CreateParty(u)
             \/ \E m \in DOMAIN members, un \in Username, at \in HandlerTimes :
                  AddDeviceForHost(u, m, un, at)
             \/ \E d \in DOMAIN devices :
                  \/ RevokeDevice(u, d)
                  \/ \E un \in Username, at \in HandlerTimes : RotateDevice(u, d, un, at)
                  \/ \E ticked \in SUBSET Check : UpdateDeviceReadiness(u, d, ticked)
      PROVE UNCHANGED <<invitations, members, admitted, nextMember>>
  BY <1>8 DEF CreateParty, AddDeviceForHost, RevokeDevice, RotateDevice,
              ForgetCredential, UpdateDeviceReadiness, counters
<1>9. Tick \/ SetupStep \/ PushStep \/ UNCHANGED vars
        => UNCHANGED <<invitations, members, admitted, nextMember>>
  BY DEF Tick, vars, SetupStep, PushStep, ConsumeProvisioningToken, counters,
         DeletePhonePushRegistration, SavePhonePushRegistration,
         DeletePhonePushRegistrationByHash
<1> QED
  BY <1>1, <1>2, <1>3, <1>4, <1>5, <1>6, <1>7, <1>8, <1>9
     DEF Next, HostStep, PartyForms, PhoneForms, JoinStep, PhoneStep,
         Joining!AdmissionNext

(* Whatever is canceled, deleted or claimed at the same time, membership   *)
(* changes as Admission says, for any number of parties and invitations.   *)
THEOREM ImplementsAdmission == Spec => MembersAreInvited
<1>1. Init => Joining!AdmissionInit
  BY DEF Init, Joining!AdmissionInit, OpenOffers, OpenInvitations, Memberships
<1> QED
  BY <1>1, AdmissionStep, TypeCorrect, PTL DEF Spec, MembersAreInvited,
     Joining!AdmissionSpec

(* What that promises of one invitation and one member: an invitation that *)
(* was claimed, canceled or deleted with its party is never open again, and *)
(* a member who was removed is never a member again.                       *)
LeftForGood ==
  [][/\ \A i \in DOMAIN admitted : i \notin OpenInvitations => i \notin OpenInvitations'
     /\ \A m \in 1..(nextMember - 1) :
          m \notin DOMAIN members => m \notin DOMAIN members']_vars

(* It follows from Admission, for any number of hosts and parties.         *)
THEOREM NoInvitationReopens == Spec => LeftForGood
<1> DEFINE Final ==
      /\ \A i \in DOMAIN admitted : i \notin OpenInvitations => i \notin OpenInvitations'
      /\ \A m \in 1..(nextMember - 1) :
           m \notin DOMAIN members => m \notin DOMAIN members'
(* An offer names its invitation, and a membership its member. *)
<1>0. /\ \A o \in OpenOffers : o.invitation \in OpenInvitations
      /\ \A i \in OpenInvitations' : \E o \in OpenOffers' : o.invitation = i
      /\ \A o \in Memberships : o.member \in DOMAIN members
      /\ \A m \in DOMAIN members' : \E o \in Memberships' : o.member = m
  <2>1. \A o \in OpenOffers : o.invitation \in OpenInvitations
    BY DEF OpenOffers, Offer
  <2>2. \A i \in OpenInvitations' :
          [invitation |-> i, party |-> invitations'[i].party] \in OpenOffers'
    BY DEF OpenOffers, Offer
  <2>3. \A o \in Memberships : o.member \in DOMAIN members
    BY DEF Memberships, Membership
  <2>4. \A m \in DOMAIN members' :
          [member |-> m, party |-> members'[m].party] \in Memberships'
    BY DEF Memberships, Membership
  <2> QED
    BY <2>1, <2>2, <2>3, <2>4
<1>1. ASSUME TypeOK, Joining!AdmissionNext PROVE Final
  <2>1. DOMAIN admitted = 1..Len(admitted) /\ Len(admitted) \in Nat /\ nextMember \in Nat
    BY <1>1 DEF TypeOK
  <2>2. \A o \in OpenOffers' : o \in OpenOffers \/ o.invitation = Len(admitted) + 1
    BY <1>1 DEF Joining!AdmissionNext, Joining!Offer, Joining!Admit, Joining!Withdraw
  <2>3. \A o \in Memberships' : o \in Memberships \/ o.member = nextMember
    BY <1>1, <2>1 DEF Joining!AdmissionNext, Joining!Offer, Joining!Admit,
                      Joining!Withdraw
  <2>4. \A i \in DOMAIN admitted : i # Len(admitted) + 1
    BY <2>1
  <2>5. \A m \in 1..(nextMember - 1) : m # nextMember
    BY <2>1
  <2>6. \A i \in OpenInvitations' : i \in OpenInvitations \/ i = Len(admitted) + 1
    BY <1>0, <2>2, Zenon
  <2>7. \A m \in DOMAIN members' : m \in DOMAIN members \/ m = nextMember
    BY <1>0, <2>3, Zenon
  <2> QED
    BY <2>4, <2>5, <2>6, <2>7, Zenon
<1>2. ASSUME UNCHANGED Joining!admissionVars PROVE Final
  <2>1. OpenOffers' = OpenOffers /\ Memberships' = Memberships
    BY <1>2 DEF Joining!admissionVars
  <2>2. \A i \in OpenInvitations' : i \in OpenInvitations
    BY <1>0, <2>1, Zenon
  <2>3. \A m \in DOMAIN members' : m \in DOMAIN members
    BY <1>0, <2>1, Zenon
  <2> QED
    BY <2>2, <2>3, Zenon
<1>3. TypeOK /\ [Next]_vars => [Final]_vars
  BY <1>1, <1>2, AdmissionStep
<1> QED
  BY <1>3, TypeCorrect, PTL DEF Spec, LeftForGood

----------------------------------------------------------------------------
(* Parties share nothing.  A step touches party p when the invitations,    *)
(* members and phones it makes, changes or removes are p's.                *)

SameOutside(f, g, K) ==
  \A k : k \notin K => /\ (k \in DOMAIN f) = (k \in DOMAIN g)
                      /\ (k \in DOMAIN f => f[k] = g[k])

BelongTo(p, I, M, D) ==
  /\ \A i \in I \cap DOMAIN invitations : invitations[i].party = p
  /\ \A m \in M \cap DOMAIN members : members[m].party = p
  /\ \A d \in D \cap DOMAIN devices : devices[d].member \in MembersOf(p)

Touches(p, I, M, D) ==
  /\ BelongTo(p, I, M, D) /\ BelongTo(p, I, M, D)'
  /\ SameOutside(parties, parties', {p})
  /\ SameOutside(invitations, invitations', I)
  /\ SameOutside(members, members', M)
  /\ SameOutside(devices, devices', D)
  /\ SameOutside(setupLinks, setupLinks', D)
  /\ SameOutside(readiness, readiness', D)
  /\ SameOutside(pushTokens, pushTokens', D)

LEMMA OnlySame ==
  ASSUME NEW f, NEW g, NEW K, NEW T, SameOutside(f, g, T), K \cap T = {}
  PROVE  Only(f, K) = Only(g, K)
<1>1. DOMAIN f \cap K = DOMAIN g \cap K
  BY DEF SameOutside
<1>2. \A k \in DOMAIN f \cap K : f[k] = g[k]
  BY DEF SameOutside
<1> QED
  BY <1>1, <1>2 DEF Only

LEMMA DropsOnly ==
  ASSUME NEW f, NEW K
  PROVE  SameOutside(f, Without(f, K), K) /\ DOMAIN Without(f, K) \cap K = {}
BY DEF SameOutside, Without

LEMMA KeepsSame == \A f, K : SameOutside(f, f, K)
BY DEF SameOutside

LEMMA UntouchedRows ==
  ASSUME NEW p, NEW I, NEW M, NEW D, Touches(p, I, M, D), NEW q, q # p
  PROVE  PartyRows(q)' = PartyRows(q)
<1> USE DEF Touches, BelongTo
<1>1. InvitationsOf(q)' = InvitationsOf(q) /\ InvitationsOf(q) \cap I = {}
  BY DEF InvitationsOf, SameOutside
<1>2. MembersOf(q)' = MembersOf(q) /\ MembersOf(q) \cap M = {}
  BY DEF MembersOf, SameOutside
<1>3. MembersOf(q) \cap MembersOf(p) = {} /\ MembersOf(q)' \cap MembersOf(p)' = {}
  BY DEF MembersOf
<1> DEFINE Q == DevicesOf(MembersOf(q))
<1>4. Q' = Q /\ Q \cap D = {}
  BY <1>2, <1>3 DEF DevicesOf, SameOutside
<1> HIDE DEF Q
<1>5. Only(parties, {q}) = Only(parties', {q})
  BY OnlySame
<1>6. Only(invitations, InvitationsOf(q)) = Only(invitations', InvitationsOf(q)')
  BY <1>1, OnlySame
<1>7. Only(members, MembersOf(q)) = Only(members', MembersOf(q)')
  BY <1>2, OnlySame
<1>8. /\ Only(devices, Q) = Only(devices', Q')
      /\ Only(setupLinks, Q) = Only(setupLinks', Q')
      /\ Only(readiness, Q) = Only(readiness', Q')
      /\ Only(pushTokens, Q) = Only(pushTokens', Q')
  BY <1>4, OnlySame
<1>9. /\ Only(parties, {q})' = Only(parties', {q})
      /\ Only(invitations, InvitationsOf(q))' = Only(invitations', InvitationsOf(q)')
      /\ Only(members, MembersOf(q))' = Only(members', MembersOf(q)')
      /\ Only(devices, Q)' = Only(devices', Q')
      /\ Only(setupLinks, Q)' = Only(setupLinks', Q')
      /\ Only(readiness, Q)' = Only(readiness', Q')
      /\ Only(pushTokens, Q)' = Only(pushTokens', Q')
  BY DEF Only
<1> QED
  BY <1>5, <1>6, <1>7, <1>8, <1>9 DEF PartyRows, Q

SharesNothing ==
  \A p, q \in DOMAIN parties \cup DOMAIN parties' :
    p < q => PartyRows(p)' = PartyRows(p) \/ PartyRows(q)' = PartyRows(q)

LEMMA OneTouched ==
  ASSUME TypeOK, TypeOK', NEW p, NEW I, NEW M, NEW D, Touches(p, I, M, D)
  PROVE  SharesNothing
<1> SUFFICES ASSUME NEW q \in DOMAIN parties \cup DOMAIN parties',
                    NEW r \in DOMAIN parties \cup DOMAIN parties', q < r
             PROVE  PartyRows(q)' = PartyRows(q) \/ PartyRows(r)' = PartyRows(r)
  BY DEF SharesNothing
<1>1. q \in Nat /\ r \in Nat
  BY DEF TypeOK, IssuedBelow
<1>2. q # p \/ r # p
  BY <1>1
<1> QED
  BY <1>2, UntouchedRows

(* A step on one phone of the party, or on what hangs off it.              *)
LEMMA OnePhone ==
  ASSUME TypeOK, ReferencesResolve, NEW d,
         UNCHANGED <<parties, invitations, members>>,
         d \in DOMAIN devices \/ devices'[d].member \in DOMAIN members,
         d \in DOMAIN devices /\ d \in DOMAIN devices'
           => devices'[d].member = devices[d].member,
         SameOutside(devices, devices', {d}),
         SameOutside(setupLinks, setupLinks', {d}),
         SameOutside(readiness, readiness', {d}),
         SameOutside(pushTokens, pushTokens', {d})
  PROVE  \E p : Touches(p, {}, {}, {d})
<1> DEFINE m == IF d \in DOMAIN devices THEN devices[d].member ELSE devices'[d].member
<1>1. m \in MembersOf(members[m].party)
  BY DEF ReferencesResolve, MembersOf
<1>2. \A p : MembersOf(p)' = MembersOf(p)
  BY DEF MembersOf
<1>3. BelongTo(members[m].party, {}, {}, {d})
  BY <1>1 DEF BelongTo
<1>4. \A e \in {d} \cap DOMAIN devices' : devices'[e].member = m
  OBVIOUS
<1> HIDE DEF m
<1>5. \E p : p = members[m].party
  OBVIOUS
<1>6. PICK p : p = members[m].party
  BY <1>5
<1>7. BelongTo(p, {}, {}, {d})'
  BY <1>1, <1>2, <1>4, <1>6 DEF BelongTo
<1>8. SameOutside(parties, parties', {p}) /\ SameOutside(invitations, invitations', {})
      /\ SameOutside(members, members', {})
  BY DEF SameOutside
<1> QED
  BY <1>3, <1>6, <1>7, <1>8 DEF Touches

LEMMA SharingStep ==
  TypeOK /\ TypeOK' /\ ReferencesResolve /\ ReferencesResolve'
    /\ NamesAreUnambiguous /\ [Next]_vars => SharesNothing
<1> SUFFICES ASSUME TypeOK, TypeOK', ReferencesResolve, ReferencesResolve',
                    NamesAreUnambiguous, [Next]_vars
             PROVE  SharesNothing
  OBVIOUS
<1> DEFINE Local == \E p, I, M, D : Touches(p, I, M, D)
<1>a. Local => SharesNothing
  BY OneTouched
<1>b. ASSUME NEW p, Touches(p, {}, {}, {}) PROVE Local
  BY <1>b
<1>c. (\E p, d : Touches(p, {}, {}, {d})) => Local
  OBVIOUS
<1> HIDE DEF Local
<1> USE DEF counters
<1>1. ASSUME NEW u \in User, CreateParty(u) PROVE Local
  <2>1. Touches(nextParty, {}, {}, {})
    BY <1>1 DEF CreateParty, Touches, BelongTo, SameOutside, Put
  <2> QED
    BY <2>1 DEF Local
<1>2. ASSUME NEW u \in User, NEW p \in DOMAIN parties, DeleteParty(u, p) PROVE Local
  <2>1. PICK I, M, D : /\ I = InvitationsOf(p) /\ M = MembersOf(p)
                       /\ D = DevicesOf(MembersOf(p))
    OBVIOUS
  <2>2. /\ parties' = Without(parties, {p}) /\ invitations' = Without(invitations, I)
        /\ members' = Without(members, M) /\ devices' = Without(devices, D)
        /\ setupLinks' = Without(setupLinks, D) /\ readiness' = Without(readiness, D)
        /\ pushTokens' = Without(pushTokens, D)
    BY <1>2, <2>1 DEF DeleteParty, DropDevices
  <2>3. BelongTo(p, I, M, D)
    BY <2>1 DEF BelongTo, InvitationsOf, MembersOf, DevicesOf
  <2>4. BelongTo(p, I, M, D)'
    BY <2>2, DropsOnly DEF BelongTo
  <2>5. Touches(p, I, M, D)
    BY <2>2, <2>3, <2>4, DropsOnly DEF Touches
  <2> QED
    BY <2>5 DEF Local
<1>3. ASSUME NEW u \in User, NEW p \in DOMAIN parties,
             NEW at \in HandlerTimes, CreateInvitation(u, p, at)
      PROVE Local
  <2>1. PICK n : n = NextInvitation
    OBVIOUS
  <2>2. /\ DOMAIN invitations' = DOMAIN invitations \cup {n}
        /\ n \notin DOMAIN invitations /\ invitations'[n].party = p
        /\ \A i \in DOMAIN invitations : i # n /\ invitations'[i] = invitations[i]
        /\ UNCHANGED <<parties, members, devices, setupLinks, readiness, pushTokens>>
    BY <1>3, <2>1 DEF CreateInvitation, Put, TypeOK, IssuedBelow
  <2>3. Touches(p, {n}, {}, {})
    BY <2>2 DEF Touches, BelongTo, SameOutside
  <2> QED
    BY <2>3 DEF Local
<1>4. ASSUME NEW u \in User, NEW p \in DOMAIN parties,
             NEW at \in HandlerTimes, CancelActiveInvitationsForHost(u, p, at)
      PROVE Local
  <2>1. PICK I : I = {i \in InvitationsOf(p) : Active(i, at)}
    OBVIOUS
  <2>2. /\ invitations' = Without(invitations, I)
        /\ UNCHANGED <<parties, members, devices, setupLinks, readiness, pushTokens>>
    BY <1>4, <2>1 DEF CancelActiveInvitationsForHost
  <2>3. BelongTo(p, I, {}, {})
    BY <2>1 DEF BelongTo, InvitationsOf
  <2>4. BelongTo(p, I, {}, {})'
    BY <2>2, DropsOnly DEF BelongTo
  <2>5. Touches(p, I, {}, {})
    BY <2>2, <2>3, <2>4, DropsOnly, KeepsSame DEF Touches
  <2> QED
    BY <2>5 DEF Local
<1>5. ASSUME NEW u \in User, NEW m \in DOMAIN members, DeleteMember(u, m) PROVE Local
  <2>1. PICK p : p = members[m].party
    OBVIOUS
  <2>2. PICK D : D = DevicesOf({m})
    OBVIOUS
  <2>3. /\ UNCHANGED <<parties, invitations>>
        /\ members' = Without(members, {m}) /\ devices' = Without(devices, D)
        /\ setupLinks' = Without(setupLinks, D) /\ readiness' = Without(readiness, D)
        /\ pushTokens' = Without(pushTokens, D)
    BY <1>5, <2>2 DEF DeleteMember, DropDevices
  <2>4. BelongTo(p, {}, {m}, D)
    BY <2>1, <2>2 DEF BelongTo, MembersOf, DevicesOf
  <2>5. BelongTo(p, {}, {m}, D)'
    BY <2>3, DropsOnly DEF BelongTo
  <2>6. Touches(p, {}, {m}, D)
    BY <2>3, <2>4, <2>5, DropsOnly, KeepsSame DEF Touches
  <2> QED
    BY <2>6 DEF Local
<1>6. ASSUME NEW u \in User, NEW m \in DOMAIN members, NEW un \in Username,
             NEW at \in HandlerTimes, AddDeviceForHost(u, m, un, at)
      PROVE Local
  <2>1. PICK d : d = nextDevice
    OBVIOUS
  <2>2. \E p : Touches(p, {}, {}, {d})
    <3>1. /\ UNCHANGED <<parties, invitations, members, readiness, pushTokens>>
          /\ d \notin DOMAIN devices /\ devices'[d].member = m
          /\ SameOutside(devices, devices', {d})
          /\ SameOutside(setupLinks, setupLinks', {d})
      BY <1>6, <2>1 DEF AddDeviceForHost, ReplaceProvisioningToken, Put, SameOutside,
                        TypeOK, IssuedBelow
    <3>2. SameOutside(readiness, readiness', {d}) /\ SameOutside(pushTokens, pushTokens', {d})
      BY <3>1 DEF SameOutside
    <3> QED
      BY <3>1, <3>2, OnePhone
  <2> QED
    BY <2>2, <1>c
<1>7. ASSUME NEW u \in User, NEW d \in DOMAIN devices, NEW un \in Username,
             NEW at \in HandlerTimes, RotateDevice(u, d, un, at)
      PROVE Local
  <2>1. /\ UNCHANGED <<parties, invitations, members>>
        /\ devices'[d].member = devices[d].member
        /\ SameOutside(devices, devices', {d})
        /\ SameOutside(setupLinks, setupLinks', {d})
        /\ SameOutside(readiness, readiness', {d})
        /\ SameOutside(pushTokens, pushTokens', {d})
    BY <1>7 DEF RotateDevice, ForgetCredential, ReplaceProvisioningToken, Put, Without,
                SameOutside, TypeOK, IsTable
  <2> QED
    BY <2>1, <1>c, OnePhone
<1>8. ASSUME NEW u \in User, NEW d \in DOMAIN devices, RevokeDevice(u, d) PROVE Local
  <2>1. /\ UNCHANGED <<parties, invitations, members>>
        /\ devices'[d].member = devices[d].member
        /\ DOMAIN devices' = DOMAIN devices
        /\ \A e \in DOMAIN devices \ {d} : devices'[e] = devices[e]
    BY <1>8 DEF RevokeDevice, TypeOK, IsTable, DeviceRow
  <2>2. SameOutside(devices, devices', {d})
    BY <2>1 DEF SameOutside
  <2>3. /\ SameOutside(setupLinks, setupLinks', {d})
        /\ SameOutside(readiness, readiness', {d})
        /\ SameOutside(pushTokens, pushTokens', {d})
    BY <1>8 DEF RevokeDevice, Without, SameOutside
  <2> QED
    BY <2>1, <2>2, <2>3, <1>c, OnePhone
<1>9. ASSUME NEW d \in DOMAIN devices, UNCHANGED <<parties, invitations, members, devices>>,
             SameOutside(setupLinks, setupLinks', {d}),
             SameOutside(readiness, readiness', {d}),
             SameOutside(pushTokens, pushTokens', {d})
      PROVE Local
  <2>1. SameOutside(devices, devices', {d})
    BY <1>9 DEF SameOutside
  <2> QED
    BY <1>9, <2>1, <1>c, OnePhone
<1>10. ASSUME NEW u \in User, NEW d \in DOMAIN devices, NEW ticked \in SUBSET Check,
              UpdateDeviceReadiness(u, d, ticked)
       PROVE Local
  <2>1. /\ UNCHANGED <<parties, invitations, members, devices, setupLinks, pushTokens>>
        /\ SameOutside(readiness, readiness', {d})
    BY <1>10 DEF UpdateDeviceReadiness, Put, Without, SameOutside
  <2> QED
    BY <2>1, <1>9 DEF SameOutside
<1>11. ASSUME NEW k \in DOMAIN fetched, NEW at \in HandlerTimes,
              ConsumeProvisioningToken(k, at)
       PROVE Local
  <2>1. PICK d \in DOMAIN setupLinks :
          setupLinks' = [setupLinks EXCEPT ![d].used = TRUE]
    BY <1>11 DEF ConsumeProvisioningToken
  <2>2. d \in DOMAIN devices /\ SameOutside(setupLinks, setupLinks', {d})
    BY <2>1 DEF ReferencesResolve, SameOutside
  <2> QED
    BY <1>9, <1>11, <2>2 DEF ConsumeProvisioningToken, SameOutside
<1>12. ASSUME NEW d \in DOMAIN devices,
              \/ DeletePhonePushRegistration(d)
              \/ \E t \in PushToken : SavePhonePushRegistration(d, t)
       PROVE Local
  <2>1. /\ UNCHANGED <<parties, invitations, members, devices, setupLinks, readiness>>
        /\ SameOutside(pushTokens, pushTokens', {d})
    BY <1>12 DEF DeletePhonePushRegistration, SavePhonePushRegistration, Put, Without,
                 SameOutside
  <2> QED
    BY <2>1, <1>9 DEF SameOutside
<1>13. ASSUME NEW t \in PushToken, DeletePhonePushRegistrationByHash(t) PROVE Local
  <2>0. UNCHANGED <<parties, invitations, members, devices, setupLinks, readiness>>
    BY <1>13 DEF DeletePhonePushRegistrationByHash
  <2>1. CASE \E d \in DOMAIN pushTokens : pushTokens[d] = t
    <3>1. PICK d \in DOMAIN pushTokens : pushTokens[d] = t
      BY <2>1
    <3>2. d \in DOMAIN devices /\ SameOutside(pushTokens, pushTokens', {d})
      BY <1>13, <3>1 DEF DeletePhonePushRegistrationByHash, Without, SameOutside,
                         NamesAreUnambiguous, ReferencesResolve
    <3> QED
      BY <2>0, <3>2, <1>9 DEF SameOutside
  <2>2. CASE ~\E d \in DOMAIN pushTokens : pushTokens[d] = t
    <3>1. SameOutside(pushTokens, pushTokens', {})
      BY <1>13, <2>2 DEF DeletePhonePushRegistrationByHash, Without, SameOutside
    <3>2. \A p : Touches(p, {}, {}, {})
      BY <2>0, <3>1 DEF Touches, BelongTo, SameOutside
    <3> QED
      BY <3>2 DEF Local
  <2> QED
    BY <2>1, <2>2
<1>14. ASSUME NEW p \in DOMAIN parties, NEW un \in Username, NEW x \in Extension,
              ChangeMemberExtensionByDevice(p, un, x)
       PROVE Local
  <2>1. PICK m \in MembersOf(p) : members' = [members EXCEPT ![m].ext = x]
    BY <1>14 DEF ChangeMemberExtensionByDevice
  <2>2. /\ DOMAIN members' = DOMAIN members /\ members'[m].party = p /\ m \in DOMAIN members
        /\ \A n \in DOMAIN members \ {m} : members'[n] = members[n]
        /\ UNCHANGED <<parties, invitations, devices, setupLinks, readiness, pushTokens>>
    BY <1>14, <2>1 DEF ChangeMemberExtensionByDevice, TypeOK, IsTable, MemberRow, MembersOf
  <2>3. Touches(p, {}, {m}, {})
    BY <2>1, <2>2 DEF Touches, BelongTo, SameOutside, MembersOf
  <2> QED
    BY <2>3 DEF Local
<1>15. ASSUME NEW i \in DOMAIN invitations, NEW x \in Extension, NEW un \in Username,
              NEW at \in HandlerTimes, NEW web \in BOOLEAN,
              ClaimInvitation(i, x, un, at, web)
       PROVE Local
  <2>1. PICK p, m, d : p = invitations[i].party /\ m = nextMember /\ d = nextDevice
    OBVIOUS
  <2>2. /\ DOMAIN invitations' = DOMAIN invitations /\ invitations'[i].party = p
        /\ \A j \in DOMAIN invitations \ {i} : invitations'[j] = invitations[j]
    BY <1>15, <2>1 DEF ClaimInvitation, TypeOK, IsTable, InvitationRow
  <2>3. /\ DOMAIN members' = DOMAIN members \cup {m} /\ members'[m].party = p
        /\ m \notin DOMAIN members
        /\ \A n \in DOMAIN members : members'[n] = members[n]
    BY <1>15, <2>1 DEF ClaimInvitation, Put, TypeOK, IssuedBelow
  <2>4. /\ d \notin DOMAIN devices /\ devices'[d].member = m
        /\ SameOutside(devices, devices', {d})
        /\ SameOutside(setupLinks, setupLinks', {d})
        /\ UNCHANGED <<parties, readiness, pushTokens>>
    <3>1. UNCHANGED <<parties, readiness, pushTokens>> /\ d \notin DOMAIN devices
      BY <1>15, <2>1 DEF ClaimInvitation, TypeOK, IssuedBelow
    <3>2. devices'[d].member = m /\ SameOutside(devices, devices', {d})
      BY <1>15, <2>1 DEF ClaimInvitation, Put, SameOutside
    <3>3. SameOutside(setupLinks, setupLinks', {d})
      BY <1>15, <2>1 DEF ClaimInvitation, ReplaceProvisioningToken, Put, SameOutside
    <3> QED
      BY <3>1, <3>2, <3>3
  <2>5. BelongTo(p, {i}, {m}, {d})
    BY <2>1, <2>3, <2>4 DEF BelongTo
  <2>6. BelongTo(p, {i}, {m}, {d})'
    BY <2>2, <2>3, <2>4 DEF BelongTo, MembersOf
  <2>7. /\ SameOutside(invitations, invitations', {i})
        /\ SameOutside(members, members', {m})
        /\ SameOutside(parties, parties', {p})
        /\ SameOutside(readiness, readiness', {d})
        /\ SameOutside(pushTokens, pushTokens', {d})
    BY <2>2, <2>3, <2>4 DEF SameOutside
  <2>8. Touches(p, {i}, {m}, {d})
    BY <2>4, <2>5, <2>6, <2>7 DEF Touches
  <2> QED
    BY <2>8 DEF Local
<1>16. CASE Tick \/ UNCHANGED vars
  <2>1. \A p : Touches(p, {}, {}, {})
    BY <1>16 DEF Tick, vars, Touches, BelongTo, SameOutside
  <2> QED
    BY <2>1, <1>a DEF Local
<1> QED
  BY <1>a, <1>1, <1>2, <1>3, <1>4, <1>5, <1>6, <1>7, <1>8, <1>10, <1>11, <1>12, <1>13,
     <1>14, <1>15, <1>16
     DEF Next, HostStep, PartyForms, PhoneForms, JoinStep, PhoneStep, SetupStep, PushStep

(* Whoever acts, and however the phone or invitation is found, one party's *)
(* rows change and no other's.                                             *)
THEOREM PartiesAreSeparate == Spec => OnePartyAtATime
<1>1. TypeOK /\ TypeOK' /\ ReferencesResolve /\ ReferencesResolve'
        /\ NamesAreUnambiguous /\ [Next]_vars
      => [\A p, q \in DOMAIN parties \cup DOMAIN parties' :
            p < q => PartyRows(p)' = PartyRows(p) \/ PartyRows(q)' = PartyRows(q)]_vars
  BY SharingStep DEF SharesNothing
<1> QED
  BY <1>1, TypeCorrect, References, Names, PTL DEF Spec, OnePartyAtATime
=============================================================================
