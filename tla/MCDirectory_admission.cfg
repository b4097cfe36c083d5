\* Invitations, claims and numbers: two parties, one host each or shared,
\* two invitations, three phones against a limit of two per member.
SPECIFICATION Spec
CONSTANTS
  User = {h1, h2}
  Extension = {x1, x2, x911}
  ValidExtension = {x1, x2}
  Username = {u1, u2, u3}
  PushToken = {}
  Check = {}
  MaxDevicesPerMember = 2
  InviteTTL = 2
  SetupTTL = 2
  MaxHandlerDelay = 1
  MaxParties = 2
  MaxMembers = 2
  MaxDevices = 3
  MaxInvitations = 2
  MaxSecrets = 3
  MaxTime = 3
SYMMETRY Symmetry
CHECK_DEADLOCK FALSE
INVARIANTS
  TypeOK ReferencesResolve NamesAreUnambiguous InvitationAdmitsOnce
  DeviceLimitHolds
PROPERTIES CancelLeavesNoLiveLink OnePartyAtATime
