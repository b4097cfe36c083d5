\* The life of a phone's credential: four secrets over two phones of one
\* party, setup links, readiness checks and push tokens.
SPECIFICATION Spec
CONSTANTS
  User = {h1}
  Extension = {x1, x2}
  ValidExtension = {x1, x2}
  Username = {u1, u2, u3}
  PushToken = {t1, t2}
  Check = {echo}
  MaxDevicesPerMember = 2
  InviteTTL = 2
  SetupTTL = 2
  MaxHandlerDelay = 0
  MaxParties = 1
  MaxMembers = 2
  MaxDevices = 2
  MaxInvitations = 2
  MaxSecrets = 4
  MaxTime = 2
SYMMETRY Symmetry
CHECK_DEADLOCK FALSE
INVARIANTS
  RevokedPhoneHoldsNothing SetupLinkOpensOnce ReadinessIsOfThisCredential
PROPERTIES CredentialsLive MembersAreInvited
