\* Two changes under the scheduling Go and the AMI deadline guarantee.
SPECIFICATION FairSpec
CONSTANTS
  Request = {r1, r2}
  Startup = startup
  Nobody = nobody
  MaxSilent = 0
  MaxCrashes = 1
  MaxPbxRestarts = 1
CHECK_DEADLOCK FALSE
PROPERTY EveryChangeGetsAVerdict
