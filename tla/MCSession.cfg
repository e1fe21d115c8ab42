SPECIFICATION MCSpec
CONSTANTS
  MaxLogins = 2
  MaxLaunches = 1
  MaxEpoch = 4
  MaxWrites = 2
  Corrupt = Corrupt
  None = None
  Deployments <- OneHost
  Calls = {}
  Mixes <- NoCalls
  MaxRenewals = 0
INVARIANT
  SessionInv
PROPERTIES
  SplashEnds
