SPECIFICATION MCSpec
CONSTANTS
  c1 = c1
  c2 = c2
  c3 = c3
  c4 = c4
  h1 = h1
  h2 = h2
  None = None
  Calls = {c1, c2, c3, c4}
  Mixes <- MCMixes
  Deployments <- MCDeployments
  MaxLogins = 2
  MaxRenewals = 1
INVARIANT
  SendsInv
PROPERTIES
  AnswersEndTheirOwnSession
  OneHostCallsSettle
