\* One agent, one request to authorize and one to redeem, or two of a client's.
CONSTANTS
  OtherScopes = {}
  alice = alice
  v1 = v1
  none = none
  None = none
  Failure = failure
  Rejected = rejected
  DefaultReputation = 50
  Grain = 10
  Rounded <- HalfUp
  Requests = {r1, r2}
  Agents <- OneAgent
  Accounts <- Standings
  Verifiers <- OneVerifier
  PkceRequests <- HashedOnly
  ScopeRequests <- ReadRequests
  Configs <- NoPilot
  Tools <- TwoTools
  CallBound = 1
  CacheTTL = 1
  CodeTTL = 1
  TokenTTL = 2
  MaxTime = 7
SYMMETRY RequestSymmetry
SPECIFICATION GatewaySpec
INVARIANTS
  TypeOK
  ReadingsHonest
PROPERTIES
  KyaIsCurrent
  ReputationIsCurrent
  SuspensionTakesEffect
  StandingIsCurrent
