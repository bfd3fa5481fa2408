CONSTANTS
  OtherScopes = {}
  alice = alice
  v1 = v1
  none = none
  None = none
  Failure = failure
  Rejected = rejected
  DefaultReputation = 50
  Grain = 10
  Rounded <- HalfUp
  Requests = {r1}
  Agents <- OneAgent
  Accounts <- Standings
  Verifiers <- OneVerifier
  PkceRequests <- HashedOnly
  ScopeRequests <- ReadRequests
  Configs <- NoPilot
  Tools <- TwoTools
  CallBound = 1
  CacheTTL = 0
  CodeTTL = 1
  TokenTTL = 2
  MaxTime = 4
SPECIFICATION GatewaySpec
PROPERTY JudgedByLiveReputation
