CONSTANTS
  OtherScopes = {}
  alice = alice
  bob = bob
  v1 = v1
  v2 = v2
  none = none
  failure = failure
  rejected = rejected
  r1 = r1
  r2 = r2
  r3 = r3
  None = none
  Failure = failure
  Rejected = rejected
  DefaultReputation = 50
  Grain = 10
  Rounded <- HalfUp
  Requests = {r1, r2}
  Agents <- OneAgent
  Accounts <- AnyStanding
  Verifiers <- OneVerifier
  PkceRequests <- HashedOnly
  ScopeRequests <- ReadRequests
  Configs <- NoPilot
  CallBound = 1
  CacheTTL = 0
  CodeTTL = 1
  MaxTime = 3
SPECIFICATION FairSpec
PROPERTIES
  HandlersProgress
  EveryRequestAnswered
