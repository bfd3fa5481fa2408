CONSTANTS
  OtherScopes = {}
  alice = alice
  bob = bob
  t1 = t1
  t2 = t2
  t3 = t3
  None = none
  Unnamed = unnamed
  Unit = 30
  Grain = 3
  DepthBound = 3
  MinTrust = 1
  Ids = {t1, t2}
  Keys = {k1}
  Actors <- Actors2
  Roots <- AllRoots
  ScopeRequests <- Requests
  Tools <- TwoTools
  Configs <- FactorsAndPilots
  TokenTTL = 4
  MinTTL = 2
  DefaultTTL = 3
  MaxTime = 0
SPECIFICATION Spec
PROPERTY FinancialNeverAdded
SYMMETRY IdSymmetry
INVARIANTS
  
  ClaimMatchesVerdict
