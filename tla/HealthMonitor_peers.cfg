\* Two peers that come and go, every kind of answer, slow checks.
SPECIFICATION FairSpec
CONSTANTS
  Dids = {p1, p2}
  Healths = {"well", "maintenance", "down"}
  Unit = 5
  Spacing = 1
  QuarantineFloor = 0
  RecoveryIncrement = 2
  DecayRate <- FourFifths
  Product <- NearestProduct
  DecayTrigger = 2
  CheckInterval = 1
  CheckTimeout = 2
  MissBound = 4
  None = None
INVARIANTS
  TypeOK
  ChecksNotStarved
  DecayIsExponential
PROPERTIES
  TrustFollowsEvidence
  ImplementsPeerTrust
  DeadPeerFades
  HealthyPeerRecovers
