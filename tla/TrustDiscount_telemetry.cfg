\* Every kind of policy, one with a negative ceiling among them.
SPECIFICATION Spec
CONSTANTS
  Unit = 40
  Year = 2
  LinearAgeShare = 4
  Saturation <- HalfLives
  MaxAge = 3
  MaxVolume = 4
  MaxTx = 2
  MaxRate = 2
  Policies <- AllPolicies
INVARIANT TypeOK
PROPERTY MoreIsNeverLess
