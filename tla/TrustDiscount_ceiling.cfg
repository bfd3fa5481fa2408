\* A max_rho below the weight of the age.
SPECIFICATION Spec
CONSTANTS
  Unit = 40
  Year = 2
  LinearAgeShare = 4
  Saturation <- HalfLives
  MaxAge = 3
  MaxVolume = 4
  MaxTx = 2
  MaxRate = 2
  Policies <- LowCeilingOnly
PROPERTY MonotoneInVolume
