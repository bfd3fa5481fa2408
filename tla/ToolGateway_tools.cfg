CONSTANTS
  OtherScopes = {}
  s1 = s1
  s2 = s2
  u1 = u1
  u2 = u2
  pay = pay
  look = look
  none = none
  malformed = malformed
  failure = failure
  blank = blank
  None = none
  Malformed = malformed
  Failure = failure
  Blank = blank
  Ids = {s1, s2}
  Urls = {u1, u2}
  Tools = {pay, look}
  Requests = {r1}
  Environments <- AllEnvironments
  Listings <- AllListings
  Tokens <- AllTokens
  MaxRestarts = 1
SPECIFICATION FairSpec
INVARIANTS
  TypeOK
  ExecutionsAccounted
PROPERTIES
  StartupFinishes
  EveryCallAnswered
  JudgedByItsHost
  ShownTrustDecides
  ImplementsRemoteCall
