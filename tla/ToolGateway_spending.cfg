CONSTANTS
  OtherScopes = {}
  s1 = s1
  s2 = s2
  u1 = u1
  u2 = u2
  pay = pay
  look = look
  none = none
  malformed = malformed
  failure = failure
  blank = blank
  None = none
  Malformed = malformed
  Failure = failure
  Blank = blank
  Ids = {s1, s2}
  Urls = {u1, u2}
  Tools = {pay, look}
  Requests = {r1}
  Environments <- TwoOrNone
  Listings <- StrictListing
  Tokens <- NoBudget
  MaxRestarts = 0
SPECIFICATION Spec
PROPERTY SpendingChecked
