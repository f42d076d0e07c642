SPECIFICATION FairSpec
CONSTANTS
  Assignments = {a1, a2}
  Requests = {r1, r2}
  Limits = {0}
  EndDay = 0
  LastDay = 1
  MaxDay = 0
  Nobody = Nobody
  Expiry = Expiry
PROPERTIES
  RequestsAreAnswered
