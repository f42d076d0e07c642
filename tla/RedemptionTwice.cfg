SPECIFICATION Spec
CONSTANTS
  Assignments = {a1, a2}
  Requests = {r1, r2}
  Limits = {0, 1}
  EndDay = 0
  LastDay = 1
  MaxDay = 1
  Nobody = Nobody
  Expiry = Expiry
INVARIANTS
  RedemptionsCountedOnce
