CONSTANTS
  i1 = i1 i2 = i2 v1 = v1 p1 = p1
  Reels = {r1} Customers = {u1, u2} Products = {p1} Assets = {i1, i2, v1}
  KindOf <- MCKindOf Drafts <- MCDrafts Updates <- MCUpdates
  Requests = {c1, c2} MaxEvents = 1 Nothing = Nothing
SPECIFICATION Spec
CONSTRAINT OneWorld
SYMMETRY Symmetry
INVARIANTS TypeOK CountersAddUp ReelsAreWhole
PROPERTIES ArchivedStays
CHECK_DEADLOCK FALSE
