CONSTANTS
  u1 = u1 o1 = o1 s1 = s1 k1 = k1 k2 = k2 p1 = p1 a1 = a1 f1 = f1 b1 = b1 l1 = l1
  d1 = d1 i1 = i1 m1 = m1 g1 = g1 y1 = y1 y2 = y2 n1 = n1
  Rows = {u1, o1, s1, k1, k2, p1, a1, f1, b1, l1, d1, i1, m1, g1, y1, y2, n1}
  TableOf <- FirstRows RefersTo <- FirstRefs
  Requests = {c1, c2} Nothing = Nothing
  Terms <- MCTerms
SPECIFICATION Spec
CONSTRAINT OneWorld
INVARIANTS TypeOK  ClaimsAreCounted
PROPERTIES HistoryStays LimitsHold
CHECK_DEADLOCK FALSE
