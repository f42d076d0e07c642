CONSTANTS
  u1 = u1 u2 = u2 s1 = s1 s2 = s2 p1 = p1 p2 = p2
  r1 = r1 r2 = r2 r3 = r3 d1 = d1 d2 = d2 k1 = k1 k2 = k2
  Untracked = Untracked Nothing = Nothing
  Customers = {u1} Shops = {s1, s2} Products = {p1, p2} ShopOf <- TwoShops
  Requests = {r1, r2} CustomerOf <- OneBuyer KeyOf <- SameKeys
  Devices = {d1, d2} OwnerOf <- TwoDevices
  Quantities = {1} Stocks = {1, Untracked} Edits = {p1} MaxCarts = 1
SPECIFICATION Spec
INVARIANTS StockIsAccountedFor CartsFitDevices
PROPERTIES SellsAtOnce
