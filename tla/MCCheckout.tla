----------------------------- MODULE MCCheckout -----------------------------
(* Small instances of Checkout. *)
EXTENDS Checkout, TLC
CONSTANTS u1, u2, s1, s2, p1, p2, r1, r2, r3, d1, d2, k1, k2

\* One shop, two products: a customer who sends two requests, another with one.
OneShop     == p1 :> s1 @@ p2 :> s1
TwoBuyers   == r1 :> u1 @@ r2 :> u1 @@ r3 :> u2
NewKey      == r1 :> k1 @@ r2 :> k2 @@ r3 :> k1
RetriedKey  == r1 :> k1 @@ r2 :> k1 @@ r3 :> k1
NoDevice    == <<>>
OneDevice   == d1 :> u1 @@ d2 :> u2

\* Both products begin with the same stock: one unit, for which all compete, or
\* two, which are enough to order one cart twice.
MCInit == Init /\ \A p, q \in Products : product[p].stock = product[q].stock
MCFairSpec == MCInit /\ [][Next]_vars /\ Fairness

\* Two shops: a customer with two devices.
TwoShops    == p1 :> s1 @@ p2 :> s2
OneBuyer    == r1 :> u1 @@ r2 :> u1
SameKeys    == r1 :> k1 @@ r2 :> k1
TwoDevices  == d1 :> u1 @@ d2 :> u1
=============================================================================
