----------------------------- MODULE MCRewards -----------------------------
(* A small instance of Rewards: one shop with a product and a campaign. *)
EXTENDS Rewards, TLC
CONSTANTS u1, o1, s1, k1, k2, p1, a1, f1, b1, l1, d1, i1, m1, g1, y1, y2, n1

MCTableOf ==
  u1 :> "user" @@ o1 :> "user" @@ s1 :> "shop" @@ k1 :> "category" @@ k2 :> "category"
  @@ p1 :> "product" @@ a1 :> "address" @@ f1 :> "favorite" @@ b1 :> "cart"
  @@ l1 :> "line" @@ d1 :> "order" @@ i1 :> "item" @@ m1 :> "payment"
  @@ g1 :> "campaign" @@ y1 :> "claim" @@ y2 :> "claim" @@ n1 :> "promotion"

MCRefersTo ==
  [x \in DOMAIN MCTableOf |->
     CASE x = s1 -> {o1} [] x = k1 -> {} [] x = k2 -> {k1} [] x = p1 -> {s1}
       [] x = a1 -> {u1} [] x = f1 -> {u1, s1} [] x = b1 -> {u1, s1} [] x = l1 -> {b1, p1}
       [] x = d1 -> {u1, s1, a1} [] x = i1 -> {d1, p1} [] x = m1 -> {o1, s1}
       [] x = g1 -> {s1} [] x \in {y1, y2} -> {u1, g1} [] OTHER -> {}]

FirstRows == [x \in Rows |-> MCTableOf[x]]
FirstRefs == [x \in Rows |-> MCRefersTo[x] \cap Rows]

\* Two worlds: a customer's purchases and claims, and the catalogue of a shop.
\* Every step out of a world is checked, and nothing is explored beyond it.
Purchases == Rows \ {k1, k2, f1, m1, n1}
Catalogue == Rows \ {a1, b1, l1, d1, i1, g1, y1, y2}
OneWorld == rows \subseteq Purchases \/ rows \subseteq Catalogue

MCTerms == {[inventory |-> 1, limit |-> 2], [inventory |-> 2, limit |-> 1]}
=============================================================================
