---------------------------- MODULE CheckoutProofs ----------------------------
(***************************************************************************)
(* The safety properties of Checkout, for any customers, products and      *)
(* requests.  The invariant that carries the stock says that product locks *)
(* are exclusive and that the copy of a locked row is fresh; the one that  *)
(* carries the orders says that a held cart is live and that an ordered    *)
(* one never is again.                                                     *)
(***************************************************************************)
EXTENDS Checkout, FiniteSetTheorems, TLAPS

\* The copies of a request's locked rows, as a set.
Copies == UNION {[locked -> StockType] : locked \in SUBSET Products}

\* The type invariant, with the copies as members of a set.
TypeInv ==
  /\ opened \in [Customers -> [Shops -> Nat]]
  /\ live \in [Customers -> [Shops -> BOOLEAN]]
  /\ lines \in [Customers -> [Products -> Lots]]
  /\ adding \in [Devices -> Additions \cup {Nothing}]
  /\ product \in [Products -> Rows]
  /\ editing \in [Edits -> Rows \cup {Nothing}]
  /\ declared \in [Products -> StockType]
  /\ sold \in [Products -> Nat]
  /\ pc \in [Requests -> {"idle", "looked", "holding", "locking", "inserted",
                          "committed", "over"}]
  /\ cartOf \in [Requests -> [shop : Shops, nr : Nat]]
  /\ basket \in [Requests -> [Products -> Lots]]
  /\ read \in [Requests -> Copies]
  /\ reply \in [Requests -> {"none", "created", "existing", "notFound",
                             "refused", "conflict", "error"}]

\* What a request's steps come to: it ends without an order, or it moves on.
Ends(r) ==
  /\ pc' = [pc EXCEPT ![r] = "over"]
  /\ read' = [read EXCEPT ![r] = Empty]
  /\ \E answer \in {"existing", "notFound", "refused", "conflict", "error", "created"} :
       reply' = [reply EXCEPT ![r] = answer]
  /\ UNCHANGED <<cartVars, adding, productVars, editing, basket>>

LooksUp(r) == Lookup(r) /\ pc' = [pc EXCEPT ![r] = "looked"] /\ UNCHANGED <<read, reply>>
TakesCart(r) ==
  /\ LockCart(r)
  /\ CartIsLive(CustomerOf[r], cartOf[r])
  /\ pc' = [pc EXCEPT ![r] = "holding"] /\ UNCHANGED <<read, reply>>
Inserts(r) ==
  /\ InsertOrder(r)
  /\ ~ KeyIsTaken(r)
  /\ pc' = [pc EXCEPT ![r] = "inserted"]
  /\ reply' = [reply EXCEPT ![r] = "created"] /\ UNCHANGED read

\* Where a request that ends was, and that its cart is the same unless it
\* ends in its lookup.
EndsFrom(r) ==
  \/ pc[r] = "idle" /\ \E c \in [shop : Shops, nr : Nat] : cartOf' = [cartOf EXCEPT ![r] = c]
  \/ pc[r] \in {"looked", "holding", "locking", "inserted"} /\ cartOf' = cartOf

\* The steps of a request are these.
LEMMA RequestSteps ==
  ASSUME TypeInv, NEW r \in Requests, Lookup(r) \/ Serve(r) \/ Abort(r)
  PROVE  \/ Ends(r) /\ EndsFrom(r)
         \/ LooksUp(r) \/ TakesCart(r) \/ ReadLines(r)
         \/ \E p \in Products : LockProduct(r, p)
         \/ Inserts(r) \/ Commit(r)
<1>1. CASE Lookup(r)
  <2>1. PICK s \in Shops : \E n \in 1 .. opened[CustomerOf[r]][s] :
          cartOf' = [cartOf EXCEPT ![r] = [shop |-> s, nr |-> n]]
    BY <1>1 DEF Lookup
  <2>2. PICK n \in 1 .. opened[CustomerOf[r]][s] :
          cartOf' = [cartOf EXCEPT ![r] = [shop |-> s, nr |-> n]]
    BY <2>1
  <2>3. n \in Nat
    BY <2>2, CheckoutAssumption DEF TypeInv
  <2>4. \E c \in [shop : Shops, nr : Nat] : cartOf' = [cartOf EXCEPT ![r] = c]
    BY <2>2, <2>3
  <2> QED
    BY <1>1, <2>4 DEF Lookup, Ends, EndsFrom, LooksUp, Finish
<1>2. CASE LockCart(r)
  BY <1>2 DEF LockCart, Ends, EndsFrom, TakesCart, Finish
<1>3. CASE Refuse(r) \/ Conflict(r) \/ BreakDeadlock(r)
  BY <1>3 DEF Refuse, Conflict, BreakDeadlock, LocksAreTaken, WaitsIn, Ends, EndsFrom, Finish
<1>4. CASE Abort(r)
  BY <1>4 DEF Abort, InTransaction, Ends, EndsFrom, Finish
<1>5. CASE InsertOrder(r)
  BY <1>5 DEF InsertOrder, LocksAreTaken, Inserts, Ends, EndsFrom, Finish
<1> QED
  BY <1>1, <1>2, <1>3, <1>4, <1>5 DEF Serve

-----------------------------------------------------------------------------
\* The quantities of a line are numbers.
LEMMA LotFacts == Lots \subseteq Nat /\ 0 \in Lots /\ Quantities \subseteq Lots
BY CheckoutAssumption DEF Lots

\* A copy has the locked products, with stocks.
LEMMA CopyFacts ==
  /\ Empty \in Copies /\ DOMAIN Empty = {}
  /\ \A f \in Copies : DOMAIN f \subseteq Products /\ \A p \in DOMAIN f : f[p] \in StockType
  /\ \A S \in SUBSET Products : \A f \in [S -> StockType] : f \in Copies
<1>1. Empty \in [{} -> StockType] /\ DOMAIN Empty = {}
  BY DEF Empty
<1>2. \A S \in SUBSET Products : \A f \in [S -> StockType] : f \in Copies
  BY DEF Copies
<1>3. ASSUME NEW f \in Copies
      PROVE  DOMAIN f \subseteq Products /\ \A p \in DOMAIN f : f[p] \in StockType
  <2>1. PICK S \in SUBSET Products : f \in [S -> StockType]
    BY DEF Copies
  <2> QED
    BY <2>1
<1> QED
  BY <1>1, <1>2, <1>3

\* The type of the copies, either way.
LEMMA CopyTyping == \A f : AreCopies(f) <=> f \in [Requests -> Copies]
<1>1. ASSUME NEW f, AreCopies(f) PROVE f \in [Requests -> Copies]
  <2>1. \A r \in Requests : f[r] \in Copies
    BY <1>1, CopyFacts DEF AreCopies
  <2> QED
    BY <1>1, <2>1 DEF AreCopies
<1>2. ASSUME NEW f, f \in [Requests -> Copies] PROVE AreCopies(f)
  <2>1. \A r \in Requests : \E locked \in SUBSET Products : f[r] \in [locked -> StockType]
    BY <1>2 DEF Copies
  <2> QED
    BY <1>2, <2>1 DEF AreCopies
<1> QED
  BY <1>1, <1>2

\* Assigning one entry of a table keeps its type.
LEMMA EntryTyping ==
  ASSUME NEW S, NEW T, NEW V, NEW f \in [S -> [T -> V]], NEW x \in S, NEW y \in T, NEW v \in V
  PROVE  [f EXCEPT ![x][y] = v] \in [S -> [T -> V]]
OBVIOUS

\* ... and changes that entry only.
LEMMA EntryValue ==
  ASSUME NEW S, NEW T, NEW V, NEW f \in [S -> [T -> V]], NEW x \in S, NEW y \in T, NEW v,
         NEW a \in S, NEW b \in T
  PROVE  [f EXCEPT ![x][y] = v][a][b] = IF a = x /\ b = y THEN v ELSE f[a][b]
OBVIOUS

\* What is left of a stock is a stock.
LEMMA LessType ==
  ASSUME NEW s \in StockType, NEW q \in Nat
  PROVE  Less(s, q) \in StockType
BY DEF Less, StockType

\* What an edit writes is a row, with the stock of the row that was there or of
\* the form.
LEMMA EditTyping ==
  ASSUME NEW old \in Rows, NEW seen \in Rows, NEW new \in Edited(seen)
  PROVE  /\ Overlaid(old, seen, new) \in Rows /\ new \in Rows
         /\ Overlaid(old, seen, new).stock =
              IF new.stock = seen.stock THEN old.stock ELSE new.stock
<1>1. Stocks \subseteq StockType
  BY CheckoutAssumption DEF StockType
<1>2. new \in Rows
  <2>1. seen.deleted \in BOOLEAN /\ seen.stock \in StockType
    BY DEF Rows
  <2>2. CASE new \in [stock : Stocks \cup {seen.stock}, available : BOOLEAN, deleted : {seen.deleted}]
    BY <1>1, <2>1, <2>2 DEF Rows
  <2>3. CASE new = [seen EXCEPT !.available = FALSE, !.deleted = TRUE]
    BY <2>3 DEF Rows
  <2>4. CASE new = [seen EXCEPT !.available = TRUE, !.deleted = FALSE]
    BY <2>4 DEF Rows
  <2> QED
    BY <2>2, <2>3, <2>4 DEF Edited
<1>3. DOMAIN old = {"stock", "available", "deleted"}
  BY DEF Rows
<1> DEFINE f == Overlaid(old, seen, new)
<1>4. f = [c \in {"stock", "available", "deleted"} |->
             IF new[c] = seen[c] THEN old[c] ELSE new[c]]
  BY <1>3 DEF Overlaid
<1>5. /\ f["stock"] = IF new["stock"] = seen["stock"] THEN old["stock"] ELSE new["stock"]
      /\ f["available"] = IF new["available"] = seen["available"]
                            THEN old["available"] ELSE new["available"]
      /\ f["deleted"] = IF new["deleted"] = seen["deleted"]
                          THEN old["deleted"] ELSE new["deleted"]
  BY <1>4
<1>6. f = [stock |-> f["stock"], available |-> f["available"], deleted |-> f["deleted"]]
  BY <1>4
<1>7. f["stock"] \in StockType /\ f["available"] \in BOOLEAN /\ f["deleted"] \in BOOLEAN
  BY <1>2, <1>5 DEF Rows
<1>8. f \in Rows
  BY <1>6, <1>7 DEF Rows
<1> QED
  BY <1>2, <1>5, <1>8

\* A cart line, a row and a copy of its stock keep their types in every step.
\* A request that has inserted its order holds all its products.
InsertedHolds ==
  \A r \in Requests : pc[r] = "inserted" => Needed(r) \subseteq DOMAIN read[r]

\* A request's step keeps the types; its commit computes with the copies it has.
LEMMA RequestTyping ==
  ASSUME TypeInv, InsertedHolds, NEW r \in Requests, Lookup(r) \/ Serve(r) \/ Abort(r)
  PROVE  TypeInv'
<1>1. CASE Ends(r) /\ EndsFrom(r)
  <2>1. read' \in [Requests -> Copies]
    BY <1>1, CopyFacts DEF Ends, TypeInv
  <2>3. cartOf' \in [Requests -> [shop : Shops, nr : Nat]]
    BY <1>1 DEF EndsFrom, TypeInv
  <2>4. /\ pc' \in [Requests -> {"idle", "looked", "holding", "locking", "inserted",
                               "committed", "over"}]
        /\ reply' \in [Requests -> {"none", "created", "existing", "notFound",
                                  "refused", "conflict", "error"}]
    <3>1. PICK answer \in {"existing", "notFound", "refused", "conflict", "error",
                           "created"} : reply' = [reply EXCEPT ![r] = answer]
      BY <1>1 DEF Ends
    <3> QED
      BY <1>1, <3>1 DEF Ends, TypeInv
  <2>6. UNCHANGED <<opened, live, lines, adding, product, declared, sold, editing, basket>>
    BY <1>1 DEF Ends, cartVars, productVars
  <2> QED
    BY <2>1, <2>3, <2>4, <2>6 DEF TypeInv
<1>2. CASE LooksUp(r)
  <2>1. PICK s \in Shops : \E n \in 1 .. opened[CustomerOf[r]][s] :
          cartOf' = [cartOf EXCEPT ![r] = [shop |-> s, nr |-> n]]
    BY <1>2 DEF LooksUp, Lookup
  <2>2. PICK n \in 1 .. opened[CustomerOf[r]][s] :
          cartOf' = [cartOf EXCEPT ![r] = [shop |-> s, nr |-> n]]
    BY <2>1
  <2>3. n \in Nat
    BY <2>2, CheckoutAssumption DEF TypeInv
  <2> QED
    BY <1>2, <2>2, <2>3 DEF LooksUp, Lookup, TypeInv, cartVars, productVars
<1>3. CASE TakesCart(r) \/ Inserts(r)
  BY <1>3 DEF TakesCart, LockCart, Inserts, InsertOrder, TypeInv, cartVars, productVars
<1>4. CASE ReadLines(r)
  <2>1. CustomerOf[r] \in Customers
    BY CheckoutAssumption
  <2>2. basket' \in [Requests -> [Products -> Lots]]
    BY <1>4, <2>1, LotFacts DEF ReadLines, TypeInv
  <2>3. pc' \in [Requests -> {"idle", "looked", "holding", "locking", "inserted",
                              "committed", "over"}]
    BY <1>4 DEF ReadLines, TypeInv
  <2> QED
    BY <1>4, <2>2, <2>3 DEF ReadLines, TypeInv, cartVars, productVars
<1>5. ASSUME NEW p \in Products, LockProduct(r, p) PROVE TypeInv'
  <2>1. product[p].stock \in StockType
    BY DEF TypeInv, Rows
  <2> DEFINE f == [x \in DOMAIN read[r] \cup {p} |->
                     IF x = p THEN product[p].stock ELSE read[r][x]]
  <2>2. DOMAIN read[r] \subseteq Products /\ \A x \in DOMAIN read[r] : read[r][x] \in StockType
    BY CopyFacts DEF TypeInv
  <2>3. f \in [DOMAIN read[r] \cup {p} -> StockType]
    BY <2>1, <2>2
  <2>4. read' = [read EXCEPT ![r] = f]
    BY <1>5 DEF LockProduct
  <2> HIDE DEF f
  <2>5. read' \in [Requests -> Copies]
    BY <2>2, <2>3, <2>4, CopyFacts DEF TypeInv
  <2>6. UNCHANGED <<opened, live, lines, adding, product, declared, sold, editing, pc,
                    cartOf, basket, reply>>
    BY <1>5 DEF LockProduct, cartVars, productVars
  <2> QED
    BY <2>5, <2>6 DEF TypeInv
<1>6. CASE Commit(r)
  <2> DEFINE u == CustomerOf[r]
             s == cartOf[r].shop
  <2>1. u \in Customers /\ s \in Shops /\ basket[r] \in [Products -> Lots]
    BY CheckoutAssumption DEF TypeInv
  <2>2. \A p \in Products : basket[r][p] \in Nat
    BY <2>1, LotFacts
  <2>3. Needed(r) \subseteq DOMAIN read[r]
    BY <1>6 DEF Commit, InsertedHolds
  <2>4. product' \in [Products -> Rows]
    <3>1. ASSUME NEW p \in Products, p \in Needed(r)
          PROVE  [product[p] EXCEPT !.stock = Less(read[r][p], basket[r][p])] \in Rows
      <4>1. Less(read[r][p], basket[r][p]) \in StockType
        BY <2>2, <2>3, <3>1, LessType, CopyFacts DEF TypeInv
      <4>2. product[p] \in Rows
        BY DEF TypeInv
      <4> QED
        BY <4>1, <4>2 DEF Rows
    <3> QED
      BY <1>6, <3>1 DEF Commit, TypeInv
  <2>5. sold' \in [Products -> Nat]
    BY <1>6, <2>2 DEF Commit, TypeInv
  <2>6. live' \in [Customers -> [Shops -> BOOLEAN]]
    BY <1>6, <2>1 DEF Commit, TypeInv
  <2>7. lines' \in [Customers -> [Products -> Lots]]
    <3>1. [p \in Products |-> IF ShopOf[p] = s THEN 0 ELSE lines[u][p]]
            \in [Products -> Lots]
      BY <2>1 DEF TypeInv, Lots
    <3> QED
      BY <1>6, <2>1, <3>1 DEF Commit, TypeInv
  <2>8. read' \in [Requests -> Copies]
    BY <1>6, CopyFacts DEF Commit, Finish, TypeInv
  <2>9. /\ pc' \in [Requests -> {"idle", "looked", "holding", "locking", "inserted",
                               "committed", "over"}]
        /\ reply' \in [Requests -> {"none", "created", "existing", "notFound",
                                  "refused", "conflict", "error"}]
    BY <1>6 DEF Commit, Finish, TypeInv
  <2> QED
    BY <1>6, <2>4, <2>5, <2>6, <2>7, <2>8, <2>9 DEF Commit, TypeInv
<1> QED
  BY <1>1, <1>2, <1>3, <1>4, <1>5, <1>6, RequestSteps

\* The customer's and the shopkeeper's requests keep the types.
LEMMA OtherTyping ==
  ASSUME TypeInv, Shopping \/ Editing
  PROVE  TypeInv'
<1>1. ASSUME NEW d \in Devices, NEW p \in Products, FindCart(d, p) PROVE TypeInv'
  <2>1. OwnerOf[d] \in Customers /\ ShopOf[p] \in Shops
    BY CheckoutAssumption
  <2>2. adding' \in [Devices -> Additions \cup {Nothing}]
    BY <1>1, <2>1 DEF FindCart, Additions, TypeInv
  <2> QED
    BY <1>1, <2>2 DEF FindCart, TypeInv, cartVars, productVars, requestVars
<1>2. ASSUME NEW d \in Devices, AddToNewCart(d) \/ AddToCart(d) \/ AbortAddition(d)
      PROVE  TypeInv'
  <2>1. adding[d] \in Additions /\ OwnerOf[d] \in Customers
    BY <1>2, CheckoutAssumption DEF AddToNewCart, AddToCart, AbortAddition, TypeInv
  <2>2. adding[d].product \in Products /\ ShopOf[adding[d].product] \in Shops
    BY <2>1, CheckoutAssumption DEF Additions
  <2>3. adding' \in [Devices -> Additions \cup {Nothing}]
    BY <1>2 DEF AddToNewCart, AddToCart, AbortAddition, TypeInv
  <2>4. lines' \in [Customers -> [Products -> Lots]]
    <3>1. lines' = lines
            \/ \E q \in Quantities : lines' = [lines EXCEPT ![OwnerOf[d]][adding[d].product] = q]
      BY <1>2 DEF AddToNewCart, AddToCart, AbortAddition, NewQuantity, cartVars
    <3> QED
      <4>1. lines \in [Customers -> [Products -> Lots]]
        BY DEF TypeInv
      <4>2. ASSUME NEW q \in Quantities
            PROVE  [lines EXCEPT ![OwnerOf[d]][adding[d].product] = q]
                     \in [Customers -> [Products -> Lots]]
        <5>1. q \in Lots
          BY LotFacts
        <5> QED
          BY <2>1, <2>2, <4>1, <5>1, EntryTyping
      <4>3. CASE lines' = lines
        BY <4>1, <4>3
      <4>4. ASSUME NEW q \in Quantities,
                   lines' = [lines EXCEPT ![OwnerOf[d]][adding[d].product] = q]
            PROVE  lines' \in [Customers -> [Products -> Lots]]
        BY <4>2, <4>4
      <4> QED
        BY <3>1, <4>3, <4>4
  <2>5. /\ opened' \in [Customers -> [Shops -> Nat]]
        /\ live' \in [Customers -> [Shops -> BOOLEAN]]
    <3>1. \/ UNCHANGED <<opened, live>>
          \/ /\ opened' = [opened EXCEPT ![OwnerOf[d]][ShopOf[adding[d].product]]
                              = opened[OwnerOf[d]][ShopOf[adding[d].product]] + 1]
             /\ live' = [live EXCEPT ![OwnerOf[d]][ShopOf[adding[d].product]] = TRUE]
      BY <1>2 DEF AddToNewCart, AddToCart, AbortAddition, cartVars
    <3>2. /\ opened \in [Customers -> [Shops -> Nat]]
          /\ live \in [Customers -> [Shops -> BOOLEAN]]
      BY DEF TypeInv
    <3>3. opened[OwnerOf[d]][ShopOf[adding[d].product]] + 1 \in Nat
      BY <2>1, <2>2, <3>2
    <3>4. [opened EXCEPT ![OwnerOf[d]][ShopOf[adding[d].product]]
                           = opened[OwnerOf[d]][ShopOf[adding[d].product]] + 1]
            \in [Customers -> [Shops -> Nat]]
      BY <2>1, <2>2, <3>2, <3>3, EntryTyping
    <3>5. [live EXCEPT ![OwnerOf[d]][ShopOf[adding[d].product]] = TRUE]
            \in [Customers -> [Shops -> BOOLEAN]]
      BY <2>1, <2>2, <3>2, EntryTyping
    <3> QED
      BY <3>1, <3>2, <3>4, <3>5
  <2> QED
    BY <1>2, <2>3, <2>4, <2>5 DEF AddToNewCart, AddToCart, AbortAddition, TypeInv, productVars,
       requestVars
<1>3. ASSUME NEW u \in Customers, NEW p \in Products,
             UpdateCartItem(u, p) \/ RemoveCartItem(u, p)
      PROVE  TypeInv'
  <2>1. lines' \in [Customers -> [Products -> Lots]]
    <3>1. \E q \in Lots : lines' = [lines EXCEPT ![u][p] = q]
      BY <1>3, LotFacts DEF UpdateCartItem, RemoveCartItem, NewQuantity
    <3> QED
      BY <3>1 DEF TypeInv
  <2> QED
    BY <1>3, <2>1 DEF UpdateCartItem, RemoveCartItem, TypeInv, productVars, requestVars
<1>4. ASSUME NEW u \in Customers, ClearCart(u) PROVE TypeInv'
  <2>1. /\ live' \in [Customers -> [Shops -> BOOLEAN]]
        /\ lines' \in [Customers -> [Products -> Lots]]
    BY <1>4 DEF ClearCart, NoLines, Lots, TypeInv
  <2> QED
    BY <1>4, <2>1 DEF ClearCart, TypeInv, productVars, requestVars
<1>5. ASSUME NEW p \in Edits, ReadProduct(p) PROVE TypeInv'
  <2>1. p \in Products
    BY CheckoutAssumption
  <2> QED
    BY <1>5, <2>1 DEF ReadProduct, TypeInv, cartVars, productVars, requestVars
<1>6. ASSUME NEW p \in Edits, WriteProduct(p) PROVE TypeInv'
  <2>1. p \in Products /\ product[p] \in Rows /\ editing[p] \in Rows
    BY <1>6, CheckoutAssumption DEF WriteProduct, TypeInv
  <2>2. PICK new \in Edited(editing[p]) :
          /\ product' = [product EXCEPT ![p] = Overlaid(@, editing[p], new)]
          /\ IF new.stock = editing[p].stock
               THEN UNCHANGED <<declared, sold>>
               ELSE /\ declared' = [declared EXCEPT ![p] = new.stock]
                    /\ sold' = [sold EXCEPT ![p] = 0]
    BY <1>6 DEF WriteProduct
  <2>3. Overlaid(product[p], editing[p], new) \in Rows /\ new.stock \in StockType
    BY <2>1, EditTyping DEF Rows
  <2>4. product' \in [Products -> Rows]
    BY <2>1, <2>2, <2>3 DEF TypeInv
  <2>5. declared' \in [Products -> StockType] /\ sold' \in [Products -> Nat]
    <3>1. CASE new.stock = editing[p].stock
      BY <2>2, <3>1 DEF TypeInv
    <3>2. CASE new.stock # editing[p].stock
      <4>1. declared' = [declared EXCEPT ![p] = new.stock] /\ sold' = [sold EXCEPT ![p] = 0]
        BY <2>2, <3>2
      <4>2. declared \in [Products -> StockType] /\ sold \in [Products -> Nat]
        BY DEF TypeInv
      <4> QED
        BY <2>1, <2>3, <4>1, <4>2
    <3> QED
      BY <3>1, <3>2
  <2>6. editing' \in [Edits -> Rows \cup {Nothing}]
    BY <1>6 DEF WriteProduct, TypeInv
  <2> QED
    BY <1>6, <2>4, <2>5, <2>6 DEF WriteProduct, TypeInv, cartVars, requestVars
<1> QED
  BY <1>1, <1>2, <1>3, <1>4, <1>5, <1>6 DEF Shopping, Editing

-----------------------------------------------------------------------------
(***************************************************************************)
(* The stock.                                                              *)
(***************************************************************************)
LocksAreExclusive ==
  \A r, q \in Requests : r # q => DOMAIN read[r] \cap DOMAIN read[q] = {}

OnlyCheckoutsLock ==
  \A r \in Requests : DOMAIN read[r] # {} => pc[r] \in {"locking", "inserted"}

CopiesAreFresh ==
  \A r \in Requests : \A p \in DOMAIN read[r] : read[r][p] = product[p].stock

InsertedCanSell == \A r \in Requests : pc[r] = "inserted" => CanSell(r)

StockInv ==
  /\ LocksAreExclusive /\ OnlyCheckoutsLock /\ CopiesAreFresh
  /\ InsertedHolds /\ InsertedCanSell
  /\ StockIsAccountedFor /\ NeverOversold

\* Subtracting twice is subtracting the sum.
LEMMA LessTwice ==
  ASSUME NEW s \in StockType, NEW a \in Nat, NEW b \in Nat
  PROVE  /\ Less(Less(s, a), b) = Less(s, a + b)
         /\ Less(s, 0) = s
         /\ Less(s, a) = Untracked <=> s = Untracked
BY CheckoutAssumption DEF Less, StockType

\* What a step that locks or writes no product does to the other requests ...
LeavesOthers(r) ==
  \A q \in Requests \ {r} :
    pc'[q] = pc[q] /\ read'[q] = read[q] /\ basket'[q] = basket[q]

\* ... and to its own: it ends it, moves it on before it has locked a product,
\* or inserts an order of what it has locked.
OwnMove(r) ==
  \/ pc'[r] # "inserted" /\ read'[r] = Empty
  \/ pc'[r] # "inserted" /\ read'[r] = read[r] /\ pc[r] \in {"idle", "looked", "holding"}
  \/ /\ pc'[r] = "inserted" /\ pc[r] = "locking"
     /\ UNCHANGED <<read, basket>> /\ CanSell(r) /\ LocksAreTaken(r)

\* A step that ends a request, or moves it on without a product.
LEMMA StockQuietStep ==
  ASSUME TypeInv, StockInv, NEW r \in Requests,
         UNCHANGED <<product, declared, sold>>, LeavesOthers(r), OwnMove(r)
  PROVE  StockInv'
<1>1. \A q \in Requests \ {r} :
        pc'[q] = pc[q] /\ read'[q] = read[q] /\ basket'[q] = basket[q]
  BY DEF LeavesOthers
<1>2. \/ pc'[r] # "inserted" /\ read'[r] = Empty
      \/ pc'[r] # "inserted" /\ read'[r] = read[r] /\ pc[r] \in {"idle", "looked", "holding"}
      \/ /\ pc'[r] = "inserted" /\ pc[r] = "locking"
         /\ UNCHANGED <<read, basket>> /\ CanSell(r) /\ LocksAreTaken(r)
  BY DEF OwnMove
<1>3. \A q \in Requests : DOMAIN read'[q] \subseteq DOMAIN read[q]
  BY <1>1, <1>2, CopyFacts
<1>4. LocksAreExclusive'
  BY <1>3 DEF StockInv, LocksAreExclusive
<1>5. OnlyCheckoutsLock'
  BY <1>1, <1>2, CopyFacts DEF StockInv, OnlyCheckoutsLock
<1>6. CopiesAreFresh'
  BY <1>1, <1>2, CopyFacts DEF StockInv, CopiesAreFresh
<1>7. InsertedHolds'
  BY <1>1, <1>2 DEF StockInv, InsertedHolds, LocksAreTaken, Needed
<1>8. InsertedCanSell'
  BY <1>1, <1>2 DEF StockInv, InsertedCanSell, CanSell, Needed, Enough, Sellable
<1> QED
  BY <1>4, <1>5, <1>6, <1>7, <1>8 DEF StockInv, StockIsAccountedFor, NeverOversold

\* Taking a lock copies the row that is there.
LEMMA StockLockStep ==
  ASSUME TypeInv, StockInv, NEW r \in Requests, NEW p \in Products, LockProduct(r, p)
  PROVE  StockInv'
<1> DEFINE f == [x \in DOMAIN read[r] \cup {p} |->
                   IF x = p THEN product[p].stock ELSE read[r][x]]
<1>1. read' = [read EXCEPT ![r] = f]
  BY DEF LockProduct
<1>2. DOMAIN f = DOMAIN read[r] \cup {p} /\ \A x \in DOMAIN f : f[x] = product[x].stock
  BY DEF StockInv, CopiesAreFresh
<1> HIDE DEF f
<1>3. read'[r] = f /\ \A q \in Requests \ {r} : read'[q] = read[q]
  BY <1>1 DEF TypeInv
<1>4. UNCHANGED <<pc, product, declared, sold, basket>> /\ pc[r] = "locking"
  BY DEF LockProduct, productVars
<1>5. \A q \in Requests \ {r} : p \notin DOMAIN read[q]
  BY DEF LockProduct, ProductIsFree
<1>6. LocksAreExclusive'
  BY <1>2, <1>3, <1>5 DEF StockInv, LocksAreExclusive
<1>7. OnlyCheckoutsLock' /\ CopiesAreFresh'
  BY <1>2, <1>3, <1>4 DEF StockInv, OnlyCheckoutsLock, CopiesAreFresh
<1>8. InsertedHolds' /\ InsertedCanSell'
  BY <1>3, <1>4 DEF StockInv, InsertedHolds, InsertedCanSell, CanSell, Needed, Enough, Sellable
<1> QED
  BY <1>4, <1>6, <1>7, <1>8 DEF StockInv, StockIsAccountedFor, NeverOversold

\* A commit writes differences from copies that are fresh, of rows that no
\* other request has copied.
LEMMA StockCommitStep ==
  ASSUME TypeInv, StockInv, NEW r \in Requests, Commit(r)
  PROVE  StockInv'
<1>1. /\ pc[r] = "inserted" /\ Needed(r) \subseteq DOMAIN read[r] /\ CanSell(r)
  BY DEF Commit, StockInv, InsertedHolds, InsertedCanSell
<1>2. /\ pc'[r] = "committed" /\ read'[r] = Empty /\ basket' = basket
      /\ \A q \in Requests \ {r} : pc'[q] = pc[q] /\ read'[q] = read[q]
  BY DEF Commit, Finish, TypeInv
<1>3. \A p \in Products : basket[r][p] \in Nat
  BY LotFacts DEF TypeInv
<1>4. \A p \in Needed(r) :
        /\ product'[p].stock = Less(read[r][p], basket[r][p])
        /\ product'[p].available = product[p].available
        /\ product'[p].deleted = product[p].deleted
  BY DEF Commit, TypeInv, Rows, Needed
<1>5. \A p \in Products \ Needed(r) : product'[p] = product[p] /\ basket[r][p] = 0
  BY <1>3 DEF Commit, TypeInv, Needed
<1>6. \A p \in Products : sold'[p] = sold[p] + basket[r][p]
  BY DEF Commit, TypeInv
<1>7. \A q \in Requests \ {r} : DOMAIN read[q] \cap Needed(r) = {}
  BY <1>1 DEF StockInv, LocksAreExclusive
<1>8. LocksAreExclusive' /\ OnlyCheckoutsLock'
  BY <1>2, CopyFacts DEF StockInv, LocksAreExclusive, OnlyCheckoutsLock
<1>9. CopiesAreFresh'
  <2>1. \A q \in Requests : DOMAIN read[q] \subseteq Products
    BY CopyFacts DEF TypeInv
  <2> QED
    BY <1>2, <1>5, <1>7, <2>1, CopyFacts DEF StockInv, CopiesAreFresh
<1>10. InsertedHolds'
  BY <1>2 DEF StockInv, InsertedHolds, Needed
<1>11. InsertedCanSell'
  BY <1>2, <1>4, <1>5 DEF StockInv, InsertedCanSell, CanSell, Needed, Enough, Sellable
<1>12. StockIsAccountedFor'
  <2> SUFFICES ASSUME NEW p \in Products
               PROVE  product'[p].stock = Less(declared'[p], sold'[p])
    BY DEF StockIsAccountedFor
  <2>1. declared'[p] = declared[p] /\ declared[p] \in StockType /\ sold[p] \in Nat
    BY DEF Commit, TypeInv
  <2>2. product[p].stock = Less(declared[p], sold[p])
    BY DEF StockInv, StockIsAccountedFor
  <2>3. CASE p \in Needed(r)
    <3>1. read[r][p] = product[p].stock
      BY <1>1, <2>3 DEF StockInv, CopiesAreFresh
    <3> QED
      BY <1>3, <1>4, <1>6, <2>1, <2>2, <2>3, <3>1, LessTwice
  <2>4. CASE p \notin Needed(r)
    BY <1>5, <1>6, <2>1, <2>2, <2>4
  <2> QED
    BY <2>3, <2>4
<1>13. NeverOversold'
  <2> SUFFICES ASSUME NEW p \in Products, product'[p].stock # Untracked
               PROVE  product'[p].stock >= 0
    BY DEF NeverOversold
  <2>1. CASE p \in Needed(r)
    <3>1. read[r][p] \in StockType
      BY <1>1, <2>1, CopyFacts DEF TypeInv
    <3>2. Enough(r, p) /\ product'[p].stock = Less(read[r][p], basket[r][p])
      BY <1>1, <1>4, <2>1 DEF CanSell
    <3> QED
      BY <1>3, <3>1, <3>2 DEF Enough, Less, StockType
  <2>2. CASE p \notin Needed(r)
    BY <1>5, <2>2 DEF StockInv, NeverOversold
  <2> QED
    BY <2>1, <2>2
<1> QED
  BY <1>8, <1>9, <1>10, <1>11, <1>12, <1>13 DEF StockInv

\* An edit writes a product that no checkout has copied.
LEMMA StockEditStep ==
  ASSUME TypeInv, StockInv, NEW p \in Edits, WriteProduct(p)
  PROVE  StockInv'
<1>1. p \in Products /\ product[p] \in Rows /\ editing[p] \in Rows
  BY CheckoutAssumption DEF WriteProduct, TypeInv
<1>2. PICK new \in Edited(editing[p]) :
        /\ product' = [product EXCEPT ![p] = Overlaid(@, editing[p], new)]
        /\ IF new.stock = editing[p].stock
             THEN UNCHANGED <<declared, sold>>
             ELSE /\ declared' = [declared EXCEPT ![p] = new.stock]
                  /\ sold' = [sold EXCEPT ![p] = 0]
  BY DEF WriteProduct
<1>3. /\ product'[p].stock = IF new.stock = editing[p].stock
                               THEN product[p].stock ELSE new.stock
      /\ new.stock \in StockType
  BY <1>1, <1>2, EditTyping DEF TypeInv, Rows
<1>4. \A x \in Products \ {p} : product'[x] = product[x]
  BY <1>2 DEF TypeInv
<1>5. UNCHANGED <<pc, read, basket>> /\ \A r \in Requests : p \notin DOMAIN read[r]
  BY DEF WriteProduct, requestVars, ProductIsFree
<1>6. LocksAreExclusive' /\ OnlyCheckoutsLock' /\ InsertedHolds'
  BY <1>5 DEF StockInv, LocksAreExclusive, OnlyCheckoutsLock, InsertedHolds, Needed
<1>7. CopiesAreFresh'
  <2>1. \A q \in Requests : DOMAIN read[q] \subseteq Products
    BY CopyFacts DEF TypeInv
  <2> QED
    BY <1>4, <1>5, <2>1 DEF StockInv, CopiesAreFresh
<1>8. InsertedCanSell'
  BY <1>4, <1>5 DEF StockInv, InsertedHolds, InsertedCanSell, CanSell, Needed, Enough, Sellable
<1>9. StockIsAccountedFor'
  <2>1. CASE new.stock = editing[p].stock
    BY <1>2, <1>3, <1>4, <2>1 DEF StockInv, StockIsAccountedFor
  <2>2. CASE new.stock # editing[p].stock
    <3>1. /\ declared'[p] = new.stock /\ sold'[p] = 0 /\ product'[p].stock = new.stock
          /\ \A x \in Products \ {p} : declared'[x] = declared[x] /\ sold'[x] = sold[x]
      BY <1>1, <1>2, <1>3, <2>2 DEF TypeInv
    <3>2. Less(new.stock, 0) = new.stock
      BY <1>3, LessTwice
    <3> QED
      BY <1>4, <3>1, <3>2 DEF StockInv, StockIsAccountedFor
  <2> QED
    BY <2>1, <2>2
<1>10. NeverOversold'
  <2>1. new.stock = editing[p].stock \/ new.stock \in Stocks
    BY <1>1, <1>2 DEF Edited, Rows
  <2>2. Stocks \subseteq Nat \cup {Untracked}
    BY CheckoutAssumption
  <2>3. product'[p].stock # Untracked => product'[p].stock >= 0
    <3>1. CASE new.stock = editing[p].stock
      BY <1>1, <1>3, <3>1 DEF StockInv, NeverOversold
    <3>2. CASE new.stock # editing[p].stock
      <4>1. new.stock \in Stocks /\ product'[p].stock = new.stock
        BY <1>3, <2>1, <3>2
      <4>2. \A n \in Nat : n >= 0
        OBVIOUS
      <4> QED
        BY <2>2, <4>1, <4>2
    <3> QED
      BY <3>1, <3>2
  <2> QED
    BY <1>4, <2>3 DEF StockInv, NeverOversold
<1> QED
  BY <1>6, <1>7, <1>8, <1>9, <1>10 DEF StockInv

\* Together with the types, the stock's invariant is inductive.
LEMMA StockInvariance == Spec => [](TypeInv /\ StockInv)
<1>1. Init => TypeInv /\ StockInv
  <2> SUFFICES ASSUME Init PROVE TypeInv /\ StockInv
    OBVIOUS
  <2>1. PICK f \in [Products -> Stocks] :
          /\ product = [p \in Products |->
                          [stock |-> f[p], available |-> TRUE, deleted |-> FALSE]]
          /\ declared = f
    BY DEF Init
  <2>2. \A p \in Products : f[p] \in StockType /\ (f[p] # Untracked => f[p] >= 0)
    <3> SUFFICES ASSUME NEW p \in Products
                 PROVE  f[p] \in StockType /\ (f[p] # Untracked => f[p] >= 0)
      OBVIOUS
    <3>1. f[p] \in Stocks
      OBVIOUS
    <3>2. f[p] \in Nat \/ f[p] = Untracked
      BY <3>1, CheckoutAssumption
    <3>3. CASE f[p] \in Nat
      BY <3>3 DEF StockType
    <3>4. CASE f[p] = Untracked
      BY <3>4 DEF StockType
    <3> QED
      BY <3>2, <3>3, <3>4
  <2>3. product \in [Products -> Rows] /\ declared \in [Products -> StockType]
    BY <2>1, <2>2 DEF Rows
  <2>4. /\ opened \in [Customers -> [Shops -> Nat]]
        /\ live \in [Customers -> [Shops -> BOOLEAN]]
        /\ lines \in [Customers -> [Products -> Lots]]
        /\ basket \in [Requests -> [Products -> Lots]]
        /\ read \in [Requests -> Copies]
    BY LotFacts, CopyFacts DEF Init, StartingCarts, NoLines
  <2>5. /\ adding \in [Devices -> Additions \cup {Nothing}]
        /\ editing \in [Edits -> Rows \cup {Nothing}]
        /\ sold \in [Products -> Nat]
        /\ cartOf \in [Requests -> [shop : Shops, nr : Nat]]
    BY DEF Init
  <2>6. /\ pc \in [Requests -> {"idle", "looked", "holding", "locking", "inserted",
                              "committed", "over"}]
        /\ reply \in [Requests -> {"none", "created", "existing", "notFound",
                                 "refused", "conflict", "error"}]
    BY DEF Init
  <2>7. TypeInv
    BY <2>3, <2>4, <2>5, <2>6 DEF TypeInv
  <2>8. StockIsAccountedFor /\ NeverOversold
    BY <2>1, <2>2, LessTwice DEF Init, StockIsAccountedFor, NeverOversold
  <2>9. \A r \in Requests : pc[r] = "idle" /\ read[r] = Empty
    BY DEF Init
  <2> QED
    BY <2>7, <2>8, <2>9, CopyFacts DEF StockInv, LocksAreExclusive, OnlyCheckoutsLock,
       CopiesAreFresh, InsertedHolds, InsertedCanSell
<1>2. TypeInv /\ StockInv /\ [Next]_vars => (TypeInv /\ StockInv)'
  <2> SUFFICES ASSUME TypeInv, StockInv, [Next]_vars PROVE TypeInv' /\ StockInv'
    OBVIOUS
  <2> DEFINE stockVars == <<product, declared, sold, pc, read, basket>>
  <2>1. ASSUME UNCHANGED stockVars PROVE StockInv'
    BY <2>1 DEF StockInv, LocksAreExclusive, OnlyCheckoutsLock, CopiesAreFresh, InsertedHolds,
       InsertedCanSell, CanSell, Needed, Enough, Sellable, StockIsAccountedFor, NeverOversold
  <2>2. CASE UNCHANGED vars
    BY <2>1, <2>2 DEF vars, cartVars, productVars, requestVars, TypeInv
  <2>3. CASE Shopping
    <3>1. UNCHANGED stockVars
      BY <2>3 DEF Shopping, FindCart, AddToNewCart, AddToCart, AbortAddition, UpdateCartItem,
         RemoveCartItem, ClearCart, productVars, requestVars
    <3> QED
      BY <2>1, <2>3, <3>1, OtherTyping
  <2>4. CASE Editing
    <3>1. ASSUME NEW p \in Edits, ReadProduct(p) PROVE StockInv'
      BY <2>1, <3>1 DEF ReadProduct, productVars, requestVars
    <3> QED
      BY <2>4, <3>1, StockEditStep, OtherTyping DEF Editing
  <2>5. ASSUME NEW r \in Requests, Lookup(r) \/ Serve(r) \/ Abort(r) PROVE TypeInv' /\ StockInv'
    <3>1. TypeInv'
      BY <2>5, RequestTyping DEF StockInv
    <3>2. CASE Ends(r)
      <4>1. UNCHANGED <<product, declared, sold>>
        BY <3>2 DEF Ends, productVars
      <4>2. LeavesOthers(r)
        BY <3>2 DEF Ends, LeavesOthers, TypeInv
      <4>3. OwnMove(r)
        BY <3>2 DEF Ends, OwnMove, LocksAreTaken, TypeInv
      <4> QED
        BY <3>1, <4>1, <4>2, <4>3, StockQuietStep
    <3>3. CASE LooksUp(r) \/ TakesCart(r)
      <4>1. UNCHANGED <<product, declared, sold>>
        BY <3>3 DEF LooksUp, Lookup, TakesCart, LockCart, productVars
      <4>2. LeavesOthers(r)
        BY <3>3 DEF LooksUp, Lookup, TakesCart, LockCart, LeavesOthers, TypeInv
      <4>3. OwnMove(r)
        BY <3>3 DEF LooksUp, Lookup, TakesCart, LockCart, OwnMove, LocksAreTaken, TypeInv
      <4> QED
        BY <3>1, <4>1, <4>2, <4>3, StockQuietStep
    <3>4. CASE ReadLines(r)
      <4>1. UNCHANGED <<product, declared, sold>>
        BY <3>4 DEF ReadLines, productVars
      <4>2. LeavesOthers(r)
        BY <3>4 DEF ReadLines, LeavesOthers, TypeInv
      <4>3. OwnMove(r)
        BY <3>4 DEF ReadLines, OwnMove, LocksAreTaken, TypeInv
      <4> QED
        BY <3>1, <4>1, <4>2, <4>3, StockQuietStep
    <3>5. CASE Inserts(r)
      <4>1. UNCHANGED <<product, declared, sold>>
        BY <3>5 DEF Inserts, InsertOrder, productVars
      <4>2. LeavesOthers(r)
        BY <3>5 DEF Inserts, InsertOrder, LeavesOthers, TypeInv
      <4>3. OwnMove(r)
        BY <3>5 DEF Inserts, InsertOrder, OwnMove, LocksAreTaken, TypeInv
      <4> QED
        BY <3>1, <4>1, <4>2, <4>3, StockQuietStep
    <3> QED
      BY <2>5, <3>1, <3>2, <3>3, <3>4, <3>5, RequestSteps, StockLockStep, StockCommitStep
  <2> QED
    BY <2>2, <2>3, <2>4, <2>5 DEF Next, CheckingOut
<1> QED
  BY <1>1, <1>2, PTL DEF Spec

\* Every variable keeps its type, whatever the requests race with.
THEOREM Typing == Spec => []TypeOK
<1>1. TypeInv => TypeOK
  BY CopyTyping DEF TypeInv, TypeOK
<1> QED
  BY <1>1, StockInvariance, PTL

\* MarketplaceService.checkout computes the new stock from its own copy and the
\* ORM writes the value, yet no sale and no unit is lost: the stock stays what
\* was last declared less what has been ordered since.
THEOREM StockAccounted == Spec => []StockIsAccountedFor
<1>1. TypeInv /\ StockInv => StockIsAccountedFor
  BY DEF StockInv
<1> QED
  BY <1>1, StockInvariance, PTL

\* Checkouts of the same products never take their stock below zero.
THEOREM NothingOversold == Spec => []NeverOversold
<1>1. TypeInv /\ StockInv => NeverOversold
  BY DEF StockInv
<1> QED
  BY <1>1, StockInvariance, PTL

\* When a checkout commits it still holds every product of the order, and each
\* was on sale when it was checked: no edit has come between.
THEOREM OrdersAreSellable == Spec => OrdersAreOfSellableProducts
<1> DEFINE Sold == \A r \in Requests :
                     pc[r] # "committed" /\ pc'[r] = "committed"
                       => \A p \in Needed(r) : Sellable(p)
<1>1. TypeInv /\ StockInv /\ [Next]_vars => Sold
  <2> SUFFICES ASSUME TypeInv, StockInv, [Next]_vars, NEW r \in Requests,
                      pc[r] # "committed", pc'[r] = "committed"
               PROVE  \A p \in Needed(r) : Sellable(p)
    OBVIOUS
  <2>1. PICK q \in Requests : Lookup(q) \/ Serve(q) \/ Abort(q)
    <3>1. CASE Shopping
      BY <3>1 DEF Shopping, FindCart, AddToNewCart, AddToCart, AbortAddition, UpdateCartItem,
         RemoveCartItem, ClearCart, requestVars
    <3>2. CASE Editing
      BY <3>2 DEF Editing, ReadProduct, WriteProduct, requestVars
    <3>3. CASE UNCHANGED vars
      BY <3>3 DEF vars, requestVars
    <3> QED
      BY <3>1, <3>2, <3>3 DEF Next, CheckingOut
  <2>2. CASE Commit(q)
    <3>1. q = r
      BY <2>2 DEF Commit, Finish, TypeInv
    <3> QED
      BY <2>2, <3>1 DEF Commit, StockInv, InsertedCanSell, CanSell
  <2>3. CASE Ends(q) \/ LooksUp(q) \/ TakesCart(q) \/ ReadLines(q) \/ Inserts(q)
    BY <2>3 DEF Ends, LooksUp, TakesCart, ReadLines, Inserts, TypeInv
  <2>4. ASSUME NEW p \in Products, LockProduct(q, p) PROVE FALSE
    BY <2>4 DEF LockProduct
  <2> QED
    BY <2>1, <2>2, <2>3, <2>4, RequestSteps
<1>2. [](TypeInv /\ StockInv) /\ [][Next]_vars => [][Sold]_vars
  BY <1>1, PTL
<1> QED
  BY <1>2, StockInvariance, PTL DEF Spec, OrdersAreOfSellableProducts

-----------------------------------------------------------------------------
(***************************************************************************)
(* The orders.                                                             *)
(***************************************************************************)
SameCart(r, q) == CustomerOf[r] = CustomerOf[q] /\ cartOf[r].shop = cartOf[q].shop

HeldIsLive == \A r \in Requests : HoldsCart(r) => CartIsLive(CustomerOf[r], cartOf[r])

HeldOnce ==
  \A r, q \in Requests : r # q /\ HoldsCart(r) /\ HoldsCart(q) => ~ SameCart(r, q)

OrderedAreGone ==
  \A r \in Requests :
    pc[r] = "committed" =>
      /\ cartOf[r].nr <= opened[CustomerOf[r]][cartOf[r].shop]
      /\ ~ CartIsLive(CustomerOf[r], cartOf[r])

KeysHeldOnce ==
  \A r, q \in Requests :
    r # q /\ pc[r] = "inserted" /\ pc[q] \in {"inserted", "committed"} => ~ SameKey(r, q)

OrderInv ==
  /\ HeldIsLive /\ HeldOnce /\ OrderedAreGone /\ KeysHeldOnce
  /\ CartsAreOrderedOnce /\ KeysAreOrderedOnce

\* What a request's step, the commit apart, does with its cart and its key.
CartMove(r) ==
  \/ pc'[r] \in {"looked", "over"}
  \/ /\ pc[r] = "looked" /\ pc'[r] = "holding" /\ cartOf'[r] = cartOf[r]
     /\ CartIsFree(CustomerOf[r], cartOf[r].shop) /\ CartIsLive(CustomerOf[r], cartOf[r])
  \/ pc[r] = "holding" /\ pc'[r] = "locking" /\ cartOf'[r] = cartOf[r]
  \/ /\ pc[r] = "locking" /\ pc'[r] = "inserted" /\ cartOf'[r] = cartOf[r]
     /\ ~ KeyIsPending(r) /\ ~ KeyIsTaken(r)

CartsOfOthers(r) == \A q \in Requests \ {r} : pc'[q] = pc[q] /\ cartOf'[q] = cartOf[q]

\* Such a step keeps the invariant: the lock and the unique constraint are what
\* lets it hold a cart, or a key, alone.
LEMMA OrderQuietStep ==
  ASSUME TypeInv, OrderInv, NEW r \in Requests, UNCHANGED <<opened, live>>,
         CartsOfOthers(r), CartMove(r)
  PROVE  OrderInv'
<1> USE DEF CartsOfOthers, CartMove, HoldsCart
<1>1. HeldIsLive'
  BY DEF OrderInv, HeldIsLive, CartIsLive
<1>2. HeldOnce'
  BY DEF OrderInv, HeldOnce, SameCart, CartIsFree
<1>3. \A q \in Requests : pc'[q] = "committed" =>
        q # r /\ pc[q] = "committed" /\ cartOf'[q] = cartOf[q]
  OBVIOUS
<1>4. OrderedAreGone'
  BY <1>3 DEF OrderInv, OrderedAreGone, CartIsLive
<1>5. KeysHeldOnce'
  BY DEF OrderInv, KeysHeldOnce, SameKey, KeyIsPending, KeyIsTaken, Ordered
<1>6. CartsAreOrderedOnce' /\ KeysAreOrderedOnce'
  BY <1>3 DEF OrderInv, CartsAreOrderedOnce, KeysAreOrderedOnce, Ordered, SameKey
<1> QED
  BY <1>1, <1>2, <1>4, <1>5, <1>6 DEF OrderInv

\* A commit orders a cart that was live and was held by nobody else.
LEMMA OrderCommitStep ==
  ASSUME TypeInv, OrderInv, NEW r \in Requests, Commit(r)
  PROVE  OrderInv'
<1> DEFINE u == CustomerOf[r]
           s == cartOf[r].shop
<1>1. u \in Customers /\ s \in Shops
  BY CheckoutAssumption DEF TypeInv
<1>2. /\ pc[r] = "inserted" /\ pc'[r] = "committed" /\ cartOf' = cartOf /\ opened' = opened
      /\ \A q \in Requests \ {r} : pc'[q] = pc[q]
  BY DEF Commit, Finish, TypeInv
<1>3. /\ ~ live'[u][s]
      /\ \A v \in Customers, t \in Shops : v # u \/ t # s => live'[v][t] = live[v][t]
  BY <1>1 DEF Commit, TypeInv
<1>4. \A q \in Requests : CustomerOf[q] \in Customers /\ cartOf[q].shop \in Shops
                            /\ cartOf[q].nr \in Nat
  BY CheckoutAssumption DEF TypeInv
<1>5. CartIsLive(u, cartOf[r])
  BY <1>2 DEF OrderInv, HeldIsLive, HoldsCart
<1>6. \A q \in Requests \ {r} : HoldsCart(q) => ~ SameCart(q, r)
  BY <1>2 DEF OrderInv, HeldOnce, HoldsCart
<1>7. HeldIsLive' /\ HeldOnce'
  <2>1. \A q \in Requests : pc'[q] \in {"holding", "locking", "inserted"} =>
          q # r /\ HoldsCart(q)
    BY <1>2 DEF HoldsCart
  <2>2. HeldIsLive'
    BY <1>2, <1>3, <1>4, <1>6, <2>1
       DEF OrderInv, HeldIsLive, HoldsCart, CartIsLive, SameCart
  <2>3. HeldOnce'
    BY <1>2, <2>1 DEF OrderInv, HeldOnce, HoldsCart, SameCart
  <2> QED
    BY <2>2, <2>3
<1>8. OrderedAreGone'
  <2> SUFFICES ASSUME NEW q \in Requests, pc'[q] = "committed"
               PROVE  /\ cartOf[q].nr <= opened[CustomerOf[q]][cartOf[q].shop]
                      /\ ~ (live'[CustomerOf[q]][cartOf[q].shop]
                            /\ opened[CustomerOf[q]][cartOf[q].shop] = cartOf[q].nr)
    BY <1>2 DEF OrderedAreGone, CartIsLive
  <2>1. CASE q = r
    BY <1>3, <1>4, <1>5, <2>1 DEF CartIsLive
  <2>2. CASE q # r
    BY <1>2, <1>3, <1>4, <2>2 DEF OrderInv, OrderedAreGone, CartIsLive
  <2> QED
    BY <2>1, <2>2
<1>9. KeysHeldOnce'
  BY <1>2 DEF OrderInv, KeysHeldOnce, SameKey
<1>10. CartsAreOrderedOnce'
  <2>1. \A q \in Requests \ {r} :
          pc[q] = "committed" => ~ (CustomerOf[q] = u /\ cartOf[q] = cartOf[r])
    BY <1>5 DEF OrderInv, OrderedAreGone
  <2> QED
    BY <1>2, <2>1 DEF OrderInv, CartsAreOrderedOnce, Ordered
<1>11. KeysAreOrderedOnce'
  <2>1. \A q \in Requests \ {r} : pc[q] = "committed" => ~ SameKey(r, q) /\ ~ SameKey(q, r)
    BY <1>2 DEF OrderInv, KeysHeldOnce, SameKey
  <2> QED
    BY <1>2, <2>1 DEF OrderInv, KeysAreOrderedOnce, Ordered, SameKey
<1> QED
  BY <1>7, <1>8, <1>9, <1>10, <1>11 DEF OrderInv

\* Carts are opened where none is live and cleared where none is held.
LEMMA OrderShoppingStep ==
  ASSUME TypeInv, OrderInv, UNCHANGED <<pc, cartOf>>,
         \/ UNCHANGED <<opened, live>>
         \/ \E d \in Devices : AddToNewCart(d)
         \/ \E u \in Customers : ClearCart(u)
  PROVE  OrderInv'
<1>1. \A r \in Requests : CustomerOf[r] \in Customers /\ cartOf[r].shop \in Shops
                            /\ cartOf[r].nr \in Nat
  BY CheckoutAssumption DEF TypeInv
<1>2. /\ \A r \in Requests :
           HoldsCart(r) => LET v == CustomerOf[r]  t == cartOf[r].shop IN
                           live'[v][t] = live[v][t] /\ opened'[v][t] = opened[v][t]
      /\ \A v \in Customers, t \in Shops :
           \/ opened'[v][t] = opened[v][t] /\ (live'[v][t] => live[v][t])
           \/ opened'[v][t] = opened[v][t] + 1
  <2>1. CASE UNCHANGED <<opened, live>>
    BY <2>1
  <2>2. ASSUME NEW d \in Devices, AddToNewCart(d), ~ UNCHANGED <<opened, live>>
        PROVE  <1>2!:
    <3> DEFINE u == OwnerOf[d]
               s == ShopOf[adding[d].product]
    <3>1. adding[d] \in Additions
      BY <2>2 DEF AddToNewCart, TypeInv
    <3>2. u \in Customers /\ s \in Shops
      BY <3>1, CheckoutAssumption DEF Additions
    <3>3. /\ ~ live[u][s]
          /\ opened' = [opened EXCEPT ![u][s] = opened[u][s] + 1]
          /\ live' = [live EXCEPT ![u][s] = TRUE]
      BY <2>2 DEF AddToNewCart, cartVars
    <3>4. /\ opened'[u][s] = opened[u][s] + 1
          /\ \A v \in Customers, t \in Shops :
               v # u \/ t # s => live'[v][t] = live[v][t] /\ opened'[v][t] = opened[v][t]
      BY <3>2, <3>3 DEF TypeInv
    <3>5. \A r \in Requests : HoldsCart(r) => CustomerOf[r] # u \/ cartOf[r].shop # s
      BY <3>3 DEF OrderInv, HeldIsLive, CartIsLive
    <3> QED
      BY <1>1, <3>4, <3>5
  <2>3. ASSUME NEW u \in Customers, ClearCart(u)
        PROVE  <1>2!:
    <3>1. opened' = opened /\ live' = [live EXCEPT ![u] = [s \in Shops |-> FALSE]]
      BY <2>3 DEF ClearCart
    <3>2. \A v \in Customers, t \in Shops :
            IF v = u THEN live'[v][t] = FALSE ELSE live'[v][t] = live[v][t]
      BY <3>1 DEF TypeInv
    <3>3. \A r \in Requests : HoldsCart(r) => CustomerOf[r] # u
      BY <1>1, <2>3 DEF ClearCart, CartIsFree, OrderInv, HeldIsLive, CartIsLive
    <3> QED
      BY <1>1, <3>1, <3>2, <3>3
  <2> QED
    BY <2>1, <2>2, <2>3
<1>3. HeldIsLive'
  BY <1>2 DEF OrderInv, HeldIsLive, HoldsCart, CartIsLive
<1>4. OrderedAreGone'
  <2> SUFFICES ASSUME NEW r \in Requests, pc[r] = "committed"
               PROVE  LET v == CustomerOf[r]  t == cartOf[r].shop IN
                      /\ cartOf[r].nr <= opened'[v][t]
                      /\ ~ (live'[v][t] /\ opened'[v][t] = cartOf[r].nr)
    BY DEF OrderedAreGone, CartIsLive
  <2>1. LET v == CustomerOf[r]  t == cartOf[r].shop IN
        /\ cartOf[r].nr <= opened[v][t] /\ opened[v][t] \in Nat
        /\ ~ (live[v][t] /\ opened[v][t] = cartOf[r].nr)
    BY <1>1 DEF OrderInv, OrderedAreGone, CartIsLive, TypeInv
  <2> QED
    BY <1>1, <1>2, <2>1
<1> QED
  BY <1>3, <1>4 DEF OrderInv, HeldOnce, HoldsCart, SameCart, KeysHeldOnce, SameKey,
     CartsAreOrderedOnce, KeysAreOrderedOnce, Ordered

\* Together with the types, the orders' invariant is inductive.
LEMMA OrderInvariance == Spec => []OrderInv
<1>1. Init => OrderInv
  BY DEF Init, OrderInv, HeldIsLive, HeldOnce, OrderedAreGone, KeysHeldOnce, HoldsCart,
     CartsAreOrderedOnce, KeysAreOrderedOnce, Ordered
<1>2. TypeInv /\ OrderInv /\ [Next]_vars => OrderInv'
  <2> SUFFICES ASSUME TypeInv, OrderInv, [Next]_vars PROVE OrderInv'
    OBVIOUS
  <2>1. CASE UNCHANGED vars
    BY <2>1, OrderShoppingStep DEF vars, cartVars, requestVars
  <2>2. CASE Shopping
    <3>1. UNCHANGED <<pc, cartOf>>
      BY <2>2 DEF Shopping, FindCart, AddToNewCart, AddToCart, AbortAddition, UpdateCartItem,
         RemoveCartItem, ClearCart, requestVars
    <3>2. \/ UNCHANGED <<opened, live>>
          \/ \E d \in Devices : AddToNewCart(d)
          \/ \E u \in Customers : ClearCart(u)
      BY <2>2 DEF Shopping, FindCart, AddToCart, AbortAddition, UpdateCartItem,
         RemoveCartItem, cartVars
    <3> QED
      BY <3>1, <3>2, OrderShoppingStep
  <2>3. CASE Editing
    <3>1. UNCHANGED <<pc, cartOf, opened, live>>
      BY <2>3 DEF Editing, ReadProduct, WriteProduct, cartVars, requestVars
    <3> QED
      BY <3>1, OrderShoppingStep
  <2>4. ASSUME NEW r \in Requests, Lookup(r) \/ Serve(r) \/ Abort(r) PROVE OrderInv'
    <3>1. CASE (Ends(r) /\ EndsFrom(r)) \/ LooksUp(r)
      <4>1. UNCHANGED <<opened, live>>
        BY <3>1 DEF Ends, LooksUp, Lookup, cartVars
      <4>2. CartsOfOthers(r) /\ pc'[r] \in {"looked", "over"}
        BY <3>1 DEF Ends, EndsFrom, LooksUp, Lookup, CartsOfOthers, TypeInv
      <4> QED
        BY <4>1, <4>2, OrderQuietStep DEF CartMove
    <3>2. CASE TakesCart(r) \/ ReadLines(r) \/ Inserts(r)
      <4>1. UNCHANGED <<opened, live>>
        BY <3>2 DEF TakesCart, LockCart, ReadLines, Inserts, InsertOrder, cartVars
      <4>2. CartsOfOthers(r)
        BY <3>2 DEF TakesCart, LockCart, ReadLines, Inserts, InsertOrder, CartsOfOthers, TypeInv
      <4>3. CartMove(r)
        BY <3>2 DEF TakesCart, LockCart, ReadLines, Inserts, InsertOrder, LocksAreTaken,
           CartMove, TypeInv
      <4> QED
        BY <4>1, <4>2, <4>3, OrderQuietStep
    <3>3. ASSUME NEW p \in Products, LockProduct(r, p) PROVE OrderInv'
      <4>1. UNCHANGED <<pc, cartOf, opened, live>>
        BY <3>3 DEF LockProduct, cartVars
      <4> QED
        BY <4>1, OrderShoppingStep
    <3> QED
      BY <2>4, <3>1, <3>2, <3>3, OrderCommitStep, RequestSteps
  <2> QED
    BY <2>1, <2>2, <2>3, <2>4 DEF Next, CheckingOut
<1> QED
  BY <1>1, <1>2, StockInvariance, PTL DEF Spec

\* The lock of the cart row and its deletion in the same transaction make of a
\* cart at most one order.
THEOREM CartsOrderedOnce == Spec => []CartsAreOrderedOnce
<1>1. OrderInv => CartsAreOrderedOnce
  BY DEF OrderInv
<1> QED
  BY <1>1, OrderInvariance, PTL

\* The unique constraint on customer and idempotency key holds one order per key
\* although the lookup for it comes before every lock.
THEOREM KeysOrderedOnce == Spec => []KeysAreOrderedOnce
<1>1. OrderInv => KeysAreOrderedOnce
  BY DEF OrderInv
<1> QED
  BY <1>1, OrderInvariance, PTL

-----------------------------------------------------------------------------
(***************************************************************************)
(* A checkout is one sale (module Sales).                                  *)
(***************************************************************************)
LinesNeedCart == \A u \in Customers, p \in Products : lines[u][p] # 0 => live[u][ShopOf[p]]

\* The steps that buy nothing, quote nothing and leave the carts and the
\* products alone: they change no quote and no order.
LEMMA QuietForSales ==
  ASSUME UNCHANGED <<opened, live, lines, product>>,
         \A r \in Requests : QuoteOf(r)' = QuoteOf(r) /\ OrderOf(r)' = OrderOf(r)
  PROVE  UNCHANGED Sale!vars
<1>1. [r \in Requests |-> QuoteOf(r)]' = [r \in Requests |-> QuoteOf(r)]
  OBVIOUS
<1>2. [r \in Requests |-> OrderOf(r)]' = [r \in Requests |-> OrderOf(r)]
  OBVIOUS
<1>3. [p \in Products |-> Sellable(p)]' = [p \in Products |-> Sellable(p)]
  BY DEF Sellable
<1> QED
  BY <1>1, <1>2, <1>3 DEF Sale!vars

\* Where a request is quoted or has bought, and what it then holds.
LEMMA PurchaseFacts ==
  ASSUME TypeInv, NEW r \in Requests
  PROVE  /\ Bought(r) \in Purchases /\ Bought(r) # Nothing
         /\ QuoteOf(r) # Nothing <=> pc[r] \in {"locking", "inserted"}
         /\ OrderOf(r) # Nothing <=> pc[r] = "committed"
<1>1. Bought(r) \in Purchases
  BY DEF Bought, Purchases, TypeInv
<1> QED
  BY <1>1, CheckoutAssumption DEF QuoteOf, OrderOf

\* A request that ends withdraws its quote, if it had one.
LEMMA EndForSales ==
  ASSUME TypeInv, NEW r \in Requests, Ends(r), EndsFrom(r)
  PROVE  Sale!Withdraw(r)
<1>1. /\ \A q \in Requests \ {r} : pc'[q] = pc[q] /\ cartOf'[q] = cartOf[q]
      /\ pc'[r] = "over" /\ pc[r] # "committed" /\ basket' = basket
  BY DEF Ends, EndsFrom, TypeInv
<1>2. /\ QuoteOf(r)' = Nothing
      /\ \A q \in Requests \ {r} : QuoteOf(q)' = QuoteOf(q)
      /\ \A q \in Requests : OrderOf(q)' = OrderOf(q)
  BY <1>1 DEF QuoteOf, OrderOf, Bought
<1>3. [q \in Requests |-> QuoteOf(q)]' = [[q \in Requests |-> QuoteOf(q)] EXCEPT ![r] = Nothing]
  BY <1>2
<1>4. [q \in Requests |-> OrderOf(q)]' = [q \in Requests |-> OrderOf(q)]
  BY <1>2
<1>5. UNCHANGED <<opened, live, lines, product>>
  BY DEF Ends, cartVars, productVars
<1>6. [p \in Products |-> Sellable(p)]' = [p \in Products |-> Sellable(p)]
  BY <1>5 DEF Sellable
<1> QED
  BY <1>3, <1>4, <1>5, <1>6 DEF Sale!Withdraw

\* Reading the lines of a live cart is a quote.
LEMMA ReadForSales ==
  ASSUME TypeInv, OrderInv, NEW r \in Requests, ReadLines(r)
  PROVE  Sale!Quote(r)
<1> DEFINE u == CustomerOf[r]
           s == cartOf[r].shop
           found == [p \in Products |-> IF ShopOf[p] = s THEN lines[u][p] ELSE 0]
<1>1. /\ pc[r] = "holding" /\ pc'[r] = "locking" /\ cartOf' = cartOf
      /\ found # NoLines /\ basket'[r] = found
      /\ \A q \in Requests \ {r} : pc'[q] = pc[q] /\ basket'[q] = basket[q]
      /\ UNCHANGED <<opened, live, lines, product>>
  BY DEF ReadLines, TypeInv, cartVars, productVars
<1>2. live[u][s] /\ opened[u][s] = cartOf[r].nr
  BY <1>1 DEF OrderInv, HeldIsLive, HoldsCart, CartIsLive
<1>3. s \in Shops /\ cartOf[r] = [shop |-> s, nr |-> opened[u][s]]
  BY <1>2 DEF TypeInv
<1>4. \E p \in Products : found[p] # 0
  BY <1>1 DEF NoLines
<1>5. /\ QuoteOf(r)' = [cart |-> [shop |-> s, nr |-> opened[u][s]], lots |-> found]
      /\ \A q \in Requests \ {r} : QuoteOf(q)' = QuoteOf(q)
      /\ \A q \in Requests : OrderOf(q)' = OrderOf(q)
      /\ OrderOf(r) = Nothing
  BY <1>1, <1>3 DEF QuoteOf, OrderOf, Bought
<1>6. [q \in Requests |-> QuoteOf(q)]' =
        [[q \in Requests |-> QuoteOf(q)] EXCEPT
           ![r] = [cart |-> [shop |-> s, nr |-> opened[u][s]], lots |-> found]]
  BY <1>5
<1>7. [q \in Requests |-> OrderOf(q)]' = [q \in Requests |-> OrderOf(q)]
  BY <1>5
<1>8. [p \in Products |-> Sellable(p)]' = [p \in Products |-> Sellable(p)]
  BY <1>1 DEF Sellable
<1> QED
  BY <1>1, <1>2, <1>3, <1>4, <1>5, <1>6, <1>7, <1>8 DEF Sale!Quote

\* A commit checks and does at once all that a sale does: the cart it holds is
\* live, the products it holds are on sale and as it has read them, and nobody
\* else has inserted or committed an order with the key.
LEMMA CommitForSales ==
  ASSUME TypeInv, StockInv, OrderInv, NEW r \in Requests, Commit(r)
  PROVE  Sale!Sell(r)
<1> DEFINE u == CustomerOf[r]
           s == cartOf[r].shop
<1>1. /\ pc[r] = "inserted" /\ pc'[r] = "committed"
      /\ \A q \in Requests \ {r} : pc'[q] = pc[q]
      /\ UNCHANGED <<opened, cartOf, basket>>
      /\ live' = [live EXCEPT ![u][s] = FALSE]
      /\ lines' = [lines EXCEPT ![u] = [p \in Products |-> IF ShopOf[p] = s THEN 0 ELSE @[p]]]
  BY DEF Commit, Finish, TypeInv
<1>2. QuoteOf(r) = [cart |-> cartOf[r], lots |-> basket[r]]
  BY <1>1 DEF QuoteOf, Bought
<1>3. QuoteOf(r) # Nothing
  BY <1>1, PurchaseFacts
<1>4. live[u][s] /\ opened[u][s] = cartOf[r].nr
  BY <1>1 DEF OrderInv, HeldIsLive, HoldsCart, CartIsLive
<1>5. Needed(r) \subseteq DOMAIN read[r] /\ CanSell(r)
  BY <1>1 DEF StockInv, InsertedHolds, InsertedCanSell
<1>6. \A p \in Needed(r) : read[r][p] = product[p].stock
  BY <1>5 DEF StockInv, CopiesAreFresh
<1>7. \A p \in Products : product[p].stock \in StockType /\ basket[r][p] \in Nat
  <2>1. \A p \in Products : product[p] \in Rows /\ basket[r][p] \in Lots
    BY DEF TypeInv
  <2> QED
    BY <2>1, LotFacts DEF Rows
<1>8. \A p \in Products :
        basket[r][p] # 0 =>
          /\ Sellable(p)
          /\ ~ (product[p].stock # Untracked /\ product[p].stock < basket[r][p])
  <2> SUFFICES ASSUME NEW p \in Products, basket[r][p] # 0
               PROVE  /\ Sellable(p)
                      /\ ~ (product[p].stock # Untracked /\ product[p].stock < basket[r][p])
    OBVIOUS
  <2>1. p \in Needed(r)
    BY DEF Needed
  <2>2. Sellable(p) /\ (product[p].stock # Untracked => product[p].stock >= basket[r][p])
    BY <1>5, <1>6, <2>1 DEF CanSell, Enough
  <2> QED
    BY <1>7, <2>2 DEF StockType
<1>9. \A q \in Requests : OrderOf(q) # Nothing => ~ (CustomerOf[q] = u /\ KeyOf[q] = KeyOf[r])
  BY <1>1, PurchaseFacts DEF OrderInv, KeysHeldOnce, SameKey
<1>10. \A p \in Products :
         /\ product'[p].stock = IF product[p].stock = Untracked
                                  THEN Untracked ELSE product[p].stock - basket[r][p]
         /\ product'[p].available = product[p].available
         /\ product'[p].deleted = product[p].deleted
  <2> SUFFICES ASSUME NEW p \in Products
               PROVE  /\ product'[p].stock = Less(product[p].stock, basket[r][p])
                      /\ product'[p].available = product[p].available
                      /\ product'[p].deleted = product[p].deleted
    BY DEF Less
  <2>1. CASE p \in Needed(r)
    BY <1>6, <2>1 DEF Commit, TypeInv, Rows
  <2>2. CASE p \notin Needed(r)
    <3>1. product'[p] = product[p] /\ basket[r][p] = 0
      BY <1>7, <2>2 DEF Commit, TypeInv, Needed
    <3> QED
      BY <1>7, <3>1, LessTwice
  <2> QED
    BY <2>1, <2>2
<1>11. [p \in Products |-> product[p].stock]' =
         [p \in Products |-> IF product[p].stock = Untracked
                               THEN Untracked ELSE product[p].stock - basket[r][p]]
  BY <1>10
<1>12. [p \in Products |-> Sellable(p)]' = [p \in Products |-> Sellable(p)]
  BY <1>10 DEF Sellable
<1>13. /\ QuoteOf(r)' = Nothing /\ OrderOf(r)' = QuoteOf(r)
       /\ \A q \in Requests \ {r} : QuoteOf(q)' = QuoteOf(q) /\ OrderOf(q)' = OrderOf(q)
  BY <1>1 DEF QuoteOf, OrderOf, Bought
<1>14. [q \in Requests |-> QuoteOf(q)]' = [[q \in Requests |-> QuoteOf(q)] EXCEPT ![r] = Nothing]
  BY <1>13
<1>15. [q \in Requests |-> OrderOf(q)]' =
         [[q \in Requests |-> OrderOf(q)] EXCEPT ![r] = QuoteOf(r)]
  BY <1>13
<1> DEFINE quotes == [q \in Requests |-> QuoteOf(q)]
           orders == [q \in Requests |-> OrderOf(q)]
<1>16. quotes[r] = [cart |-> cartOf[r], lots |-> basket[r]] /\ quotes[r] # Nothing
  BY <1>2, <1>3
<1>17. orders' = [orders EXCEPT ![r] = quotes[r]] /\ quotes' = [quotes EXCEPT ![r] = Nothing]
  BY <1>14, <1>15
<1>18. \A q \in Requests :
         orders[q] # Nothing => ~ (CustomerOf[q] = u /\ KeyOf[q] = KeyOf[r])
  BY <1>9
<1> HIDE DEF quotes, orders
<1>19. Sale!IsLive(u, quotes[r].cart)
  BY <1>4, <1>16 DEF Sale!IsLive
<1>20. \A p \in Products :
         quotes[r].lots[p] # 0 =>
           [x \in Products |-> Sellable(x)][p] /\ ~ Sale!IsBelow(p, quotes[r].lots[p])
  BY <1>8, <1>16 DEF Sale!IsBelow
<1>21. [p \in Products |-> product[p].stock]' =
         [p \in Products |-> Sale!Remaining(p, quotes[r].lots[p])]
  BY <1>11, <1>16 DEF Sale!Remaining
<1>22. s = quotes[r].cart.shop
  BY <1>16
<1> QED
  BY <1>1, <1>12, <1>16, <1>17, <1>18, <1>19, <1>20, <1>21, <1>22 DEF Sale!Sell, quotes, orders

\* What a customer does to the carts is what it does in Sales, or nothing.
LEMMA ShoppingForSales ==
  ASSUME TypeInv, LinesNeedCart, Shopping
  PROVE  Sale!Next \/ UNCHANGED Sale!vars
<1>1. UNCHANGED <<product, pc, cartOf, basket>>
  BY DEF Shopping, FindCart, AddToNewCart, AddToCart, AbortAddition, UpdateCartItem,
     RemoveCartItem, ClearCart, productVars, requestVars
<1>2. /\ [r \in Requests |-> QuoteOf(r)]' = [r \in Requests |-> QuoteOf(r)]
      /\ [r \in Requests |-> OrderOf(r)]' = [r \in Requests |-> OrderOf(r)]
      /\ [p \in Products |-> Sellable(p)]' = [p \in Products |-> Sellable(p)]
      /\ \A r \in Requests : QuoteOf(r)' = QuoteOf(r) /\ OrderOf(r)' = OrderOf(r)
  BY <1>1 DEF QuoteOf, OrderOf, Bought, Sellable
<1>3. ASSUME UNCHANGED <<opened, live, lines>> PROVE UNCHANGED Sale!vars
  BY <1>1, <1>2, <1>3, QuietForSales
<1>4. ASSUME NEW d \in Devices,
             (\E p \in Products : FindCart(d, p)) \/ AbortAddition(d)
      PROVE  UNCHANGED Sale!vars
  BY <1>3, <1>4 DEF FindCart, AbortAddition, cartVars
<1>5. ASSUME NEW d \in Devices, AddToNewCart(d) PROVE Sale!Next \/ UNCHANGED Sale!vars
  <2> DEFINE u == OwnerOf[d]
             p == adding[d].product
  <2>1. u \in Customers /\ p \in Products
    BY <1>5, CheckoutAssumption DEF AddToNewCart, TypeInv, Additions
  <2>2. CASE live[u][ShopOf[p]]
    BY <1>3, <1>5, <2>2 DEF AddToNewCart, cartVars
  <2>3. CASE ~ live[u][ShopOf[p]]
    <3>1. Sale!OpenCart(u, p)
      BY <1>1, <1>2, <1>5, <2>3 DEF AddToNewCart, NewQuantity, Sale!OpenCart
    <3> QED
      BY <2>1, <3>1 DEF Sale!Next
  <2> QED
    BY <2>2, <2>3
<1>6. ASSUME NEW d \in Devices, AddToCart(d) PROVE Sale!Next \/ UNCHANGED Sale!vars
  <2> DEFINE u == OwnerOf[d]
             p == adding[d].product
  <2>1. u \in Customers /\ p \in Products
    BY <1>6, CheckoutAssumption DEF AddToCart, TypeInv, Additions
  <2>2. CASE UNCHANGED lines
    BY <1>3, <1>6, <2>2 DEF AddToCart
  <2>3. CASE ~ UNCHANGED lines
    <3>1. Sale!SetLine(u, p)
      BY <1>1, <1>2, <1>6, <2>3 DEF AddToCart, CartIsLive, NewQuantity, Sale!SetLine
    <3> QED
      BY <2>1, <3>1 DEF Sale!Next
  <2> QED
    BY <2>2, <2>3
<1>7. ASSUME NEW u \in Customers, NEW p \in Products,
             UpdateCartItem(u, p) \/ RemoveCartItem(u, p)
      PROVE  Sale!Next
  <2>1. live[u][ShopOf[p]]
    BY <1>7 DEF UpdateCartItem, RemoveCartItem, LinesNeedCart
  <2>2. Sale!SetLine(u, p)
    BY <1>1, <1>2, <1>7, <2>1 DEF UpdateCartItem, RemoveCartItem, NewQuantity, Sale!SetLine
  <2> QED
    BY <2>2 DEF Sale!Next
<1>8. ASSUME NEW u \in Customers, ClearCart(u) PROVE Sale!Next
  <2>1. Sale!ClearCarts(u)
    BY <1>1, <1>2, <1>8 DEF ClearCart, NoLines, Sale!ClearCarts
  <2> QED
    BY <2>1 DEF Sale!Next
<1> QED
  BY <1>4, <1>5, <1>6, <1>7, <1>8 DEF Shopping

\* An edit that is written changes the stock to what it declares, or leaves it.
LEMMA EditingForSales ==
  ASSUME TypeInv, Editing
  PROVE  Sale!Next \/ UNCHANGED Sale!vars
<1>1. UNCHANGED <<opened, live, lines, pc, cartOf, basket>>
  BY DEF Editing, ReadProduct, WriteProduct, cartVars, requestVars
<1>2. /\ [r \in Requests |-> QuoteOf(r)]' = [r \in Requests |-> QuoteOf(r)]
      /\ [r \in Requests |-> OrderOf(r)]' = [r \in Requests |-> OrderOf(r)]
      /\ \A r \in Requests : QuoteOf(r)' = QuoteOf(r) /\ OrderOf(r)' = OrderOf(r)
  BY <1>1 DEF QuoteOf, OrderOf, Bought
<1>3. ASSUME NEW p \in Edits, ReadProduct(p) PROVE UNCHANGED Sale!vars
  BY <1>1, <1>2, <1>3, QuietForSales DEF ReadProduct, productVars
<1>4. ASSUME NEW p \in Edits, WriteProduct(p) PROVE Sale!Next
  <2>1. p \in Products /\ product[p] \in Rows /\ editing[p] \in Rows
    BY <1>4, CheckoutAssumption DEF WriteProduct, TypeInv
  <2>2. PICK new \in Edited(editing[p]) :
          product' = [product EXCEPT ![p] = Overlaid(@, editing[p], new)]
    BY <1>4 DEF WriteProduct
  <2>3. /\ product'[p] \in Rows
        /\ product'[p].stock = product[p].stock \/ product'[p].stock \in Stocks
    <3>1. new.stock = editing[p].stock \/ new.stock \in Stocks
      BY <2>1, <2>2 DEF Edited, Rows
    <3> QED
      BY <2>1, <2>2, <3>1, EditTyping DEF TypeInv
  <2>4. \A x \in Products \ {p} : product'[x] = product[x]
    BY <2>2 DEF TypeInv
  <2> DEFINE stocks == [x \in Products |-> product[x].stock]
             sale == [x \in Products |-> Sellable(x)]
  <2>5. stocks' = stocks \/ \E n \in Stocks : stocks' = [stocks EXCEPT ![p] = n]
    <3>1. CASE product'[p].stock = product[p].stock
      BY <2>4, <3>1
    <3>2. CASE product'[p].stock \in Stocks
      <4>1. stocks' = [stocks EXCEPT ![p] = product'[p].stock]
        BY <2>4
      <4> QED
        BY <3>2, <4>1
    <3> QED
      BY <2>3, <3>1, <3>2
  <2>6. \E b \in BOOLEAN : sale' = [sale EXCEPT ![p] = b]
    <3>1. sale' = [sale EXCEPT ![p] = Sellable(p)']
      BY <2>4 DEF Sellable
    <3>2. Sellable(p)' \in BOOLEAN
      BY DEF Sellable
    <3> QED
      BY <3>1, <3>2
  <2>7. Sale!Edit(p)
    BY <1>1, <1>2, <2>5, <2>6 DEF Sale!Edit
  <2> QED
    BY <2>1, <2>7 DEF Sale!Next
<1> QED
  BY <1>3, <1>4 DEF Editing

\* Every step of the carts, the edits and the checkouts is a step of Sales.
LEMMA SalesStep ==
  ASSUME TypeInv, StockInv, OrderInv, LinesNeedCart, [Next]_vars
  PROVE  [Sale!Next]_(Sale!vars)
<1>1. CASE UNCHANGED vars
  <2>1. \A r \in Requests : QuoteOf(r)' = QuoteOf(r) /\ OrderOf(r)' = OrderOf(r)
    BY <1>1 DEF vars, requestVars, QuoteOf, OrderOf, Bought
  <2> QED
    BY <1>1, <2>1, QuietForSales DEF vars, cartVars, productVars
<1>2. ASSUME NEW r \in Requests, Lookup(r) \/ Serve(r) \/ Abort(r)
      PROVE  Sale!Next \/ UNCHANGED Sale!vars
  <2>1. CASE Ends(r) /\ EndsFrom(r)
    BY <2>1, EndForSales DEF Sale!Next
  <2>2. CASE ReadLines(r)
    BY <2>2, ReadForSales DEF Sale!Next
  <2>3. CASE Commit(r)
    BY <2>3, CommitForSales DEF Sale!Next
  <2>4. ASSUME LooksUp(r) \/ TakesCart(r) \/ Inserts(r)
               \/ \E p \in Products : LockProduct(r, p)
        PROVE  UNCHANGED Sale!vars
    <3>1. UNCHANGED <<opened, live, lines, product, basket>>
      BY <2>4 DEF LooksUp, Lookup, TakesCart, LockCart, Inserts, InsertOrder, LockProduct,
         cartVars, productVars
    <3>2. /\ \A q \in Requests \ {r} : pc'[q] = pc[q] /\ cartOf'[q] = cartOf[q]
          /\ \/ pc[r] \in {"idle", "looked"} /\ pc'[r] \in {"looked", "holding"}
             \/ /\ pc[r] = "locking" /\ pc'[r] \in {"locking", "inserted"}
                /\ cartOf'[r] = cartOf[r]
      BY <2>4 DEF LooksUp, Lookup, TakesCart, LockCart, Inserts, InsertOrder, LockProduct,
         LocksAreTaken, TypeInv
    <3>3. \A q \in Requests : QuoteOf(q)' = QuoteOf(q) /\ OrderOf(q)' = OrderOf(q)
      BY <3>1, <3>2 DEF QuoteOf, OrderOf, Bought
    <3> QED
      BY <3>1, <3>3, QuietForSales
  <2> QED
    BY <1>2, <2>1, <2>2, <2>3, <2>4, RequestSteps
<1> QED
  BY <1>1, <1>2, ShoppingForSales, EditingForSales DEF Next, CheckingOut

\* A line has its cart: a line is written where the cart is live and goes with it.
LEMMA LinesHaveCarts == Spec => []LinesNeedCart
<1>1. Init => LinesNeedCart
  BY DEF Init, StartingCarts, LinesNeedCart
<1>2. TypeInv /\ LinesNeedCart /\ [Next]_vars => LinesNeedCart'
  <2> SUFFICES ASSUME TypeInv, LinesNeedCart, [Next]_vars PROVE LinesNeedCart'
    OBVIOUS
  <2>1. CASE UNCHANGED <<live, lines>>
    BY <2>1 DEF LinesNeedCart
  <2>2. ASSUME NEW d \in Devices, AddToNewCart(d) \/ AddToCart(d) PROVE LinesNeedCart'
    <3> DEFINE u == OwnerOf[d]
               p == adding[d].product
    <3>1. u \in Customers /\ p \in Products /\ ShopOf[p] \in Shops
      BY <2>2, CheckoutAssumption DEF AddToNewCart, AddToCart, TypeInv, Additions
    <3>2. \/ UNCHANGED <<live, lines>>
          \/ /\ live' = live /\ live[u][ShopOf[p]]
             /\ \E q \in Quantities : lines' = [lines EXCEPT ![u][p] = q]
          \/ /\ live' = [live EXCEPT ![u][ShopOf[p]] = TRUE]
             /\ \E q \in Quantities : lines' = [lines EXCEPT ![u][p] = q]
      BY <2>2 DEF AddToNewCart, AddToCart, CartIsLive, NewQuantity, cartVars
    <3>3. ASSUME live' = [live EXCEPT ![u][ShopOf[p]] = TRUE],
                 NEW v \in Customers, NEW t \in Shops
          PROVE  live'[v][t] = IF v = u /\ t = ShopOf[p] THEN TRUE ELSE live[v][t]
      <4>1. live \in [Customers -> [Shops -> BOOLEAN]]
        BY DEF TypeInv
      <4> QED
        BY <3>1, <3>3, <4>1, EntryValue
    <3>4. ASSUME NEW q \in Quantities, lines' = [lines EXCEPT ![u][p] = q],
                 NEW v \in Customers, NEW x \in Products, v # u \/ x # p
          PROVE  lines'[v][x] = lines[v][x]
      <4>1. lines \in [Customers -> [Products -> Lots]]
        BY DEF TypeInv
      <4>2. lines'[v][x] = IF v = u /\ x = p THEN q ELSE lines[v][x]
        BY <3>1, <3>4, <4>1, EntryValue
      <4> QED
        BY <3>4, <4>2
    <3>5. \A x \in Products : ShopOf[x] \in Shops
      BY CheckoutAssumption
    <3>6. ASSUME NEW q \in Quantities, lines' = [lines EXCEPT ![u][p] = q],
                 (live' = live /\ live[u][ShopOf[p]])
                   \/ live' = [live EXCEPT ![u][ShopOf[p]] = TRUE]
          PROVE  LinesNeedCart'
      <4> SUFFICES ASSUME NEW v \in Customers, NEW x \in Products, lines'[v][x] # 0
                   PROVE  live'[v][ShopOf[x]]
        BY DEF LinesNeedCart
      <4>1. CASE v = u /\ x = p
        BY <3>1, <3>3, <3>6, <4>1
      <4>2. CASE v # u \/ x # p
        <5>1. live[v][ShopOf[x]]
          BY <3>4, <3>6, <4>2 DEF LinesNeedCart
        <5> QED
          BY <3>3, <3>5, <3>6, <5>1
      <4> QED
        BY <4>1, <4>2
    <3> QED
      BY <2>1, <3>2, <3>6
  <2>3. ASSUME NEW u \in Customers, NEW p \in Products,
               UpdateCartItem(u, p) \/ RemoveCartItem(u, p)
        PROVE  LinesNeedCart'
    <3>1. lines[u][p] # 0 /\ live' = live /\ \E q \in Lots : lines' = [lines EXCEPT ![u][p] = q]
      BY <2>3, LotFacts DEF UpdateCartItem, RemoveCartItem, NewQuantity
    <3>2. \A v \in Customers, x \in Products : v # u \/ x # p => lines'[v][x] = lines[v][x]
      BY <3>1 DEF TypeInv
    <3> QED
      BY <3>1, <3>2 DEF LinesNeedCart
  <2>4. ASSUME NEW u \in Customers, ClearCart(u) PROVE LinesNeedCart'
    BY <2>4, CheckoutAssumption DEF ClearCart, NoLines, LinesNeedCart, TypeInv
  <2>5. ASSUME NEW r \in Requests, Commit(r) PROVE LinesNeedCart'
    <3>1. CustomerOf[r] \in Customers /\ cartOf[r].shop \in Shops
      BY CheckoutAssumption DEF TypeInv
    <3> QED
      BY <2>5, <3>1, CheckoutAssumption DEF Commit, LinesNeedCart, TypeInv
  <2>6. ASSUME NEW r \in Requests, Lookup(r) \/ Serve(r) \/ Abort(r) PROVE LinesNeedCart'
    BY <2>1, <2>5, <2>6, RequestSteps
       DEF Ends, LooksUp, Lookup, TakesCart, LockCart, ReadLines, LockProduct, Inserts,
           InsertOrder, cartVars
  <2>7. CASE Shopping
    BY <2>1, <2>2, <2>3, <2>4, <2>7 DEF Shopping, FindCart, AbortAddition, cartVars
  <2>8. CASE Editing
    BY <2>1, <2>8 DEF Editing, ReadProduct, WriteProduct, cartVars
  <2>9. CASE UNCHANGED vars
    BY <2>1, <2>9 DEF vars, cartVars
  <2> QED
    BY <2>6, <2>7, <2>8, <2>9 DEF Next, CheckingOut
<1> QED
  BY <1>1, <1>2, StockInvariance, PTL DEF Spec

\* MarketplaceService.checkout locks, checks, answers and commits in turn, while
\* carts and products are edited and other checkouts run: what it does is a sale
\* that checks and does everything at once, when it commits.
THEOREM ImplementsSales == Spec => SellsAtOnce
<1>1. Init => Sale!Init
  <2> SUFFICES ASSUME Init PROVE Sale!Init
    OBVIOUS
  <2>1. PICK f \in [Products -> Stocks] :
          product = [p \in Products |-> [stock |-> f[p], available |-> TRUE, deleted |-> FALSE]]
    BY DEF Init
  <2>2. [p \in Products |-> product[p].stock] \in [Products -> Stocks]
    BY <2>1
  <2>3. [p \in Products |-> Sellable(p)] = [p \in Products |-> TRUE]
    BY <2>1 DEF Sellable
  <2>4. /\ [r \in Requests |-> QuoteOf(r)] = [r \in Requests |-> Nothing]
        /\ [r \in Requests |-> OrderOf(r)] = [r \in Requests |-> Nothing]
    BY DEF Init, QuoteOf, OrderOf
  <2> QED
    BY <2>2, <2>3, <2>4 DEF Init, StartingCarts, Lots, Sale!Init
<1>2. TypeInv /\ StockInv /\ OrderInv /\ LinesNeedCart /\ [Next]_vars => [Sale!Next]_(Sale!vars)
  BY SalesStep
<1> QED
  BY <1>1, <1>2, StockInvariance, OrderInvariance, LinesHaveCarts, PTL
     DEF Spec, SellsAtOnce, Sale!Spec

-----------------------------------------------------------------------------
(***************************************************************************)
(* Checkouts do not block each other for ever.                             *)
(***************************************************************************)
\* The request has a step that needs nobody else: one that waits for a lock, or
\* for another order with its key, has none, unless the database rolls it back.
CanGoOn(r) ==
  \/ pc[r] = "looked" /\ CartIsFree(CustomerOf[r], cartOf[r].shop)
  \/ pc[r] = "holding"
  \/ pc[r] = "locking" /\ \E p \in Needed(r) \ DOMAIN read[r] : ProductIsFree(p)
  \/ LocksAreTaken(r) /\ (CanSell(r) => ~ KeyIsPending(r))
  \/ \E cycle \in SUBSET Requests : r \in cycle /\ \A q \in cycle : WaitsIn(q, cycle)
  \/ pc[r] = "inserted"

SomeoneGoesOn ==
  (\E r \in Requests : InTransaction(r)) => \E r \in Requests : CanGoOn(r)

\* Carts are locked before products and a key is waited for last, so whatever
\* the checkouts wait for, one of them can go on: the only circles of waiting
\* are those between the products of several orders, which the database breaks.
THEOREM CheckoutsNeverStall == Spec => []SomeoneGoesOn
<1>1. TypeInv /\ StockInv => SomeoneGoesOn
  <2> SUFFICES ASSUME TypeInv, StockInv, NEW r \in Requests, InTransaction(r),
                      \A q \in Requests : ~ CanGoOn(q)
               PROVE  FALSE
    BY DEF SomeoneGoesOn
  <2> DEFINE blocked == {q \in Requests : pc[q] = "locking"}
  <2>1. \A q \in Requests : pc[q] # "holding" /\ pc[q] # "inserted"
    BY DEF CanGoOn
  <2>2. ASSUME NEW q \in blocked PROVE WaitsIn(q, blocked)
    <3>1. ~ KeyIsPending(q)
      BY <2>1 DEF KeyIsPending
    <3>2. PICK p \in Needed(q) : p \notin DOMAIN read[q]
      BY <3>1 DEF CanGoOn, LocksAreTaken
    <3>3. ~ ProductIsFree(p)
      BY <3>2 DEF CanGoOn
    <3>4. PICK holder \in Requests : p \in DOMAIN read[holder]
      BY <3>3 DEF ProductIsFree
    <3>5. holder \in blocked \ {q}
      BY <2>1, <3>2, <3>4 DEF StockInv, OnlyCheckoutsLock
    <3> QED
      BY <3>2, <3>4, <3>5 DEF WaitsIn
  <2>3. blocked = {}
    <3> SUFFICES ASSUME NEW q \in blocked PROVE FALSE
      OBVIOUS
    <3>1. blocked \in SUBSET Requests /\ q \in Requests
      OBVIOUS
    <3>2. CanGoOn(q)
      BY <2>2, <3>1 DEF CanGoOn
    <3> QED
      BY <3>1, <3>2
  <2>4. \A q \in Requests : ~ HoldsCart(q)
    BY <2>1, <2>3 DEF HoldsCart
  <2>5. pc[r] = "looked"
    BY <2>1, <2>3 DEF InTransaction
  <2> QED
    BY <2>4, <2>5 DEF CanGoOn, CartIsFree
<1> QED
  BY <1>1, StockInvariance, PTL


-----------------------------------------------------------------------------
(***************************************************************************)
(* How many carts a customer can have.                                     *)
(***************************************************************************)
\* A live cart has been opened, so that an addition knows it from none.
CartsAreCounted ==
  \A u \in Customers :
    /\ IsFiniteSet(CartsOf(u))
    /\ \A s \in Shops : live[u][s] => opened[u][s] # 0

LEMMA OpeningFacts ==
  ASSUME NEW u \in Customers
  PROVE  /\ IsFiniteSet(DevicesOf(u)) /\ Cardinality(DevicesOf(u)) \in Nat
         /\ IsFiniteSet(Opening(u)) /\ Cardinality(Opening(u)) \in Nat
         /\ Cardinality(Opening(u)) <= Cardinality(DevicesOf(u))
<1>1. DevicesOf(u) \in SUBSET Devices /\ Opening(u) \in SUBSET DevicesOf(u)
  BY DEF DevicesOf, Opening
<1>2. IsFiniteSet(DevicesOf(u))
  BY <1>1, CheckoutAssumption, FS_Subset
<1>3. IsFiniteSet(Opening(u)) /\ Cardinality(Opening(u)) <= Cardinality(DevicesOf(u))
  BY <1>1, <1>2, FS_Subset
<1> QED
  BY <1>2, <1>3, FS_CardinalityType

\* A customer who loses carts, or whose additions end, has no more than before.
LEMMA FewerCarts ==
  ASSUME CartsFitDevices, CartsAreCounted, NEW u \in Customers,
         CartsOf(u)' \subseteq CartsOf(u), Opening(u)' \subseteq Opening(u)
  PROVE  /\ IsFiniteSet(CartsOf(u)')
         /\ LET carts == Cardinality(CartsOf(u)') + Cardinality(Opening(u)')
            IN  carts <= 1 \/ carts <= Cardinality(DevicesOf(u))
<1>1. IsFiniteSet(CartsOf(u)) /\ Cardinality(CartsOf(u)) \in Nat
  BY FS_CardinalityType DEF CartsAreCounted
<1>2. /\ IsFiniteSet(CartsOf(u)') /\ Cardinality(CartsOf(u)') \in Nat
      /\ Cardinality(CartsOf(u)') <= Cardinality(CartsOf(u))
  BY <1>1, FS_Subset, FS_CardinalityType
<1>3. /\ Cardinality(Opening(u)') \in Nat /\ Cardinality(Opening(u)) \in Nat
      /\ Cardinality(Opening(u)') <= Cardinality(Opening(u))
  BY OpeningFacts, FS_Subset, FS_CardinalityType
<1>4. Cardinality(DevicesOf(u)) \in Nat
  BY OpeningFacts
<1> QED
  BY <1>1, <1>2, <1>3, <1>4 DEF CartsFitDevices

\* An addition takes one of the customer's devices ...
LEMMA FindCartFits ==
  ASSUME TypeInv, CartsFitDevices, CartsAreCounted,
         NEW d \in Devices, NEW p \in Products, FindCart(d, p)
  PROVE  CartsFitDevices' /\ CartsAreCounted'
<1> DEFINE u == OwnerOf[d]
<1> DEFINE s == ShopOf[p]
<1>1. u \in Customers /\ s \in Shops
  BY CheckoutAssumption
<1>2. UNCHANGED <<opened, live>> /\ \A v \in Customers : CartsOf(v)' = CartsOf(v)
  BY DEF FindCart, cartVars, CartsOf
<1>3. /\ adding[d] = Nothing
      /\ \A e \in Devices :
           adding'[e] = IF e = d
                          THEN [product |-> p, found |-> IF live[u][s] THEN opened[u][s] ELSE 0]
                          ELSE adding[e]
  BY DEF FindCart, TypeInv
<1>4. [product |-> p, found |-> 0] # Nothing
  BY CheckoutAssumption DEF Additions
<1>5. CartsAreCounted'
  BY <1>2 DEF CartsAreCounted
<1>6. ASSUME NEW v \in Customers, v # u PROVE Opening(v)' = Opening(v)
  BY <1>3, <1>6 DEF Opening, DevicesOf
<1>7. CASE live[u][s]
  <2>1. opened[u][s] # 0
    BY <1>1, <1>7 DEF CartsAreCounted
  <2>2. \A v \in Customers : Opening(v)' \subseteq Opening(v)
    BY <1>3, <1>7, <2>1 DEF Opening, DevicesOf
  <2> QED
    BY <1>2, <1>5, <2>2, FewerCarts DEF CartsFitDevices, DevicesOf
<1>8. CASE ~ live[u][s]
  <2>1. CartsOf(u)' = {}
    BY <1>2, <1>8 DEF FindCart, CartsElsewhere, CartsOf
  <2>2. Cardinality(CartsOf(u)') = 0
    BY <2>1, FS_EmptySet
  <2>3. Opening(u)' \subseteq DevicesOf(u)
    BY DEF Opening, DevicesOf
  <2>4. /\ Cardinality(Opening(u)') \in Nat
        /\ Cardinality(Opening(u)') <= Cardinality(DevicesOf(u))
    BY <1>1, <2>3, OpeningFacts, FS_Subset, FS_CardinalityType
  <2>5. \A v \in Customers : v # u => Opening(v)' \subseteq Opening(v)
    BY <1>6
  <2> QED
    <3> SUFFICES ASSUME NEW v \in Customers
                 PROVE  LET carts == Cardinality(CartsOf(v)') + Cardinality(Opening(v)')
                        IN  carts <= 1 \/ carts <= Cardinality(DevicesOf(v))
      BY <1>5 DEF CartsFitDevices, DevicesOf
    <3>1. CASE v = u
      BY <1>1, <2>2, <2>4, <3>1, OpeningFacts
    <3>2. CASE v # u
      BY <1>2, <2>5, <3>2, FewerCarts
    <3> QED
      BY <3>1, <3>2
<1> QED
  BY <1>7, <1>8

\* ... and gives it back with the cart it opens.
LEMMA AddToNewCartFits ==
  ASSUME TypeInv, CartsFitDevices, CartsAreCounted, NEW d \in Devices, AddToNewCart(d),
         ~ UNCHANGED <<opened, live>>
  PROVE  CartsFitDevices' /\ CartsAreCounted'
<1> DEFINE u == OwnerOf[d]
<1> DEFINE s == ShopOf[adding[d].product]
<1>1. u \in Customers /\ s \in Shops
  BY CheckoutAssumption DEF AddToNewCart, TypeInv, Additions
<1>2. /\ ~ live[u][s]
      /\ opened' = [opened EXCEPT ![u][s] = @ + 1]
      /\ live' = [live EXCEPT ![u][s] = TRUE]
      /\ adding[d] # Nothing /\ adding[d].found = 0
      /\ adding' = [adding EXCEPT ![d] = Nothing]
  BY DEF AddToNewCart, cartVars
<1>3. \A v \in Customers, t \in Shops :
        /\ live'[v][t] = IF v = u /\ t = s THEN TRUE ELSE live[v][t]
        /\ opened'[v][t] = IF v = u /\ t = s THEN opened[v][t] + 1 ELSE opened[v][t]
        /\ opened[v][t] \in Nat
  <2> SUFFICES ASSUME NEW v \in Customers, NEW t \in Shops
               PROVE  /\ live'[v][t] = IF v = u /\ t = s THEN TRUE ELSE live[v][t]
                      /\ opened'[v][t] = IF v = u /\ t = s THEN opened[v][t] + 1
                                                          ELSE opened[v][t]
                      /\ opened[v][t] \in Nat
    OBVIOUS
  <2>1. /\ opened \in [Customers -> [Shops -> Nat]]
        /\ live \in [Customers -> [Shops -> BOOLEAN]]
    BY DEF TypeInv
  <2>2. opened[v] \in [Shops -> Nat] /\ live[v] \in [Shops -> BOOLEAN]
    BY <2>1
  <2> HIDE DEF u, s
  <2>3. opened'[v] = IF v = u THEN [opened[v] EXCEPT ![s] = @ + 1] ELSE opened[v]
    BY <1>1, <1>2, <2>1
  <2>4. live'[v] = IF v = u THEN [live[v] EXCEPT ![s] = TRUE] ELSE live[v]
    BY <1>1, <1>2, <2>1
  <2> QED
    BY <1>1, <2>2, <2>3, <2>4
<1>4. \A v \in Customers :
        /\ CartsOf(v)' = IF v = u THEN CartsOf(v) \cup {s} ELSE CartsOf(v)
        /\ Opening(v)' = IF v = u THEN Opening(v) \ {d} ELSE Opening(v)
  BY <1>1, <1>2, <1>3 DEF CartsOf, Opening, DevicesOf, TypeInv
<1>5. d \in Opening(u) /\ s \notin CartsOf(u)
  BY <1>2 DEF Opening, DevicesOf, CartsOf
<1>6. /\ IsFiniteSet(CartsOf(u)) /\ Cardinality(CartsOf(u)) \in Nat
      /\ IsFiniteSet(Opening(u)) /\ Cardinality(Opening(u)) \in Nat
  BY <1>1, OpeningFacts, FS_CardinalityType DEF CartsAreCounted
<1>7. /\ IsFiniteSet(CartsOf(u)') /\ Cardinality(CartsOf(u)') = Cardinality(CartsOf(u)) + 1
      /\ Cardinality(Opening(u)') = Cardinality(Opening(u)) - 1
  BY <1>1, <1>4, <1>5, <1>6, FS_AddElement, FS_RemoveElement
<1>8. CartsAreCounted'
  <2>1. \A v \in Customers : IsFiniteSet(CartsOf(v)')
    BY <1>4, <1>7 DEF CartsAreCounted
  <2>2. ASSUME NEW v \in Customers, NEW t \in Shops, live'[v][t] PROVE opened'[v][t] # 0
    <3>1. opened[v][t] \in Nat
      BY <1>3
    <3>2. CASE v = u /\ t = s
      <4>1. opened'[v][t] = opened[v][t] + 1
        BY <1>3, <3>2
      <4> QED
        BY <3>1, <4>1
    <3>3. CASE ~ (v = u /\ t = s)
      <4>1. live[v][t] /\ opened'[v][t] = opened[v][t]
        BY <1>3, <2>2, <3>3
      <4> QED
        BY <4>1 DEF CartsAreCounted
    <3> QED
      BY <3>2, <3>3
  <2> QED
    BY <2>1, <2>2 DEF CartsAreCounted
<1>9. Cardinality(CartsOf(u)') + Cardinality(Opening(u)')
        = Cardinality(CartsOf(u)) + Cardinality(Opening(u))
  BY <1>6, <1>7
<1> QED
  BY <1>1, <1>4, <1>8, <1>9 DEF CartsFitDevices, DevicesOf

\* Carts are only lost, and additions only end, by every other step.
LEMMA OthersFit ==
  ASSUME TypeInv, CartsFitDevices, CartsAreCounted, opened' = opened,
         \A u \in Customers, s \in Shops : live'[u][s] => live[u][s],
         \A d \in Devices : adding'[d] = adding[d] \/ adding'[d] = Nothing
  PROVE  CartsFitDevices' /\ CartsAreCounted'
<1>1. \A u \in Customers : CartsOf(u)' \subseteq CartsOf(u) /\ Opening(u)' \subseteq Opening(u)
  BY DEF CartsOf, Opening, DevicesOf
<1> QED
  BY <1>1, FewerCarts DEF CartsFitDevices, CartsAreCounted, DevicesOf

\* add_cart_item checks for carts of other shops before it inserts one: n carts
\* take n devices, each adding for a shop while the customer had no cart.
THEOREM CartsFit == Spec => []CartsFitDevices
<1>1. Init => CartsFitDevices /\ CartsAreCounted
  <2> SUFFICES ASSUME Init, NEW u \in Customers
               PROVE  /\ IsFiniteSet(CartsOf(u))
                      /\ Cardinality(CartsOf(u)) + Cardinality(Opening(u)) <= 1
                      /\ \A s \in Shops : live[u][s] => opened[u][s] # 0
    BY DEF CartsFitDevices, CartsAreCounted
  <2>1. CartsOf(u) = {} \/ \E s \in Shops : CartsOf(u) = {s}
    BY DEF Init, StartingCarts, CartsOf
  <2>2. IsFiniteSet(CartsOf(u)) /\ (Cardinality(CartsOf(u)) = 0 \/ Cardinality(CartsOf(u)) = 1)
    <3>1. CASE CartsOf(u) = {}
      BY <3>1, FS_EmptySet
    <3>2. ASSUME NEW s \in Shops, CartsOf(u) = {s}
          PROVE  IsFiniteSet(CartsOf(u)) /\ Cardinality(CartsOf(u)) = 1
      BY <3>2, FS_Singleton
    <3> QED
      BY <2>1, <3>1, <3>2
  <2>3. Opening(u) = {}
    BY DEF Init, Opening, DevicesOf
  <2>4. Cardinality(Opening(u)) = 0
    BY <2>3, FS_EmptySet
  <2> QED
    BY <2>2, <2>4 DEF Init, StartingCarts
<1>2. TypeInv /\ CartsFitDevices /\ CartsAreCounted /\ [Next]_vars
        => CartsFitDevices' /\ CartsAreCounted'
  <2> SUFFICES ASSUME TypeInv, CartsFitDevices, CartsAreCounted, [Next]_vars
               PROVE  CartsFitDevices' /\ CartsAreCounted'
    OBVIOUS
  <2>1. CASE UNCHANGED <<opened, live, adding>>
    BY <2>1, OthersFit
  <2>2. ASSUME NEW d \in Devices, AddToNewCart(d) \/ AddToCart(d) \/ AbortAddition(d)
        PROVE  CartsFitDevices' /\ CartsAreCounted'
    <3>1. \A e \in Devices : adding'[e] = adding[e] \/ adding'[e] = Nothing
      BY <2>2 DEF AddToNewCart, AddToCart, AbortAddition, TypeInv
    <3>2. CASE UNCHANGED <<opened, live>>
      BY <3>1, <3>2, OthersFit
    <3>3. CASE ~ UNCHANGED <<opened, live>>
      BY <2>2, <3>3, AddToNewCartFits DEF AddToCart, AbortAddition, cartVars
    <3> QED
      BY <3>2, <3>3
  <2>3. ASSUME NEW u \in Customers, ClearCart(u) PROVE CartsFitDevices' /\ CartsAreCounted'
    <3>1. UNCHANGED <<opened, adding>> /\ live' = [live EXCEPT ![u] = [s \in Shops |-> FALSE]]
      BY <2>3 DEF ClearCart
    <3>2. \A v \in Customers, s \in Shops : live'[v][s] => live[v][s]
      BY <3>1 DEF TypeInv
    <3> QED
      BY <3>1, <3>2, OthersFit
  <2>4. ASSUME NEW r \in Requests, Commit(r) PROVE CartsFitDevices' /\ CartsAreCounted'
    <3>1. /\ UNCHANGED <<opened, adding>>
          /\ live' = [live EXCEPT ![CustomerOf[r]][cartOf[r].shop] = FALSE]
      BY <2>4 DEF Commit
    <3>2. \A v \in Customers, s \in Shops : live'[v][s] => live[v][s]
      BY <3>1 DEF TypeInv
    <3> QED
      BY <3>1, <3>2, OthersFit
  <2>5. ASSUME NEW r \in Requests, Lookup(r) \/ Serve(r) \/ Abort(r)
        PROVE  CartsFitDevices' /\ CartsAreCounted'
    BY <2>1, <2>4, <2>5, RequestSteps
       DEF Ends, LooksUp, Lookup, TakesCart, LockCart, ReadLines, LockProduct, Inserts,
           InsertOrder, cartVars
  <2>6. CASE Shopping
    <3>1. ASSUME NEW u \in Customers, NEW p \in Products,
                 UpdateCartItem(u, p) \/ RemoveCartItem(u, p)
          PROVE  CartsFitDevices' /\ CartsAreCounted'
      BY <2>1, <3>1 DEF UpdateCartItem, RemoveCartItem
    <3> QED
      BY <2>2, <2>3, <2>6, <3>1, FindCartFits DEF Shopping
  <2>7. CASE Editing
    BY <2>1, <2>7 DEF Editing, ReadProduct, WriteProduct, cartVars
  <2>8. CASE UNCHANGED vars
    BY <2>1, <2>8 DEF vars, cartVars
  <2> QED
    BY <2>5, <2>6, <2>7, <2>8 DEF Next, CheckingOut
<1> QED
  BY <1>1, <1>2, StockInvariance, PTL DEF Spec
=============================================================================
