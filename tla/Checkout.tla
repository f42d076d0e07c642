------------------------------ MODULE Checkout ------------------------------
(***************************************************************************)
(* Carts, products and checkout, at the grain of the row locks of          *)
(* MarketplaceService.checkout.                                            *)
(*                                                                         *)
(* A checkout looks for an order with its idempotency key, locks the cart, *)
(* reads the cart's lines with their products, locking each product (in no *)
(* fixed order, so two checkouts can deadlock), inserts the order, is      *)
(* ANSWERED, and only then commits: the response leaves before the         *)
(* session's commit, which also writes the stock and deletes the cart.     *)
(* Cart edits take no lock on the cart; an edit of a product writes the    *)
(* columns that differ from the row it has read.                           *)
(***************************************************************************)
EXTENDS Integers, FiniteSets

CONSTANTS
  Customers, Shops, Products,
  ShopOf,      \* the shop of each product
  Requests,    \* checkout requests, each served once
  CustomerOf,  \* who sends a request
  KeyOf,       \* its Idempotency-Key header
  Devices,     \* clients that add to a cart, one addition at a time
  OwnerOf,     \* whose a device is
  Quantities,  \* quantities of a cart line
  Stocks,      \* bound: the values of stock_quantity an edit writes
  Edits,       \* bound: the products that are edited
  MaxCarts,    \* bound: carts a customer opens at a shop
  Untracked,   \* stock_quantity is NULL: the product has no stock limit
  Nothing      \* no addition or edit is under way, or no purchase

Lots      == Quantities \cup {0}   \* 0: the cart has no such line
StockType == Int \cup {Untracked}
Rows      == [stock : StockType, available : BOOLEAN, deleted : BOOLEAN]
Additions == [product : Products, found : Nat]
Purchases == [cart : [shop : Shops, nr : Nat], lots : [Products -> Lots]]

ASSUME CheckoutAssumption ==
  /\ IsFiniteSet(Devices)
  /\ ShopOf \in [Products -> Shops]
  /\ CustomerOf \in [Requests -> Customers]
  /\ OwnerOf \in [Devices -> Customers]
  /\ Quantities \subseteq Nat \ {0}
  /\ Untracked \notin Int
  /\ Stocks \subseteq Nat \cup {Untracked}
  /\ Edits \subseteq Products
  /\ MaxCarts \in Nat
  /\ Nothing \notin Additions /\ Nothing \notin Rows /\ Nothing \notin Purchases

VARIABLES
  opened,   \* how many carts the customer has had at the shop
  live,     \* the last of them is still there
  lines,    \* the quantities of the customer's cart lines, by product
  adding,   \* the addition a device has under way: product and cart found
  product,  \* the rows of the products
  editing,  \* the row as the edit under way has read it
  declared, \* history: the stock last written by an edit
  sold,     \* history: the units ordered since
  pc,       \* where a request is
  cartOf,   \* the cart it names
  basket,   \* the lines it has read
  read,     \* the stock of each product it has locked, as read
  reply     \* the answer it has sent

cartVars    == <<opened, live, lines>>
productVars == <<product, declared, sold>>
requestVars == <<pc, cartOf, basket, read, reply>>
vars == <<cartVars, adding, productVars, editing, requestVars>>

Empty     == [p \in {} |-> 0]
NoLines   == [p \in Products |-> 0]

AreCopies(f) ==
  /\ f = [r \in Requests |-> f[r]]
  /\ \A r \in Requests : \E locked \in SUBSET Products : f[r] \in [locked -> StockType]

TypeOK ==
  /\ opened \in [Customers -> [Shops -> Nat]]
  /\ live \in [Customers -> [Shops -> BOOLEAN]]
  /\ lines \in [Customers -> [Products -> Lots]]
  /\ adding \in [Devices -> Additions \cup {Nothing}]
  /\ product \in [Products -> Rows]
  /\ editing \in [Edits -> Rows \cup {Nothing}]
  /\ declared \in [Products -> StockType]
  /\ sold \in [Products -> Nat]
  /\ pc \in [Requests -> {"idle", "looked", "holding", "locking", "inserted",
                          "committed", "over"}]
  /\ cartOf \in [Requests -> [shop : Shops, nr : Nat]]
  /\ basket \in [Requests -> [Products -> Lots]]
  /\ AreCopies(read)
  /\ reply \in [Requests -> {"none", "created", "existing", "notFound",
                             "refused", "conflict", "error"}]

\* The carts of the customers when the requests begin: none, or one.
StartingCarts ==
  /\ live \in [Customers -> [Shops -> BOOLEAN]]
  /\ lines \in [Customers -> [Products -> Lots]]
  /\ opened = [u \in Customers |-> [s \in Shops |-> IF live[u][s] THEN 1 ELSE 0]]
  /\ \A u \in Customers :
       /\ \A p \in Products : lines[u][p] # 0 => live[u][ShopOf[p]]
       /\ \A s, t \in Shops : live[u][s] /\ live[u][t] => s = t

Init ==
  /\ StartingCarts
  /\ adding = [d \in Devices |-> Nothing]
  /\ \E f \in [Products -> Stocks] :
       /\ product = [p \in Products |->
                       [stock |-> f[p], available |-> TRUE, deleted |-> FALSE]]
       /\ declared = f
  /\ editing = [p \in Edits |-> Nothing]
  /\ sold = [p \in Products |-> 0]
  /\ pc = [r \in Requests |-> "idle"]
  /\ cartOf \in [Requests -> [shop : Shops, nr : {0}]]
  /\ basket = [r \in Requests |-> NoLines]
  /\ read = [r \in Requests |-> Empty]
  /\ reply = [r \in Requests |-> "none"]

-----------------------------------------------------------------------------
(***************************************************************************)
(* Row locks.  A checkout holds the cart it names from LockCart to its end *)
(* and each product it has read.                                           *)
(***************************************************************************)
HoldsCart(r) == pc[r] \in {"holding", "locking", "inserted"}

CartNotLocked(u, s) == TRUE   \* mutant: FOR UPDATE dropped
CartIsFree(u, s) ==
  \A r \in Requests :
    ~ (HoldsCart(r) /\ CustomerOf[r] = u /\ cartOf[r].shop = s)

ProductIsFree(p) == \A r \in Requests : p \notin DOMAIN read[r]

CartIsLive(u, c) == live[u][c.shop] /\ opened[u][c.shop] = c.nr

Sellable(p) == product[p].available /\ ~ product[p].deleted

(***************************************************************************)
(* The customer's cart.  An addition reads the carts and then writes; the  *)
(* two are apart, so two additions can both find that there is no cart.    *)
(***************************************************************************)
\* The quantity of the request replaces that of the line.
QuantityAdded(old, new) == old + new   \* mutant
NewQuantity(old, new) == new

OtherShopsIgnored(u, s) == FALSE   \* mutant
CartsElsewhere(u, s) == \E t \in Shops \ {s} : live[u][t]

FindCart(d, p) ==
  LET u == OwnerOf[d]
      s == ShopOf[p]
  IN
  /\ adding[d] = Nothing
  /\ Sellable(p)
  /\ live[u][s] \/ ~ CartsElsewhere(u, s)
  /\ adding' = [adding EXCEPT ![d] =
                  [product |-> p, found |-> IF live[u][s] THEN opened[u][s] ELSE 0]]
  /\ UNCHANGED <<cartVars, productVars, editing, requestVars>>

\* No cart was found: insert one, unless another addition just has (the
\* unique constraint on customer and shop), and its first line.
AddToNewCart(d) ==
  LET u == OwnerOf[d]
      p == adding[d].product
      s == ShopOf[p]
  IN
  /\ adding[d] # Nothing /\ adding[d].found = 0
  /\ adding' = [adding EXCEPT ![d] = Nothing]
  /\ IF live[u][s]
       THEN UNCHANGED cartVars
       ELSE /\ opened[u][s] < MaxCarts
            /\ ProductIsFree(p)
            /\ opened' = [opened EXCEPT ![u][s] = @ + 1]
            /\ live' = [live EXCEPT ![u][s] = TRUE]
            /\ \E q \in Quantities : lines' = [lines EXCEPT ![u][p] = NewQuantity(@, q)]
  /\ UNCHANGED <<productVars, editing, requestVars>>

\* Set the line of the cart that was found, or insert it: an insertion waits
\* for the rows of the cart and the product (its foreign keys), and fails if
\* the cart has gone.
AddToCart(d) ==
  LET u == OwnerOf[d]
      p == adding[d].product
      s == ShopOf[p]
  IN
  /\ adding[d] # Nothing /\ adding[d].found # 0
  /\ adding' = [adding EXCEPT ![d] = Nothing]
  /\ lines[u][p] = 0 => CartIsFree(u, s) /\ ProductIsFree(p)
  /\ IF CartIsLive(u, [shop |-> s, nr |-> adding[d].found])
       THEN \E q \in Quantities : lines' = [lines EXCEPT ![u][p] = NewQuantity(@, q)]
       ELSE UNCHANGED lines
  /\ UNCHANGED <<opened, live, productVars, editing, requestVars>>

\* An addition can fail: a crash, a timeout, a deadlock with a checkout.
AbortAddition(d) ==
  /\ adding[d] # Nothing
  /\ adding' = [adding EXCEPT ![d] = Nothing]
  /\ UNCHANGED <<cartVars, productVars, editing, requestVars>>

UpdateCartItem(u, p) ==
  /\ lines[u][p] # 0
  /\ \E q \in Quantities : lines' = [lines EXCEPT ![u][p] = NewQuantity(@, q)]
  /\ UNCHANGED <<opened, live, adding, productVars, editing, requestVars>>

RemoveCartItem(u, p) ==
  /\ lines[u][p] # 0
  /\ lines' = [lines EXCEPT ![u][p] = 0]
  /\ UNCHANGED <<opened, live, adding, productVars, editing, requestVars>>

ClearCart(u) ==
  /\ \E s \in Shops : live[u][s]
  /\ \A s \in Shops : live[u][s] => CartIsFree(u, s)
  /\ live' = [live EXCEPT ![u] = [s \in Shops |-> FALSE]]
  /\ lines' = [lines EXCEPT ![u] = NoLines]
  /\ UNCHANGED <<opened, adding, productVars, editing, requestVars>>

-----------------------------------------------------------------------------
(***************************************************************************)
(* Edits of a product by its shopkeeper or an administrator: read the row, *)
(* assign, and write at the commit the columns that have changed.          *)
(***************************************************************************)
ReadProduct(p) ==
  /\ editing[p] = Nothing
  /\ editing' = [editing EXCEPT ![p] = product[p]]
  /\ UNCHANGED <<cartVars, adding, productVars, requestVars>>

EveryColumn(row, seen, new) == new   \* mutant: unchanged columns too
Overlaid(row, seen, new) ==
  [c \in DOMAIN row |-> IF new[c] = seen[c] THEN row[c] ELSE new[c]]

Edited(seen) ==
  [stock : Stocks \cup {seen.stock}, available : BOOLEAN, deleted : {seen.deleted}]
    \cup {[seen EXCEPT !.available = FALSE, !.deleted = TRUE],
          [seen EXCEPT !.available = TRUE, !.deleted = FALSE]}

WriteProduct(p) ==
  /\ editing[p] # Nothing
  /\ ProductIsFree(p)
  /\ \E new \in Edited(editing[p]) :
       /\ product' = [product EXCEPT ![p] = Overlaid(@, editing[p], new)]
       /\ IF new.stock = editing[p].stock
            THEN UNCHANGED <<declared, sold>>
            ELSE /\ declared' = [declared EXCEPT ![p] = new.stock]
                 /\ sold' = [sold EXCEPT ![p] = 0]
  /\ editing' = [editing EXCEPT ![p] = Nothing]
  /\ UNCHANGED <<cartVars, adding, requestVars>>

-----------------------------------------------------------------------------
(***************************************************************************)
(* A checkout.                                                             *)
(***************************************************************************)
Ordered == {r \in Requests : pc[r] = "committed"}

SameKey(r, q) == CustomerOf[r] = CustomerOf[q] /\ KeyOf[r] = KeyOf[q]

FailureKeepsLocks(r, stage, answer) ==   \* mutant
  /\ pc' = [pc EXCEPT ![r] = stage]
  /\ read' = IF stage = "committed" THEN [read EXCEPT ![r] = Empty] ELSE read
  /\ reply' = [reply EXCEPT ![r] = answer]

\* The transaction ends with the given answer and releases its rows.
Finish(r, stage, answer) ==
  /\ pc' = [pc EXCEPT ![r] = stage]
  /\ read' = [read EXCEPT ![r] = Empty]
  /\ reply' = [reply EXCEPT ![r] = answer]

Lookup(r) ==
  /\ pc[r] = "idle"
  /\ \E s \in Shops : \E n \in 1 .. opened[CustomerOf[r]][s] :
       cartOf' = [cartOf EXCEPT ![r] = [shop |-> s, nr |-> n]]
  /\ IF \E q \in Ordered : SameKey(r, q)
       THEN Finish(r, "over", "existing")
       ELSE pc' = [pc EXCEPT ![r] = "looked"] /\ UNCHANGED <<read, reply>>
  /\ UNCHANGED <<cartVars, adding, productVars, editing, basket>>

LockCart(r) ==
  /\ pc[r] = "looked"
  /\ CartIsFree(CustomerOf[r], cartOf[r].shop)
  /\ IF CartIsLive(CustomerOf[r], cartOf[r])
       THEN pc' = [pc EXCEPT ![r] = "holding"] /\ UNCHANGED <<read, reply>>
       ELSE Finish(r, "over", "notFound")
  /\ UNCHANGED <<cartVars, adding, productVars, editing, cartOf, basket>>

\* The SELECT of the lines takes their quantities from its own snapshot.
ReadLines(r) ==
  LET found == [p \in Products |->
                  IF ShopOf[p] = cartOf[r].shop THEN lines[CustomerOf[r]][p] ELSE 0]
  IN
  /\ pc[r] = "holding"
  /\ found # NoLines
  /\ basket' = [basket EXCEPT ![r] = found]
  /\ pc' = [pc EXCEPT ![r] = "locking"]
  /\ UNCHANGED <<cartVars, adding, productVars, editing, cartOf, read, reply>>

Needed(r) == {p \in Products : basket[r][p] # 0}

LockProduct(r, p) ==
  /\ pc[r] = "locking"
  /\ p \in Needed(r) \ DOMAIN read[r]
  /\ ProductIsFree(p)
  /\ read' = [read EXCEPT ![r] =
                [x \in DOMAIN @ \cup {p} |->
                   IF x = p THEN product[p].stock ELSE @[x]]]
  /\ UNCHANGED <<cartVars, adding, productVars, editing, pc, cartOf, basket, reply>>

LocksAreTaken(r) == pc[r] = "locking" /\ Needed(r) \subseteq DOMAIN read[r]

EnoughButOne(r, p) ==   \* mutant
  read[r][p] # Untracked => read[r][p] + 1 >= basket[r][p]
Enough(r, p) == read[r][p] # Untracked => read[r][p] >= basket[r][p]

CanSell(r) == \A p \in Needed(r) : Sellable(p) /\ Enough(r, p)

Conflict(r) ==
  /\ LocksAreTaken(r)
  /\ ~ CanSell(r)
  /\ Finish(r, "over", "conflict")
  /\ UNCHANGED <<cartVars, adding, productVars, editing, cartOf, basket>>

\* The checks that read what no lock protects, each of which may refuse: the
\* shop's status, opening and fulfilment and the address, before the lines are
\* read, or there are no lines; the order's minimum, after.
Refuse(r) ==
  /\ pc[r] = "holding" \/ (LocksAreTaken(r) /\ CanSell(r))
  /\ Finish(r, "over", "refused")
  /\ UNCHANGED <<cartVars, adding, productVars, editing, cartOf, basket>>

\* The unique constraint on customer and key: the insertion waits for an
\* uncommitted order with the key and fails on a committed one.
KeyIsPending(r) == \E q \in Requests : pc[q] = "inserted" /\ SameKey(r, q)
KeyIsNotUnique(r) == FALSE   \* mutant: the constraint is missing
KeyIsTaken(r)   == \E q \in Ordered : SameKey(r, q)

InsertOrder(r) ==
  /\ LocksAreTaken(r)
  /\ CanSell(r)
  /\ ~ KeyIsPending(r)
  /\ IF KeyIsTaken(r)
       THEN Finish(r, "over", "error")
       ELSE /\ pc' = [pc EXCEPT ![r] = "inserted"]
            /\ reply' = [reply EXCEPT ![r] = "created"]
            /\ UNCHANGED read
  /\ UNCHANGED <<cartVars, adding, productVars, editing, cartOf, basket>>

Less(stock, quantity) ==
  IF stock = Untracked THEN Untracked ELSE stock - quantity

Commit(r) ==
  LET u == CustomerOf[r]
      s == cartOf[r].shop
  IN
  /\ pc[r] = "inserted"
  /\ product' = [p \in Products |->
                   IF p \in Needed(r)
                     THEN [product[p] EXCEPT !.stock = Less(read[r][p], basket[r][p])]
                     ELSE product[p]]
  /\ sold' = [p \in Products |-> sold[p] + basket[r][p]]
  /\ live' = [live EXCEPT ![u][s] = FALSE]
  /\ lines' = [lines EXCEPT ![u] =
                 [p \in Products |-> IF ShopOf[p] = s THEN 0 ELSE @[p]]]
  /\ Finish(r, "committed", "created")
  /\ UNCHANGED <<opened, adding, declared, editing, cartOf, basket>>

InTransaction(r) == pc[r] \in {"looked", "holding", "locking", "inserted"}

\* A crash, a lost connection or a timeout rolls the transaction back; the
\* answer may have been sent.
Abort(r) ==
  /\ InTransaction(r)
  /\ Finish(r, "over", IF pc[r] = "inserted" THEN "created" ELSE "error")
  /\ UNCHANGED <<cartVars, adding, productVars, editing, cartOf, basket>>

\* PostgreSQL rolls back one transaction of a cycle of waiting ones.
WaitsIn(r, cycle) ==
  /\ pc[r] = "locking"
  /\ \E q \in cycle \ {r} : (Needed(r) \ DOMAIN read[r]) \cap DOMAIN read[q] # {}

BreakDeadlock(r) ==
  /\ \E cycle \in SUBSET Requests : r \in cycle /\ \A q \in cycle : WaitsIn(q, cycle)
  /\ Finish(r, "over", "error")
  /\ UNCHANGED <<cartVars, adding, productVars, editing, cartOf, basket>>

-----------------------------------------------------------------------------
Shopping ==
  \/ \E d \in Devices :
       \/ \E p \in Products : FindCart(d, p)
       \/ AddToNewCart(d) \/ AddToCart(d) \/ AbortAddition(d)
  \/ \E u \in Customers :
       (\E p \in Products : UpdateCartItem(u, p) \/ RemoveCartItem(u, p)) \/ ClearCart(u)

Editing == \E p \in Edits : ReadProduct(p) \/ WriteProduct(p)

Serve(r) ==
  \/ LockCart(r) \/ Refuse(r) \/ ReadLines(r)
  \/ \E p \in Products : LockProduct(r, p)
  \/ Conflict(r) \/ InsertOrder(r) \/ Commit(r) \/ BreakDeadlock(r)

CheckingOut == \E r \in Requests : Lookup(r) \/ Serve(r) \/ Abort(r)

Next == Shopping \/ Editing \/ CheckingOut

Spec == Init /\ [][Next]_vars

\* The server runs the requests it has accepted; the database breaks deadlocks.
Fairness == \A r \in Requests : WF_vars(Serve(r))

FairSpec == Spec /\ Fairness

-----------------------------------------------------------------------------
(***************************************************************************)
(* Properties.                                                             *)
(***************************************************************************)
\* No unit is sold twice and no sale is forgotten: the stock of a product is
\* what an edit last declared less the units ordered since, although each
\* checkout writes a difference it has computed from its own copy, and edits
\* overwrite it from theirs.
StockIsAccountedFor ==
  \A p \in Products : product[p].stock = Less(declared[p], sold[p])

\* Orders placed together never take a product's stock below zero.
NeverOversold ==
  \A p \in Products : product[p].stock # Untracked => product[p].stock >= 0

\* A cart becomes at most one order, whatever keys the requests for it carry.
CartsAreOrderedOnce ==
  \A r, q \in Ordered :
    r # q => ~ (CustomerOf[r] = CustomerOf[q] /\ cartOf[r] = cartOf[q])

\* A customer has at most one order with an idempotency key, from one cart or
\* from two.
KeysAreOrderedOnce == \A r, q \in Ordered : r # q => ~ SameKey(r, q)

CartsOf(u)   == {s \in Shops : live[u][s]}
DevicesOf(u) == {d \in Devices : OwnerOf[d] = u}
Opening(u)   == {d \in DevicesOf(u) : adding[d] # Nothing /\ adding[d].found = 0}

\* add_cart_item keeps a customer to the cart of one shop, but not across two
\* additions that overlap.  That is all that escapes it: the carts there are,
\* with those that additions under way may still open, are at most one, or as
\* many as the devices that can add at once.
CartsFitDevices ==
  \A u \in Customers :
    LET carts == Cardinality(CartsOf(u)) + Cardinality(Opening(u)) IN
    carts <= 1 \/ carts <= Cardinality(DevicesOf(u))

\* When an order commits, everything in it is still on sale: no edit or
\* archiving of a product falls between the check and the commit.
OrdersAreOfSellableProducts ==
  [][\A r \in Requests :
       pc[r] # "committed" /\ pc'[r] = "committed"
         => \A p \in Needed(r) : Sellable(p)]_vars

\* What a request shows of module Sales: it is quoted from its reading of the
\* lines to its end.
Bought(r)  == [cart |-> cartOf[r], lots |-> basket[r]]
QuoteOf(r) == IF pc[r] \in {"locking", "inserted"} THEN Bought(r) ELSE Nothing
OrderOf(r) == IF pc[r] = "committed" THEN Bought(r) ELSE Nothing

Sale == INSTANCE Sales WITH
       stock  <- [p \in Products |-> product[p].stock],
       onSale <- [p \in Products |-> Sellable(p)],
       quote  <- [r \in Requests |-> QuoteOf(r)],
       order  <- [r \in Requests |-> OrderOf(r)]

\* The steps of a checkout, spread over locks, an answer and a late commit and
\* racing with edits and other checkouts, come to one sale that checks and does
\* everything when it commits.
SellsAtOnce == Sale!Spec

\* Every checkout that passed its lookup is answered: two that wait for each
\* other's products do not wait for ever, and no row stays locked.
CheckoutsAreAnswered ==
  \A r \in Requests : pc[r] # "idle" ~> pc[r] \in {"committed", "over"}

\* docs/BACKEND_HANDBOOK.md:72, "idempotent checkout": a request that repeats
\* the key of an order is answered with that order, never that there is no cart.
CheckoutIsIdempotent ==
  \A r \in Requests, q \in Ordered : SameKey(r, q) => reply[r] # "notFound"

=============================================================================
