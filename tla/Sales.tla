------------------------------- MODULE Sales -------------------------------
(***************************************************************************)
(* What a checkout promises, without row locks, copies, transactions or    *)
(* answers.  A request is quoted the lines of a cart; a sale then checks   *)
(* and does everything in ONE step: the cart is there, everything in it is *)
(* on sale and in stock, the customer has no other order with the key, the *)
(* stock shrinks, the cart goes and the order is what was quoted.          *)
(*                                                                         *)
(* The quote is a step of its own because quantities are changed without   *)
(* waiting for a checkout that has read them: such a change is not in the  *)
(* order, and goes with the cart.                                          *)
(***************************************************************************)
EXTENDS Integers

CONSTANTS
  Customers, Shops, Products, ShopOf, Requests, CustomerOf, KeyOf, Quantities,
  Stocks, Untracked,
  Nothing    \* no quote, or no order

VARIABLES
  opened,  \* how many carts the customer has had at the shop
  live,    \* the last of them is still there
  lines,   \* the quantities of the customer's cart lines, by product
  stock,   \* of each product
  onSale,  \* the product can be ordered
  quote,   \* the cart and the lines each request is to buy
  order    \* what it has bought

vars == <<opened, live, lines, stock, onSale, quote, order>>

Init ==
  /\ live \in [Customers -> [Shops -> BOOLEAN]]
  /\ lines \in [Customers -> [Products -> Quantities \cup {0}]]
  /\ opened = [u \in Customers |-> [s \in Shops |-> IF live[u][s] THEN 1 ELSE 0]]
  /\ stock \in [Products -> Stocks]
  /\ onSale = [p \in Products |-> TRUE]
  /\ quote = [r \in Requests |-> Nothing]
  /\ order = [r \in Requests |-> Nothing]

IsLive(u, cart) == live[u][cart.shop] /\ opened[u][cart.shop] = cart.nr

OpenCart(u, p) ==
  LET s == ShopOf[p] IN
  /\ ~ live[u][s]
  /\ opened' = [opened EXCEPT ![u][s] = @ + 1]
  /\ live' = [live EXCEPT ![u][s] = TRUE]
  /\ \E q \in Quantities : lines' = [lines EXCEPT ![u][p] = q]
  /\ UNCHANGED <<stock, onSale, quote, order>>

\* Zero removes the line.
SetLine(u, p) ==
  /\ live[u][ShopOf[p]]
  /\ \E q \in Quantities \cup {0} : lines' = [lines EXCEPT ![u][p] = q]
  /\ UNCHANGED <<opened, live, stock, onSale, quote, order>>

ClearCarts(u) ==
  /\ live' = [live EXCEPT ![u] = [s \in Shops |-> FALSE]]
  /\ lines' = [lines EXCEPT ![u] = [p \in Products |-> 0]]
  /\ UNCHANGED <<opened, stock, onSale, quote, order>>

Edit(p) ==
  /\ stock' = stock \/ \E n \in Stocks : stock' = [stock EXCEPT ![p] = n]
  /\ \E b \in BOOLEAN : onSale' = [onSale EXCEPT ![p] = b]
  /\ UNCHANGED <<opened, live, lines, quote, order>>

Quote(r) ==
  /\ order[r] = Nothing
  /\ \E s \in Shops :
       LET u    == CustomerOf[r]
           cart == [shop |-> s, nr |-> opened[u][s]]
           lots == [p \in Products |-> IF ShopOf[p] = s THEN lines[u][p] ELSE 0]
       IN
       /\ live[u][s]
       /\ \E p \in Products : lots[p] # 0
       /\ quote' = [quote EXCEPT ![r] = [cart |-> cart, lots |-> lots]]
  /\ UNCHANGED <<opened, live, lines, stock, onSale, order>>

Withdraw(r) ==
  /\ quote' = [quote EXCEPT ![r] = Nothing]
  /\ UNCHANGED <<opened, live, lines, stock, onSale, order>>

IsBelow(p, quantity) == stock[p] # Untracked /\ stock[p] < quantity

Remaining(p, quantity) == IF stock[p] = Untracked THEN Untracked ELSE stock[p] - quantity

Sell(r) ==
  LET u    == CustomerOf[r]
      s    == quote[r].cart.shop
      lots == quote[r].lots
  IN
  /\ quote[r] # Nothing
  /\ IsLive(u, quote[r].cart)
  /\ \A p \in Products : lots[p] # 0 => onSale[p] /\ ~ IsBelow(p, lots[p])
  /\ \A q \in Requests :
       order[q] # Nothing => ~ (CustomerOf[q] = u /\ KeyOf[q] = KeyOf[r])
  /\ stock' = [p \in Products |-> Remaining(p, lots[p])]
  /\ live' = [live EXCEPT ![u][s] = FALSE]
  /\ lines' = [lines EXCEPT ![u] = [p \in Products |-> IF ShopOf[p] = s THEN 0 ELSE @[p]]]
  /\ order' = [order EXCEPT ![r] = quote[r]]
  /\ quote' = [quote EXCEPT ![r] = Nothing]
  /\ UNCHANGED <<opened, onSale>>

Next ==
  \/ \E u \in Customers : ClearCarts(u) \/ \E p \in Products : OpenCart(u, p) \/ SetLine(u, p)
  \/ \E p \in Products : Edit(p)
  \/ \E r \in Requests : Quote(r) \/ Withdraw(r) \/ Sell(r)

Spec == Init /\ [][Next]_vars
=============================================================================
