------------------------------- MODULE Records -------------------------------
(***************************************************************************)
(* Which rows exist and which rows they refer to: insertion, re-pointing   *)
(* and permanent deletion, under the foreign keys of app/models.           *)
(*                                                                         *)
(* A deletion counts the rows that refer to the one to be deleted, and     *)
(* deletes it at the commit.  Nothing is locked in between: what is        *)
(* inserted after the count is caught by a foreign key, or goes with it.   *)
(***************************************************************************)
EXTENDS Integers, FiniteSets

CONSTANTS
  Rows,       \* every row that is ever inserted
  TableOf,    \* the table of a row
  RefersTo,   \* the rows it refers to when it is inserted
  Requests,   \* requests under way at a time
  Nothing     \* a request that does nothing

Tables == {"user", "address", "favorite", "shop", "category", "product", "promotion",
           "cart", "line", "order", "item", "payment", "campaign", "claim"}

\* seen: the rows that would have refused the deletion when it was counted.
Deletions == [op : {"delete"}, row : Rows, seen : SUBSET Rows]

ASSUME RecordsAssumption ==
  /\ TableOf \in [Rows -> Tables]
  /\ RefersTo \in [Rows -> SUBSET Rows]
  /\ IsFiniteSet(Rows)
  /\ \A x \in Rows : x \notin RefersTo[x]
  /\ Nothing \notin Deletions

VARIABLES
  rows,   \* the rows that exist
  ref,    \* the rows each of them refers to
  doing   \* what a request is about to do

recordVars == <<rows, ref>>

In(table) == {x \in rows : TableOf[x] = table}

ReferringTo(x) == {y \in rows : x \in ref[y]}

-----------------------------------------------------------------------------
(***************************************************************************)
(* Foreign keys.  ON DELETE CASCADE from a row of the first table to one   *)
(* of the second; every other key refuses the deletion.                    *)
(***************************************************************************)
Cascades ==
  {<<"address", "user">>, <<"favorite", "user">>, <<"cart", "user">>,
   <<"favorite", "shop">>, <<"product", "shop">>, <<"campaign", "shop">>,
   <<"line", "cart">>, <<"item", "order">>}

AnyKeyCascades(y, x) == x \in ref[y]   \* mutant: ON DELETE CASCADE on every key
GoesWith(y, x) == x \in ref[y] /\ <<TableOf[y], TableOf[x]>> \in Cascades

Below(S) == {y \in rows : \E x \in S : GoesWith(y, x)}

\* No chain of cascades is longer than from a user to a line of its cart.
Doomed(x) == {x} \cup Below({x}) \cup Below(Below({x}))

\* The rows that stay and refer to one that would go.
Refusing(gone) == {y \in rows \ gone : ref[y] \cap gone # {}}
KeysAllow(gone) == Refusing(gone) = {}

Removes(gone) ==
  /\ rows' = rows \ gone
  /\ ref' = [x \in Rows |-> IF x \in gone THEN {} ELSE ref[x]]

-----------------------------------------------------------------------------
(***************************************************************************)
(* Insertions: the rows a new one refers to exist when it is inserted.     *)
(***************************************************************************)
Inserts(new) ==
  /\ new \cap rows = {}
  /\ \A x \in new : RefersTo[x] \subseteq rows \cup new
  /\ rows' = rows \cup new
  /\ ref' = [x \in Rows |-> IF x \in new THEN RefersTo[x] ELSE ref[x]]

InsertsA(table, x) == TableOf[x] = table /\ Inserts({x})

SignUp(x)          == InsertsA("user", x)
CreateAddress(x)   == InsertsA("address", x)
AdminAddress(x)    == InsertsA("address", x)
Favorite(x)        == InsertsA("favorite", x)
AdminFavorite(x)   == InsertsA("favorite", x)
CreateCategory(x)  == InsertsA("category", x)
CreateProduct(x)   == InsertsA("product", x)
AdminProduct(x)    == InsertsA("product", x)
CreatePromotion(x) == InsertsA("promotion", x)
CreateCampaign(x)  == InsertsA("campaign", x)
AdminCampaign(x)   == InsertsA("campaign", x)
CreatePayment(x)   == InsertsA("payment", x)

\* A shopkeeper has one shop (the handler looks, and owner_id is unique).
CreateShop(x) ==
  /\ \A s \in In("shop") : ref[s] \cap RefersTo[x] = {}
  /\ InsertsA("shop", x)

\* The first line opens the cart it is in.
AddCartItem(x) ==
  /\ TableOf[x] = "line"
  /\ \/ Inserts({x})
     \/ \E b \in RefersTo[x] : TableOf[b] = "cart" /\ Inserts({b, x})

\* An order is inserted with an item for each product in the cart, which goes.
Checkout(x, b) ==
  LET bought == (UNION {ref[l] : l \in In("line") \cap ReferringTo(b)}) \cap In("product")
      items == {i \in Rows : TableOf[i] = "item" /\ x \in RefersTo[i]
                               /\ RefersTo[i] \subseteq {x} \cup bought}
      new  == {x} \cup items
      gone == Doomed(b)
  IN
  /\ TableOf[x] = "order"
  /\ new \cap rows = {}
  /\ b \in In("cart")
  /\ bought # {} /\ Cardinality(items) = Cardinality(bought)
  /\ RefersTo[x] \subseteq rows \ gone /\ ref[b] \subseteq RefersTo[x]
  /\ KeysAllow(gone)
  /\ rows' = (rows \ gone) \cup new
  /\ ref' = [y \in Rows |-> IF y \in new THEN RefersTo[y]
                            ELSE IF y \in gone THEN {} ELSE ref[y]]

\* A category is moved under another one or itself, or to the top; a product to
\* another category, or to none.
MovesTo(x, parent) ==
  /\ x \in rows
  /\ ref' = [ref EXCEPT ![x] = {y \in @ : TableOf[y] # "category"} \cup parent]
  /\ UNCHANGED rows

SomeCategory == {{}} \cup {{k} : k \in In("category")}

UpdateCategory(x) == TableOf[x] = "category" /\ \E k \in SomeCategory : MovesTo(x, k)
UpdateProduct(x)  == TableOf[x] = "product"  /\ \E k \in SomeCategory : MovesTo(x, k)

-----------------------------------------------------------------------------
(***************************************************************************)
(* Deletions.                                                              *)
(***************************************************************************)
\* The row is there, and no row of the tables that are counted refers to it.
Counts(c, x, table, counted) ==
  /\ doing[c] = Nothing
  /\ x \in In(table)
  /\ \A y \in ReferringTo(x) : TableOf[y] \notin counted
  /\ doing' = [doing EXCEPT ![c] = [op |-> "delete", row |-> x,
                                    seen |-> Refusing(Doomed(x))]]
  /\ UNCHANGED recordVars

DeleteUser(c, x)      == Counts(c, x, "user", {"order", "payment", "shop"})
DeleteShop(c, x)      == Counts(c, x, "shop", {"order", "payment", "campaign"})
DeleteCategory(c, x)  == Counts(c, x, "category", {"product", "category"})
DeleteProduct(c, x)   == Counts(c, x, "product", {"item", "line"})
DeletePromotion(c, x) == Counts(c, x, "promotion", {})
DeleteReward(c, x)    == Counts(c, x, "campaign", {"claim"})
DeleteAddress(c, x)   == Counts(c, x, "address", {"order"})
DeleteUserAddress(c, x)  == Counts(c, x, "address", {"order"})
Unfavorite(c, x)      == Counts(c, x, "favorite", {})
DeleteUserFavorite(c, x) == Counts(c, x, "favorite", {})
RemoveCartItem(c, x)  == Counts(c, x, "line", {})
ClearCart(c, x)       == Counts(c, x, "cart", {})
ClearUserCart(c, x)   == Counts(c, x, "cart", {})

IsDeleting(c) == doing[c] # Nothing /\ doing[c].op = "delete"

\* The deletion fails if the row has gone or a key refuses it.
CommitDeletion(c) ==
  LET gone == Doomed(doing[c].row) IN
  /\ IsDeleting(c)
  /\ IF doing[c].row \in rows /\ KeysAllow(gone)
       THEN Removes(gone)
       ELSE UNCHANGED recordVars
  /\ doing' = [doing EXCEPT ![c] = Nothing]

Creations(x) ==
  \/ SignUp(x) \/ CreateAddress(x) \/ AdminAddress(x) \/ Favorite(x) \/ AdminFavorite(x)
  \/ CreateShop(x) \/ CreateCategory(x) \/ CreateProduct(x) \/ AdminProduct(x)
  \/ CreatePromotion(x) \/ CreatePayment(x) \/ AddCartItem(x)
  \/ \E b \in Rows : Checkout(x, b)
  \/ UpdateCategory(x) \/ UpdateProduct(x)

Counting(c, x) ==
  \/ DeleteUser(c, x) \/ DeleteShop(c, x) \/ DeleteCategory(c, x) \/ DeleteProduct(c, x)
  \/ DeletePromotion(c, x) \/ DeleteReward(c, x) \/ DeleteAddress(c, x)
  \/ DeleteUserAddress(c, x) \/ Unfavorite(c, x) \/ DeleteUserFavorite(c, x)
  \/ RemoveCartItem(c, x) \/ ClearCart(c, x) \/ ClearUserCart(c, x)

-----------------------------------------------------------------------------
(***************************************************************************)
(* Properties.                                                             *)
(***************************************************************************)
\* What an administrator has been told may go does go at the commit, unless a row
\* that refers to it, or to what goes with it, was inserted or moved after the
\* handler counted.  delete_user and delete_shop do not count everything a key
\* protects: a customer's claims, and the carts of a shop and their lines.
Uncounted == {<<"claim", "user">>, <<"cart", "shop">>, <<"line", "shop">>}


\* Orders with their items, payments and reward claims outlive every deletion
\* that was counted too early, and go on naming the same customer, shop,
\* address and products: admin.py refuses to delete what they name, and no
\* cascade reaches them.
History == {"order", "item", "payment", "claim"}
HistoryStays ==
  [][\A x \in rows : TableOf[x] \in History => x \in rows' /\ ref'[x] = ref[x]]_<<rows, ref, doing>>

=============================================================================
