---------------------------- MODULE RewardsProofs ----------------------------
(***************************************************************************)
(* What holds of the rows and of the reward campaigns for any rows, tables *)
(* they are in, rows they refer to, requests and terms.                    *)
(***************************************************************************)
EXTENDS Rewards, FiniteSetTheorems, TLAPS

RowsOK == rows \subseteq Rows /\ ref \in [Rows -> SUBSET Rows]

-----------------------------------------------------------------------------
(***************************************************************************)
(* What a step does to the rows: nothing is left referring to what has     *)
(* gone, and the history stays.                                            *)
(***************************************************************************)
\* Every row refers to rows that exist, and a row that is gone refers to none:
\* that is what the foreign keys are for, and what the rest rests on.
ReferencesAreWhole ==
  \A x \in Rows : ref[x] \subseteq rows /\ (x \notin rows => ref[x] = {})

KeepsHistory ==
  \A x \in rows : TableOf[x] \in History => x \in rows' /\ ref'[x] = ref[x]

NoneNew(table) == \A x \in rows' \ rows : TableOf[x] # table

\* Cascades go from rows that are not of the history to others that are not.
LEMMA BelowIsNoHistory ==
  ASSUME RowsOK, NEW S \in SUBSET Rows, \A x \in S : TableOf[x] \notin History
  PROVE  Below(S) \in SUBSET Rows /\ \A y \in Below(S) : TableOf[y] \notin History
  BY RecordsAssumption DEF RowsOK, Below, GoesWith, Cascades, History

LEMMA DoomedIsNoHistory ==
  ASSUME RowsOK, NEW x \in Rows, TableOf[x] \notin History
  PROVE  Doomed(x) \in SUBSET Rows /\ \A y \in Doomed(x) : TableOf[y] \notin History
<1>1. Below({x}) \in SUBSET Rows /\ \A y \in Below({x}) : TableOf[y] \notin History
  BY BelowIsNoHistory
<1>2. /\ Below(Below({x})) \in SUBSET Rows
      /\ \A y \in Below(Below({x})) : TableOf[y] \notin History
  BY <1>1, BelowIsNoHistory
<1> QED
  BY <1>1, <1>2 DEF Doomed

\* With a cart go its lines, and nothing else.
LEMMA CartsAndLines ==
  ASSUME RowsOK, NEW b \in Rows, TableOf[b] = "cart"
  PROVE  Doomed(b) \in SUBSET Rows /\ \A y \in Doomed(b) : TableOf[y] \in {"cart", "line"}
<1>1. Below({b}) \in SUBSET Rows /\ \A y \in Below({b}) : TableOf[y] = "line"
  BY RecordsAssumption DEF RowsOK, Below, GoesWith, Cascades
<1>2. Below(Below({b})) = {}
  BY <1>1, RecordsAssumption DEF RowsOK, Below, GoesWith, Cascades
<1> QED
  BY <1>1, <1>2 DEF Doomed

\* Rows that are inserted.
LEMMA InsertsKeepsRows ==
  ASSUME RowsOK, ReferencesAreWhole, NEW new \in SUBSET Rows, Inserts(new)
  PROVE  /\ RowsOK' /\ ReferencesAreWhole' /\ KeepsHistory
         /\ \A x \in rows : x \in rows' /\ ref'[x] = ref[x]
         /\ rows' \ rows = new
  BY RecordsAssumption DEF RowsOK, ReferencesAreWhole, Inserts, KeepsHistory

\* Rows that are removed when no key refuses it.
LEMMA RemovesKeepsRows ==
  ASSUME RowsOK, ReferencesAreWhole, NEW gone \in SUBSET Rows, Removes(gone), KeysAllow(gone),
         \A x \in gone : TableOf[x] \notin History
  PROVE  RowsOK' /\ ReferencesAreWhole' /\ KeepsHistory /\ rows' \subseteq rows
<1>1. RowsOK' /\ KeepsHistory /\ rows' \subseteq rows
  BY DEF RowsOK, Removes, KeepsHistory
<1>2. ASSUME NEW x \in Rows PROVE ref'[x] \subseteq rows' /\ (x \notin rows' => ref'[x] = {})
  <2>1. CASE x \in gone
    BY <2>1 DEF Removes
  <2>2. CASE x \notin gone /\ x \in rows
    BY <2>2 DEF Removes, KeysAllow, Refusing, ReferencesAreWhole
  <2>3. CASE x \notin gone /\ x \notin rows
    BY <2>3 DEF Removes, ReferencesAreWhole
  <2> QED
    BY <2>1, <2>2, <2>3
<1> QED
  BY <1>1, <1>2 DEF ReferencesAreWhole

\* A category or a product that is moved.
LEMMA MovesKeepsRows ==
  ASSUME RowsOK, ReferencesAreWhole, NEW x \in Rows, NEW parent \in SUBSET rows,
         TableOf[x] \notin History, MovesTo(x, parent)
  PROVE  RowsOK' /\ ReferencesAreWhole' /\ KeepsHistory /\ rows' = rows
<1>1. rows' = rows /\ x \in rows
      /\ ref' = [ref EXCEPT ![x] = {y \in ref[x] : TableOf[y] # "category"} \cup parent]
  BY DEF MovesTo
<1>2. RowsOK'
  BY <1>1 DEF RowsOK
<1>3. ReferencesAreWhole'
  BY <1>1 DEF RowsOK, ReferencesAreWhole
<1>4. KeepsHistory
  BY <1>1 DEF RowsOK, KeepsHistory
<1> QED
  BY <1>1, <1>2, <1>3, <1>4

\* An order and its items in the place of a cart.
LEMMA CheckoutKeepsRows ==
  ASSUME RowsOK, ReferencesAreWhole, NEW x \in Rows, NEW b \in Rows, Checkout(x, b)
  PROVE  /\ RowsOK' /\ ReferencesAreWhole' /\ KeepsHistory /\ NoneNew("claim")
         /\ In("campaign")' = In("campaign")
<1> DEFINE bought == (UNION {ref[l] : l \in In("line") \cap ReferringTo(b)}) \cap In("product")
           items == {i \in Rows : TableOf[i] = "item" /\ x \in RefersTo[i]
                                    /\ RefersTo[i] \subseteq {x} \cup bought}
           new  == {x} \cup items
           gone == Doomed(b)
<1>1. /\ TableOf[x] = "order" /\ new \cap rows = {} /\ b \in In("cart")
      /\ RefersTo[x] \subseteq rows \ gone /\ KeysAllow(gone)
      /\ rows' = (rows \ gone) \cup new
      /\ ref' = [y \in Rows |-> IF y \in new THEN RefersTo[y]
                                ELSE IF y \in gone THEN {} ELSE ref[y]]
  BY DEF Checkout
<1>2. /\ new \in SUBSET Rows
      /\ \A y \in new : TableOf[y] \in {"order", "item"}
      /\ \A y \in new \ {x} : RefersTo[y] \subseteq {x} \cup bought
  BY <1>1
<1>3. gone \in SUBSET Rows /\ \A y \in gone : TableOf[y] \in {"cart", "line"}
  BY <1>1, CartsAndLines DEF In
<1>4. bought \subseteq rows \ gone
  <2>1. bought \subseteq In("product")
    OBVIOUS
  <2> HIDE DEF bought, gone
  <2> QED
    BY <1>3, <2>1 DEF In
<1> HIDE DEF bought, items, new, gone
<1>5. x \in new
  BY DEF new
<1>6. \A y \in new : RefersTo[y] \subseteq rows'
  BY <1>1, <1>2, <1>4, <1>5
<1>7. RowsOK'
  BY <1>1, <1>2, <1>3, RecordsAssumption DEF RowsOK
<1>8. ReferencesAreWhole'
  <2> SUFFICES ASSUME NEW y \in Rows PROVE ref'[y] \subseteq rows' /\ (y \notin rows' => ref'[y] = {})
    BY DEF ReferencesAreWhole
  <2>1. CASE y \in new
    BY <1>1, <1>6, <2>1
  <2>2. CASE y \notin new /\ y \in gone
    BY <1>1, <2>2
  <2>3. CASE y \notin new /\ y \notin gone /\ y \in rows
    <3>1. ref'[y] = ref[y] /\ ref[y] \subseteq rows /\ ref[y] \cap gone = {}
      BY <1>1, <2>3 DEF KeysAllow, Refusing, ReferencesAreWhole
    <3> QED
      BY <1>1, <2>3, <3>1
  <2>4. CASE y \notin new /\ y \notin gone /\ y \notin rows
    BY <1>1, <2>4 DEF ReferencesAreWhole
  <2> QED
    BY <2>1, <2>2, <2>3, <2>4
<1>9. KeepsHistory
  BY <1>1, <1>2, <1>3 DEF KeepsHistory, History, RowsOK
<1>10. NoneNew("claim") /\ In("campaign")' = In("campaign")
  BY <1>1, <1>2, <1>3 DEF NoneNew, In
<1> QED
  BY <1>7, <1>8, <1>9, <1>10

\* Whatever is created, bought or moved, no claim is inserted and no campaign
\* comes or goes.
LEMMA CreationsKeepRows ==
  ASSUME RowsOK, ReferencesAreWhole, NEW x \in Rows, Creations(x)
  PROVE  /\ RowsOK' /\ ReferencesAreWhole' /\ KeepsHistory /\ NoneNew("claim")
         /\ In("campaign")' = In("campaign")
<1>1. ASSUME NEW new \in SUBSET Rows, Inserts(new),
             \A y \in new : TableOf[y] \notin {"claim", "campaign"}
      PROVE  /\ RowsOK' /\ ReferencesAreWhole' /\ KeepsHistory /\ NoneNew("claim")
             /\ In("campaign")' = In("campaign")
  <2>1. /\ RowsOK' /\ ReferencesAreWhole' /\ KeepsHistory /\ rows \subseteq rows'
        /\ rows' \ rows = new
    BY <1>1, InsertsKeepsRows
  <2> QED
    BY <1>1, <2>1 DEF NoneNew, In
<1>2. ASSUME NEW table \in Tables \ {"claim", "campaign"}, InsertsA(table, x)
      PROVE  /\ RowsOK' /\ ReferencesAreWhole' /\ KeepsHistory /\ NoneNew("claim")
             /\ In("campaign")' = In("campaign")
  BY <1>1, <1>2 DEF InsertsA
<1>3. ASSUME AddCartItem(x)
      PROVE  /\ RowsOK' /\ ReferencesAreWhole' /\ KeepsHistory /\ NoneNew("claim")
             /\ In("campaign")' = In("campaign")
  BY <1>1, <1>3, RecordsAssumption DEF AddCartItem
<1>4. ASSUME UpdateCategory(x) \/ UpdateProduct(x)
      PROVE  /\ RowsOK' /\ ReferencesAreWhole' /\ KeepsHistory /\ NoneNew("claim")
             /\ In("campaign")' = In("campaign")
  <2>1. PICK parent \in SUBSET rows : MovesTo(x, parent)
    BY <1>4 DEF UpdateCategory, UpdateProduct, SomeCategory, In
  <2>2. TableOf[x] \notin History
    BY <1>4 DEF UpdateCategory, UpdateProduct, History
  <2>3. RowsOK' /\ ReferencesAreWhole' /\ KeepsHistory /\ rows' = rows
    BY <2>1, <2>2, MovesKeepsRows
  <2> QED
    BY <2>3 DEF NoneNew, In
<1>5. ASSUME NEW b \in Rows, Checkout(x, b)
      PROVE  /\ RowsOK' /\ ReferencesAreWhole' /\ KeepsHistory /\ NoneNew("claim")
             /\ In("campaign")' = In("campaign")
  BY <1>5, CheckoutKeepsRows
<1> QED
  BY <1>2, <1>3, <1>4, <1>5
     DEF Creations, Tables, SignUp, CreateAddress, AdminAddress, Favorite, AdminFavorite, CreateShop,
         CreateCategory, CreateProduct, AdminProduct, CreatePromotion, CreatePayment

-----------------------------------------------------------------------------
(***************************************************************************)
(* What requests are about to do is of the kind it should be.              *)
(***************************************************************************)
Deletable == Tables \ History

\* A deletion is of a row that may go; a claim is a customer's, of a campaign.
KindsOfRows ==
  /\ \A c \in Requests : Does(c, "delete") => TableOf[doing[c].row] \in Deletable
  /\ \A c \in Requests : Does(c, "claim") => TableOf[doing[c].user] = "user"
                                             /\ doing[c].row \in In("campaign")

LEMMA DoingTypes ==
  ASSUME TypeOK, NEW c \in Requests
  PROVE  /\ Does(c, "delete") => doing[c] \in Deletions
         /\ Does(c, "claim") => doing[c] \in Claims
         /\ Does(c, "edit") => doing[c] \in Edits
  BY RecordsAssumption, RewardsAssumption DEF TypeOK, Does, Deletions, Claims, Edits

\* Claims and campaigns that go on being what they are.
LEMMA ColumnsOverlaid ==
  ASSUME NEW old \in TermType, NEW copy \in TermType, NEW new \in TermType
  PROVE  /\ Overlaid(old, copy, new) \in TermType
         /\ new.claimed = copy.claimed => Overlaid(old, copy, new).claimed = old.claimed
<1>1. DOMAIN old = {"open", "inventory", "limit", "claimed"}
  BY DEF TermType
<1>2. Overlaid(old, copy, new) =
        [open |-> IF new.open = copy.open THEN old.open ELSE new.open,
         inventory |-> IF new.inventory = copy.inventory THEN old.inventory ELSE new.inventory,
         limit |-> IF new.limit = copy.limit THEN old.limit ELSE new.limit,
         claimed |-> IF new.claimed = copy.claimed THEN old.claimed ELSE new.claimed]
  BY <1>1 DEF Overlaid
<1>3. Overlaid(old, copy, new) \in TermType
  BY <1>2 DEF TermType
<1> QED
  BY <1>2, <1>3

\* A deletion that is counted is of a row that may go.
LEMMA CountingFindsDeletable ==
  ASSUME TypeOK, NEW c \in Requests, NEW x \in Rows, Counting(c, x)
  PROVE  /\ x \in rows /\ TableOf[x] \in Deletable
         /\ doing[c] = Nothing /\ UNCHANGED <<rows, ref>>
         /\ doing' = [doing EXCEPT ![c] = [op |-> "delete", row |-> x,
                                           seen |-> Refusing(Doomed(x))]]
  BY DEF Counting, Counts, In, recordVars, Deletable, Tables, History,
         DeleteUser, DeleteShop, DeleteCategory, DeleteProduct, DeletePromotion, DeleteReward,
         DeleteAddress, DeleteUserAddress, Unfavorite, DeleteUserFavorite, RemoveCartItem,
         ClearCart, ClearUserCart

LEMMA DeletionKeepsRows ==
  ASSUME TypeOK, ReferencesAreWhole, KindsOfRows, NEW c \in Requests, CommitDeletion(c)
  PROVE  RowsOK' /\ ReferencesAreWhole' /\ KeepsHistory /\ rows' \subseteq rows
<1> DEFINE x == doing[c].row
<1>1. Does(c, "delete") /\ x \in Rows /\ TableOf[x] \notin History
  BY DoingTypes DEF CommitDeletion, IsDeleting, Does, Deletions, KindsOfRows, Deletable
<1>2. RowsOK
  BY DEF RowsOK, TypeOK
<1>3. Doomed(x) \in SUBSET Rows /\ \A y \in Doomed(x) : TableOf[y] \notin History
  <2> HIDE DEF x
  <2> QED BY <1>1, <1>2, DoomedIsNoHistory
<1>4. CASE Removes(Doomed(x)) /\ KeysAllow(Doomed(x))
  <2> DEFINE gone == Doomed(x)
  <2> HIDE DEF gone
  <2> QED BY <1>2, <1>3, <1>4, RemovesKeepsRows DEF gone
<1>5. CASE UNCHANGED <<rows, ref>>
  BY <1>2, <1>5 DEF RowsOK, ReferencesAreWhole, KeepsHistory
<1> QED
  BY <1>4, <1>5 DEF CommitDeletion, recordVars

\* A claim is a new row that refers to the customer and the campaign.
LEMMA ClaimKeepsRows ==
  ASSUME TypeOK, ReferencesAreWhole, KindsOfRows, NEW c \in Requests, CommitClaim(c)
  PROVE  /\ RowsOK' /\ ReferencesAreWhole' /\ KeepsHistory
         /\ In("campaign")' = In("campaign")
         /\ \A x \in rows : x \in rows' /\ ref'[x] = ref[x]
         /\ \/ UNCHANGED <<rows, ref, campaign>>
            \/ \E y \in Rows :
                 /\ y \notin rows /\ rows' = rows \cup {y} /\ TableOf[y] = "claim"
                 /\ ref'[y] = {doing[c].user, doing[c].row}
                 /\ campaign' = [campaign EXCEPT ![doing[c].row].claimed = doing[c].copy.claimed + 1]
<1>1. RowsOK
  BY DEF RowsOK, TypeOK
<1>2. CASE UNCHANGED <<rows, ref, campaign>>
  BY <1>1, <1>2 DEF RowsOK, ReferencesAreWhole, KeepsHistory, In
<1>3. ASSUME NEW y \in Rows, RefersTo[y] = {doing[c].user, doing[c].row}, InsertsA("claim", y),
             campaign' = [campaign EXCEPT ![doing[c].row].claimed = OneMore(doing[c].copy)]
      PROVE  /\ RowsOK' /\ ReferencesAreWhole' /\ KeepsHistory
             /\ In("campaign")' = In("campaign")
             /\ \A x \in rows : x \in rows' /\ ref'[x] = ref[x]
             /\ y \notin rows /\ rows' = rows \cup {y} /\ TableOf[y] = "claim"
             /\ ref'[y] = {doing[c].user, doing[c].row}
             /\ campaign' = [campaign EXCEPT ![doing[c].row].claimed = doing[c].copy.claimed + 1]
  <2> DEFINE new == {y}
  <2>1. new \in SUBSET Rows /\ Inserts(new)
    BY <1>3 DEF InsertsA
  <2>2. /\ RowsOK' /\ ReferencesAreWhole' /\ KeepsHistory
        /\ \A x \in rows : x \in rows' /\ ref'[x] = ref[x]
    <3> HIDE DEF new
    <3> QED BY <1>1, <2>1, InsertsKeepsRows
  <2>3. y \notin rows /\ rows' = rows \cup {y} /\ TableOf[y] = "claim" /\ ref'[y] = RefersTo[y]
    BY <1>3, <2>1 DEF InsertsA, Inserts
  <2>4. In("campaign")' = In("campaign")
    BY <2>3 DEF In
  <2> QED
    BY <1>3, <2>2, <2>3, <2>4 DEF OneMore
<1> QED
  BY <1>2, <1>3 DEF CommitClaim, recordVars

-----------------------------------------------------------------------------
(***************************************************************************)
(* Types, references and history.                                          *)
(***************************************************************************)
\* What of a campaign only the row's lock protects: all but its dates.
SameTerms(s, t) ==
  s.inventory = t.inventory /\ s.limit = t.limit /\ s.claimed = t.claimed

USE DEF SameTerms

RecordInv == TypeOK /\ ReferencesAreWhole /\ KindsOfRows

\* What a step that starts or ends a request leaves of the kinds of rows.
LEMMA KindsKept ==
  ASSUME KindsOfRows, In("campaign") \subseteq In("campaign")',
         \A d \in Requests : doing'[d] = doing[d] \/ doing'[d] = Nothing
                               \/ (doing'[d] # Nothing /\ doing'[d].op = "edit")
  PROVE  KindsOfRows'
  BY DEF KindsOfRows, Does

\* A campaign that is opened.
LEMMA OpeningKeepsRecords ==
  ASSUME RecordInv, NEW x \in Rows, ShopkeeperCreatesReward(x) \/ AdminCreatesReward(x)
  PROVE  /\ RecordInv' /\ KeepsHistory /\ doing' = doing
         /\ x \notin rows /\ rows' = rows \cup {x} /\ TableOf[x] = "campaign"
         /\ \A y \in rows : ref'[y] = ref[y]
         /\ \A g \in Rows \ {x} : campaign'[g] = campaign[g]
         /\ campaign'[x].claimed = 0
<1> USE DEF RecordInv
<1> DEFINE new == {x}
<1>1. Opens(x) /\ new \in SUBSET Rows /\ Inserts(new) /\ TableOf[x] = "campaign"
  BY DEF ShopkeeperCreatesReward, AdminCreatesReward, CreateCampaign, AdminCampaign, InsertsA
<1>2. /\ RowsOK' /\ ReferencesAreWhole' /\ KeepsHistory
      /\ \A y \in rows : y \in rows' /\ ref'[y] = ref[y]
      /\ rows' \ rows = new
  <2> HIDE DEF new
  <2>1. RowsOK
    BY DEF RowsOK, TypeOK
  <2> QED BY <1>1, <2>1, InsertsKeepsRows
<1>3. x \notin rows /\ rows' = rows \cup {x}
  BY <1>1 DEF Inserts
<1>4. /\ doing' = doing /\ campaign' \in [Rows -> TermType]
      /\ campaign'[x].claimed = 0 /\ \A g \in Rows \ {x} : campaign'[g] = campaign[g]
  <2>1. PICK t \in Terms, now \in BOOLEAN :
          campaign' = [campaign EXCEPT ![x] = [open |-> now, inventory |-> t.inventory,
                                               limit |-> t.limit, claimed |-> 0]]
    BY <1>1 DEF Opens
  <2>2. t.inventory \in Nat /\ t.limit \in Nat
    BY RewardsAssumption
  <2>3. [open |-> now, inventory |-> t.inventory, limit |-> t.limit, claimed |-> 0] \in TermType
    BY <2>2 DEF TermType
  <2> QED
    BY <1>1, <2>1, <2>3 DEF Opens, TypeOK
<1>5. TypeOK'
  BY <1>2, <1>4 DEF TypeOK, RowsOK
<1>6. KindsOfRows'
  BY <1>3, <1>4, KindsKept DEF In
<1> QED
  BY <1>1, <1>2, <1>3, <1>4, <1>5, <1>6

\* A claim keeps the records.
LEMMA ClaimKeepsRecords ==
  ASSUME RecordInv, NEW c \in Requests, CommitClaim(c)
  PROVE  RecordInv' /\ KeepsHistory
<1> USE DEF RecordInv
<1>1. doing[c] \in Claims /\ Does(c, "claim") /\ doing' = [doing EXCEPT ![c] = Nothing]
  BY DoingTypes DEF CommitClaim
<1>2. doing[c].copy.claimed \in Nat
  BY <1>1 DEF Claims, TermType
<1>3. /\ RowsOK' /\ ReferencesAreWhole' /\ KeepsHistory /\ In("campaign")' = In("campaign")
      /\ \/ campaign' = campaign
         \/ campaign' = [campaign EXCEPT ![doing[c].row].claimed = doing[c].copy.claimed + 1]
  BY ClaimKeepsRows
<1>4. campaign' \in [Rows -> TermType]
  <2> DEFINE g == doing[c].row
             n == doing[c].copy.claimed + 1
  <2>1. g \in Rows /\ n \in Nat
    BY <1>1, <1>2 DEF Claims
  <2>2. campaign' = campaign \/ campaign' = [campaign EXCEPT ![g].claimed = n]
    BY <1>3
  <2> HIDE DEF g, n
  <2>3. campaign[g] \in TermType
    BY <2>1 DEF TypeOK
  <2>4. [campaign[g] EXCEPT !.claimed = n] \in TermType
    BY <2>1, <2>3 DEF TermType
  <2> QED
    BY <2>1, <2>2, <2>4 DEF TypeOK
<1>5. TypeOK'
  BY <1>1, <1>3, <1>4 DEF TypeOK, RowsOK
<1>6. KindsOfRows'
  BY <1>1, <1>3, KindsKept DEF TypeOK
<1> QED
  BY <1>3, <1>5, <1>6

\* An edit writes the columns it changes; claimed_count is none of them.
LEMMA EditKeepsRecords ==
  ASSUME RecordInv, NEW c \in Requests, WriteReward(c)
  PROVE  /\ RecordInv' /\ KeepsHistory
         /\ UNCHANGED <<rows, ref>> /\ doing' = [doing EXCEPT ![c] = Nothing]
         /\ Does(c, "edit") /\ IsFree(doing[c].row)
         /\ \A g \in Rows : campaign'[g].claimed = campaign[g].claimed
         /\ \A g \in Rows \ {doing[c].row} : campaign'[g] = campaign[g]
<1> USE DEF RecordInv
<1> DEFINE g == doing[c].row
           copy == doing[c].copy
<1>1. /\ doing[c] \in Edits /\ Does(c, "edit") /\ IsFree(g) /\ UNCHANGED <<rows, ref>>
      /\ doing' = [doing EXCEPT ![c] = Nothing]
  BY DoingTypes DEF WriteReward, recordVars
<1>2. g \in Rows /\ copy \in TermType
  BY <1>1 DEF Edits
<1> HIDE DEF g, copy
<1>3. campaign[g] \in TermType
  BY <1>2 DEF TypeOK
<1>4. \/ campaign' = campaign
      \/ \E new \in TermType :
           new.claimed = copy.claimed /\ campaign' = [campaign EXCEPT ![g] = Overlaid(@, copy, new)]
  <2>1. \A t \in Terms, open \in BOOLEAN :
          [open |-> open, inventory |-> t.inventory, limit |-> t.limit,
           claimed |-> copy.claimed] \in TermType
    BY <1>2, RewardsAssumption DEF TermType
  <2>2. \/ campaign' = campaign
        \/ \E t \in Terms, open \in BOOLEAN :
             campaign' = [campaign EXCEPT ![g] =
               Overlaid(@, copy, [open |-> open, inventory |-> t.inventory, limit |-> t.limit,
                                  claimed |-> copy.claimed])]
    BY DEF WriteReward, g, copy
  <2>3. \A t, open : [open |-> open, inventory |-> t.inventory, limit |-> t.limit,
                      claimed |-> copy.claimed].claimed = copy.claimed
    OBVIOUS
  <2> QED
    BY <2>1, <2>2, <2>3
<1>5. /\ campaign' \in [Rows -> TermType]
      /\ \A h \in Rows : campaign'[h].claimed = campaign[h].claimed
      /\ \A h \in Rows \ {g} : campaign'[h] = campaign[h]
  BY <1>2, <1>3, <1>4, ColumnsOverlaid DEF TypeOK
<1>6. TypeOK' /\ KindsOfRows'
  BY <1>1, <1>5, KindsKept DEF TypeOK, In
<1>7. ReferencesAreWhole' /\ KeepsHistory
  BY <1>1 DEF ReferencesAreWhole, KeepsHistory, TypeOK
<1> QED
  BY <1>1, <1>5, <1>6, <1>7 DEF g

\* A deletion takes no campaign that a claim has locked.
LEMMA DeletionKeepsRecords ==
  ASSUME RecordInv, NEW c \in Requests, DeleteRows(c)
  PROVE  /\ RecordInv' /\ KeepsHistory /\ rows' \subseteq rows
         /\ doing' = [doing EXCEPT ![c] = Nothing] /\ Does(c, "delete")
         /\ \A g \in rows' : campaign'[g] = campaign[g]
         /\ \A g \in rows \ rows' : IsFree(g)
<1> USE DEF RecordInv
<1>1. /\ CommitDeletion(c) /\ Does(c, "delete") /\ doing' = [doing EXCEPT ![c] = Nothing]
      /\ \A g \in rows \ rows' : IsFree(g)
      /\ campaign' = [x \in Rows |-> IF x \in rows' THEN campaign[x] ELSE Blank]
  BY DEF DeleteRows, CommitDeletion, IsDeleting, Does
<1>2. RowsOK' /\ ReferencesAreWhole' /\ KeepsHistory /\ rows' \subseteq rows
  BY <1>1, DeletionKeepsRows
<1>3. Blank \in TermType
  BY DEF Blank, TermType
<1>4. TypeOK'
  BY <1>1, <1>2, <1>3 DEF TypeOK, RowsOK
<1>5. KindsOfRows'
  <2> SUFFICES ASSUME NEW d \in Requests, Does(d, "claim")'
               PROVE  TableOf[doing'[d].user] = "user" /\ doing'[d].row \in In("campaign")'
    BY <1>1 DEF KindsOfRows, Does, TypeOK
  <2>1. d # c /\ doing'[d] = doing[d] /\ Does(d, "claim")
    BY <1>1 DEF Does, TypeOK
  <2>2. doing[d].row \in In("campaign") /\ TableOf[doing[d].user] = "user"
    BY <2>1 DEF KindsOfRows
  <2>3. doing[d].row \in rows'
    BY <1>1, <2>1, <2>2 DEF IsFree, In
  <2> QED
    BY <2>1, <2>2, <2>3 DEF In
<1> QED
  BY <1>1, <1>2, <1>4, <1>5 DEF TypeOK

\* What changes neither rows nor campaigns, and starts nothing but what it may.
LEMMA StartingKeepsRecords ==
  ASSUME RecordInv, NEW c \in Requests, NEW j, doing' = [doing EXCEPT ![c] = j],
         UNCHANGED <<rows, ref>>, campaign' \in [Rows -> TermType],
         j \in Deletions \cup Claims \cup Edits \cup {Nothing},
         j # Nothing => \/ j.op = "delete" /\ TableOf[j.row] \in Deletable
                        \/ j.op = "claim" /\ TableOf[j.user] = "user" /\ j.row \in In("campaign")
                        \/ j.op = "edit"
  PROVE  RecordInv' /\ KeepsHistory
<1> USE DEF RecordInv
<1>1. TypeOK' /\ ReferencesAreWhole' /\ KeepsHistory
  BY DEF TypeOK, ReferencesAreWhole, KeepsHistory
<1>2. \A d \in Requests : doing'[d] = IF d = c THEN j ELSE doing[d]
  BY DEF TypeOK
<1>3. In("campaign")' = In("campaign")
  BY DEF In
<1>4. KindsOfRows'
  BY <1>2, <1>3 DEF KindsOfRows, Does
<1> QED
  BY <1>1, <1>4

LEMMA LockingKeepsRecords ==
  ASSUME RecordInv, NEW c \in Requests, NEW u \in Rows, NEW g \in Rows, LockCampaign(c, u, g)
  PROVE  RecordInv' /\ KeepsHistory
<1> DEFINE j == [op |-> "claim", user |-> u, row |-> g, copy |-> campaign[g]]
<1>1. j \in Claims /\ campaign' \in [Rows -> TermType]
  BY DEF Claims, RecordInv, TypeOK, LockCampaign
<1>2. /\ doing' = [doing EXCEPT ![c] = j] /\ UNCHANGED <<rows, ref>>
      /\ j.op = "claim" /\ TableOf[j.user] = "user" /\ j.row \in In("campaign")
  BY DEF LockCampaign, recordVars, In
<1> HIDE DEF j
<1> QED
  BY <1>1, <1>2, StartingKeepsRecords

LEMMA ReadingKeepsRecords ==
  ASSUME RecordInv, NEW c \in Requests, NEW g \in Rows, ReadReward(c, g)
  PROVE  RecordInv' /\ KeepsHistory
<1> DEFINE j == [op |-> "edit", row |-> g, copy |-> campaign[g]]
<1>1. j \in Edits /\ campaign' \in [Rows -> TermType]
  BY DEF Edits, RecordInv, TypeOK, ReadReward
<1>2. doing' = [doing EXCEPT ![c] = j] /\ UNCHANGED <<rows, ref>> /\ j.op = "edit"
  BY DEF ReadReward, recordVars
<1> HIDE DEF j
<1> QED
  BY <1>1, <1>2, StartingKeepsRecords

LEMMA CountingKeepsRecords ==
  ASSUME RecordInv, NEW c \in Requests, NEW x \in Rows, Counting(c, x), UNCHANGED campaign
  PROVE  RecordInv' /\ KeepsHistory
<1> DEFINE j == [op |-> "delete", row |-> x, seen |-> Refusing(Doomed(x))]
<1>1. j \in Deletions /\ campaign' \in [Rows -> TermType] /\ j.op = "delete" /\ j.row = x
  BY DEF Deletions, Refusing, RecordInv, TypeOK
<1>2. TableOf[x] \in Deletable /\ doing' = [doing EXCEPT ![c] = j] /\ UNCHANGED <<rows, ref>>
  BY CountingFindsDeletable DEF RecordInv
<1> HIDE DEF j
<1> QED
  BY <1>1, <1>2, StartingKeepsRecords

LEMMA CreationsKeepRecords ==
  ASSUME RecordInv, NEW x \in Rows, Creations(x), UNCHANGED <<doing, campaign>>
  PROVE  RecordInv' /\ KeepsHistory
<1> USE DEF RecordInv
<1>1. RowsOK
  BY DEF RowsOK, TypeOK
<1>2. RowsOK' /\ ReferencesAreWhole' /\ KeepsHistory /\ In("campaign")' = In("campaign")
  BY <1>1, CreationsKeepRows
<1>3. TypeOK'
  BY <1>2 DEF TypeOK, RowsOK
<1>4. KindsOfRows'
  BY <1>2, KindsKept
<1> QED
  BY <1>2, <1>3, <1>4

LEMMA ClockKeepsRecords ==
  ASSUME RecordInv, NEW g \in Rows, ClockMoves(g)
  PROVE  /\ RecordInv' /\ KeepsHistory /\ UNCHANGED <<rows, ref, doing>>
         /\ \A h \in Rows : SameTerms(campaign'[h], campaign[h])
<1> USE DEF RecordInv
<1>1. /\ UNCHANGED <<rows, ref, doing>>
      /\ campaign' = [campaign EXCEPT ![g].open = ~ @]
  BY DEF ClockMoves, recordVars
<1>2. campaign[g] \in TermType
  BY DEF TypeOK
<1>3. /\ [campaign[g] EXCEPT !.open = ~ @] \in TermType
      /\ SameTerms([campaign[g] EXCEPT !.open = ~ @], campaign[g])
  BY <1>2 DEF TermType
<1>4. /\ campaign' \in [Rows -> TermType]
      /\ \A h \in Rows : SameTerms(campaign'[h], campaign[h])
  BY <1>1, <1>3 DEF TypeOK
<1>5. TypeOK' /\ ReferencesAreWhole' /\ KeepsHistory /\ KindsOfRows'
  BY <1>1, <1>4 DEF TypeOK, ReferencesAreWhole, KeepsHistory, KindsOfRows, Does, In
<1> QED
  BY <1>1, <1>4, <1>5

LEMMA NextRecordInv == RecordInv /\ [Next]_vars => RecordInv' /\ KeepsHistory
<1> SUFFICES ASSUME RecordInv, [Next]_vars PROVE RecordInv' /\ KeepsHistory
  OBVIOUS
<1>1. CASE UNCHANGED vars
  BY <1>1 DEF vars, RecordInv, TypeOK, ReferencesAreWhole, KindsOfRows, KeepsHistory, Does, In
<1>2. ASSUME NEW x \in Rows, Creations(x), UNCHANGED <<doing, campaign>>
      PROVE  RecordInv' /\ KeepsHistory
  BY <1>2, CreationsKeepRecords
<1>3. ASSUME NEW x \in Rows, ShopkeeperCreatesReward(x) \/ AdminCreatesReward(x)
      PROVE  RecordInv' /\ KeepsHistory
  BY <1>3, OpeningKeepsRecords
<1>4. ASSUME NEW x \in Rows, ClockMoves(x) PROVE RecordInv' /\ KeepsHistory
  BY <1>4, ClockKeepsRecords
<1>5. ASSUME NEW c \in Requests, NEW x \in Rows, Counting(c, x), UNCHANGED campaign
      PROVE  RecordInv' /\ KeepsHistory
  BY <1>5, CountingKeepsRecords
<1>6. ASSUME NEW c \in Requests, DeleteRows(c) PROVE RecordInv' /\ KeepsHistory
  BY <1>6, DeletionKeepsRecords
<1>7. ASSUME NEW c \in Requests, Rewarding(c) PROVE RecordInv' /\ KeepsHistory
  BY <1>7, LockingKeepsRecords, ReadingKeepsRecords, ClaimKeepsRecords, EditKeepsRecords
     DEF Rewarding
<1>8. ASSUME NEW c \in Requests, Rollback(c) PROVE RecordInv' /\ KeepsHistory
  BY <1>8, StartingKeepsRecords DEF Rollback, recordVars, RecordInv, TypeOK
<1> QED
  BY <1>1, <1>2, <1>3, <1>4, <1>5, <1>6, <1>7, <1>8 DEF Next

LEMMA RecordsHold == Spec => []RecordInv
<1>1. Init => RecordInv
  BY DEF Init, RecordInv, TypeOK, ReferencesAreWhole, KindsOfRows, Blank, TermType, Does
<1> QED
  BY <1>1, NextRecordInv, PTL DEF Spec

\* Every variable keeps its type.
THEOREM Typing == Spec => []TypeOK
<1>1. RecordInv => TypeOK
  BY DEF RecordInv
<1> QED
  BY <1>1, RecordsHold, PTL

\* No deletion, however early its references were counted, takes an order, an
\* item, a payment or a claim, or changes what it names.
THEOREM HistoryOutlives == Spec => HistoryStays
<1>1. RecordInv /\ [Next]_vars =>
        [\A x \in rows : TableOf[x] \in History => x \in rows' /\ ref'[x] = ref[x]]_<<rows, ref, doing>>
  BY NextRecordInv DEF KeepsHistory
<1> QED
  BY <1>1, RecordsHold, PTL DEF Spec, HistoryStays

-----------------------------------------------------------------------------
(***************************************************************************)
(* The inductive invariant of the claims: while a claim holds the lock,    *)
(* inventory, limit and count are those of the copy it has read, and what  *)
(* it has checked is so.  (The dates may pass meanwhile.)                  *)
(***************************************************************************)
OneLocks ==
  \A c, d \in Requests :
    Does(c, "claim") /\ Does(d, "claim") /\ doing[c].row = doing[d].row => c = d

LockedStays ==
  \A c \in Requests : Does(c, "claim") =>
    /\ SameTerms(doing[c].copy, campaign[doing[c].row])
    /\ MayClaim(doing[c].copy, Cardinality(ClaimsBy(doing[c].user, doing[c].row)))

ClaimInv == OneLocks /\ LockedStays /\ ClaimsAreCounted

\* The claims there are, as long as none is inserted.
LEMMA SameClaims ==
  ASSUME RecordInv, RecordInv', KeepsHistory, NoneNew("claim"), NEW g, NEW u
  PROVE  ClaimsOf(g)' = ClaimsOf(g) /\ ClaimsBy(u, g)' = ClaimsBy(u, g)
<1>1. \A y \in Rows : TableOf[y] = "claim" => /\ (y \in rows') <=> (y \in rows)
                                              /\ y \in rows => ref'[y] = ref[y]
  BY DEF KeepsHistory, NoneNew, History
<1>2. rows \subseteq Rows /\ rows' \subseteq Rows
  BY DEF RecordInv, TypeOK
<1>3. ClaimsOf(g)' = ClaimsOf(g)
  BY <1>1, <1>2 DEF ClaimsOf, In
<1>4. ClaimsOf(g) \subseteq In("claim")
  BY DEF ClaimsOf
<1> QED
  BY <1>1, <1>2, <1>3, <1>4 DEF ClaimsBy, In

\* A campaign that is not there has no claims.
LEMMA NoClaimsYet ==
  ASSUME RecordInv, NEW g \in Rows, g \notin rows
  PROVE  Cardinality(ClaimsOf(g)) = 0
<1>1. ClaimsOf(g) = {}
  BY DEF ClaimsOf, In, RecordInv, ReferencesAreWhole, TypeOK
<1> QED
  BY <1>1, FS_EmptySet

\* A step that inserts no claim, starts none, and leaves what is locked alone.
LEMMA QuietStep ==
  ASSUME RecordInv, RecordInv', ClaimInv, KeepsHistory, NoneNew("claim"),
         \A d \in Requests : Does(d, "claim")' => Does(d, "claim") /\ doing'[d] = doing[d],
         \A g \in In("campaign")' :
           IF g \in rows THEN campaign'[g].claimed = campaign[g].claimed
           ELSE campaign'[g].claimed = 0,
         \A d \in Requests : Does(d, "claim")' =>
           SameTerms(campaign'[doing[d].row], campaign[doing[d].row])
  PROVE  ClaimInv'
<1>1. OneLocks'
  BY DEF OneLocks, ClaimInv
<1>2. LockedStays'
  <2> SUFFICES ASSUME NEW d \in Requests, Does(d, "claim")'
               PROVE  /\ SameTerms(doing'[d].copy, campaign'[doing'[d].row])
                      /\ MayClaim(doing'[d].copy,
                                  Cardinality(ClaimsBy(doing[d].user, doing[d].row)'))
    BY DEF LockedStays
  <2>1. ClaimsBy(doing[d].user, doing[d].row)' = ClaimsBy(doing[d].user, doing[d].row)
    BY SameClaims
  <2> QED
    BY <2>1 DEF ClaimInv, LockedStays
<1>3. ClaimsAreCounted'
  <2> SUFFICES ASSUME NEW g \in In("campaign")'
               PROVE  campaign'[g].claimed = Cardinality(ClaimsOf(g)')
    BY DEF ClaimsAreCounted
  <2>1. ClaimsOf(g)' = ClaimsOf(g) /\ g \in Rows /\ TableOf[g] = "campaign"
    BY SameClaims DEF In, RecordInv, TypeOK
  <2>2. CASE g \in rows
    BY <2>1, <2>2 DEF ClaimInv, ClaimsAreCounted, In
  <2>3. CASE g \notin rows
    BY <2>1, <2>3, NoClaimsYet
  <2> QED
    BY <2>2, <2>3
<1> QED
  BY <1>1, <1>2, <1>3 DEF ClaimInv

\* A campaign is locked by one claim, which reads what there is.
LEMMA LockingKeepsClaims ==
  ASSUME RecordInv, ClaimInv, NEW c \in Requests, NEW u \in Rows, NEW g \in Rows,
         LockCampaign(c, u, g)
  PROVE  ClaimInv'
<1> USE DEF RecordInv
<1>1. /\ \A d \in Requests \ {c} : doing'[d] = doing[d]
      /\ doing'[c] = [op |-> "claim", user |-> u, row |-> g, copy |-> campaign[g]]
      /\ IsFree(g) /\ MayClaim(campaign[g], Cardinality(ClaimsBy(u, g)))
      /\ rows' = rows /\ ref' = ref /\ campaign' = campaign
  BY DEF LockCampaign, TypeOK, recordVars
<1>2. \A h, v : ClaimsOf(h)' = ClaimsOf(h) /\ ClaimsBy(v, h)' = ClaimsBy(v, h)
  BY <1>1 DEF ClaimsOf, ClaimsBy, In
<1>3. OneLocks'
  BY <1>1 DEF ClaimInv, OneLocks, IsFree, Does
<1>4. LockedStays'
  <2>1. ASSUME NEW d \in Requests, Does(d, "claim")'
        PROVE  /\ SameTerms(doing'[d].copy, campaign[doing'[d].row])
               /\ MayClaim(doing'[d].copy, Cardinality(ClaimsBy(doing'[d].user, doing'[d].row)))
    BY <1>1, <2>1 DEF ClaimInv, LockedStays, Does
  <2> QED
    BY <1>1, <2>1 DEF LockedStays, ClaimsBy, ClaimsOf, In
<1>5. ClaimsAreCounted'
  BY <1>1 DEF ClaimInv, ClaimsAreCounted, ClaimsOf, In
<1> QED
  BY <1>3, <1>4, <1>5 DEF ClaimInv

\* The one who has locked the campaign counts one claim more: the new one.
LEMMA ClaimKeepsClaims ==
  ASSUME RecordInv, RecordInv', ClaimInv, NEW c \in Requests, CommitClaim(c)
  PROVE  /\ ClaimInv'
         /\ \A y \in rows' \ rows :
              /\ TableOf[y] = "claim" /\ ref'[y] = {doing[c].user, doing[c].row}
              /\ campaign'[doing[c].row].claimed = campaign[doing[c].row].claimed + 1
<1> DEFINE g == doing[c].row
           u == doing[c].user
<1> USE DEF RecordInv
<1>1. /\ Does(c, "claim") /\ doing' = [doing EXCEPT ![c] = Nothing] /\ g \in Rows
      /\ TableOf[u] = "user" /\ g \in In("campaign") /\ SameTerms(doing[c].copy, campaign[g])
  BY DoingTypes DEF CommitClaim, Claims, KindsOfRows, ClaimInv, LockedStays
<1>2. /\ KeepsHistory /\ In("campaign")' = In("campaign")
      /\ \A x \in rows : x \in rows' /\ ref'[x] = ref[x]
      /\ \/ UNCHANGED <<rows, ref, campaign>>
         \/ \E y \in Rows : /\ y \notin rows /\ rows' = rows \cup {y} /\ TableOf[y] = "claim"
                            /\ ref'[y] = {u, g}
                            /\ campaign' = [campaign EXCEPT ![g].claimed = doing[c].copy.claimed + 1]
  BY ClaimKeepsRows
<1>3. \A d \in Requests : Does(d, "claim")' =>
        d # c /\ Does(d, "claim") /\ doing'[d] = doing[d] /\ doing[d].row # g
  BY <1>1 DEF Does, TypeOK, ClaimInv, OneLocks
<1> HIDE DEF g, u
<1>4. CASE UNCHANGED <<rows, ref, campaign>>
  <2>1. ClaimInv'
    BY <1>2, <1>3, <1>4, QuietStep DEF NoneNew, In
  <2> QED
    BY <1>4, <2>1
<1>5. ASSUME NEW y \in Rows, y \notin rows, rows' = rows \cup {y}, TableOf[y] = "claim",
             ref'[y] = {u, g},
             campaign' = [campaign EXCEPT ![g].claimed = campaign[g].claimed + 1]
      PROVE  ClaimInv' /\ campaign'[g].claimed = campaign[g].claimed + 1
  <2>1. /\ campaign'[g].claimed = campaign[g].claimed + 1
        /\ \A h \in Rows \ {g} : campaign'[h] = campaign[h]
    <3>1. campaign[g] \in TermType
      BY <1>1 DEF TypeOK
    <3>2. [campaign[g] EXCEPT !.claimed = campaign[g].claimed + 1].claimed = campaign[g].claimed + 1
      BY <3>1 DEF TermType
    <3> QED
      BY <1>1, <1>5, <3>2 DEF TypeOK
  <2>2. \A h : ClaimsOf(h)' = IF h \in {u, g} THEN ClaimsOf(h) \cup {y} ELSE ClaimsOf(h)
    BY <1>2, <1>5 DEF ClaimsOf, In
  <2>3. OneLocks'
    BY <1>3 DEF OneLocks, ClaimInv
  <2>4. ClaimsAreCounted'
    <3> SUFFICES ASSUME NEW h \in In("campaign")
                 PROVE  campaign'[h].claimed = Cardinality(ClaimsOf(h)')
      BY <1>2 DEF ClaimsAreCounted
    <3>1. campaign[h].claimed = Cardinality(ClaimsOf(h)) /\ h # u /\ h \in Rows
      BY <1>1 DEF ClaimInv, ClaimsAreCounted, In, TypeOK
    <3>2. IsFiniteSet(ClaimsOf(h)) /\ y \notin ClaimsOf(h)
      BY <1>5, RecordsAssumption, FS_Subset DEF ClaimsOf, In, TypeOK
    <3>3. CASE h = g
      <4>1. Cardinality(ClaimsOf(h) \cup {y}) = Cardinality(ClaimsOf(h)) + 1
        BY <3>2, FS_AddElement
      <4> QED
        BY <2>1, <2>2, <3>1, <3>3, <4>1
    <3>4. CASE h # g
      BY <2>1, <2>2, <3>1, <3>4
    <3> QED
      BY <3>3, <3>4
  <2>5. LockedStays'
    <3> SUFFICES ASSUME NEW d \in Requests, Does(d, "claim")',
                        NEW h, NEW v, h = doing'[d].row, v = doing'[d].user
                 PROVE  /\ SameTerms(doing'[d].copy, campaign'[h])
                        /\ MayClaim(doing'[d].copy, Cardinality(ClaimsBy(v, h)'))
      BY DEF LockedStays, ClaimsBy, ClaimsOf
    <3>1. Does(d, "claim") /\ doing'[d] = doing[d] /\ h # g
      BY <1>3
    <3>2. h \in In("campaign") /\ h \in Rows /\ h # u
      BY <1>1, <3>1 DEF KindsOfRows, In, TypeOK
    <3>3. ClaimsBy(v, h)' = ClaimsBy(v, h) /\ campaign'[h] = campaign[h]
      <4>1. ClaimsOf(h)' = ClaimsOf(h) /\ ClaimsOf(h) \subseteq rows
        BY <2>2, <3>1, <3>2 DEF ClaimsOf, In
      <4> QED
        BY <1>2, <2>1, <3>1, <3>2, <4>1 DEF ClaimsBy
    <3> QED
      BY <3>1, <3>3 DEF ClaimInv, LockedStays
  <2> QED
    BY <2>1, <2>3, <2>4, <2>5 DEF ClaimInv
<1> QED
  BY <1>1, <1>2, <1>4, <1>5 DEF u, g

\* A claim is inserted within the limits in force, and by nobody else.
WithinLimits ==
  \A y \in rows' \ rows : TableOf[y] = "claim" =>
    \A g \in ref'[y] \cap In("campaign") :
      /\ campaign'[g].claimed <= campaign[g].inventory
      /\ \A u \in ref'[y] \cap In("user") :
           Cardinality(ClaimsBy(u, g)) < campaign[g].limit

LEMMA ClaimIsWithinLimits ==
  ASSUME RecordInv, RecordInv', ClaimInv, NEW c \in Requests, CommitClaim(c)
  PROVE  WithinLimits
<1> DEFINE h == doing[c].row
           v == doing[c].user
<1>1. /\ TableOf[v] = "user" /\ TableOf[h] = "campaign" /\ h \in Rows
      /\ Cardinality(ClaimsBy(v, h)) < campaign[h].limit
      /\ campaign[h].claimed < campaign[h].inventory
  BY DEF RecordInv, ClaimInv, LockedStays, MayClaim, KindsOfRows, CommitClaim, In, TypeOK
<1>2. \A y \in rows' \ rows : ref'[y] = {v, h} /\ campaign'[h].claimed = campaign[h].claimed + 1
  BY ClaimKeepsClaims
<1> HIDE DEF h, v
<1>3. campaign[h].claimed \in Nat /\ campaign[h].inventory \in Nat
  BY <1>1 DEF RecordInv, TypeOK, TermType
<1>4. SUFFICES ASSUME NEW y \in rows' \ rows, NEW g \in ref'[y] \cap In("campaign")
               PROVE  /\ campaign'[g].claimed <= campaign[g].inventory
                      /\ \A u \in ref'[y] \cap In("user") :
                           Cardinality(ClaimsBy(u, g)) < campaign[g].limit
  BY DEF WithinLimits
<1>5. g = h
  BY <1>1, <1>2 DEF In
<1>6. \A u \in ref'[y] \cap In("user") : u = v
  BY <1>1, <1>2 DEF In
<1> QED
  BY <1>1, <1>2, <1>3, <1>5, <1>6

LEMMA NextClaimInv ==
  RecordInv /\ RecordInv' /\ ClaimInv /\ [Next]_vars => ClaimInv' /\ WithinLimits
<1> SUFFICES ASSUME RecordInv, RecordInv', ClaimInv, [Next]_vars PROVE ClaimInv' /\ WithinLimits
  OBVIOUS
<1>0. KeepsHistory
  BY NextRecordInv
<1>1. ASSUME NoneNew("claim") PROVE WithinLimits
  BY <1>1 DEF NoneNew, WithinLimits
<1>2. ASSUME UNCHANGED <<rows, ref, campaign>>,
             \A d \in Requests : doing'[d] = doing[d] \/ doing'[d] = Nothing
                                   \/ doing'[d].op # "claim"
      PROVE  ClaimInv' /\ WithinLimits
  <2>1. NoneNew("claim") /\ In("campaign")' \subseteq rows
    BY <1>2 DEF NoneNew, In
  <2> QED
    BY <1>0, <1>1, <1>2, <2>1, QuietStep DEF Does
<1>3. ASSUME NEW x \in Rows, Creations(x), UNCHANGED <<doing, campaign>>
      PROVE  ClaimInv' /\ WithinLimits
  <2>1. NoneNew("claim") /\ In("campaign")' = In("campaign")
    BY <1>3, CreationsKeepRows DEF RecordInv, RowsOK, TypeOK
  <2> QED
    BY <1>0, <1>1, <1>3, <2>1, QuietStep DEF Does, In
<1>4. ASSUME NEW x \in Rows, ShopkeeperCreatesReward(x) \/ AdminCreatesReward(x)
      PROVE  ClaimInv' /\ WithinLimits
  <2>1. /\ doing' = doing /\ x \notin rows /\ rows' = rows \cup {x} /\ TableOf[x] = "campaign"
        /\ \A g \in Rows \ {x} : campaign'[g] = campaign[g]
        /\ campaign'[x].claimed = 0
    BY <1>4, OpeningKeepsRecords
  <2>2. NoneNew("claim")
    BY <2>1 DEF NoneNew
  <2>3. \A d \in Requests : Does(d, "claim") => doing[d].row \in Rows \ {x}
    BY <2>1 DEF RecordInv, KindsOfRows, In, TypeOK
  <2>4. rows \subseteq Rows \ {x}
    BY <2>1 DEF RecordInv, TypeOK
  <2>5. \A d \in Requests : Does(d, "claim")' => Does(d, "claim") /\ doing'[d] = doing[d]
    BY <2>1 DEF Does
  <2>6. \A g \in In("campaign")' : IF g \in rows THEN campaign'[g].claimed = campaign[g].claimed
                                   ELSE campaign'[g].claimed = 0
    BY <2>1, <2>4 DEF In
  <2>7. \A d \in Requests : Does(d, "claim")' => campaign'[doing[d].row] = campaign[doing[d].row]
    BY <2>1, <2>3, <2>5
  <2> QED
    BY <1>0, <1>1, <2>2, <2>5, <2>6, <2>7, QuietStep
<1>5. ASSUME NEW x \in Rows, ClockMoves(x) PROVE ClaimInv' /\ WithinLimits
  <2>1. /\ UNCHANGED <<rows, ref, doing>>
        /\ \A h \in Rows : SameTerms(campaign'[h], campaign[h])
    BY <1>5, ClockKeepsRecords
  <2>2. NoneNew("claim") /\ In("campaign")' \subseteq rows /\ rows \subseteq Rows
    BY <2>1 DEF NoneNew, In, RecordInv, TypeOK
  <2>3. \A d \in Requests : Does(d, "claim") => doing[d].row \in Rows
    BY DEF RecordInv, KindsOfRows, In, TypeOK
  <2> QED
    BY <1>0, <1>1, <2>1, <2>2, <2>3, QuietStep DEF Does
<1>6. ASSUME NEW c \in Requests, NEW x \in Rows, Counting(c, x), UNCHANGED campaign
      PROVE  ClaimInv' /\ WithinLimits
  <2>1. /\ UNCHANGED <<rows, ref>> /\ doing[c] = Nothing
        /\ doing' = [doing EXCEPT ![c] = [op |-> "delete", row |-> x,
                                          seen |-> Refusing(Doomed(x))]]
    BY <1>6, CountingFindsDeletable DEF RecordInv
  <2>2. \A d \in Requests : doing'[d] = doing[d] \/ doing'[d].op # "claim"
    BY <2>1 DEF RecordInv, TypeOK
  <2> QED
    BY <1>2, <1>6, <2>1, <2>2
<1>7. ASSUME NEW c \in Requests, DeleteRows(c) PROVE ClaimInv' /\ WithinLimits
  <2>1. /\ rows' \subseteq rows /\ doing' = [doing EXCEPT ![c] = Nothing] /\ Does(c, "delete")
        /\ \A g \in rows' : campaign'[g] = campaign[g]
        /\ \A g \in rows \ rows' : IsFree(g)
    BY <1>7, DeletionKeepsRecords
  <2>2. NoneNew("claim")
    BY <2>1 DEF NoneNew
  <2>3. \A d \in Requests : Does(d, "claim")' => Does(d, "claim") /\ doing'[d] = doing[d]
    BY <2>1 DEF Does, RecordInv, TypeOK
  <2>4. \A d \in Requests : Does(d, "claim") => doing[d].row \in rows'
    BY <2>1 DEF IsFree, RecordInv, KindsOfRows, In
  <2>5. \A g \in In("campaign")' : g \in rows /\ campaign'[g].claimed = campaign[g].claimed
    BY <2>1 DEF In
  <2> QED
    BY <1>0, <1>1, <2>1, <2>2, <2>3, <2>4, <2>5, QuietStep
<1>8. ASSUME NEW c \in Requests, NEW g \in Rows, NEW u \in Rows, LockCampaign(c, u, g)
      PROVE  ClaimInv' /\ WithinLimits
  <2>1. NoneNew("claim")
    BY <1>8 DEF LockCampaign, recordVars, NoneNew
  <2> QED
    BY <1>1, <1>8, <2>1, LockingKeepsClaims
<1>9. ASSUME NEW c \in Requests, NEW g \in Rows, ReadReward(c, g)
      PROVE  ClaimInv' /\ WithinLimits
  <2>1. /\ UNCHANGED <<rows, ref, campaign>>
        /\ doing' = [doing EXCEPT ![c] = [op |-> "edit", row |-> g, copy |-> campaign[g]]]
    BY <1>9 DEF ReadReward, recordVars
  <2>2. \A d \in Requests : doing'[d] = doing[d] \/ doing'[d].op # "claim"
    BY <2>1 DEF RecordInv, TypeOK
  <2> QED
    BY <1>2, <2>1, <2>2
<1>10. ASSUME NEW c \in Requests, CommitClaim(c) PROVE ClaimInv' /\ WithinLimits
  BY <1>10, ClaimKeepsClaims, ClaimIsWithinLimits
<1>11. ASSUME NEW c \in Requests, WriteReward(c) PROVE ClaimInv' /\ WithinLimits
  <2>1. /\ UNCHANGED <<rows, ref>> /\ doing' = [doing EXCEPT ![c] = Nothing]
        /\ Does(c, "edit") /\ IsFree(doing[c].row)
        /\ \A g \in Rows : campaign'[g].claimed = campaign[g].claimed
        /\ \A g \in Rows \ {doing[c].row} : campaign'[g] = campaign[g]
    BY <1>11, EditKeepsRecords
  <2>2. NoneNew("claim") /\ In("campaign")' \subseteq rows /\ rows \subseteq Rows
    BY <2>1 DEF NoneNew, In, RecordInv, TypeOK
  <2>3. \A d \in Requests : Does(d, "claim")' => Does(d, "claim") /\ doing'[d] = doing[d]
    BY <2>1 DEF Does, RecordInv, TypeOK
  <2>4. \A d \in Requests : Does(d, "claim") => doing[d].row \in Rows \ {doing[c].row}
    BY <2>1 DEF RecordInv, KindsOfRows, In, TypeOK, IsFree
  <2>5. \A g \in In("campaign")' : g \in rows /\ campaign'[g].claimed = campaign[g].claimed
    BY <2>1, <2>2
  <2> QED
    BY <1>0, <1>1, <2>1, <2>2, <2>3, <2>4, <2>5, QuietStep
<1>12. ASSUME NEW c \in Requests, Rollback(c) PROVE ClaimInv' /\ WithinLimits
  BY <1>2, <1>12 DEF Rollback, recordVars, RecordInv, TypeOK
<1>13. CASE UNCHANGED vars
  BY <1>2, <1>13 DEF vars
<1> QED
  BY <1>3, <1>4, <1>5, <1>6, <1>7, <1>8, <1>9, <1>10, <1>11, <1>12, <1>13 DEF Next, Rewarding

LEMMA ClaimsHold == Spec => [](RecordInv /\ ClaimInv)
<1>1. Init => ClaimInv
  <2>1. Init => OneLocks /\ LockedStays
    BY DEF Init, OneLocks, LockedStays, Does
  <2>2. Init => ClaimsAreCounted
    BY DEF Init, ClaimsAreCounted, In
  <2> QED
    BY <2>1, <2>2 DEF ClaimInv
<1> QED
  BY <1>1, RecordsHold, NextClaimInv, PTL DEF Spec

\* claimed_count is the number of claims, whatever claims, edits, deletions and
\* rollbacks overlap (claim_reward).
THEOREM EveryClaimCounts == Spec => []ClaimsAreCounted
<1>1. ClaimInv => ClaimsAreCounted
  BY DEF ClaimInv
<1> QED
  BY <1>1, ClaimsHold, PTL

\* A claim is inserted only within the inventory and the customer's limit that
\* are in force when it commits.
THEOREM ClaimsKeepLimits == Spec => LimitsHold
<1>1. RecordInv /\ RecordInv' /\ ClaimInv /\ [Next]_vars =>
        [\A y \in rows' \ rows : TableOf[y] = "claim" =>
           \A g \in ref'[y] \cap In("campaign") :
             /\ campaign'[g].claimed <= campaign[g].inventory
             /\ \A u \in ref'[y] \cap In("user") :
                  Cardinality(ClaimsBy(u, g)) < campaign[g].limit]_vars
  BY NextClaimInv DEF WithinLimits
<1> QED
  BY <1>1, ClaimsHold, PTL DEF Spec, LimitsHold

=============================================================================
