------------------------------- MODULE Reels --------------------------------
(***************************************************************************)
(* Reels of a shop: their media, their publication and edits by the        *)
(* shopkeeper, and what customers do with them.                            *)
(*                                                                         *)
(* The shopkeeper's handlers read a reel without a lock and write, at the  *)
(* commit, the columns they have changed.  The customers' handlers look    *)
(* for a visible reel, insert or delete a row, and let the database add to *)
(* the reel's counter.                                                     *)
(***************************************************************************)
EXTENDS Integers, FiniteSets

CONSTANTS
  Reels, Customers, Products,
  Assets, KindOf,    \* media assets, and the kind of each: "image" or "video"
  Requests,          \* requests under way at a time
  Drafts, Updates,   \* bound: what reels are created with and updated to
  MaxEvents,         \* bound: the shares, and the clicks, of a customer
  Nothing            \* no row, no product, a request that does nothing

Content == [kind : {"image", "video"}, media : Assets, cta : {"shop", "product"},
            product : Products \cup {Nothing}, window : {"ahead", "open", "over"}]

Columns == [status : {"draft", "active", "paused", "archived"}, published : BOOLEAN,
            kind : {"image", "video"}, media : Assets, cta : {"shop", "product"},
            product : Products \cup {Nothing}, window : {"ahead", "open", "over"}]

Unique   == {"like", "save", "view"}         \* at most one row of a customer
Counters == Unique \cup {"share", "click"}

ASSUME ReelsAssumption ==
  /\ KindOf \in [Assets -> {"image", "video"}]
  /\ Drafts \subseteq Content
  /\ \A u \in Updates : /\ \E row \in Content : /\ DOMAIN u \subseteq DOMAIN row
                                                /\ \A k \in DOMAIN u : u[k] = row[k]
                        /\ ("kind" \in DOMAIN u) = ("media" \in DOMAIN u)
  /\ IsFiniteSet(Customers)
  /\ MaxEvents \in Nat
  /\ Nothing \notin Columns \cup Products \cup Assets

VARIABLES
  shop,       \* "active", "inactive" (any other status) or "deleted"
  asset,      \* "absent", "pending", "ready" or "deleted"
  product,    \* "listed", "archived" (is_deleted) or "deleted"
  reel,       \* the rows of reels: whether published_at is set, media_type and
              \* media_url, cta_type, product_id, and where now is in the window
  customers,  \* the customers that have not been deleted
  rows,       \* how many rows of reel_likes, reel_saves, reel_views and
              \* reel_events a customer has for a reel
  completed,  \* the views that are completed
  count,      \* the reel's counters
  doing,      \* what a request is about to do
  crossed,    \* history: reels two updates of which overlapped, or whose
              \* product has been deleted
  forgotten   \* history: how many rows went with their customer

publishing == <<shop, asset, product, reel, crossed>>
engagement == <<customers, rows, completed, count, forgotten>>
vars == <<publishing, engagement, doing>>

Interactions == Counters \X Customers \X Reels
NoCounts == [r \in Reels |-> [k \in Counters |-> 0]]

TypeOK ==
  /\ shop \in {"active", "inactive", "deleted"}
  /\ asset \in [Assets -> {"absent", "pending", "ready", "deleted"}]
  /\ product \in [Products -> {"listed", "archived", "deleted"}]
  /\ reel \in [Reels -> Columns \cup {Nothing}]
  /\ customers \subseteq Customers
  /\ rows \in [Interactions -> Nat]
  /\ \A i \in Interactions : i[1] \in Unique => rows[i] <= 1
  /\ completed \subseteq Customers \X Reels
  /\ count \in [Reels -> [Counters -> Nat]]
  /\ forgotten \in [Reels -> [Counters -> Nat]]
  /\ crossed \subseteq Reels

Init ==
  /\ shop \in {"active", "inactive"}
  /\ asset = [a \in Assets |-> "absent"]
  /\ product = [p \in Products |-> "listed"]
  /\ reel = [r \in Reels |-> Nothing]
  /\ customers = Customers
  /\ rows = [i \in Interactions |-> 0]
  /\ completed = {}
  /\ count = NoCounts
  /\ forgotten = NoCounts
  /\ doing = [c \in Requests |-> Nothing]
  /\ crossed = {}

Does(c, op) == doing[c] # Nothing /\ doing[c].op = op
Ends(c)     == doing' = [doing EXCEPT ![c] = Nothing]
Exists(r)   == reel[r] # Nothing

-----------------------------------------------------------------------------
(***************************************************************************)
(* Media.  An upload is complete when its client says so.                  *)
(***************************************************************************)
AssetBecomes(a, from, to) ==
  /\ asset[a] \in from
  /\ asset' = [asset EXCEPT ![a] = to]
  /\ UNCHANGED <<shop, product, reel, crossed, engagement, doing>>

Presign(a)       == AssetBecomes(a, {"absent"}, "pending")
Complete(a)      == AssetBecomes(a, {"pending"}, "ready")
AdminPresign(a)  == AssetBecomes(a, {"absent"}, "pending")
AdminComplete(a) == AssetBecomes(a, {"pending", "ready"}, "ready")
MediaDelete(a)   == AssetBecomes(a, {"pending", "ready"}, "deleted")

-----------------------------------------------------------------------------
(***************************************************************************)
(* The shopkeeper's requests.                                              *)
(***************************************************************************)
Overlaid(old, new) == [k \in DOMAIN old |-> IF k \in DOMAIN new THEN new[k] ELSE old[k]]

Changes(old, new) == [k \in {x \in DOMAIN new : new[x] # old[x]} |-> new[k]]

OwnedReadyAsset(new) ==
  "media" \in DOMAIN new => asset[new.media] = "ready" /\ KindOf[new.media] = new.kind

ValidProduct(p) == p \in {Nothing} \cup {q \in Products : product[q] = "listed"}

HasTarget(row) == row.cta = "product" => row.product # Nothing

CreateReel(r) ==
  /\ shop # "deleted" /\ ~ Exists(r)
  /\ \E new \in Drafts :
       /\ OwnedReadyAsset(new) /\ ValidProduct(new.product) /\ HasTarget(new)
       /\ reel' = [reel EXCEPT ![r] =
                     [status |-> "draft", published |-> FALSE, kind |-> new.kind,
                      media |-> new.media, cta |-> new.cta, product |-> new.product,
                      window |-> new.window]]
  /\ UNCHANGED <<shop, asset, product, crossed, engagement, doing>>

Reads(c, r, op, new) ==
  /\ doing[c] = Nothing
  /\ doing' = [doing EXCEPT ![c] = [op |-> op, reel |-> r, new |-> Changes(reel[r], new)]]
  /\ UNCHANGED <<publishing, engagement>>

OnlyTheNew(old, new) == new   \* mutant: columns left alone are not looked at
WithTheOld(old, new) == Overlaid(old, new)

UpdateReel(c, r) ==
  /\ Exists(r) /\ reel[r].status # "archived"
  /\ \E new \in Updates :
       LET row == WithTheOld(reel[r], new) IN
       /\ OwnedReadyAsset(new)
       /\ "product" \in DOMAIN row => ValidProduct(row.product)
       /\ {"cta", "product"} \subseteq DOMAIN row => HasTarget(row)
       /\ Reads(c, r, "update", new)

PublishesAnything(row) == row.window # "over"   \* mutant
MayPublish(row) == row.status # "archived" /\ row.window # "over"

PublishReel(c, r) ==
  /\ Exists(r) /\ shop = "active" /\ MayPublish(reel[r])
  /\ Reads(c, r, "publish", [status |-> "active", published |-> TRUE])

PauseReel(c, r) ==
  /\ Exists(r) /\ reel[r].status = "active"
  /\ Reads(c, r, "pause", [status |-> "paused"])

ArchiveReel(c, r) ==
  /\ Exists(r)
  /\ Reads(c, r, "archive", [status |-> "archived"])

Shopkeeping == {"update", "publish", "pause", "archive"}

\* The reel, and a product it is given, must still be there.
CommitReel(c) ==
  LET r == doing[c].reel
      new == doing[c].new
  IN
  /\ \E op \in Shopkeeping : Does(c, op)
  /\ IF /\ Exists(r)
        /\ "product" \in DOMAIN new /\ new.product # Nothing => product[new.product] # "deleted"
       THEN /\ reel' = [reel EXCEPT ![r] = Overlaid(@, new)]
            /\ crossed' = IF /\ Does(c, "update")
                             /\ \E d \in Requests \ {c} : Does(d, "update") /\ doing[d].reel = r
                            THEN crossed \cup {r} ELSE crossed
       ELSE UNCHANGED <<reel, crossed>>
  /\ Ends(c)
  /\ UNCHANGED <<shop, asset, product, engagement>>

Rollback(c) == doing[c] # Nothing /\ Ends(c) /\ UNCHANGED <<publishing, engagement>>

-----------------------------------------------------------------------------
(***************************************************************************)
(* What customers do with a reel.                                          *)
(***************************************************************************)
Visible(r) ==
  Exists(r) /\ reel[r].status = "active" /\ shop = "active" /\ reel[r].window = "open"

\* A request to insert (on), or delete, a row has found the reel.
Finds(c, k, u, r, on) ==
  /\ doing[c] = Nothing
  /\ u \in customers /\ Visible(r)
  /\ doing' = [doing EXCEPT ![c] = [op |-> "find", row |-> <<k, u, r>>, on |-> on]]
  /\ UNCHANGED <<publishing, engagement>>

Like(c, u, r)   == Finds(c, "like", u, r, TRUE)
Unlike(c, u, r) == Finds(c, "like", u, r, FALSE)
Save(c, u, r)   == Finds(c, "save", u, r, TRUE)
Unsave(c, u, r) == Finds(c, "save", u, r, FALSE)
View(c, u, r)   == Finds(c, "view", u, r, TRUE)
Share(c, u, r)  == rows[<<"share", u, r>>] < MaxEvents /\ Finds(c, "share", u, r, TRUE)
Click(c, u, r)  == rows[<<"click", u, r>>] < MaxEvents /\ Finds(c, "click", u, r, TRUE)

\* Its row is inserted or deleted, and locked until the commit.
Holds(c, i) == Does(c, "change") /\ doing[c].row = i

NeverWaits(i) == TRUE   \* mutant: reel_id and user_id are not unique
IsUnlocked(i) == i[1] \in Unique => \A d \in Requests : ~ Holds(d, i)

AlwaysTakes(i, on) == TRUE   \* mutant: rowcount is not looked at
TakesEffect(i, on) == IF on THEN i[1] \in Unique => rows[i] = 0 ELSE rows[i] = 1

\* The row is inserted unless it is there, or deleted if it is: then the
\* reel's counter follows.  An insertion fails if the reel or customer has gone.
Change(c) ==
  LET i == doing[c].row IN
  /\ Does(c, "find") /\ IsUnlocked(i)
  /\ i[2] \in customers /\ Exists(i[3])
  /\ TakesEffect(i, doing[c].on)
  /\ doing' = [doing EXCEPT ![c].op = "change"]
  /\ UNCHANGED <<publishing, engagement>>

\* A view that is repeated may complete it; anything else changes nothing.
ChangeNothing(c) ==
  LET i == doing[c].row IN
  /\ Does(c, "find") /\ IsUnlocked(i)
  /\ ~ TakesEffect(i, doing[c].on) \/ i[2] \notin customers \/ ~ Exists(i[3])
  /\ \/ UNCHANGED completed
     \/ i[1] = "view" /\ rows[i] = 1 /\ completed' = completed \cup {<<i[2], i[3]>>}
  /\ Ends(c)
  /\ UNCHANGED <<publishing, customers, rows, count, forgotten>>

GreatestOfZero(n) == IF n < 0 THEN 0 ELSE n

CommitChange(c) ==
  LET i == doing[c].row
      k == i[1]
  IN
  /\ Does(c, "change")
  /\ IF doing[c].on
       THEN /\ rows' = [rows EXCEPT ![i] = @ + 1]
            /\ count' = [count EXCEPT ![i[3]][k] = @ + 1]
            /\ \/ UNCHANGED completed
               \/ k = "view" /\ completed' = completed \cup {<<i[2], i[3]>>}
       ELSE /\ rows' = [rows EXCEPT ![i] = 0]
            /\ count' = [count EXCEPT ![i[3]][k] = GreatestOfZero(@ - 1)]
            /\ UNCHANGED completed
  /\ Ends(c)
  /\ UNCHANGED <<publishing, customers, forgotten>>

-----------------------------------------------------------------------------
(***************************************************************************)
(* What others do to a reel.                                               *)
(***************************************************************************)
TimePasses(r) ==
  /\ Exists(r) /\ reel[r].window # "over"
  /\ reel' = [reel EXCEPT ![r].window = IF @ = "ahead" THEN "open" ELSE "over"]
  /\ UNCHANGED <<shop, asset, product, crossed, engagement, doing>>

ShopLifecycle ==
  /\ shop # "deleted"
  /\ shop' \in {"active", "inactive"} \ {shop}
  /\ UNCHANGED <<asset, product, reel, crossed, engagement, doing>>

ArchiveProduct(p) ==
  /\ product[p] = "listed"
  /\ product' = [product EXCEPT ![p] = "archived"]
  /\ UNCHANGED <<shop, asset, reel, crossed, engagement, doing>>

\* ON DELETE SET NULL.
DeleteProduct(p) ==
  LET its == {r \in Reels : Exists(r) /\ reel[r].product = p} IN
  /\ product[p] # "deleted"
  /\ product' = [product EXCEPT ![p] = "deleted"]
  /\ reel' = [r \in Reels |-> IF r \in its THEN [reel[r] EXCEPT !.product = Nothing] ELSE reel[r]]
  /\ crossed' = crossed \cup its
  /\ UNCHANGED <<shop, asset, engagement, doing>>

\* ON DELETE CASCADE, once those who have locked a row of theirs are done.
DeleteShop ==
  /\ shop # "deleted"
  /\ \A c \in Requests : ~ Does(c, "change")
  /\ shop' = "deleted"
  /\ product' = [p \in Products |-> "deleted"]
  /\ reel' = [r \in Reels |-> Nothing]
  /\ rows' = [i \in Interactions |-> 0]
  /\ completed' = {}
  /\ count' = NoCounts
  /\ forgotten' = NoCounts
  /\ UNCHANGED <<asset, crossed, customers, doing>>

DeleteUser(u) ==
  /\ u \in customers
  /\ \A c \in Requests : ~ (Does(c, "change") /\ doing[c].row[2] = u)
  /\ customers' = customers \ {u}
  /\ rows' = [i \in Interactions |-> IF i[2] = u THEN 0 ELSE rows[i]]
  /\ completed' = {v \in completed : v[1] # u}
  /\ forgotten' = [r \in Reels |-> [k \in Counters |-> forgotten[r][k] + rows[<<k, u, r>>]]]
  /\ UNCHANGED <<publishing, count, doing>>

-----------------------------------------------------------------------------
Shopkeeper(c) ==
  \/ \E r \in Reels : \/ UpdateReel(c, r) \/ PublishReel(c, r) \/ PauseReel(c, r)
                      \/ ArchiveReel(c, r)
  \/ CommitReel(c) \/ Rollback(c)

Customer(c) ==
  \/ \E r \in Reels, u \in Customers :
       \/ Like(c, u, r) \/ Unlike(c, u, r) \/ Save(c, u, r) \/ Unsave(c, u, r)
       \/ View(c, u, r) \/ Share(c, u, r) \/ Click(c, u, r)
  \/ Change(c) \/ ChangeNothing(c) \/ CommitChange(c)

Others ==
  \/ \E a \in Assets : \/ Presign(a) \/ Complete(a) \/ MediaDelete(a)
                       \/ AdminPresign(a) \/ AdminComplete(a)
  \/ \E r \in Reels : CreateReel(r) \/ TimePasses(r)
  \/ \E p \in Products : ArchiveProduct(p) \/ DeleteProduct(p)
  \/ \E u \in Customers : DeleteUser(u)
  \/ ShopLifecycle \/ DeleteShop

Next == Others \/ \E c \in Requests : Shopkeeper(c) \/ Customer(c)

Spec == Init /\ [][Next]_vars

-----------------------------------------------------------------------------
(***************************************************************************)
(* Properties.                                                             *)
(***************************************************************************)
\* Those of the rows that are of a kind and for a reel.
RowsOf(these, k, r) == UNION {{u} \X (1..these[<<k, u, r>>]) : u \in Customers}

\* A counter is the number of rows it counts and of those that went with a
\* deleted customer, whatever requests overlap: so the 0 that unliking stops at
\* is never needed, and the completion rate of the analytics is at most 1.
CountersAddUp ==
  \A r \in Reels :
    /\ \A k \in Counters : count[r][k] = forgotten[r][k] + Cardinality(RowsOf(rows, k, r))
    /\ Cardinality({u \in Customers : <<u, r>> \in completed}) <= count[r]["view"]

\* Unless two updates of a reel overlapped or its product was deleted, its media
\* are of the kind it says and were uploaded, and a product it calls for is
\* there; unconditionally, a reel that is active or paused has been published.
ReelsAreWhole ==
  \A r \in Reels : Exists(r) =>
    /\ reel[r].status \in {"active", "paused"} => reel[r].published
    /\ asset[reel[r].media] \in {"ready", "deleted"}
    /\ r \notin crossed => KindOf[reel[r].media] = reel[r].kind /\ HasTarget(reel[r])

\* An archived reel stays archived, from when the requests are over that had
\* read it before.
Undoes(c, r) ==
  /\ \E op \in Shopkeeping : Does(c, op)
  /\ doing[c].reel = r
  /\ "status" \in DOMAIN doing[c].new /\ doing[c].new.status # "archived"

IsSettled(r) ==
  Exists(r) /\ reel[r].status = "archived" /\ \A c \in Requests : ~ Undoes(c, r)

ArchivedStays == [][\A r \in Reels : IsSettled(r) => IsSettled(r)' \/ ~ Exists(r)']_vars

=============================================================================
