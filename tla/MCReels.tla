------------------------------ MODULE MCReels ------------------------------
(* A small instance of Reels: one reel, two images and a video, a product. *)
EXTENDS Reels, TLC
CONSTANTS i1, i2, v1, p1

MCKindOf == [a \in {i1, i2, v1} |-> IF a = v1 THEN "video" ELSE "image"]

MCDrafts == [kind : {"image"}, media : {i1}, cta : {"shop"}, product : {Nothing},
             window : {"open"}]

MCUpdates ==
  {[kind |-> "image", media |-> i2], [kind |-> "video", media |-> v1],
   [cta |-> "product", product |-> p1], [cta |-> "shop"], [product |-> Nothing],
   [window |-> "ahead"]}

\* Two worlds: reels that no customer has found, created when all uploads are
\* over, with one of them deleted later; and a reel that is as it was created and
\* published, shared or clicked once.
Untouched == rows = [i \in Interactions |-> 0] /\ customers = Customers
             /\ \A c \in Requests : ~ Does(c, "find") /\ ~ Does(c, "change")
             /\ \A r \in Reels, a \in Assets :
                  Exists(r) => asset[a] \in IF a = i2 THEN {"ready", "deleted"} ELSE {"ready"}
Unedited  == /\ crossed = {} /\ shop = "active"
             /\ \A r \in Reels : count[r]["share"] + count[r]["click"] <= 1
             /\ \A c \in Requests : \A op \in Shopkeeping : ~ Does(c, op)
             /\ asset = [a \in Assets |-> "ready"]
             /\ product = [p \in Products |-> "listed"]
             /\ \A r \in Reels : Exists(r) =>
                  reel[r] = [status |-> "active", published |-> TRUE, kind |-> "image",
                             media |-> i1, cta |-> "shop", product |-> Nothing,
                             window |-> "open"]
OneWorld == Untouched \/ Unedited

Symmetry == Permutations(Customers) \cup Permutations(Requests)
=============================================================================
