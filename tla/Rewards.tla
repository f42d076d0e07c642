------------------------------- MODULE Rewards -------------------------------
(***************************************************************************)
(* Reward campaigns and their claims, among the rows of Records.           *)
(*                                                                         *)
(* A claim locks its campaign (FOR UPDATE), counts the customer's claims,  *)
(* inserts one and writes claimed_count.  An administrator's edit and a    *)
(* deletion read the campaign without a lock and write at the commit.      *)
(***************************************************************************)
EXTENDS Records

CONSTANTS
  Terms   \* bound: the inventories and limits per customer an edit sets

TermType == [open : BOOLEAN, inventory : Nat, limit : Nat, claimed : Nat]
Claims   == [op : {"claim"}, user : Rows, row : Rows, copy : TermType]
Edits    == [op : {"edit"}, row : Rows, copy : TermType]

ASSUME RewardsAssumption ==
  /\ Terms \subseteq [inventory : Nat \ {0}, limit : Nat \ {0}]
  /\ Nothing \notin Claims \cup Edits

VARIABLES
  campaign   \* the columns of the campaigns: open is status "active" in the
             \* campaign's dates; inventory, limit and claimed are total_inventory,
             \* per_user_limit and claimed_count

vars == <<rows, ref, doing, campaign>>

TypeOK ==
  /\ rows \subseteq Rows
  /\ ref \in [Rows -> SUBSET Rows]
  /\ doing \in [Requests -> Deletions \cup Claims \cup Edits \cup {Nothing}]
  /\ campaign \in [Rows -> TermType]

Blank == [open |-> FALSE, inventory |-> 0, limit |-> 0, claimed |-> 0]

Init ==
  /\ rows = {}
  /\ ref = [x \in Rows |-> {}]
  /\ doing = [c \in Requests |-> Nothing]
  /\ campaign = [x \in Rows |-> Blank]

Does(c, op) == doing[c] # Nothing /\ doing[c].op = op

NotLocked(g) == TRUE   \* mutant: FOR UPDATE dropped
IsFree(g) == \A c \in Requests : ~ (Does(c, "claim") /\ doing[c].row = g)

ClaimsOf(g)     == {y \in In("claim") : g \in ref[y]}
ClaimsBy(u, g)  == {y \in ClaimsOf(g) : u \in ref[y]}

-----------------------------------------------------------------------------
\* A shopkeeper's campaign is active, and open if its dates are: one of an
\* administrator may also be a draft.
Opens(x) ==
  /\ \E t \in Terms, now \in BOOLEAN :
       campaign' = [campaign EXCEPT ![x] = [open |-> now, inventory |-> t.inventory,
                                            limit |-> t.limit, claimed |-> 0]]
  /\ UNCHANGED doing

ShopkeeperCreatesReward(x) == CreateCampaign(x) /\ Opens(x)
AdminCreatesReward(x)      == AdminCampaign(x) /\ Opens(x)

\* Dates come and go, also while a claim holds the row: it reads the time once.
ClockMoves(g) ==
  /\ g \in In("campaign")
  /\ campaign' = [campaign EXCEPT ![g].open = ~ @]
  /\ UNCHANGED <<recordVars, doing>>

MayClaim(copy, count) == copy.open /\ count < copy.limit /\ copy.claimed < copy.inventory

LockCampaign(c, u, g) ==
  /\ doing[c] = Nothing
  /\ u \in In("user") /\ g \in In("campaign")
  /\ IsFree(g)
  /\ MayClaim(campaign[g], Cardinality(ClaimsBy(u, g)))
  /\ doing' = [doing EXCEPT ![c] = [op |-> "claim", user |-> u, row |-> g,
                                    copy |-> campaign[g]]]
  /\ UNCHANGED <<recordVars, campaign>>

OneFewer(copy) == copy.claimed - 1   \* mutant
OneMore(copy)  == copy.claimed + 1

\* Insert the claim, unless the customer has gone, and count it.
CommitClaim(c) ==
  LET g == doing[c].row
      u == doing[c].user
  IN
  /\ Does(c, "claim")
  /\ IF u \in rows
       THEN /\ \E y \in Rows : /\ RefersTo[y] = {u, g}
                               /\ InsertsA("claim", y)
            /\ campaign' = [campaign EXCEPT ![g].claimed = OneMore(doing[c].copy)]
       ELSE UNCHANGED <<recordVars, campaign>>
  /\ doing' = [doing EXCEPT ![c] = Nothing]

ReadReward(c, g) ==
  /\ doing[c] = Nothing
  /\ g \in In("campaign")
  /\ doing' = [doing EXCEPT ![c] = [op |-> "edit", row |-> g, copy |-> campaign[g]]]
  /\ UNCHANGED <<recordVars, campaign>>

\* The columns that differ from those read; claimed_count is none of them.
WholeRow(old, copy, new) == new   \* mutant
Overlaid(old, copy, new) == [k \in DOMAIN old |-> IF new[k] = copy[k] THEN old[k] ELSE new[k]]

WriteReward(c) ==
  LET g == doing[c].row
      copy == doing[c].copy
  IN
  /\ Does(c, "edit")
  /\ IsFree(g)
  /\ IF g \in rows
       THEN \E t \in Terms, open \in BOOLEAN :
              campaign' = [campaign EXCEPT ![g] =
                Overlaid(@, copy, [open |-> open, inventory |-> t.inventory,
                                   limit |-> t.limit, claimed |-> copy.claimed])]
       ELSE UNCHANGED campaign
  /\ doing' = [doing EXCEPT ![c] = Nothing]
  /\ UNCHANGED recordVars

\* The columns of a campaign go with its row, which no claim may have locked.
DeleteRows(c) ==
  /\ CommitDeletion(c)
  /\ \A x \in rows \ rows' : IsFree(x)
  /\ campaign' = [x \in Rows |-> IF x \in rows' THEN campaign[x] ELSE Blank]

Rollback(c) ==
  /\ doing[c] # Nothing
  /\ doing' = [doing EXCEPT ![c] = Nothing]
  /\ UNCHANGED <<recordVars, campaign>>

-----------------------------------------------------------------------------
Rewarding(c) ==
  \/ \E g \in Rows : ReadReward(c, g) \/ \E u \in Rows : LockCampaign(c, u, g)
  \/ CommitClaim(c) \/ WriteReward(c)

Next ==
  \/ \E x \in Rows : \/ Creations(x) /\ UNCHANGED <<doing, campaign>>
                     \/ ShopkeeperCreatesReward(x) \/ AdminCreatesReward(x) \/ ClockMoves(x)
  \/ \E c \in Requests : \/ \E x \in Rows : Counting(c, x) /\ UNCHANGED campaign
                         \/ DeleteRows(c) \/ Rewarding(c) \/ Rollback(c)

Spec == Init /\ [][Next]_vars

-----------------------------------------------------------------------------
(***************************************************************************)
(* Properties.                                                             *)
(***************************************************************************)
\* claimed_count is the number of claims of the campaign: concurrent claims,
\* edits written from an old copy, deletions and rollbacks lose none of them.
ClaimsAreCounted ==
  \A g \in In("campaign") : campaign[g].claimed = Cardinality(ClaimsOf(g))

\* When a claim commits, neither the inventory nor the customer's limit that is in
\* force at that moment is exceeded, although an administrator may have read the
\* campaign before the claim began and write both after it.
LimitsHold ==
  [][\A y \in rows' \ rows : TableOf[y] = "claim" =>
       \A g \in ref'[y] \cap In("campaign") :
         /\ campaign'[g].claimed <= campaign[g].inventory
         /\ \A u \in ref'[y] \cap In("user") :
              Cardinality(ClaimsBy(u, g)) < campaign[g].limit]_vars

=============================================================================
