----------------------------- MODULE ReelsProofs -----------------------------
(***************************************************************************)
(* What holds of the reels of a shop for any reels, customers, products,   *)
(* uploads, drafts and updates, and any number of requests.                *)
(***************************************************************************)
EXTENDS Reels, FiniteSetTheorems, TLAPS

-----------------------------------------------------------------------------
(***************************************************************************)
(* What a request is about to do: a change of a row of a customer's, or of *)
(* some columns of a reel.                                                 *)
(***************************************************************************)
Finding == [op : {"find", "change"}, row : Interactions, on : BOOLEAN]

IsPart(new, whole) == DOMAIN new \subseteq DOMAIN whole /\ \A k \in DOMAIN new : new[k] = whole[k]

IsWrite(j) ==
  /\ j.op \in Shopkeeping /\ j.reel \in Reels
  /\ \E row \in Columns : IsPart(j.new, row)

DoingOK ==
  /\ doing = [c \in Requests |-> doing[c]]
  /\ \A c \in Requests : doing[c] # Nothing => doing[c] \in Finding \/ IsWrite(doing[c])

RowsOK ==
  /\ rows \in [Interactions -> Nat]
  /\ count \in [Reels -> [Counters -> Nat]]
  /\ forgotten \in [Reels -> [Counters -> Nat]]
  /\ completed \subseteq Customers \X Reels
  /\ customers \subseteq Customers

ReelsOK ==
  /\ shop \in {"active", "inactive", "deleted"}
  /\ asset \in [Assets -> {"absent", "pending", "ready", "deleted"}]
  /\ product \in [Products -> {"listed", "archived", "deleted"}]
  /\ reel \in [Reels -> Columns \cup {Nothing}]
  /\ crossed \subseteq Reels

\* The kinds of work are told apart.
LEMMA KindsOfWork ==
  ASSUME DoingOK, NEW c \in Requests
  PROVE  /\ Does(c, "find") \/ Does(c, "change") => doing[c] \in Finding
         /\ (\E op \in Shopkeeping : Does(c, op)) => IsWrite(doing[c])
         /\ (\E op \in Shopkeeping : Does(c, op)) => ~ Does(c, "find") /\ ~ Does(c, "change")
  BY DEF DoingOK, Does, Finding, IsWrite, Shopkeeping

\* A write over a row of columns gives a row of columns.
LEMMA OverlaidColumns ==
  ASSUME NEW old \in Columns, NEW new, \E row \in Columns : IsPart(new, row)
  PROVE  /\ Overlaid(old, new) \in Columns
         /\ \A k \in {"status", "published", "kind", "media", "cta", "product", "window"} :
              Overlaid(old, new)[k] = IF k \in DOMAIN new THEN new[k] ELSE old[k]
<1> DEFINE Names == {"status", "published", "kind", "media", "cta", "product", "window"}
<1>1. PICK row \in Columns : IsPart(new, row)
  OBVIOUS
<1>2. DOMAIN old = Names /\ DOMAIN row = Names
  BY DEF Columns
<1>3. \A k \in Names : Overlaid(old, new)[k] = IF k \in DOMAIN new THEN new[k] ELSE old[k]
  BY <1>2 DEF Overlaid
<1>4. \A k \in Names : Overlaid(old, new)[k] = row[k] \/ Overlaid(old, new)[k] = old[k]
  BY <1>1, <1>2, <1>3 DEF IsPart
<1>5. Overlaid(old, new) =
        [status |-> Overlaid(old, new)["status"], published |-> Overlaid(old, new)["published"],
         kind |-> Overlaid(old, new)["kind"], media |-> Overlaid(old, new)["media"],
         cta |-> Overlaid(old, new)["cta"], product |-> Overlaid(old, new)["product"],
         window |-> Overlaid(old, new)["window"]]
  BY <1>2 DEF Overlaid
<1>6. Overlaid(old, new) \in Columns
  BY <1>4, <1>5 DEF Columns
<1> QED
  BY <1>3, <1>6

\* What is written of the new columns is some of them.
LEMMA ChangesArePart ==
  ASSUME NEW old \in Columns, NEW new, NEW row \in Columns, IsPart(new, row)
  PROVE  IsPart(Changes(old, new), row) /\ Overlaid(old, Changes(old, new)) = Overlaid(old, new)
<1>1. /\ DOMAIN Changes(old, new) = {k \in DOMAIN new : new[k] # old[k]}
      /\ \A k \in DOMAIN Changes(old, new) : Changes(old, new)[k] = new[k]
  BY DEF Changes
<1>2. IsPart(Changes(old, new), row)
  BY <1>1 DEF IsPart
<1>3. Overlaid(old, Changes(old, new)) = Overlaid(old, new)
  BY <1>1 DEF Overlaid
<1> QED
  BY <1>2, <1>3

-----------------------------------------------------------------------------
(***************************************************************************)
(* The counters.  A request that is about to change a row has it locked,   *)
(* and what it has found is so.                                            *)
(***************************************************************************)
LockedRows ==
  /\ \A c \in Requests : Does(c, "find") \/ Does(c, "change") =>
       (~ doing[c].on => doing[c].row[1] \in {"like", "save"})
  /\ \A c \in Requests : Does(c, "change") =>
       /\ doing[c].row[2] \in customers
       /\ doing[c].row[1] \in Unique => rows[doing[c].row] = IF doing[c].on THEN 0 ELSE 1
  /\ \A c, d \in Requests :
       (/\ Does(c, "change") /\ Does(d, "change")
        /\ doing[c].row = doing[d].row /\ doing[c].row[1] \in Unique) => c = d

UniqueRows ==
  /\ \A i \in Interactions : i[1] \in Unique => rows[i] <= 1
  /\ \A v \in completed : rows[<<"view", v[1], v[2]>>] = 1

Counted ==
  \A k \in Counters, r \in Reels :
    IsFiniteSet(RowsOf(rows, k, r)) /\ count[r][k] = forgotten[r][k] + Cardinality(RowsOf(rows, k, r))

CounterInv == DoingOK /\ RowsOK /\ LockedRows /\ UniqueRows /\ Counted

LEMMA InteractionTypes ==
  /\ \A k \in Counters, u \in Customers, r \in Reels : <<k, u, r>> \in Interactions
  /\ \A i \in Interactions : /\ i[1] \in Counters /\ i[2] \in Customers /\ i[3] \in Reels
                             /\ i = <<i[1], i[2], i[3]>>
  BY DEF Interactions

\* The members of RowsOf.
IsRowOf(f, k, r, x) ==
  \E u \in Customers, n \in Int : 1 <= n /\ n <= f[<<k, u, r>>] /\ x = <<u, n>>

LEMMA RowsOfMembers ==
  ASSUME NEW f, NEW k, NEW r, NEW x
  PROVE  x \in RowsOf(f, k, r) <=> IsRowOf(f, k, r, x)
<1> DEFINE its(u) == {u} \X (1..f[<<k, u, r>>])
<1>1. x \in RowsOf(f, k, r) <=> \E u \in Customers : x \in its(u)
  BY Zenon DEF RowsOf
<1>2. ASSUME NEW u
      PROVE  x \in its(u) <=> \E n \in Int : 1 <= n /\ n <= f[<<k, u, r>>] /\ x = <<u, n>>
  <2>1. \A n : n \in 1..f[<<k, u, r>>] <=> n \in Int /\ 1 <= n /\ n <= f[<<k, u, r>>]
    OBVIOUS
  <2>2. x \in its(u) <=> \E n \in 1..f[<<k, u, r>>] : x = <<u, n>>
    OBVIOUS
  <2> QED
    BY <2>1, <2>2
<1> QED
  BY <1>1, <1>2 DEF IsRowOf

\* Rows that are not touched.
LEMMA SameRows ==
  ASSUME NEW k, NEW r, NEW f, NEW g, \A u \in Customers : g[<<k, u, r>>] = f[<<k, u, r>>]
  PROVE  RowsOf(g, k, r) = RowsOf(f, k, r)
<1>1. ASSUME NEW x PROVE x \in RowsOf(g, k, r) <=> x \in RowsOf(f, k, r)
  <2>1. ASSUME IsRowOf(g, k, r, x) PROVE IsRowOf(f, k, r, x)
    <3>1. PICK u \in Customers, n \in Int : 1 <= n /\ n <= g[<<k, u, r>>] /\ x = <<u, n>>
      BY <2>1 DEF IsRowOf
    <3> QED
      BY <3>1 DEF IsRowOf
  <2>2. ASSUME IsRowOf(f, k, r, x) PROVE IsRowOf(g, k, r, x)
    <3>1. PICK u \in Customers, n \in Int : 1 <= n /\ n <= f[<<k, u, r>>] /\ x = <<u, n>>
      BY <2>2 DEF IsRowOf
    <3>2. n <= g[<<k, u, r>>]
      BY <3>1
    <3> QED
      BY <3>1, <3>2 DEF IsRowOf
  <2> QED
    BY <2>1, <2>2, RowsOfMembers
<1> QED
  BY <1>1

\* A row that is inserted.
LEMMA OneMoreRow ==
  ASSUME NEW f, NEW g, NEW k, NEW r, NEW u \in Customers, NEW n \in Nat, f[<<k, u, r>>] = n,
         g[<<k, u, r>>] = n + 1, IsFiniteSet(RowsOf(f, k, r)),
         \A v \in Customers \ {u} : g[<<k, v, r>>] = f[<<k, v, r>>]
  PROVE  IsFiniteSet(RowsOf(g, k, r)) /\ Cardinality(RowsOf(g, k, r)) = Cardinality(RowsOf(f, k, r)) + 1
<1>1. <<u, n + 1>> \notin RowsOf(f, k, r)
  <2>1. ASSUME IsRowOf(f, k, r, <<u, n + 1>>) PROVE FALSE
    <3>1. PICK v \in Customers, m \in Int : m <= f[<<k, v, r>>] /\ <<u, n + 1>> = <<v, m>>
      BY <2>1 DEF IsRowOf
    <3>2. v = u /\ m = n + 1
      BY <3>1
    <3> QED
      BY <3>1, <3>2
  <2> QED
    BY <2>1, RowsOfMembers
<1>2. ASSUME NEW x PROVE x \in RowsOf(g, k, r) <=> x \in RowsOf(f, k, r) \cup {<<u, n + 1>>}
  <2>1. ASSUME IsRowOf(g, k, r, x) PROVE IsRowOf(f, k, r, x) \/ x = <<u, n + 1>>
    <3>1. PICK v \in Customers, m \in Int : 1 <= m /\ m <= g[<<k, v, r>>] /\ x = <<v, m>>
      BY <2>1 DEF IsRowOf
    <3>2. CASE v = u
      <4>1. m <= n \/ m = n + 1
        BY <3>1, <3>2
      <4> QED
        BY <3>1, <3>2, <4>1 DEF IsRowOf
    <3>3. CASE v # u
      BY <3>1, <3>3 DEF IsRowOf
    <3> QED
      BY <3>2, <3>3
  <2>2. ASSUME IsRowOf(f, k, r, x) PROVE IsRowOf(g, k, r, x)
    <3>1. PICK v \in Customers, m \in Int : 1 <= m /\ m <= f[<<k, v, r>>] /\ x = <<v, m>>
      BY <2>2 DEF IsRowOf
    <3>2. m <= g[<<k, v, r>>]
      BY <3>1
    <3> QED
      BY <3>1, <3>2 DEF IsRowOf
  <2>3. IsRowOf(g, k, r, <<u, n + 1>>)
    BY DEF IsRowOf
  <2> QED
    BY <2>1, <2>2, <2>3, RowsOfMembers
<1>3. RowsOf(g, k, r) = RowsOf(f, k, r) \cup {<<u, n + 1>>}
  BY <1>2
<1> DEFINE old == RowsOf(f, k, r)
           new == <<u, n + 1>>
<1>4. IsFiniteSet(old \cup {new})
        /\ Cardinality(old \cup {new}) = IF new \in old THEN Cardinality(old) ELSE Cardinality(old) + 1
  <2> HIDE DEF new
  <2> QED
    BY FS_AddElement, Zenon
<1> QED
  BY <1>1, <1>3, <1>4, Zenon

\* The rows of a customer that go: one that is deleted, or all of them.
LEMMA RowsThatGo ==
  ASSUME NEW f, NEW g, NEW k, NEW r, NEW u \in Customers, NEW n \in Nat, f[<<k, u, r>>] = n,
         g[<<k, u, r>>] = 0, IsFiniteSet(RowsOf(f, k, r)),
         \A v \in Customers \ {u} : g[<<k, v, r>>] = f[<<k, v, r>>]
  PROVE  /\ IsFiniteSet(RowsOf(g, k, r))
         /\ Cardinality(RowsOf(g, k, r)) = Cardinality(RowsOf(f, k, r)) - n
<1> DEFINE gone == {u} \X (1..n)
<1>1. gone \subseteq RowsOf(f, k, r)
  <2> SUFFICES ASSUME NEW m \in 1..n PROVE <<u, m>> \in RowsOf(f, k, r)
    OBVIOUS
  <2>1. IsRowOf(f, k, r, <<u, m>>)
    BY DEF IsRowOf
  <2> QED
    BY <2>1, RowsOfMembers
<1>2. ASSUME NEW x PROVE x \in RowsOf(g, k, r) <=> x \in RowsOf(f, k, r) \ gone
  <2>1. ASSUME IsRowOf(g, k, r, x) PROVE IsRowOf(f, k, r, x) /\ x \notin gone
    <3>1. PICK v \in Customers, m \in Int : 1 <= m /\ m <= g[<<k, v, r>>] /\ x = <<v, m>>
      BY <2>1 DEF IsRowOf
    <3>2. v # u
      BY <3>1
    <3> QED
      BY <3>1, <3>2 DEF IsRowOf
  <2>2. ASSUME IsRowOf(f, k, r, x), x \notin gone PROVE IsRowOf(g, k, r, x)
    <3>1. PICK v \in Customers, m \in Int : 1 <= m /\ m <= f[<<k, v, r>>] /\ x = <<v, m>>
      BY <2>2 DEF IsRowOf
    <3>2. v # u
      BY <2>2, <3>1
    <3> QED
      BY <3>1, <3>2 DEF IsRowOf
  <2> HIDE DEF gone
  <2> QED
    BY <2>1, <2>2, RowsOfMembers
<1>3. IsFiniteSet(1..n) /\ Cardinality(1..n) = n
  <2>1. Cardinality(1..n) = IF 1 > n THEN 0 ELSE n - 1 + 1
    BY FS_Interval
  <2> QED
    BY <2>1, FS_Interval
<1>4. IsFiniteSet({u}) /\ Cardinality({u}) = 1
  BY FS_Singleton
<1>5. Cardinality(gone) = n
  <2>1. Cardinality(gone) = Cardinality({u}) * Cardinality(1..n)
    BY <1>3, <1>4, FS_Product
  <2> QED
    BY <1>3, <1>4, <2>1
<1> HIDE DEF gone
<1>6. RowsOf(f, k, r) \cap gone = gone
  BY <1>1
<1>7. RowsOf(g, k, r) = RowsOf(f, k, r) \ gone
  BY <1>2
<1> DEFINE old == RowsOf(f, k, r)
<1>8. IsFiniteSet(old \ gone) /\ Cardinality(old \ gone) = Cardinality(old) - Cardinality(old \cap gone)
  BY FS_Difference, Zenon
<1> QED
  BY <1>5, <1>6, <1>7, <1>8, Zenon

\* A counter that adds up bounds the views that are completed.
LEMMA CountedIsEnough == CounterInv => CountersAddUp
<1> SUFFICES ASSUME CounterInv, NEW r \in Reels
             PROVE  Cardinality({u \in Customers : <<u, r>> \in completed}) <= count[r]["view"]
  BY DEF CounterInv, Counted, CountersAddUp
<1> DEFINE done == {u \in Customers : <<u, r>> \in completed}
           one == {1}
<1>1. IsFiniteSet(done) /\ IsFiniteSet(one) /\ Cardinality(one) = 1
  BY ReelsAssumption, FS_Subset, FS_Singleton
<1>2. Cardinality(done \X one) = Cardinality(done) * Cardinality(one) /\ Cardinality(done) \in Nat
  BY <1>1, FS_Product, FS_CardinalityType
<1>3. done \X one \subseteq RowsOf(rows, "view", r)
  <2> SUFFICES ASSUME NEW u \in done PROVE <<u, 1>> \in RowsOf(rows, "view", r)
    OBVIOUS
  <2>1. rows[<<"view", u, r>>] = 1
    BY DEF CounterInv, UniqueRows
  <2>2. IsRowOf(rows, "view", r, <<u, 1>>)
    BY <2>1 DEF IsRowOf
  <2> QED
    BY <2>2, RowsOfMembers
<1>4. /\ "view" \in Counters /\ IsFiniteSet(RowsOf(rows, "view", r))
      /\ count[r]["view"] = forgotten[r]["view"] + Cardinality(RowsOf(rows, "view", r))
  BY DEF Counters, Unique, CounterInv, Counted
<1>5. forgotten[r]["view"] \in Nat
  BY <1>4 DEF CounterInv, RowsOK
<1> HIDE DEF done, one
<1>6. Cardinality(done \X one) <= Cardinality(RowsOf(rows, "view", r))
  BY <1>3, <1>4, FS_Subset
<1>7. Cardinality(RowsOf(rows, "view", r)) \in Nat
  BY <1>4, FS_CardinalityType
<1> QED
  BY <1>1, <1>2, <1>4, <1>5, <1>6, <1>7 DEF done

-----------------------------------------------------------------------------
(***************************************************************************)
(* The steps of a request.                                                 *)
(***************************************************************************)
SameElsewhere(c) == \A d \in Requests \ {c} : doing'[d] = doing[d]

LEMMA DoingNext ==
  ASSUME DoingOK, NEW c \in Requests, NEW j, doing' = [doing EXCEPT ![c] = j],
         j # Nothing => j \in Finding \/ IsWrite(j)
  PROVE  DoingOK' /\ doing'[c] = j /\ SameElsewhere(c)
<1>1. doing'[c] = j /\ SameElsewhere(c)
  BY DEF DoingOK, SameElsewhere
<1>2. doing' = [d \in Requests |-> doing'[d]]
  BY DEF DoingOK
<1> QED
  BY <1>1, <1>2 DEF DoingOK, SameElsewhere, IsWrite

\* A request that ends, or begins to write columns, changes no row.
NoRowIsHeld(c) == doing'[c] = Nothing \/ IsWrite(doing'[c])

LEMMA EndsNext ==
  ASSUME DoingOK, NEW c \in Requests, Ends(c)
  PROVE  DoingOK' /\ NoRowIsHeld(c) /\ SameElsewhere(c)
  BY DoingNext, Zenon DEF Ends, NoRowIsHeld

\* An update is part of a row of a reel, and so is what it changes.
LEMMA UpdatesArePart ==
  ASSUME NEW u \in Updates
  PROVE  \E row \in Columns : IsPart(u, row)
<1>1. PICK row \in Content : DOMAIN u \subseteq DOMAIN row /\ \A k \in DOMAIN u : u[k] = row[k]
  BY ReelsAssumption
<1> DEFINE whole == [status |-> "draft", published |-> FALSE, kind |-> row.kind,
                     media |-> row.media, cta |-> row.cta, product |-> row.product,
                     window |-> row.window]
<1>2. whole \in Columns
  BY DEF Content, Columns
<1>3. DOMAIN row = {"kind", "media", "cta", "product", "window"}
  BY DEF Content
<1>4. DOMAIN u \subseteq DOMAIN whole /\ \A k \in DOMAIN u : u[k] = whole[k]
  BY <1>1, <1>3
<1> QED
  BY <1>2, <1>4 DEF IsPart

\* So is a status.
LEMMA StatusesArePart ==
  ASSUME NEW st \in {"active", "paused", "archived"}, Columns # {}
  PROVE  /\ \E row \in Columns : IsPart([status |-> st], row)
         /\ \E row \in Columns : IsPart([status |-> st, published |-> TRUE], row)
<1>1. PICK row \in Columns : TRUE
  OBVIOUS
<1> DEFINE new == [row EXCEPT !.status = st, !.published = TRUE]
<1>2. new \in Columns /\ new.status = st /\ new.published = TRUE
  BY DEF Columns
<1>3. DOMAIN new = {"status", "published", "kind", "media", "cta", "product", "window"}
  BY DEF Columns
<1> HIDE DEF new
<1>4. IsPart([status |-> st], new)
  <2> DEFINE one == [status |-> st]
  <2>1. DOMAIN one = {"status"} /\ one["status"] = st
    OBVIOUS
  <2> HIDE DEF one
  <2>2. IsPart(one, new)
    BY <1>2, <1>3, <2>1 DEF IsPart
  <2> QED
    BY <2>2 DEF one
<1>5. IsPart([status |-> st, published |-> TRUE], new)
  <2> DEFINE two == [status |-> st, published |-> TRUE]
  <2>1. DOMAIN two = {"status", "published"} /\ two["status"] = st /\ two["published"] = TRUE
    OBVIOUS
  <2> HIDE DEF two
  <2>2. IsPart(two, new)
    BY <1>2, <1>3, <2>1 DEF IsPart
  <2> QED
    BY <2>2 DEF two
<1> QED
  BY <1>2, <1>4, <1>5

LEMMA ReadsNext ==
  ASSUME DoingOK, NEW c \in Requests, NEW r \in Reels, NEW op \in Shopkeeping, NEW new,
         \E row \in Columns : IsPart(new, row), Reads(c, r, op, new)
  PROVE  /\ DoingOK' /\ NoRowIsHeld(c) /\ SameElsewhere(c) /\ UNCHANGED <<publishing, engagement>>
         /\ doing'[c] = [op |-> op, reel |-> r, new |-> Changes(reel[r], new)]
<1> DEFINE j == [op |-> op, reel |-> r, new |-> Changes(reel[r], new)]
<1>1. PICK row \in Columns : IsPart(new, row)
  OBVIOUS
<1>2. IsPart(Changes(reel[r], new), row)
  BY <1>1 DEF IsPart, Changes
<1>3. IsWrite(j)
  BY <1>2 DEF IsWrite
<1>4. doing' = [doing EXCEPT ![c] = j]
  BY DEF Reads
<1> HIDE DEF j
<1>5. DoingOK' /\ doing'[c] = j /\ SameElsewhere(c)
  BY <1>3, <1>4, DoingNext
<1>6. NoRowIsHeld(c)
  BY <1>3, <1>5 DEF NoRowIsHeld
<1>7. UNCHANGED <<publishing, engagement>>
  BY DEF Reads
<1> QED
  BY <1>5, <1>6, <1>7, Zenon DEF j

-----------------------------------------------------------------------------
(***************************************************************************)
(* A step keeps the counters if it keeps LockedRows, UniqueRows and        *)
(* Counted; each kind of step does.                                        *)
(***************************************************************************)
Tallies == LockedRows /\ UniqueRows /\ Counted

LEMMA UniqueAreCounters == Unique \subseteq Counters /\ "view" \in Unique /\ {"like", "save"} \subseteq Unique
  BY DEF Unique, Counters

\* The rows are as before, and so is what each request has to do with them, or
\* it has nothing to do with them any more.
LEMMA NothingCounted ==
  ASSUME CounterInv, UNCHANGED <<customers, rows, count, forgotten>>,
         completed' \subseteq Customers \X Reels,
         \A v \in completed' : v \in completed \/ rows[<<"view", v[1], v[2]>>] = 1,
         \A c \in Requests : doing'[c] = doing[c] \/ NoRowIsHeld(c)
  PROVE  RowsOK' /\ Tallies'
<1>1. RowsOK'
  BY DEF CounterInv, RowsOK
<1>2. \A c \in Requests, op \in {"find", "change"} :
        Does(c, op)' => Does(c, op) /\ doing'[c] = doing[c]
  BY DEF Does, NoRowIsHeld, IsWrite, Shopkeeping
<1>3. LockedRows'
  <2>1. \A c \in Requests : Does(c, "find")' \/ Does(c, "change")' =>
          (~ doing'[c].on => doing'[c].row[1] \in {"like", "save"})
    BY <1>2 DEF CounterInv, LockedRows
  <2>2. \A c \in Requests : Does(c, "change")' =>
          /\ doing'[c].row[2] \in customers'
          /\ doing'[c].row[1] \in Unique => rows'[doing'[c].row] = IF doing'[c].on THEN 0 ELSE 1
    BY <1>2 DEF CounterInv, LockedRows
  <2>3. \A c, d \in Requests :
          (/\ Does(c, "change")' /\ Does(d, "change")'
           /\ doing'[c].row = doing'[d].row /\ doing'[c].row[1] \in Unique) => c = d
    BY <1>2 DEF CounterInv, LockedRows
  <2> QED
    BY <2>1, <2>2, <2>3 DEF LockedRows
<1>4. UniqueRows'
  <2>1. \A v \in completed' : rows[<<"view", v[1], v[2]>>] = 1
    BY DEF CounterInv, UniqueRows
  <2> QED
    BY <2>1 DEF CounterInv, UniqueRows
<1>5. Counted'
  BY DEF CounterInv, Counted
<1> QED
  BY <1>1, <1>3, <1>4, <1>5 DEF Tallies

\* A request finds a reel.
LEMMA FindsCounted ==
  ASSUME CounterInv, NEW c \in Requests, NEW k \in Counters, NEW u \in Customers, NEW r \in Reels,
         NEW on \in BOOLEAN, on \/ k \in {"like", "save"}, Finds(c, k, u, r, on)
  PROVE  DoingOK' /\ RowsOK' /\ Tallies'
<1> DEFINE j == [op |-> "find", row |-> <<k, u, r>>, on |-> on]
<1>1. j \in Finding /\ j.op = "find" /\ j.row[1] = k /\ j.on = on
  BY DEF Finding, Interactions
<1>2. doing' = [doing EXCEPT ![c] = j] /\ UNCHANGED engagement
  BY DEF Finds
<1> HIDE DEF j
<1>3. DoingOK' /\ doing'[c] = j /\ SameElsewhere(c)
  BY <1>1, <1>2, DoingNext DEF CounterInv
<1>4. UNCHANGED <<customers, rows, completed, count, forgotten>>
  BY <1>2 DEF engagement
<1>5. RowsOK' /\ UniqueRows' /\ Counted'
  BY <1>4 DEF CounterInv, RowsOK, UniqueRows, Counted
<1>6. \A d \in Requests : Does(d, "change")' => d # c /\ Does(d, "change") /\ doing'[d] = doing[d]
  BY <1>1, <1>3 DEF Does, SameElsewhere
<1>7. LockedRows'
  <2>1. \A d \in Requests : Does(d, "find")' \/ Does(d, "change")' =>
          (~ doing'[d].on => doing'[d].row[1] \in {"like", "save"})
    <3> SUFFICES ASSUME NEW d \in Requests, Does(d, "find")' \/ Does(d, "change")', ~ doing'[d].on
                 PROVE  doing'[d].row[1] \in {"like", "save"}
      OBVIOUS
    <3>1. CASE d = c
      BY <1>1, <1>3, <3>1
    <3>2. CASE d # c
      BY <1>3, <3>2 DEF CounterInv, LockedRows, Does, SameElsewhere
    <3> QED
      BY <3>1, <3>2
  <2>2. \A d \in Requests : Does(d, "change")' =>
          /\ doing'[d].row[2] \in customers'
          /\ doing'[d].row[1] \in Unique => rows'[doing'[d].row] = IF doing'[d].on THEN 0 ELSE 1
    BY <1>4, <1>6 DEF CounterInv, LockedRows
  <2>3. \A d, e \in Requests :
          (/\ Does(d, "change")' /\ Does(e, "change")'
           /\ doing'[d].row = doing'[e].row /\ doing'[d].row[1] \in Unique) => d = e
    BY <1>6 DEF CounterInv, LockedRows
  <2> QED
    BY <2>1, <2>2, <2>3 DEF LockedRows
<1> QED
  BY <1>3, <1>5, <1>7 DEF Tallies

\* It inserts or deletes the row, which nobody else does.
LEMMA ChangeCounted ==
  ASSUME CounterInv, NEW c \in Requests, Change(c)
  PROVE  DoingOK' /\ RowsOK' /\ Tallies'
<1> DEFINE i == doing[c].row
           j == [doing[c] EXCEPT !.op = "change"]
<1>1. /\ Does(c, "find") /\ IsUnlocked(i) /\ i[2] \in customers
      /\ TakesEffect(i, doing[c].on)
      /\ doing' = [doing EXCEPT ![c].op = "change"] /\ UNCHANGED engagement
  BY DEF Change
<1>2. doing[c] \in Finding
  BY <1>1, KindsOfWork DEF CounterInv
<1>3. j \in Finding /\ j.op = "change" /\ j.row = i /\ j.on = doing[c].on /\ i \in Interactions
  BY <1>2 DEF Finding
<1>4. doing' = [doing EXCEPT ![c] = j]
  BY <1>1
<1>5. i[1] \in Unique => rows[i] = IF doing[c].on THEN 0 ELSE 1
  BY <1>1, <1>2 DEF TakesEffect, Finding
<1>6. ~ doing[c].on => i[1] \in {"like", "save"}
  BY <1>1 DEF CounterInv, LockedRows
<1> HIDE DEF j
<1>7. DoingOK' /\ doing'[c] = j /\ SameElsewhere(c)
  BY <1>3, <1>4, DoingNext DEF CounterInv
<1>8. UNCHANGED <<customers, rows, completed, count, forgotten>>
  BY <1>1 DEF engagement
<1>9. RowsOK' /\ UniqueRows' /\ Counted'
  BY <1>8 DEF CounterInv, RowsOK, UniqueRows, Counted
<1>10. \A d \in Requests \ {c}, op \in {"find", "change"} :
         Does(d, op)' => Does(d, op) /\ doing'[d] = doing[d]
  BY <1>7 DEF Does, SameElsewhere
<1>11. i[1] \in Unique => \A d \in Requests : Does(d, "change") => doing[d].row # i
  BY <1>1 DEF IsUnlocked, Holds
<1> HIDE DEF i
<1>12. LockedRows'
  <2>1. \A d \in Requests : Does(d, "find")' \/ Does(d, "change")' =>
          (~ doing'[d].on => doing'[d].row[1] \in {"like", "save"})
    <3> SUFFICES ASSUME NEW d \in Requests, Does(d, "find")' \/ Does(d, "change")', ~ doing'[d].on
                 PROVE  doing'[d].row[1] \in {"like", "save"}
      OBVIOUS
    <3>1. CASE d = c
      BY <1>3, <1>6, <1>7, <3>1
    <3>2. CASE d # c
      BY <1>10, <3>2 DEF CounterInv, LockedRows
    <3> QED
      BY <3>1, <3>2
  <2>2. ASSUME NEW d \in Requests, Does(d, "change")'
        PROVE  /\ doing'[d].row[2] \in customers'
               /\ doing'[d].row[1] \in Unique => rows'[doing'[d].row] = IF doing'[d].on THEN 0 ELSE 1
    <3>1. CASE d = c
      <4>1. i[2] \in customers
        BY <1>1 DEF i
      <4> QED
        BY <1>3, <1>5, <1>7, <1>8, <3>1, <4>1
    <3>2. CASE d # c
      BY <1>8, <1>10, <2>2, <3>2 DEF CounterInv, LockedRows
    <3> QED
      BY <3>1, <3>2
  <2>3. ASSUME NEW d \in Requests, NEW e \in Requests, Does(d, "change")', Does(e, "change")',
               doing'[d].row = doing'[e].row, doing'[d].row[1] \in Unique, d # e
        PROVE  FALSE
    <3>1. CASE d = c
      BY <1>3, <1>7, <1>10, <1>11, <2>3, <3>1
    <3>2. CASE e = c
      BY <1>3, <1>7, <1>10, <1>11, <2>3, <3>2
    <3>3. CASE d # c /\ e # c
      BY <1>10, <2>3, <3>3 DEF CounterInv, LockedRows
    <3> QED
      BY <3>1, <3>2, <3>3
  <2> QED
    BY <2>1, <2>2, <2>3 DEF LockedRows
<1> QED
  BY <1>7, <1>9, <1>12 DEF Tallies

\* The rows of a request that commits, under the lock of its row.
LEMMA CommitLocked ==
  ASSUME CounterInv, NEW c \in Requests, Does(c, "change"), Ends(c), NEW n \in Nat,
         rows' = [rows EXCEPT ![doing[c].row] = n], UNCHANGED customers
  PROVE  LockedRows'
<1> DEFINE i == doing[c].row
<1>1. DoingOK' /\ NoRowIsHeld(c) /\ SameElsewhere(c)
  BY EndsNext DEF CounterInv
<1>2. \A d \in Requests, op \in {"find", "change"} :
        Does(d, op)' => d # c /\ Does(d, op) /\ doing'[d] = doing[d]
  BY <1>1 DEF Does, SameElsewhere, NoRowIsHeld, IsWrite, Shopkeeping
<1>3. \A d \in Requests : Does(d, "change") => doing[d].row \in Interactions
  BY KindsOfWork DEF CounterInv, Finding
<1>4. \A x \in Interactions : x # i => rows'[x] = rows[x]
  BY DEF CounterInv, RowsOK
<1>5. \A d \in Requests : Does(d, "find")' \/ Does(d, "change")' =>
        (~ doing'[d].on => doing'[d].row[1] \in {"like", "save"})
  BY <1>2 DEF CounterInv, LockedRows
<1>6. ASSUME NEW d \in Requests, Does(d, "change")'
      PROVE  /\ doing'[d].row[2] \in customers'
             /\ doing'[d].row[1] \in Unique => rows'[doing'[d].row] = IF doing'[d].on THEN 0 ELSE 1
  <2>1. d # c /\ Does(d, "change") /\ doing'[d] = doing[d]
    BY <1>2, <1>6
  <2>2. doing[d].row[1] \in Unique => doing[d].row # i
    BY <2>1 DEF CounterInv, LockedRows
  <2> QED
    BY <1>3, <1>4, <2>1, <2>2 DEF CounterInv, LockedRows
<1>7. \A d, e \in Requests :
        (/\ Does(d, "change")' /\ Does(e, "change")'
         /\ doing'[d].row = doing'[e].row /\ doing'[d].row[1] \in Unique) => d = e
  BY <1>2 DEF CounterInv, LockedRows
<1> QED
  BY <1>5, <1>6, <1>7 DEF LockedRows

LEMMA CommitCounted ==
  ASSUME CounterInv, NEW c \in Requests, CommitChange(c)
  PROVE  DoingOK' /\ RowsOK' /\ Tallies'
<1> DEFINE i == doing[c].row
<1>1. Does(c, "change") /\ Ends(c) /\ UNCHANGED <<customers, forgotten>>
  BY DEF CommitChange
<1>2. doing[c] \in Finding /\ i \in Interactions /\ doing[c].on \in BOOLEAN
  BY <1>1, KindsOfWork DEF CounterInv, Finding
<1>3. PICK k \in Counters, u \in Customers, r \in Reels : i = <<k, u, r>>
  BY <1>2 DEF Interactions
<1>4. rows[i] \in Nat /\ count[r][k] \in Nat /\ forgotten[r][k] \in Nat
  BY <1>2 DEF CounterInv, RowsOK
<1>5. k \in Unique => rows[i] = IF doing[c].on THEN 0 ELSE 1
  BY <1>1, <1>3 DEF CounterInv, LockedRows
<1>6. ~ doing[c].on => k \in Unique
  BY <1>1, <1>3, UniqueAreCounters DEF CounterInv, LockedRows
<1>7. DoingOK'
  BY <1>1, EndsNext DEF CounterInv
<1>8. IsFiniteSet(RowsOf(rows, k, r)) /\ count[r][k] = forgotten[r][k] + Cardinality(RowsOf(rows, k, r))
  BY DEF CounterInv, Counted
<1>9. Cardinality(RowsOf(rows, k, r)) \in Nat
  BY <1>8, FS_CardinalityType
<1>10. CASE doing[c].on
  <2>1. /\ rows' = [rows EXCEPT ![i] = @ + 1]
        /\ count' = [count EXCEPT ![r][k] = @ + 1]
        /\ completed' = completed \/ (k = "view" /\ completed' = completed \cup {<<u, r>>})
    BY <1>3, <1>10 DEF CommitChange
  <2>2. /\ rows'[i] = rows[i] + 1 /\ \A x \in Interactions : x # i => rows'[x] = rows[x]
        /\ rows' \in [Interactions -> Nat]
    BY <1>2, <1>4, <2>1 DEF CounterInv, RowsOK
  <2>3. RowsOK'
    <3>1. count' \in [Reels -> [Counters -> Nat]]
      BY <1>4, <2>1 DEF CounterInv, RowsOK
    <3>2. completed' \subseteq Customers \X Reels
      BY <2>1 DEF CounterInv, RowsOK
    <3> QED
      BY <1>1, <2>2, <3>1, <3>2 DEF CounterInv, RowsOK
  <2>4. LockedRows'
    <3>1. rows' = [rows EXCEPT ![doing[c].row] = rows[i] + 1] /\ rows[i] + 1 \in Nat
      BY <1>4, <2>1
    <3> QED
      BY <1>1, <3>1, CommitLocked
  <2>5. UniqueRows'
    <3>1. \A x \in Interactions : x[1] \in Unique => rows'[x] <= 1
      BY <1>3, <1>5, <1>10, <2>2 DEF CounterInv, UniqueRows
    <3>2. ASSUME NEW v \in completed' PROVE rows'[<<"view", v[1], v[2]>>] = 1
      <4>1. v[1] \in Customers /\ v[2] \in Reels /\ <<"view", v[1], v[2]>> \in Interactions
        BY <2>3, UniqueAreCounters DEF RowsOK, Interactions
      <4>2. CASE <<"view", v[1], v[2]>> = i
        <5>1. k = "view"
          BY <1>3, <4>2
        <5> QED
          BY <1>5, <1>10, <2>2, <4>2, <5>1, UniqueAreCounters
      <4>3. CASE <<"view", v[1], v[2]>> # i
        <5>1. v \in completed
          BY <1>3, <2>1, <4>3
        <5> QED
          BY <2>2, <4>1, <4>3, <5>1 DEF CounterInv, UniqueRows
      <4> QED
        BY <4>2, <4>3
    <3> QED
      BY <3>1, <3>2 DEF UniqueRows
  <2>6. ASSUME NEW l \in Counters, NEW q \in Reels
        PROVE  /\ IsFiniteSet(RowsOf(rows', l, q))
               /\ count'[q][l] = forgotten'[q][l] + Cardinality(RowsOf(rows', l, q))
    <3>1. CASE l = k /\ q = r
      <4>1. \A v \in Customers \ {u} : rows'[<<k, v, r>>] = rows[<<k, v, r>>]
        BY <1>3, <2>2, InteractionTypes
      <4>2. /\ IsFiniteSet(RowsOf(rows', k, r))
            /\ Cardinality(RowsOf(rows', k, r)) = Cardinality(RowsOf(rows, k, r)) + 1
        BY <1>3, <1>4, <1>8, <2>2, <4>1, OneMoreRow
      <4>3. count'[r][k] = count[r][k] + 1
        BY <2>1 DEF CounterInv, RowsOK
      <4> QED
        BY <1>1, <1>4, <1>8, <1>9, <3>1, <4>2, <4>3
    <3>2. CASE l # k \/ q # r
      <4>1. \A v \in Customers : rows'[<<l, v, q>>] = rows[<<l, v, q>>]
        BY <1>3, <2>2, <3>2, InteractionTypes
      <4>2. RowsOf(rows', l, q) = RowsOf(rows, l, q)
        BY <4>1, SameRows
      <4>3. count'[q][l] = count[q][l]
        BY <2>1, <3>2 DEF CounterInv, RowsOK
      <4> QED
        BY <1>1, <4>2, <4>3 DEF CounterInv, Counted
    <3> QED
      BY <3>1, <3>2
  <2>7. Counted'
    BY <2>6 DEF Counted
  <2> QED
    BY <1>7, <2>3, <2>4, <2>5, <2>7 DEF Tallies
<1>11. CASE ~ doing[c].on
  <2>1. /\ rows' = [rows EXCEPT ![i] = 0]
        /\ count' = [count EXCEPT ![r][k] = GreatestOfZero(@ - 1)]
        /\ completed' = completed
    BY <1>3, <1>11 DEF CommitChange
  <2>2. /\ rows'[i] = 0 /\ \A x \in Interactions : x # i => rows'[x] = rows[x]
        /\ rows' \in [Interactions -> Nat]
    BY <1>2, <2>1 DEF CounterInv, RowsOK
  <2>3. rows[i] = 1 /\ k \in {"like", "save"}
    BY <1>1, <1>3, <1>5, <1>6, <1>11 DEF CounterInv, LockedRows
  <2>4. \A v \in Customers \ {u} : rows'[<<k, v, r>>] = rows[<<k, v, r>>]
    BY <1>3, <2>2, InteractionTypes
  <2>5. /\ IsFiniteSet(RowsOf(rows', k, r))
        /\ Cardinality(RowsOf(rows', k, r)) = Cardinality(RowsOf(rows, k, r)) - 1
    <3>1. rows[<<k, u, r>>] = 1 /\ rows'[<<k, u, r>>] = 0 /\ 1 \in Nat
      BY <1>3, <2>2, <2>3
    <3> QED
      BY <1>8, <2>4, <3>1, RowsThatGo
  <2>6. Cardinality(RowsOf(rows', k, r)) \in Nat
    BY <2>5, FS_CardinalityType
  <2>7. count[r][k] - 1 \in Nat
    BY <1>4, <1>8, <1>9, <2>5, <2>6
  <2>8. count' = [count EXCEPT ![r][k] = count[r][k] - 1]
    <3>1. GreatestOfZero(count[r][k] - 1) = count[r][k] - 1
      BY <2>7 DEF GreatestOfZero
    <3> QED
      BY <2>1, <3>1
  <2>9. RowsOK'
    <3>1. count' \in [Reels -> [Counters -> Nat]]
      BY <2>7, <2>8 DEF CounterInv, RowsOK
    <3> QED
      BY <1>1, <2>1, <2>2, <3>1 DEF CounterInv, RowsOK
  <2>10. LockedRows'
    BY <1>1, <2>1, CommitLocked
  <2>11. UniqueRows'
    <3>1. \A x \in Interactions : x[1] \in Unique => rows'[x] <= 1
      BY <2>2 DEF CounterInv, UniqueRows
    <3>2. ASSUME NEW v \in completed' PROVE rows'[<<"view", v[1], v[2]>>] = 1
      <4>1. v \in completed /\ v[1] \in Customers /\ v[2] \in Reels
        BY <2>1 DEF CounterInv, RowsOK
      <4>2. <<"view", v[1], v[2]>> \in Interactions /\ <<"view", v[1], v[2]>> # i
        <5>1. k # "view"
          BY <2>3
        <5> QED
          BY <1>3, <4>1, <5>1, InteractionTypes, UniqueAreCounters
      <4> QED
        BY <2>2, <4>1, <4>2 DEF CounterInv, UniqueRows
    <3> QED
      BY <3>1, <3>2 DEF UniqueRows
  <2>12. ASSUME NEW l \in Counters, NEW q \in Reels
        PROVE  /\ IsFiniteSet(RowsOf(rows', l, q))
               /\ count'[q][l] = forgotten'[q][l] + Cardinality(RowsOf(rows', l, q))
    <3>1. CASE l = k /\ q = r
      <4>1. count'[r][k] = count[r][k] - 1
        BY <2>8 DEF CounterInv, RowsOK
      <4> QED
        BY <1>1, <1>4, <1>8, <1>9, <2>5, <3>1, <4>1
    <3>2. CASE l # k \/ q # r
      <4>1. \A v \in Customers : rows'[<<l, v, q>>] = rows[<<l, v, q>>]
        BY <1>3, <2>2, <3>2, InteractionTypes
      <4>2. RowsOf(rows', l, q) = RowsOf(rows, l, q)
        BY <4>1, SameRows
      <4>3. count'[q][l] = count[q][l]
        BY <2>8, <3>2 DEF CounterInv, RowsOK
      <4> QED
        BY <1>1, <4>2, <4>3 DEF CounterInv, Counted
    <3> QED
      BY <3>1, <3>2
  <2>13. Counted'
    BY <2>12 DEF Counted
  <2> QED
    BY <1>7, <2>9, <2>10, <2>11, <2>13 DEF Tallies
<1> QED
  BY <1>2, <1>10, <1>11

\* Deleted customers take their rows with them.
LEMMA DeleteUserCounted ==
  ASSUME CounterInv, NEW u \in Customers, DeleteUser(u)
  PROVE  DoingOK' /\ RowsOK' /\ Tallies'
<1>1. /\ \A c \in Requests : ~ (Does(c, "change") /\ doing[c].row[2] = u)
      /\ customers' = customers \ {u} /\ UNCHANGED <<count, doing>>
      /\ rows' = [i \in Interactions |-> IF i[2] = u THEN 0 ELSE rows[i]]
      /\ completed' = {v \in completed : v[1] # u}
      /\ forgotten' = [r \in Reels |-> [k \in Counters |-> forgotten[r][k] + rows[<<k, u, r>>]]]
  BY DEF DeleteUser
<1>2. DoingOK'
  BY <1>1 DEF CounterInv, DoingOK
<1>3. \A k \in Counters, r \in Reels : rows[<<k, u, r>>] \in Nat /\ forgotten[r][k] \in Nat
  BY InteractionTypes DEF CounterInv, RowsOK
<1>4. RowsOK'
  <2>1. forgotten' \in [Reels -> [Counters -> Nat]]
    BY <1>1, <1>3
  <2>2. rows' \in [Interactions -> Nat]
    BY <1>1 DEF CounterInv, RowsOK
  <2> QED
    BY <1>1, <2>1, <2>2 DEF CounterInv, RowsOK
<1>5. LockedRows'
  <2>1. \A c \in Requests : Does(c, "change") =>
          /\ doing[c].row[2] \in customers' /\ doing[c].row[2] # u
          /\ doing[c].row \in Interactions
    BY <1>1, KindsOfWork DEF CounterInv, LockedRows, Finding
  <2>2. \A c \in Requests : Does(c, "change") => rows'[doing[c].row] = rows[doing[c].row]
    BY <1>1, <2>1
  <2>3. \A c \in Requests, op \in {"find", "change"} : Does(c, op)' <=> Does(c, op)
    BY <1>1 DEF Does
  <2> QED
    BY <1>1, <2>1, <2>2, <2>3 DEF CounterInv, LockedRows
<1>6. UniqueRows'
  <2>1. \A v \in completed' : /\ v \in completed /\ v[1] # u
                              /\ <<"view", v[1], v[2]>> \in Interactions
    BY <1>1, InteractionTypes, UniqueAreCounters DEF CounterInv, RowsOK
  <2>2. \A v \in completed' : rows'[<<"view", v[1], v[2]>>] = rows[<<"view", v[1], v[2]>>]
    BY <1>1, <2>1
  <2>3. \A i \in Interactions : i[1] \in Unique => rows'[i] <= 1
    BY <1>1 DEF CounterInv, UniqueRows
  <2> QED
    BY <2>1, <2>2, <2>3 DEF CounterInv, UniqueRows
<1>7. ASSUME NEW k \in Counters, NEW r \in Reels
      PROVE  /\ IsFiniteSet(RowsOf(rows', k, r))
             /\ count'[r][k] = forgotten'[r][k] + Cardinality(RowsOf(rows', k, r))
  <2> DEFINE n == rows[<<k, u, r>>]
  <2>1. n \in Nat /\ <<k, u, r>> \in Interactions
    BY <1>3, InteractionTypes
  <2>2. rows'[<<k, u, r>>] = 0
    BY <1>1, <2>1
  <2>3. \A v \in Customers \ {u} : rows'[<<k, v, r>>] = rows[<<k, v, r>>]
    BY <1>1, InteractionTypes
  <2>4. IsFiniteSet(RowsOf(rows, k, r)) /\ count[r][k] = forgotten[r][k] + Cardinality(RowsOf(rows, k, r))
    BY DEF CounterInv, Counted
  <2>5. /\ IsFiniteSet(RowsOf(rows', k, r))
        /\ Cardinality(RowsOf(rows', k, r)) = Cardinality(RowsOf(rows, k, r)) - n
    BY <2>1, <2>2, <2>3, <2>4, RowsThatGo
  <2>6. Cardinality(RowsOf(rows, k, r)) \in Nat
    BY <2>4, FS_CardinalityType
  <2>7. forgotten'[r][k] = forgotten[r][k] + n /\ count'[r][k] = count[r][k]
    BY <1>1
  <2> HIDE DEF n
  <2> QED
    BY <1>3, <2>1, <2>4, <2>5, <2>6, <2>7
<1>8. Counted'
  BY <1>7 DEF Counted
<1> QED
  BY <1>2, <1>4, <1>5, <1>6, <1>8 DEF Tallies

\* There are no rows at first, and none when the shop has gone.
LEMMA NoRows ==
  ASSUME NEW f, \A i \in Interactions : f[i] = 0, NEW k \in Counters, NEW r \in Reels
  PROVE  IsFiniteSet(RowsOf(f, k, r)) /\ Cardinality(RowsOf(f, k, r)) = 0
<1>1. RowsOf(f, k, r) = {}
  <2>1. ASSUME NEW x, IsRowOf(f, k, r, x) PROVE FALSE
    <3>1. PICK u \in Customers, n \in Int : 1 <= n /\ n <= f[<<k, u, r>>]
      BY <2>1 DEF IsRowOf
    <3>2. f[<<k, u, r>>] = 0
      BY InteractionTypes
    <3> QED
      BY <3>1, <3>2
  <2> QED
    BY <2>1, RowsOfMembers
<1> QED
  BY <1>1, FS_EmptySet

LEMMA DeleteShopCounted ==
  ASSUME CounterInv, DeleteShop
  PROVE  DoingOK' /\ RowsOK' /\ Tallies'
<1>1. /\ \A c \in Requests : ~ Does(c, "change")
      /\ UNCHANGED <<customers, doing>>
      /\ rows' = [i \in Interactions |-> 0] /\ completed' = {}
      /\ count' = NoCounts /\ forgotten' = NoCounts
  BY DEF DeleteShop
<1>2. DoingOK'
  BY <1>1 DEF CounterInv, DoingOK
<1>3. RowsOK'
  BY <1>1 DEF CounterInv, RowsOK, NoCounts
<1>4. LockedRows'
  BY <1>1 DEF CounterInv, LockedRows, Does
<1>5. UniqueRows'
  BY <1>1 DEF UniqueRows
<1>6. Counted'
  <2>1. \A k \in Counters, r \in Reels :
          /\ IsFiniteSet(RowsOf(rows', k, r)) /\ Cardinality(RowsOf(rows', k, r)) = 0
          /\ count'[r][k] = 0 /\ forgotten'[r][k] = 0
    BY <1>1, NoRows DEF NoCounts
  <2> QED
    BY <2>1 DEF Counted
<1> QED
  BY <1>2, <1>3, <1>4, <1>5, <1>6 DEF Tallies

LEMMA InitCounted == Init => CounterInv
<1> SUFFICES ASSUME Init PROVE CounterInv
  OBVIOUS
<1>1. DoingOK
  BY DEF Init, DoingOK
<1>2. RowsOK
  BY DEF Init, RowsOK, NoCounts
<1>3. LockedRows /\ UniqueRows
  BY DEF Init, LockedRows, UniqueRows, Does
<1>4. Counted
  <2>1. \A k \in Counters, r \in Reels :
          /\ IsFiniteSet(RowsOf(rows, k, r)) /\ Cardinality(RowsOf(rows, k, r)) = 0
          /\ count[r][k] = 0 /\ forgotten[r][k] = 0
    BY NoRows DEF NoCounts, Init
  <2> QED
    BY <2>1 DEF Counted
<1> QED
  BY <1>1, <1>2, <1>3, <1>4 DEF CounterInv

-----------------------------------------------------------------------------
(***************************************************************************)
(* Publication.  What is about to be written fits the reel as it is by     *)
(* then: an update touches other columns than a change of status, and only *)
(* another update can come between.                                        *)
(***************************************************************************)
Described == {"kind", "media", "cta", "product", "window"}

Fits(row) == KindOf[row.media] = row.kind /\ HasTarget(row)

Uploaded(a) == asset[a] \in {"ready", "deleted"}

Writes(c) == \E op \in Shopkeeping : Does(c, op)

UpdateFits(j) ==
  /\ DOMAIN j.new \subseteq Described
  /\ "media" \in DOMAIN j.new => Uploaded(j.new.media)
  /\ j.reel \notin crossed => Fits(Overlaid(reel[j.reel], j.new))

StatusFits(j) ==
  /\ DOMAIN j.new \subseteq {"status", "published"}
  /\ "published" \in DOMAIN j.new => j.new.published = TRUE
  /\ "status" \in DOMAIN j.new /\ j.new.status \in {"active", "paused"}
       => "published" \in DOMAIN j.new \/ reel[j.reel].published

WritesFit ==
  \A c \in Requests : Writes(c) =>
    /\ shop # "deleted" => Exists(doing[c].reel)
    /\ Exists(doing[c].reel) => IF Does(c, "update") THEN UpdateFits(doing[c])
                                                     ELSE StatusFits(doing[c])

NoneLeft == shop = "deleted" => \A r \in Reels : ~ Exists(r)

ReelInv == ReelsOK /\ ReelsAreWhole /\ WritesFit /\ NoneLeft

LEMMA ExistingRows ==
  ASSUME ReelsOK, NEW r \in Reels
  PROVE  Exists(r) <=> reel[r] \in Columns
  BY ReelsAssumption DEF ReelsOK, Exists

LEMMA WritesKnown ==
  ASSUME DoingOK, NEW c \in Requests, Writes(c)
  PROVE  /\ doing[c].op \in Shopkeeping /\ doing[c].reel \in Reels
         /\ \E row \in Columns : IsPart(doing[c].new, row)
  BY KindsOfWork DEF Writes, IsWrite

\* Customers' requests, and those that end, leave the reels alone.
LEMMA ReelsUntouched ==
  ASSUME DoingOK, ReelInv, UNCHANGED publishing,
         \A c \in Requests : doing'[c] \in {doing[c], Nothing} \/ doing'[c] \in Finding
  PROVE  ReelInv'
<1>1. \A c \in Requests : Writes(c)' => Writes(c) /\ doing'[c] = doing[c]
  BY DEF Writes, Does, Finding, Shopkeeping
<1>2. UNCHANGED <<shop, asset, product, reel, crossed>>
  BY DEF publishing
<1>3. ReelsOK' /\ ReelsAreWhole' /\ NoneLeft'
  BY <1>2 DEF ReelInv, ReelsOK, ReelsAreWhole, NoneLeft, Exists, HasTarget
<1>4. WritesFit'
  <2> SUFFICES ASSUME NEW c \in Requests, Writes(c)'
               PROVE  /\ shop' # "deleted" => Exists(doing[c].reel)'
                      /\ Exists(doing[c].reel)' => IF Does(c, "update")' THEN UpdateFits(doing[c])'
                                                                        ELSE StatusFits(doing[c])'
    BY DEF WritesFit
  <2>1. Writes(c) /\ doing'[c] = doing[c]
    BY <1>1
  <2> QED
    BY <1>2, <2>1 DEF ReelInv, WritesFit, Exists, Does, UpdateFits, StatusFits, Uploaded, Fits,
       HasTarget, Overlaid
<1> QED
  BY <1>3, <1>4 DEF ReelInv

\* An upload that was ready stays so, or is deleted.
LEMMA AssetsKeepReels ==
  ASSUME ReelInv, DoingOK, UNCHANGED <<shop, product, reel, crossed, doing>>,
         asset' \in [Assets -> {"absent", "pending", "ready", "deleted"}],
         \A a \in Assets : Uploaded(a) => Uploaded(a)'
  PROVE  ReelInv'
<1>1. ReelsOK' /\ NoneLeft'
  BY DEF ReelInv, ReelsOK, NoneLeft, Exists
<1>2. ReelsAreWhole'
  <2> SUFFICES ASSUME NEW r \in Reels, Exists(r)
               PROVE  /\ reel[r].status \in {"active", "paused"} => reel[r].published
                      /\ Uploaded(reel[r].media)'
                      /\ r \notin crossed => Fits(reel[r])
    BY DEF ReelsAreWhole, Exists, Uploaded, Fits, HasTarget
  <2>1. reel[r].media \in Assets
    BY ExistingRows DEF ReelInv, Columns
  <2> QED
    BY <2>1 DEF ReelInv, ReelsAreWhole, Uploaded, Fits
<1>3. WritesFit'
  <2> SUFFICES ASSUME NEW c \in Requests, Writes(c)
               PROVE  /\ shop' # "deleted" => Exists(doing[c].reel)'
                      /\ Exists(doing[c].reel)' => IF Does(c, "update")' THEN UpdateFits(doing[c])'
                                                                        ELSE StatusFits(doing[c])'
    BY DEF WritesFit, Writes, Does
  <2>1. shop # "deleted" => Exists(doing[c].reel)
    BY DEF ReelInv, WritesFit
  <2>2. Exists(doing[c].reel) /\ ~ Does(c, "update") => StatusFits(doing[c])'
    BY DEF ReelInv, WritesFit, StatusFits
  <2>3. ASSUME Exists(doing[c].reel), Does(c, "update") PROVE UpdateFits(doing[c])'
    <3>1. UpdateFits(doing[c])
      BY <2>3 DEF ReelInv, WritesFit
    <3>2. ASSUME "media" \in DOMAIN doing[c].new PROVE doing[c].new.media \in Assets
      <4>1. PICK row \in Columns : IsPart(doing[c].new, row)
        BY WritesKnown
      <4>2. doing[c].new["media"] = row["media"]
        BY <3>2, <4>1 DEF IsPart
      <4> QED
        BY <4>2 DEF Columns
    <3> QED
      BY <3>1, <3>2 DEF UpdateFits, Fits, HasTarget, Overlaid
  <2> QED
    BY <2>1, <2>2, <2>3 DEF Exists, Does
<1> QED
  BY <1>1, <1>2, <1>3 DEF ReelInv

\* Nothing of a reel that its content rests on changes.
LEMMA ContextKeepsReels ==
  ASSUME ReelInv, DoingOK, UNCHANGED <<asset, reel, crossed, doing>>,
         shop' \in {"active", "inactive", "deleted"}, (shop = "deleted") = (shop' = "deleted"),
         product' \in [Products -> {"listed", "archived", "deleted"}]
  PROVE  ReelInv'
<1>1. ReelsOK' /\ NoneLeft' /\ ReelsAreWhole'
  BY DEF ReelInv, ReelsOK, NoneLeft, ReelsAreWhole, Exists, HasTarget
<1>2. WritesFit'
  BY DEF ReelInv, WritesFit, Writes, Does, Exists, UpdateFits, StatusFits, Uploaded, Fits, HasTarget,
     Overlaid
<1> QED
  BY <1>1, <1>2 DEF ReelInv

\* A new reel: nobody has anything to write to it.
LEMMA CreateKeepsReels ==
  ASSUME ReelInv, DoingOK, NEW r \in Reels, CreateReel(r)
  PROVE  ReelInv'
<1>1. PICK new \in Drafts :
        /\ OwnedReadyAsset(new) /\ HasTarget(new)
        /\ reel' = [reel EXCEPT ![r] =
                      [status |-> "draft", published |-> FALSE, kind |-> new.kind,
                       media |-> new.media, cta |-> new.cta, product |-> new.product,
                       window |-> new.window]]
  BY DEF CreateReel
<1>2. shop # "deleted" /\ ~ Exists(r) /\ UNCHANGED <<shop, asset, product, crossed, doing>>
  BY DEF CreateReel
<1> DEFINE row == [status |-> "draft", published |-> FALSE, kind |-> new.kind,
                   media |-> new.media, cta |-> new.cta, product |-> new.product,
                   window |-> new.window]
<1>3. new \in Content
  BY ReelsAssumption
<1>4. row \in Columns
  BY <1>3 DEF Content, Columns
<1>5. /\ row.status = "draft" /\ row.kind = new.kind /\ row.media = new.media
      /\ row.cta = new.cta /\ row.product = new.product
  OBVIOUS
<1>6. Uploaded(row.media) /\ Fits(row)
  BY <1>1, <1>3, <1>5 DEF OwnedReadyAsset, Content, HasTarget, Uploaded, Fits
<1>7. reel' = [reel EXCEPT ![r] = row]
  BY <1>1
<1> HIDE DEF row
<1>8. reel'[r] = row /\ \A q \in Reels : q # r => reel'[q] = reel[q]
  BY <1>7 DEF ReelInv, ReelsOK
<1>9. ReelsOK'
  BY <1>2, <1>4, <1>7 DEF ReelInv, ReelsOK
<1>10. NoneLeft'
  BY <1>2 DEF NoneLeft
<1>11. ReelsAreWhole'
  <2> SUFFICES ASSUME NEW q \in Reels, Exists(q)'
               PROVE  /\ reel'[q].status \in {"active", "paused"} => reel'[q].published
                      /\ Uploaded(reel'[q].media)
                      /\ q \notin crossed => Fits(reel'[q])
    BY <1>2 DEF ReelsAreWhole, Uploaded, Fits, HasTarget
  <2>1. CASE q = r
    BY <1>5, <1>6, <1>8, <2>1
  <2>2. CASE q # r
    BY <1>8, <2>2 DEF ReelInv, ReelsAreWhole, Exists, Uploaded, Fits
  <2> QED
    BY <2>1, <2>2
<1>12. WritesFit'
  <2> SUFFICES ASSUME NEW c \in Requests, Writes(c)
               PROVE  /\ Exists(doing[c].reel)'
                      /\ IF Does(c, "update") THEN UpdateFits(doing[c])' ELSE StatusFits(doing[c])'
    BY <1>2 DEF WritesFit, Writes, Does
  <2>1. Exists(doing[c].reel) /\ doing[c].reel \in Reels
    BY <1>2, WritesKnown DEF ReelInv, WritesFit
  <2>2. reel'[doing[c].reel] = reel[doing[c].reel]
    BY <1>2, <1>8, <2>1
  <2>3. IF Does(c, "update") THEN UpdateFits(doing[c]) ELSE StatusFits(doing[c])
    BY <2>1 DEF ReelInv, WritesFit
  <2> QED
    BY <1>2, <2>1, <2>2, <2>3 DEF Exists, UpdateFits, StatusFits, Uploaded, Fits, HasTarget, Overlaid
<1> QED
  BY <1>9, <1>10, <1>11, <1>12 DEF ReelInv

LEMMA DeleteShopKeepsReels ==
  ASSUME ReelInv, DoingOK, DeleteShop
  PROVE  ReelInv'
<1>1. /\ shop' = "deleted" /\ product' = [p \in Products |-> "deleted"]
      /\ reel' = [r \in Reels |-> Nothing] /\ UNCHANGED <<asset, crossed, doing>>
  BY DEF DeleteShop
<1>2. \A r \in Reels : ~ Exists(r)'
  BY <1>1 DEF Exists
<1>3. ReelsOK' /\ ReelsAreWhole' /\ NoneLeft'
  BY <1>1, <1>2 DEF ReelInv, ReelsOK, ReelsAreWhole, NoneLeft
<1>4. WritesFit'
  <2>1. \A c \in Requests : Writes(c)' => doing'[c].reel \in Reels
    BY <1>1, WritesKnown DEF Writes, Does
  <2> QED
    BY <1>1, <1>2, <2>1 DEF WritesFit
<1> QED
  BY <1>3, <1>4 DEF ReelInv

\* What a row of columns must have for Fits.
LEMMA FitsDependsOn ==
  ASSUME NEW a, NEW b, a.kind = b.kind, a.media = b.media, a.cta = b.cta, a.product = b.product
  PROVE  Fits(a) = Fits(b)
  BY DEF Fits, HasTarget

\* Rows that change in columns of no importance, unless it is noted.
LEMMA ColumnsKeepReels ==
  ASSUME ReelInv, DoingOK, UNCHANGED <<shop, asset, doing>>,
         product' \in [Products -> {"listed", "archived", "deleted"}],
         reel' \in [Reels -> Columns \cup {Nothing}], crossed \subseteq crossed',
         crossed' \subseteq Reels,
         \A q \in Reels :
           /\ (Exists(q)' <=> Exists(q))
           /\ Exists(q) => /\ reel'[q].status = reel[q].status
                           /\ reel'[q].published = reel[q].published
                           /\ reel'[q].kind = reel[q].kind /\ reel'[q].media = reel[q].media
                           /\ q \notin crossed' => /\ reel'[q].cta = reel[q].cta
                                                   /\ reel'[q].product = reel[q].product
  PROVE  ReelInv'
<1>1. ReelsOK' /\ NoneLeft'
  BY DEF ReelInv, ReelsOK, NoneLeft
<1>2. ReelsAreWhole'
  <2> SUFFICES ASSUME NEW q \in Reels, Exists(q)
               PROVE  /\ reel'[q].status \in {"active", "paused"} => reel'[q].published
                      /\ Uploaded(reel'[q].media)
                      /\ q \notin crossed' => Fits(reel'[q])
    BY DEF ReelsAreWhole, Uploaded, Fits, HasTarget
  <2>1. q \notin crossed' => Fits(reel'[q]) = Fits(reel[q])
    BY FitsDependsOn
  <2>2. /\ reel[q].status \in {"active", "paused"} => reel[q].published
        /\ Uploaded(reel[q].media)
        /\ q \notin crossed => Fits(reel[q])
    BY DEF ReelInv, ReelsAreWhole, Uploaded, Fits
  <2> QED
    BY <2>1, <2>2
<1>3. WritesFit'
  <2> SUFFICES ASSUME NEW c \in Requests, Writes(c)
               PROVE  /\ shop # "deleted" => Exists(doing[c].reel)'
                      /\ Exists(doing[c].reel)' => IF Does(c, "update") THEN UpdateFits(doing[c])'
                                                                       ELSE StatusFits(doing[c])'
    BY DEF WritesFit, Writes, Does
  <2> DEFINE q == doing[c].reel
             new == doing[c].new
  <2>1. q \in Reels /\ \E row \in Columns : IsPart(new, row)
    BY WritesKnown
  <2>2. (Exists(q)' <=> Exists(q)) /\ (shop # "deleted" => Exists(q))
    BY <2>1 DEF ReelInv, WritesFit, Exists
  <2>3. ASSUME Exists(q), ~ Does(c, "update") PROVE StatusFits(doing[c])'
    <3>1. StatusFits(doing[c])
      BY <2>3 DEF ReelInv, WritesFit
    <3> QED
      BY <2>1, <2>3, <3>1 DEF StatusFits
  <2>4. ASSUME Exists(q), Does(c, "update") PROVE UpdateFits(doing[c])'
    <3>1. UpdateFits(doing[c])
      BY <2>4 DEF ReelInv, WritesFit
    <3>2. reel[q] \in Columns /\ reel'[q] \in Columns
      BY <2>1, <2>2, <2>4, ReelsAssumption DEF Exists, ReelInv, ReelsOK
    <3>3. \A k \in Described :
            /\ Overlaid(reel[q], new)[k] = IF k \in DOMAIN new THEN new[k] ELSE reel[q][k]
            /\ Overlaid(reel'[q], new)[k] = IF k \in DOMAIN new THEN new[k] ELSE reel'[q][k]
      BY <2>1, <3>2, OverlaidColumns DEF Described
    <3>4. ASSUME q \notin crossed' PROVE Fits(Overlaid(reel'[q], new))
      <4> DEFINE a == Overlaid(reel'[q], new)
                 b == Overlaid(reel[q], new)
      <4>1. \A k \in {"kind", "media", "cta", "product"} : reel'[q][k] = reel[q][k]
        BY <2>1, <2>4, <3>4
      <4>2. \A k \in {"kind", "media", "cta", "product"} : a[k] = b[k]
        BY <3>3, <4>1 DEF Described
      <4>3. Fits(b)
        BY <3>1, <3>4 DEF UpdateFits
      <4> HIDE DEF a, b
      <4>4. Fits(a) = Fits(b)
        BY <4>2, FitsDependsOn
      <4> QED
        BY <4>3, <4>4 DEF a
    <3>5. UpdateFits(doing[c])' = (/\ DOMAIN new \subseteq Described
                                   /\ "media" \in DOMAIN new => Uploaded(new.media)
                                   /\ q \notin crossed' => Fits(Overlaid(reel'[q], new)))
      BY DEF UpdateFits, Uploaded, Fits, HasTarget, Overlaid
    <3> QED
      BY <3>1, <3>4, <3>5 DEF UpdateFits
  <2> QED
    BY <2>2, <2>3, <2>4
<1> QED
  BY <1>1, <1>2, <1>3 DEF ReelInv

LEMMA TimeKeepsReels ==
  ASSUME ReelInv, DoingOK, NEW r \in Reels, TimePasses(r)
  PROVE  ReelInv'
<1> DEFINE row == [reel[r] EXCEPT !.window = IF @ = "ahead" THEN "open" ELSE "over"]
<1>1. reel[r] \in Columns
  BY ExistingRows DEF TimePasses, ReelInv
<1>2. /\ row \in Columns /\ row.status = reel[r].status /\ row.published = reel[r].published
      /\ row.kind = reel[r].kind /\ row.media = reel[r].media
      /\ row.cta = reel[r].cta /\ row.product = reel[r].product
  BY <1>1 DEF Columns
<1>3. reel' = [reel EXCEPT ![r] = row] /\ UNCHANGED <<shop, asset, product, crossed, doing>>
  BY DEF TimePasses
<1> HIDE DEF row
<1>4. reel'[r] = row /\ \A q \in Reels : q # r => reel'[q] = reel[q]
  BY <1>3 DEF ReelInv, ReelsOK
<1>5. reel' \in [Reels -> Columns \cup {Nothing}]
  BY <1>2, <1>3 DEF ReelInv, ReelsOK
<1>6. Exists(r) /\ Exists(r)'
  BY <1>1, <1>2, <1>4, ReelsAssumption DEF Exists
<1>7. \A q \in Reels :
        /\ (Exists(q)' <=> Exists(q))
        /\ Exists(q) => /\ reel'[q].status = reel[q].status
                        /\ reel'[q].published = reel[q].published
                        /\ reel'[q].kind = reel[q].kind /\ reel'[q].media = reel[q].media
                        /\ q \notin crossed' => /\ reel'[q].cta = reel[q].cta
                                                /\ reel'[q].product = reel[q].product
  BY <1>2, <1>4, <1>6 DEF Exists
<1>8. crossed \subseteq crossed' /\ crossed' \subseteq Reels
  BY <1>3 DEF ReelInv, ReelsOK
<1>9. product' \in [Products -> {"listed", "archived", "deleted"}]
  BY <1>3 DEF ReelInv, ReelsOK
<1> QED
  BY <1>3, <1>5, <1>7, <1>8, <1>9, ColumnsKeepReels

LEMMA DeleteProductKeepsReels ==
  ASSUME ReelInv, DoingOK, NEW p \in Products, DeleteProduct(p)
  PROVE  ReelInv'
<1> DEFINE its == {r \in Reels : Exists(r) /\ reel[r].product = p}
<1>1. /\ product' = [product EXCEPT ![p] = "deleted"]
      /\ reel' = [r \in Reels |-> IF r \in its THEN [reel[r] EXCEPT !.product = Nothing] ELSE reel[r]]
      /\ crossed' = crossed \cup its
      /\ UNCHANGED <<shop, asset, doing>>
  BY DEF DeleteProduct
<1>2. \A r \in its : /\ r \in Reels /\ Exists(r) /\ reel[r] \in Columns
                     /\ reel'[r] = [reel[r] EXCEPT !.product = Nothing]
  BY <1>1, ExistingRows DEF ReelInv
<1>3. \A r \in Reels \ its : reel'[r] = reel[r]
  BY <1>1
<1>4. its \subseteq Reels
  OBVIOUS
<1> HIDE DEF its
<1>5. \A r \in its :
        /\ reel'[r] \in Columns
        /\ reel'[r].status = reel[r].status /\ reel'[r].published = reel[r].published
        /\ reel'[r].kind = reel[r].kind /\ reel'[r].media = reel[r].media
  BY <1>2 DEF Columns
<1>6. reel' \in [Reels -> Columns \cup {Nothing}]
  <2>1. \A r \in Reels : reel'[r] \in Columns \cup {Nothing}
    BY <1>3, <1>5 DEF ReelInv, ReelsOK
  <2>2. reel' = [r \in Reels |-> reel'[r]]
    BY <1>1
  <2> QED
    BY <2>1, <2>2
<1>7. crossed \subseteq crossed' /\ crossed' \subseteq Reels
  BY <1>1, <1>4 DEF ReelInv, ReelsOK
<1>8. product' \in [Products -> {"listed", "archived", "deleted"}]
  BY <1>1 DEF ReelInv, ReelsOK
<1>9. \A r \in its : Exists(r)'
  BY <1>5, ReelsAssumption DEF Exists
<1>10. ASSUME NEW q \in Reels
       PROVE  /\ (Exists(q)' <=> Exists(q))
              /\ Exists(q) => /\ reel'[q].status = reel[q].status
                              /\ reel'[q].published = reel[q].published
                              /\ reel'[q].kind = reel[q].kind /\ reel'[q].media = reel[q].media
                              /\ q \notin crossed' => /\ reel'[q].cta = reel[q].cta
                                                      /\ reel'[q].product = reel[q].product
  <2>1. CASE q \in its
    <3>1. Exists(q)' /\ Exists(q)
      BY <1>2, <1>9, <2>1
    <3>2. (Exists(q)' <=> Exists(q))
      BY <3>1
    <3>3. q \in crossed'
      BY <1>1, <2>1
    <3> QED
      BY <1>5, <2>1, <3>2, <3>3
  <2>2. CASE q \notin its
    <3>1. reel'[q] = reel[q]
      BY <1>3, <2>2
    <3> QED
      BY <3>1 DEF Exists
  <2> QED
    BY <2>1, <2>2
<1> QED
  BY <1>1, <1>6, <1>7, <1>8, <1>10, ColumnsKeepReels

-----------------------------------------------------------------------------
(***************************************************************************)
(* The shopkeeper's requests: what they read, and what they write.         *)
(***************************************************************************)
\* A request that has read a reel, and has chosen what fits it, adds nothing else.
LEMMA ReadsKeepReels ==
  ASSUME ReelInv, DoingOK, NEW c \in Requests, NEW r \in Reels, NEW op \in Shopkeeping, NEW new,
         \E row \in Columns : IsPart(new, row), Reads(c, r, op, new), Exists(r),
         LET j == [op |-> op, reel |-> r, new |-> Changes(reel[r], new)]
         IN  IF op = "update" THEN UpdateFits(j) ELSE StatusFits(j)
  PROVE  ReelInv'
<1> DEFINE j == [op |-> op, reel |-> r, new |-> Changes(reel[r], new)]
<1>1. /\ DoingOK' /\ SameElsewhere(c) /\ UNCHANGED <<publishing, engagement>>
      /\ doing'[c] = j
  BY ReadsNext
<1>2. UNCHANGED <<shop, asset, product, reel, crossed>>
  BY <1>1 DEF publishing
<1>3. ReelsOK' /\ ReelsAreWhole' /\ NoneLeft'
  BY <1>2 DEF ReelInv, ReelsOK, ReelsAreWhole, NoneLeft, Exists, HasTarget
<1>4. j.op = op /\ j.reel = r /\ j.new = Changes(reel[r], new)
  OBVIOUS
<1>5. IF op = "update" THEN UpdateFits(j) ELSE StatusFits(j)
  OBVIOUS
<1> HIDE DEF j
<1>6. WritesFit'
  <2> SUFFICES ASSUME NEW d \in Requests, Writes(d)'
               PROVE  /\ shop' # "deleted" => Exists(doing[d].reel)'
                      /\ Exists(doing[d].reel)' => IF Does(d, "update")' THEN UpdateFits(doing[d])'
                                                                        ELSE StatusFits(doing[d])'
    BY DEF WritesFit
  <2>1. CASE d = c
    <3>1. Does(d, "update")' => op = "update"
      BY <1>1, <1>4, <2>1 DEF Does
    <3>2. op = "update" => Does(d, "update")'
      BY <1>1, <1>4, <2>1 DEF Does, Writes
    <3>3. UpdateFits(j) => UpdateFits(doing[d])'
      BY <1>1, <1>2, <2>1 DEF UpdateFits, Uploaded, Fits, HasTarget, Overlaid
    <3>4. StatusFits(j) => StatusFits(doing[d])'
      BY <1>1, <1>2, <2>1 DEF StatusFits
    <3>5. Exists(doing[d].reel)'
      BY <1>1, <1>2, <1>4, <2>1 DEF Exists
    <3> QED
      BY <1>5, <3>1, <3>2, <3>3, <3>4, <3>5
  <2>2. CASE d # c
    <3>1. doing'[d] = doing[d] /\ Writes(d) /\ (Does(d, "update")' = Does(d, "update"))
      BY <1>1, <2>2 DEF SameElsewhere, Writes, Does
    <3> QED
      BY <1>2, <3>1 DEF ReelInv, WritesFit, Exists, UpdateFits, StatusFits, Uploaded, Fits,
         HasTarget, Overlaid
  <2> QED
    BY <2>1, <2>2
<1> QED
  BY <1>3, <1>6 DEF ReelInv

LEMMA UpdateReads ==
  ASSUME ReelInv, DoingOK, NEW c \in Requests, NEW r \in Reels, UpdateReel(c, r)
  PROVE  /\ ReelInv'
         /\ \E new : (\E row \in Columns : IsPart(new, row)) /\ Reads(c, r, "update", new)
<1>1. PICK new \in Updates :
        /\ OwnedReadyAsset(new)
        /\ {"cta", "product"} \subseteq DOMAIN Overlaid(reel[r], new) => HasTarget(Overlaid(reel[r], new))
        /\ Reads(c, r, "update", new)
  BY DEF UpdateReel, WithTheOld
<1>2. reel[r] \in Columns /\ Exists(r)
  BY ExistingRows DEF UpdateReel, ReelInv
<1>3. PICK row \in Columns : IsPart(new, row)
  BY UpdatesArePart
<1> DEFINE all == Overlaid(reel[r], new)
           some == Changes(reel[r], new)
           j == [op |-> "update", reel |-> r, new |-> some]
<1>4. IsPart(some, row) /\ Overlaid(reel[r], some) = all
  BY <1>2, <1>3, ChangesArePart
<1>5. /\ all \in Columns
      /\ \A k \in {"kind", "media", "cta", "product", "window"} :
           all[k] = IF k \in DOMAIN new THEN new[k] ELSE reel[r][k]
  BY <1>2, <1>3, OverlaidColumns
<1>6. HasTarget(all)
  <2>1. DOMAIN all = {"status", "published", "kind", "media", "cta", "product", "window"}
    BY <1>5 DEF Columns
  <2> QED
    BY <1>1, <2>1
<1>7. ("kind" \in DOMAIN new) = ("media" \in DOMAIN new)
  BY ReelsAssumption
<1>8. DOMAIN some \subseteq DOMAIN new /\ \A k \in DOMAIN some : some[k] = new[k]
  BY DEF Changes
<1>9. DOMAIN new \subseteq Described
  BY ReelsAssumption DEF Content, Described
<1>10. "media" \in DOMAIN new => asset[new.media] = "ready" /\ KindOf[new.media] = new.kind
  BY <1>1 DEF OwnedReadyAsset
<1>11. r \notin crossed => KindOf[reel[r].media] = reel[r].kind
  BY <1>2 DEF ReelInv, ReelsAreWhole
<1> HIDE DEF all, some
<1>12. r \notin crossed => Fits(all)
  BY <1>5, <1>6, <1>7, <1>10, <1>11 DEF Fits
<1>13. "media" \in DOMAIN some => Uploaded(some.media)
  BY <1>8, <1>10 DEF Uploaded
<1>14. UpdateFits(j)
  BY <1>4, <1>8, <1>9, <1>12, <1>13 DEF UpdateFits
<1>15. "update" \in Shopkeeping
  BY DEF Shopkeeping
<1> QED
  BY <1>1, <1>2, <1>3, <1>14, <1>15, ReadsKeepReels DEF some

\* A status that is published with its date, or of a reel that has been.
LEMMA StatusReads ==
  ASSUME ReelInv, DoingOK, NEW c \in Requests, NEW r \in Reels, NEW op \in Shopkeeping, op # "update",
         NEW new, \E row \in Columns : IsPart(new, row), Reads(c, r, op, new), Exists(r),
         DOMAIN new \subseteq {"status", "published"},
         "published" \in DOMAIN new => new.published = TRUE,
         "status" \in DOMAIN new /\ new.status \in {"active", "paused"}
           => "published" \in DOMAIN new \/ reel[r].published
  PROVE  ReelInv'
<1> DEFINE some == Changes(reel[r], new)
           j == [op |-> op, reel |-> r, new |-> some]
<1>1. /\ DOMAIN some = {k \in DOMAIN new : new[k] # reel[r][k]}
      /\ \A k \in DOMAIN some : some[k] = new[k]
  BY DEF Changes
<1>2. reel[r] \in Columns
  BY ExistingRows DEF ReelInv
<1>3. reel[r].published \in BOOLEAN
  BY <1>2 DEF Columns
<1> HIDE DEF some
<1>4. DOMAIN some \subseteq {"status", "published"}
  BY <1>1
<1>5. "published" \in DOMAIN some => some.published = TRUE
  BY <1>1
<1>6. "status" \in DOMAIN some /\ some.status \in {"active", "paused"}
        => "published" \in DOMAIN some \/ reel[r].published
  BY <1>1, <1>3
<1>7. StatusFits(j)
  BY <1>4, <1>5, <1>6 DEF StatusFits
<1> QED
  BY <1>7, ReadsKeepReels DEF some

LEMMA PublishReads ==
  ASSUME ReelInv, DoingOK, NEW c \in Requests, NEW r \in Reels, PublishReel(c, r)
  PROVE  /\ ReelInv'
         /\ \E new : (\E row \in Columns : IsPart(new, row)) /\ Reads(c, r, "publish", new)
<1> DEFINE new == [status |-> "active", published |-> TRUE]
<1>1. Exists(r) /\ Reads(c, r, "publish", new)
  BY DEF PublishReel
<1>2. \E row \in Columns : IsPart(new, row)
  <2>1. Columns # {}
    BY <1>1, ExistingRows DEF ReelInv
  <2> QED
    BY <2>1, StatusesArePart
<1>3. DOMAIN new = {"status", "published"} /\ new.published = TRUE
  OBVIOUS
<1>4. "publish" \in Shopkeeping
  BY DEF Shopkeeping
<1> HIDE DEF new
<1> QED
  BY <1>1, <1>2, <1>3, <1>4, StatusReads

LEMMA PauseReads ==
  ASSUME ReelInv, DoingOK, NEW c \in Requests, NEW r \in Reels, PauseReel(c, r)
  PROVE  /\ ReelInv'
         /\ \E new : (\E row \in Columns : IsPart(new, row)) /\ Reads(c, r, "pause", new)
<1> DEFINE new == [status |-> "paused"]
<1>1. Exists(r) /\ Reads(c, r, "pause", new) /\ reel[r].status = "active"
  BY DEF PauseReel
<1>2. \E row \in Columns : IsPart(new, row)
  <2>1. Columns # {}
    BY <1>1, ExistingRows DEF ReelInv
  <2> QED
    BY <2>1, StatusesArePart
<1>3. DOMAIN new = {"status"}
  OBVIOUS
<1>4. "pause" \in Shopkeeping
  BY DEF Shopkeeping
<1>5. reel[r].published
  BY <1>1 DEF ReelInv, ReelsAreWhole
<1> HIDE DEF new
<1> QED
  BY <1>1, <1>2, <1>3, <1>4, <1>5, StatusReads

LEMMA ArchiveReads ==
  ASSUME ReelInv, DoingOK, NEW c \in Requests, NEW r \in Reels, ArchiveReel(c, r)
  PROVE  /\ ReelInv'
         /\ \E new : (\E row \in Columns : IsPart(new, row)) /\ Reads(c, r, "archive", new)
<1> DEFINE new == [status |-> "archived"]
<1>1. Exists(r) /\ Reads(c, r, "archive", new)
  BY DEF ArchiveReel
<1>2. \E row \in Columns : IsPart(new, row)
  <2>1. Columns # {}
    BY <1>1, ExistingRows DEF ReelInv
  <2> QED
    BY <2>1, StatusesArePart
<1>3. DOMAIN new = {"status"} /\ new.status = "archived"
  OBVIOUS
<1>4. "archive" \in Shopkeeping
  BY DEF Shopkeeping
<1> HIDE DEF new
<1> QED
  BY <1>1, <1>2, <1>3, <1>4, StatusReads

\* The commit writes what fits the reel as it is, and leaves it fit for what
\* others have to write to it.
LEMMA CommitKeepsReels ==
  ASSUME ReelInv, DoingOK, NEW c \in Requests, CommitReel(c)
  PROVE  ReelInv'
<1> DEFINE r == doing[c].reel
           new == doing[c].new
           row == Overlaid(reel[r], new)
<1>1. Writes(c) /\ Ends(c) /\ UNCHANGED <<shop, asset, product>>
  BY DEF CommitReel, Writes
<1>2. DoingOK' /\ NoRowIsHeld(c) /\ SameElsewhere(c)
  BY <1>1, EndsNext
<1>3. \A d \in Requests : Writes(d)' => /\ d # c /\ Writes(d) /\ doing'[d] = doing[d]
                                        /\ (Does(d, "update")' <=> Does(d, "update"))
  BY <1>1, <1>2 DEF Ends, DoingOK, SameElsewhere, Writes, Does
<1>4. CASE UNCHANGED <<reel, crossed>>
  <2>1. UNCHANGED publishing
    BY <1>1, <1>4 DEF publishing
  <2>2. \A d \in Requests : doing'[d] \in {doing[d], Nothing} \/ doing'[d] \in Finding
    BY <1>1 DEF Ends, DoingOK
  <2> QED
    BY <2>1, <2>2, ReelsUntouched
<1>5. CASE /\ Exists(r) /\ reel' = [reel EXCEPT ![r] = row]
           /\ crossed' = IF /\ Does(c, "update")
                            /\ \E d \in Requests \ {c} : Does(d, "update") /\ doing[d].reel = r
                           THEN crossed \cup {r} ELSE crossed
  <2>1. r \in Reels /\ \E part \in Columns : IsPart(new, part)
    BY <1>1, WritesKnown
  <2>2. reel[r] \in Columns
    BY <1>5, <2>1, ExistingRows DEF ReelInv
  <2>3. /\ row \in Columns
        /\ \A k \in {"status", "published", "kind", "media", "cta", "product", "window"} :
             row[k] = IF k \in DOMAIN new THEN new[k] ELSE reel[r][k]
    BY <2>1, <2>2, OverlaidColumns
  <2>4. reel'[r] = row /\ \A q \in Reels : q # r => reel'[q] = reel[q]
    BY <1>5, <2>1 DEF ReelInv, ReelsOK
  <2>5. IF Does(c, "update") THEN UpdateFits(doing[c]) ELSE StatusFits(doing[c])
    BY <1>1, <1>5 DEF ReelInv, WritesFit
  <2>6. crossed \subseteq crossed' /\ crossed' \subseteq Reels
    BY <1>5, <2>1 DEF ReelInv, ReelsOK
  <2>7. ReelsOK'
    BY <1>1, <1>5, <2>3, <2>6 DEF ReelInv, ReelsOK
  <2>8. NoneLeft'
    BY <1>1, <1>5, <2>1 DEF ReelInv, NoneLeft
  <2>9. /\ reel[r].status \in {"active", "paused"} => reel[r].published
        /\ Uploaded(reel[r].media)
        /\ r \notin crossed => Fits(reel[r])
    BY <1>5, <2>1 DEF ReelInv, ReelsAreWhole, Uploaded, Fits
  <2>10. ~ Does(c, "update") => \A k \in {"kind", "media", "cta", "product", "window"} :
                                  row[k] = reel[r][k]
    BY <2>3, <2>5 DEF StatusFits
  <2>11. Does(c, "update") => row.status = reel[r].status /\ row.published = reel[r].published
    BY <2>3, <2>5 DEF UpdateFits, Described
  <2> HIDE DEF row
  <2>12. row.status \in {"active", "paused"} => row.published
    BY <2>3, <2>5, <2>9, <2>11 DEF StatusFits
  <2>13. Uploaded(row.media)
    BY <2>3, <2>5, <2>9, <2>10 DEF UpdateFits
  <2>14. r \notin crossed => Fits(row)
    <3>1. CASE Does(c, "update")
      BY <2>5, <3>1 DEF UpdateFits, row
    <3>2. CASE ~ Does(c, "update")
      BY <2>9, <2>10, <3>2, FitsDependsOn
    <3> QED
      BY <3>1, <3>2
  <2>15. ReelsAreWhole'
    <3> SUFFICES ASSUME NEW q \in Reels, Exists(q)'
                 PROVE  /\ reel'[q].status \in {"active", "paused"} => reel'[q].published
                        /\ Uploaded(reel'[q].media)
                        /\ q \notin crossed' => Fits(reel'[q])
      BY <1>1 DEF ReelsAreWhole, Uploaded, Fits, HasTarget
    <3>1. CASE q = r
      BY <2>4, <2>6, <2>12, <2>13, <2>14, <3>1
    <3>2. CASE q # r
      BY <2>4, <2>6, <3>2 DEF ReelInv, ReelsAreWhole, Exists, Uploaded, Fits
    <3> QED
      BY <3>1, <3>2
  <2>16. WritesFit'
    <3> SUFFICES ASSUME NEW d \in Requests, Writes(d)'
                 PROVE  /\ shop' # "deleted" => Exists(doing[d].reel)'
                        /\ Exists(doing[d].reel)' => IF Does(d, "update")' THEN UpdateFits(doing[d])'
                                                                          ELSE StatusFits(doing[d])'
      BY DEF WritesFit
    <3> DEFINE q == doing[d].reel
               write == doing[d].new
    <3>1. d # c /\ Writes(d) /\ doing'[d] = doing[d] /\ (Does(d, "update")' <=> Does(d, "update"))
      BY <1>3
    <3>2. q \in Reels /\ \E part \in Columns : IsPart(write, part)
      BY <3>1, WritesKnown
    <3>3. shop # "deleted" => Exists(q)
      BY <3>1 DEF ReelInv, WritesFit
    <3>4. Exists(q)' <=> Exists(q)
      <4>1. row # Nothing /\ reel[r] # Nothing
        BY <1>5, <2>3, ReelsAssumption DEF Exists
      <4>2. reel'[q] # Nothing <=> reel[q] # Nothing
        BY <2>4, <3>2, <4>1
      <4> QED
        BY <3>1, <4>2 DEF Exists
    <3>5. Exists(q) => IF Does(d, "update") THEN UpdateFits(doing[d]) ELSE StatusFits(doing[d])
      BY <3>1 DEF ReelInv, WritesFit
    <3>6. CASE q # r
      <4>1. reel'[q] = reel[q]
        BY <2>4, <3>2, <3>6
      <4>2. UpdateFits(doing[d]) => UpdateFits(doing[d])'
        BY <1>1, <2>6, <3>1, <4>1 DEF UpdateFits, Uploaded, Fits, HasTarget, Overlaid
      <4>3. StatusFits(doing[d]) => StatusFits(doing[d])'
        BY <3>1, <4>1 DEF StatusFits
      <4> QED
        BY <1>1, <3>1, <3>3, <3>4, <3>5, <4>2, <4>3 DEF Exists
    <3>7. CASE q = r /\ ~ Does(d, "update")
      <4>1. StatusFits(doing[d])
        BY <1>5, <3>5, <3>7
      <4>2. reel[r].published => row.published
        BY <2>3, <2>5, <2>11 DEF StatusFits
      <4>3. StatusFits(doing[d])'
        BY <2>4, <3>1, <3>7, <4>1, <4>2 DEF StatusFits
      <4> QED
        BY <1>1, <3>1, <3>3, <3>4, <3>7, <4>3 DEF Exists
    <3>8. CASE q = r /\ Does(d, "update")
      <4>1. UpdateFits(doing[d])
        BY <1>5, <3>5, <3>8
      <4>2. ASSUME r \notin crossed' PROVE Fits(Overlaid(row, write))
        <5>1. ~ Does(c, "update") /\ r \notin crossed
          BY <1>5, <2>6, <3>1, <3>8, <4>2
        <5> DEFINE a == Overlaid(row, write)
                   b == Overlaid(reel[r], write)
        <5>2. \A k \in {"kind", "media", "cta", "product"} :
                /\ a[k] = IF k \in DOMAIN write THEN write[k] ELSE row[k]
                /\ b[k] = IF k \in DOMAIN write THEN write[k] ELSE reel[r][k]
          BY <2>2, <2>3, <3>2, OverlaidColumns
        <5>3. Fits(b)
          BY <3>8, <4>1, <5>1 DEF UpdateFits
        <5> HIDE DEF a, b
        <5>4. \A k \in {"kind", "media", "cta", "product"} : a[k] = b[k]
          BY <2>10, <5>1, <5>2
        <5>5. Fits(a) = Fits(b)
          BY <5>4, FitsDependsOn
        <5> QED
          BY <5>3, <5>5 DEF a
      <4>3. UpdateFits(doing[d])' = (/\ DOMAIN write \subseteq Described
                                     /\ "media" \in DOMAIN write => Uploaded(write.media)
                                     /\ r \notin crossed' => Fits(Overlaid(row, write)))
        BY <1>1, <2>4, <3>1, <3>8 DEF UpdateFits, Uploaded, Fits, HasTarget, Overlaid
      <4> QED
        BY <1>1, <3>1, <3>3, <3>4, <3>8, <4>1, <4>2, <4>3 DEF UpdateFits, Exists
    <3> QED
      BY <3>6, <3>7, <3>8
  <2> QED
    BY <2>7, <2>8, <2>15, <2>16 DEF ReelInv
<1> QED
  BY <1>4, <1>5 DEF CommitReel

-----------------------------------------------------------------------------
(***************************************************************************)
(* Every step keeps both invariants.                                       *)
(***************************************************************************)
Inv == CounterInv /\ ReelInv

LEMMA InitInv == Init => Inv
<1> SUFFICES ASSUME Init PROVE ReelInv
  BY InitCounted DEF Inv
<1>1. \A r \in Reels : ~ Exists(r)
  BY DEF Init, Exists
<1>2. ReelsOK
  BY DEF Init, ReelsOK
<1>3. ReelsAreWhole /\ NoneLeft
  BY <1>1 DEF ReelsAreWhole, NoneLeft
<1>4. WritesFit
  BY DEF Init, WritesFit, Writes, Does
<1> QED
  BY <1>2, <1>3, <1>4 DEF ReelInv

LEMMA SameEngagement ==
  ASSUME CounterInv, UNCHANGED <<engagement, doing>>
  PROVE  CounterInv'
<1>1. UNCHANGED <<customers, rows, completed, count, forgotten, doing>>
  BY DEF engagement
<1>2. RowsOK' /\ Tallies'
  <2>1. completed' \subseteq Customers \X Reels
    BY <1>1 DEF CounterInv, RowsOK
  <2> QED
    BY <1>1, <2>1, NothingCounted
<1>3. DoingOK'
  BY <1>1 DEF CounterInv, DoingOK
<1> QED
  BY <1>2, <1>3 DEF CounterInv, Tallies

LEMMA WritesCounted ==
  ASSUME CounterInv, NEW c \in Requests, DoingOK', NoRowIsHeld(c), SameElsewhere(c),
         UNCHANGED engagement
  PROVE  CounterInv'
<1>1. UNCHANGED <<customers, rows, completed, count, forgotten>>
  BY DEF engagement
<1>2. RowsOK' /\ Tallies'
  <2>1. completed' \subseteq Customers \X Reels
    BY <1>1 DEF CounterInv, RowsOK
  <2>2. \A d \in Requests : doing'[d] = doing[d] \/ NoRowIsHeld(d)
    BY DEF SameElsewhere
  <2> QED
    BY <1>1, <2>1, <2>2, NothingCounted
<1> QED
  BY <1>2 DEF CounterInv, Tallies

\* Uploads, new reels, time, the shop, its products, deletions.
LEMMA OthersStep ==
  ASSUME Inv, Others
  PROVE  Inv'
<1> USE DEF Inv
<1>1. DoingOK
  BY DEF CounterInv
<1>2. ASSUME NEW a \in Assets,
             Presign(a) \/ Complete(a) \/ MediaDelete(a) \/ AdminPresign(a) \/ AdminComplete(a)
      PROVE  Inv'
  <2>1. PICK from \in {{"absent"}, {"pending"}, {"pending", "ready"}} :
          \E to \in {"pending", "ready", "deleted"} :
            /\ AssetBecomes(a, from, to)
            /\ to = "pending" => from = {"absent"}
    BY <1>2 DEF Presign, Complete, MediaDelete, AdminPresign, AdminComplete
  <2>2. PICK to \in {"pending", "ready", "deleted"} :
          AssetBecomes(a, from, to) /\ (to = "pending" => from = {"absent"})
    BY <2>1
  <2>3. /\ asset[a] \in from /\ asset' = [asset EXCEPT ![a] = to]
        /\ UNCHANGED <<shop, product, reel, crossed, engagement, doing>>
    BY <2>2 DEF AssetBecomes
  <2>4. asset' \in [Assets -> {"absent", "pending", "ready", "deleted"}]
    BY <2>3 DEF ReelInv, ReelsOK
  <2>5. \A b \in Assets : Uploaded(b) => Uploaded(b)'
    BY <2>2, <2>3 DEF ReelInv, ReelsOK, Uploaded
  <2> QED
    BY <1>1, <2>3, <2>4, <2>5, AssetsKeepReels, SameEngagement
<1>3. ASSUME NEW r \in Reels, CreateReel(r)
      PROVE  Inv'
  <2>1. UNCHANGED <<engagement, doing>>
    BY <1>3 DEF CreateReel
  <2> QED
    BY <1>1, <1>3, <2>1, CreateKeepsReels, SameEngagement
<1>4. ASSUME NEW r \in Reels, TimePasses(r)
      PROVE  Inv'
  <2>1. UNCHANGED <<engagement, doing>>
    BY <1>4 DEF TimePasses
  <2> QED
    BY <1>1, <1>4, <2>1, TimeKeepsReels, SameEngagement
<1>5. ASSUME NEW p \in Products, ArchiveProduct(p)
      PROVE  Inv'
  <2>1. UNCHANGED <<shop, asset, reel, crossed, engagement, doing>>
    BY <1>5 DEF ArchiveProduct
  <2>2. product' \in [Products -> {"listed", "archived", "deleted"}]
    BY <1>5 DEF ArchiveProduct, ReelInv, ReelsOK
  <2>3. shop' \in {"active", "inactive", "deleted"} /\ (shop = "deleted") = (shop' = "deleted")
    BY <2>1 DEF ReelInv, ReelsOK
  <2> QED
    BY <1>1, <2>1, <2>2, <2>3, ContextKeepsReels, SameEngagement
<1>6. ASSUME NEW p \in Products, DeleteProduct(p)
      PROVE  Inv'
  <2>1. UNCHANGED <<engagement, doing>>
    BY <1>6 DEF DeleteProduct
  <2> QED
    BY <1>1, <1>6, <2>1, DeleteProductKeepsReels, SameEngagement
<1>7. ASSUME NEW u \in Customers, DeleteUser(u)
      PROVE  Inv'
  <2>1. UNCHANGED <<publishing, doing>>
    BY <1>7 DEF DeleteUser
  <2>2. ReelInv'
    BY <1>1, <2>1, ReelsUntouched
  <2> QED
    BY <1>7, <2>2, DeleteUserCounted DEF CounterInv, Tallies
<1>8. ASSUME ShopLifecycle
      PROVE  Inv'
  <2>1. UNCHANGED <<asset, product, reel, crossed, engagement, doing>>
    BY <1>8 DEF ShopLifecycle
  <2>2. shop' \in {"active", "inactive", "deleted"} /\ (shop = "deleted") = (shop' = "deleted")
    BY <1>8 DEF ShopLifecycle
  <2>3. product' \in [Products -> {"listed", "archived", "deleted"}]
    BY <2>1 DEF ReelInv, ReelsOK
  <2> QED
    BY <1>1, <2>1, <2>2, <2>3, ContextKeepsReels, SameEngagement
<1>9. ASSUME DeleteShop
      PROVE  Inv'
  BY <1>1, <1>9, DeleteShopKeepsReels, DeleteShopCounted DEF CounterInv, Tallies
<1> QED
  BY <1>2, <1>3, <1>4, <1>5, <1>6, <1>7, <1>8, <1>9 DEF Others

\* Updates, changes of status, their commits and rollbacks.
LEMMA ShopkeeperStep ==
  ASSUME Inv, NEW c \in Requests, Shopkeeper(c)
  PROVE  Inv'
<1> USE DEF Inv
<1>1. DoingOK
  BY DEF CounterInv
<1>2. ASSUME NEW r \in Reels, NEW op \in Shopkeeping, ReelInv',
             \E new : (\E row \in Columns : IsPart(new, row)) /\ Reads(c, r, op, new)
      PROVE  Inv'
  <2>1. PICK new : (\E row \in Columns : IsPart(new, row)) /\ Reads(c, r, op, new)
    BY <1>2
  <2>2. /\ DoingOK' /\ NoRowIsHeld(c) /\ SameElsewhere(c)
        /\ UNCHANGED <<publishing, engagement>>
    BY <1>1, <2>1, ReadsNext
  <2> QED
    BY <1>2, <2>2, WritesCounted
<1>3. ASSUME NEW r \in Reels,
             UpdateReel(c, r) \/ PublishReel(c, r) \/ PauseReel(c, r) \/ ArchiveReel(c, r)
      PROVE  Inv'
  <2>1. {"update", "publish", "pause", "archive"} \subseteq Shopkeeping
    BY DEF Shopkeeping
  <2> QED
    BY <1>1, <1>2, <1>3, <2>1, UpdateReads, PublishReads, PauseReads, ArchiveReads
<1>4. ASSUME CommitReel(c)
      PROVE  Inv'
  <2>1. Ends(c) /\ UNCHANGED engagement
    BY <1>4 DEF CommitReel
  <2> QED
    BY <1>1, <1>4, <2>1, CommitKeepsReels, EndsNext, WritesCounted
<1>5. ASSUME Rollback(c)
      PROVE  Inv'
  <2>1. Ends(c) /\ UNCHANGED <<publishing, engagement>>
    BY <1>5 DEF Rollback
  <2>2. \A d \in Requests : doing'[d] \in {doing[d], Nothing} \/ doing'[d] \in Finding
    BY <1>1, <2>1 DEF Ends, DoingOK
  <2>3. ReelInv'
    BY <1>1, <2>1, <2>2, ReelsUntouched
  <2> QED
    BY <1>1, <2>1, <2>3, EndsNext, WritesCounted
<1> QED
  BY <1>3, <1>4, <1>5 DEF Shopkeeper

\* What customers find, change, leave, and commit.
LEMMA CustomerStep ==
  ASSUME Inv, NEW c \in Requests, Customer(c)
  PROVE  Inv'
<1> USE DEF Inv
<1>1. DoingOK
  BY DEF CounterInv
<1>2. ASSUME UNCHANGED publishing, CounterInv', DoingOK',
             doing'[c] = Nothing \/ doing'[c] \in Finding, SameElsewhere(c)
      PROVE  Inv'
  <2>1. \A d \in Requests : doing'[d] \in {doing[d], Nothing} \/ doing'[d] \in Finding
    BY <1>2 DEF SameElsewhere
  <2> QED
    BY <1>1, <1>2, <2>1, ReelsUntouched
<1>3. ASSUME NEW k \in Counters, NEW u \in Customers, NEW r \in Reels, NEW on \in BOOLEAN,
             on \/ k \in {"like", "save"}, Finds(c, k, u, r, on)
      PROVE  Inv'
  <2> DEFINE j == [op |-> "find", row |-> <<k, u, r>>, on |-> on]
  <2>1. CounterInv'
    BY <1>3, FindsCounted DEF CounterInv, Tallies
  <2>2. doing' = [doing EXCEPT ![c] = j] /\ UNCHANGED publishing
    BY <1>3 DEF Finds
  <2>3. j \in Finding
    BY DEF Finding, Interactions
  <2> HIDE DEF j
  <2>4. doing'[c] = j /\ SameElsewhere(c)
    BY <1>1, <2>2, <2>3, DoingNext
  <2> QED
    BY <1>2, <2>1, <2>2, <2>3, <2>4 DEF CounterInv
<1>4. ASSUME NEW r \in Reels, NEW u \in Customers,
             \/ Like(c, u, r) \/ Unlike(c, u, r) \/ Save(c, u, r) \/ Unsave(c, u, r)
             \/ View(c, u, r) \/ Share(c, u, r) \/ Click(c, u, r)
      PROVE  Inv'
  <2>1. {"like", "save", "view", "share", "click"} \subseteq Counters
    BY DEF Counters, Unique
  <2>2. \E k \in {"like", "save", "view", "share", "click"}, on \in BOOLEAN :
          (on \/ k \in {"like", "save"}) /\ Finds(c, k, u, r, on)
    BY <1>4 DEF Like, Unlike, Save, Unsave, View, Share, Click
  <2> QED
    BY <1>3, <2>1, <2>2
<1>5. ASSUME Change(c)
      PROVE  Inv'
  <2>1. CounterInv'
    BY <1>5, ChangeCounted DEF CounterInv, Tallies
  <2>2. doing[c] \in Finding
    BY <1>1, <1>5, KindsOfWork DEF Change
  <2> DEFINE j == [doing[c] EXCEPT !.op = "change"]
  <2>3. doing' = [doing EXCEPT ![c] = j] /\ UNCHANGED publishing
    BY <1>5 DEF Change
  <2>4. j \in Finding
    BY <2>2 DEF Finding
  <2> HIDE DEF j
  <2>5. doing'[c] = j /\ SameElsewhere(c)
    BY <1>1, <2>3, <2>4, DoingNext
  <2> QED
    BY <1>2, <2>1, <2>3, <2>4, <2>5 DEF CounterInv
<1>6. ASSUME ChangeNothing(c)
      PROVE  Inv'
  <2> DEFINE i == doing[c].row
  <2>1. /\ Ends(c) /\ Does(c, "find") /\ UNCHANGED <<publishing, customers, rows, count, forgotten>>
        /\ \/ UNCHANGED completed
           \/ i[1] = "view" /\ rows[i] = 1 /\ completed' = completed \cup {<<i[2], i[3]>>}
    BY <1>6 DEF ChangeNothing
  <2>2. doing[c] \in Finding
    BY <1>1, <2>1, KindsOfWork
  <2>3. PICK k \in Counters, u \in Customers, r \in Reels : i = <<k, u, r>>
    BY <2>2 DEF Finding, Interactions
  <2>4. completed' \subseteq Customers \X Reels
    BY <2>1, <2>3 DEF CounterInv, RowsOK
  <2>5. \A v \in completed' : v \in completed \/ rows[<<"view", v[1], v[2]>>] = 1
    BY <2>1, <2>3
  <2>6. DoingOK' /\ NoRowIsHeld(c) /\ SameElsewhere(c)
    BY <1>1, <2>1, EndsNext
  <2>7. \A d \in Requests : doing'[d] = doing[d] \/ NoRowIsHeld(d)
    BY <2>6 DEF SameElsewhere
  <2>8. RowsOK' /\ Tallies'
    BY <2>1, <2>4, <2>5, <2>7, NothingCounted
  <2>9. doing'[c] = Nothing
    BY <1>1, <2>1 DEF Ends, DoingOK
  <2> QED
    BY <1>2, <2>1, <2>6, <2>8, <2>9 DEF CounterInv, Tallies
<1>7. ASSUME CommitChange(c)
      PROVE  Inv'
  <2>1. CounterInv'
    BY <1>7, CommitCounted DEF CounterInv, Tallies
  <2>2. Ends(c) /\ UNCHANGED publishing
    BY <1>7 DEF CommitChange
  <2>3. SameElsewhere(c) /\ doing'[c] = Nothing
    BY <1>1, <2>2 DEF Ends, DoingOK, SameElsewhere
  <2> QED
    BY <1>2, <2>1, <2>2, <2>3 DEF CounterInv
<1> QED
  BY <1>4, <1>5, <1>6, <1>7 DEF Customer

LEMMA StepInv == Inv /\ [Next]_vars => Inv'
<1> SUFFICES ASSUME Inv, [Next]_vars PROVE Inv'
  OBVIOUS
<1>1. ASSUME UNCHANGED vars PROVE Inv'
  <2>1. UNCHANGED <<publishing, engagement, doing>>
    BY <1>1 DEF vars
  <2>2. \A d \in Requests : doing'[d] \in {doing[d], Nothing} \/ doing'[d] \in Finding
    BY <2>1
  <2> QED
    BY <2>1, <2>2, SameEngagement, ReelsUntouched DEF Inv, CounterInv
<1> QED
  BY <1>1, OthersStep, ShopkeeperStep, CustomerStep DEF Next

LEMMA SpecInv == Spec => []Inv
  BY InitInv, StepInv, PTL DEF Spec

-----------------------------------------------------------------------------
(***************************************************************************)
(* Theorems.                                                               *)
(***************************************************************************)
\* Reels, uploads, products and counters have the values their columns allow,
\* and a customer has at most one like, save and view of a reel, although those
\* requests look for the reel before they insert.
THEOREM Typing == Spec => []TypeOK
<1>1. Inv => TypeOK
  BY DEF Inv, CounterInv, ReelInv, ReelsOK, RowsOK, UniqueRows, TypeOK
<1> QED
  BY <1>1, SpecInv, PTL

\* like_reel ... record_reel_event: each counter of a reel is the number of its
\* rows and of those that went with a deleted customer, for any requests that
\* overlap.
THEOREM CountersHold == Spec => []CountersAddUp
<1>1. Inv => CountersAddUp
  BY CountedIsEnough DEF Inv
<1> QED
  BY <1>1, SpecInv, PTL

\* update_reel, publish_reel, pause_reel: media of the kind the reel says, that
\* were uploaded, a target it calls for, and a date of publication, unless two
\* updates overlapped or the product has been deleted.
THEOREM ReelsStayWhole == Spec => []ReelsAreWhole
<1>1. Inv => ReelsAreWhole
  BY DEF Inv, ReelInv
<1> QED
  BY <1>1, SpecInv, PTL

\* archive_reel: no request that begins after the reel was archived brings it
\* back, whatever those that began before have written.
THEOREM ArchivingLasts == Spec => ArchivedStays
<1>1. ASSUME Inv, [Next]_vars, NEW r \in Reels, IsSettled(r)
      PROVE  IsSettled(r)' \/ ~ Exists(r)'
  <2>1. DoingOK /\ ReelInv /\ Exists(r) /\ reel[r].status = "archived" /\ reel[r] \in Columns
    BY <1>1, ExistingRows DEF Inv, CounterInv, ReelInv, IsSettled
  <2>2. \A c \in Requests : ~ Undoes(c, r)
    BY <1>1 DEF IsSettled
  <2>3. ASSUME Exists(r)' => reel'[r].status = "archived",
               \A c \in Requests : doing'[c] = doing[c] \/ ~ Undoes(c, r)'
        PROVE  IsSettled(r)' \/ ~ Exists(r)'
    <3>1. \A c \in Requests : ~ Undoes(c, r)'
      BY <2>2, <2>3 DEF Undoes, Does
    <3> QED
      BY <2>3, <3>1 DEF IsSettled
  <2>4. ASSUME NEW c \in Requests, NEW q \in Reels, NEW op \in Shopkeeping, NEW new,
               \E row \in Columns : IsPart(new, row), Reads(c, q, op, new),
               q = r => \/ "status" \notin DOMAIN new
                        \/ new.status = "archived"
        PROVE  IsSettled(r)' \/ ~ Exists(r)'
    <3> DEFINE some == Changes(reel[q], new)
    <3>1. /\ doing'[c] = [op |-> op, reel |-> q, new |-> some] /\ SameElsewhere(c)
          /\ UNCHANGED publishing
      BY <2>1, <2>4, ReadsNext
    <3>2. DOMAIN some \subseteq DOMAIN new /\ \A k \in DOMAIN some : some[k] = new[k]
      BY DEF Changes
    <3> HIDE DEF some
    <3>3. doing'[c].reel = q /\ doing'[c].new = some
      BY <3>1
    <3>4. ~ Undoes(c, r)'
      BY <2>4, <3>2, <3>3 DEF Undoes
    <3>5. \A d \in Requests : doing'[d] = doing[d] \/ ~ Undoes(d, r)'
      BY <3>1, <3>4 DEF SameElsewhere
    <3>6. reel'[r] = reel[r]
      BY <3>1 DEF publishing
    <3> QED
      BY <2>1, <2>3, <3>5, <3>6
  <2>5. ASSUME NEW c \in Requests, Ends(c), Exists(r)' => reel'[r].status = "archived"
        PROVE  IsSettled(r)' \/ ~ Exists(r)'
    <3>1. \A d \in Requests : doing'[d] = doing[d] \/ doing'[d] = Nothing
      BY <2>1, <2>5 DEF Ends, DoingOK
    <3>2. \A d \in Requests : doing'[d] = doing[d] \/ ~ Undoes(d, r)'
      BY <3>1 DEF Undoes, Does
    <3> QED
      BY <2>3, <2>5, <3>2
  <2>6. ASSUME UNCHANGED doing, Exists(r)' => reel'[r].status = "archived"
        PROVE  IsSettled(r)' \/ ~ Exists(r)'
    BY <2>3, <2>6
  <2>7. CASE Others
    <3>1. UNCHANGED doing
      BY <2>7 DEF Others, Presign, Complete, MediaDelete, AdminPresign, AdminComplete, AssetBecomes,
         CreateReel, TimePasses, ArchiveProduct, DeleteProduct, DeleteUser, ShopLifecycle, DeleteShop
    <3>2. ASSUME NEW q \in Reels, CreateReel(q) PROVE reel'[r] = reel[r]
      <4>1. q # r /\ \E row : reel' = [reel EXCEPT ![q] = row]
        BY <2>1, <3>2 DEF CreateReel
      <4> QED
        BY <2>1, <4>1 DEF ReelInv, ReelsOK
    <3>3. ASSUME NEW q \in Reels, TimePasses(q) PROVE reel'[r].status = "archived"
      <4>1. CASE q = r
        <5> DEFINE row == [reel[r] EXCEPT !.window = IF @ = "ahead" THEN "open" ELSE "over"]
        <5>1. row.status = "archived"
          BY <2>1 DEF Columns
        <5>2. reel' = [reel EXCEPT ![r] = row]
          BY <3>3, <4>1 DEF TimePasses
        <5> HIDE DEF row
        <5> QED
          BY <2>1, <5>1, <5>2 DEF ReelInv, ReelsOK
      <4>2. CASE q # r
        <5>1. \E row : reel' = [reel EXCEPT ![q] = row]
          BY <3>3 DEF TimePasses
        <5> QED
          BY <2>1, <4>2, <5>1 DEF ReelInv, ReelsOK
      <4> QED
        BY <4>1, <4>2
    <3>4. ASSUME NEW p \in Products, DeleteProduct(p) PROVE reel'[r].status = "archived"
      <4>1. reel'[r] = reel[r] \/ reel'[r] = [reel[r] EXCEPT !.product = Nothing]
        BY <3>4 DEF DeleteProduct
      <4> QED
        BY <2>1, <4>1 DEF Columns
    <3>5. ASSUME DeleteShop PROVE ~ Exists(r)'
      BY <3>5 DEF DeleteShop, Exists
    <3>6. Exists(r)' => reel'[r].status = "archived"
      <4>1. CASE UNCHANGED reel
        BY <2>1, <4>1
      <4>2. ASSUME ~ UNCHANGED reel
            PROVE  \/ \E q \in Reels : CreateReel(q) \/ TimePasses(q)
                   \/ \E p \in Products : DeleteProduct(p)
                   \/ DeleteShop
        BY <2>7, <4>2 DEF Others, Presign, Complete, MediaDelete, AdminPresign, AdminComplete,
           AssetBecomes, ArchiveProduct, DeleteUser, ShopLifecycle, publishing
      <4>3. CASE \E q \in Reels : CreateReel(q)
        BY <2>1, <3>2, <4>3
      <4> QED
        BY <3>3, <3>4, <3>5, <4>1, <4>2, <4>3
    <3> QED
      BY <2>6, <3>1, <3>6
  <2>8. ASSUME NEW c \in Requests, Shopkeeper(c)
        PROVE  IsSettled(r)' \/ ~ Exists(r)'
    <3>1. ASSUME NEW q \in Reels, UpdateReel(c, q) PROVE IsSettled(r)' \/ ~ Exists(r)'
      <4>1. PICK new \in Updates : Reads(c, q, "update", new)
        BY <3>1 DEF UpdateReel
      <4>2. q # r
        BY <2>1, <3>1 DEF UpdateReel
      <4>3. "update" \in Shopkeeping
        BY DEF Shopkeeping
      <4> QED
        BY <2>4, <4>1, <4>2, <4>3, UpdatesArePart
    <3>2. ASSUME NEW q \in Reels, PublishReel(c, q) PROVE IsSettled(r)' \/ ~ Exists(r)'
      <4>1. q # r
        BY <2>1, <3>2 DEF PublishReel, MayPublish
      <4>2. PICK new : (\E row \in Columns : IsPart(new, row)) /\ Reads(c, q, "publish", new)
        BY <2>1, <3>2, PublishReads
      <4>3. "publish" \in Shopkeeping
        BY DEF Shopkeeping
      <4> QED
        BY <2>4, <4>1, <4>2, <4>3
    <3>3. ASSUME NEW q \in Reels, PauseReel(c, q) PROVE IsSettled(r)' \/ ~ Exists(r)'
      <4>1. q # r
        BY <2>1, <3>3 DEF PauseReel
      <4>2. PICK new : (\E row \in Columns : IsPart(new, row)) /\ Reads(c, q, "pause", new)
        BY <2>1, <3>3, PauseReads
      <4>3. "pause" \in Shopkeeping
        BY DEF Shopkeeping
      <4> QED
        BY <2>4, <4>1, <4>2, <4>3
    <3>4. ASSUME NEW q \in Reels, ArchiveReel(c, q) PROVE IsSettled(r)' \/ ~ Exists(r)'
      <4> DEFINE new == [status |-> "archived"]
      <4>1. Reads(c, q, "archive", new) /\ new.status = "archived"
        BY <3>4 DEF ArchiveReel
      <4>2. \E row \in Columns : IsPart(new, row)
        BY <2>1, StatusesArePart
      <4>3. "archive" \in Shopkeeping
        BY DEF Shopkeeping
      <4> HIDE DEF new
      <4> QED
        BY <2>4, <4>1, <4>2, <4>3
    <3>5. ASSUME CommitReel(c) PROVE IsSettled(r)' \/ ~ Exists(r)'
      <4> DEFINE q == doing[c].reel
                 new == doing[c].new
      <4>1. Writes(c) /\ Ends(c)
        BY <3>5 DEF CommitReel, Writes
      <4>2. reel' = reel \/ reel' = [reel EXCEPT ![q] = Overlaid(reel[q], new)]
        BY <3>5 DEF CommitReel
      <4>3. \E row \in Columns : IsPart(new, row)
        BY <2>1, <4>1, WritesKnown
      <4>4. CASE reel' = [reel EXCEPT ![q] = Overlaid(reel[q], new)] /\ q = r
        <5>1. "status" \in DOMAIN new => new.status = "archived"
          BY <2>2, <4>1, <4>4 DEF Undoes, Writes
        <5>2. Overlaid(reel[r], new)["status"] =
                IF "status" \in DOMAIN new THEN new["status"] ELSE reel[r]["status"]
          BY <2>1, <4>3, OverlaidColumns
        <5>3. reel'[r] = Overlaid(reel[r], new)
          BY <2>1, <4>4 DEF ReelInv, ReelsOK
        <5>4. reel'[r].status = "archived"
          BY <2>1, <5>1, <5>2, <5>3
        <5> QED
          BY <2>5, <4>1, <5>4
      <4>5. CASE reel' = reel \/ q # r
        <5>1. reel'[r] = reel[r]
          BY <2>1, <4>2, <4>5 DEF ReelInv, ReelsOK
        <5> QED
          BY <2>1, <2>5, <4>1, <5>1
      <4> QED
        BY <4>2, <4>4, <4>5
    <3>6. ASSUME Rollback(c) PROVE IsSettled(r)' \/ ~ Exists(r)'
      <4>1. Ends(c) /\ reel'[r] = reel[r]
        BY <3>6 DEF Rollback, publishing
      <4> QED
        BY <2>1, <2>5, <4>1
    <3> QED
      BY <2>8, <3>1, <3>2, <3>3, <3>4, <3>5, <3>6 DEF Shopkeeper
  <2>9. ASSUME NEW c \in Requests, Customer(c)
        PROVE  IsSettled(r)' \/ ~ Exists(r)'
    <3>1. UNCHANGED publishing
      BY <2>9 DEF Customer, Like, Unlike, Save, Unsave, View, Share, Click, Finds, Change,
         ChangeNothing, CommitChange
    <3>2. reel'[r] = reel[r]
      BY <3>1 DEF publishing
    <3>3. ASSUME NEW j, doing' = [doing EXCEPT ![c] = j], j.op \in {"find", "change"}
          PROVE  IsSettled(r)' \/ ~ Exists(r)'
      <4>1. \A d \in Requests : doing'[d] = doing[d] \/ ~ Undoes(d, r)'
        BY <2>1, <3>3 DEF DoingOK, Undoes, Does, Shopkeeping
      <4> QED
        BY <2>1, <2>3, <3>2, <4>1
    <3>4. ASSUME NEW k, NEW u, NEW q, NEW on, Finds(c, k, u, q, on)
          PROVE  IsSettled(r)' \/ ~ Exists(r)'
      <4> DEFINE j == [op |-> "find", row |-> <<k, u, q>>, on |-> on]
      <4>1. doing' = [doing EXCEPT ![c] = j] /\ j.op = "find"
        BY <3>4 DEF Finds
      <4> HIDE DEF j
      <4> QED
        BY <3>3, <4>1
    <3>5. ASSUME Change(c) PROVE IsSettled(r)' \/ ~ Exists(r)'
      <4> DEFINE j == [doing[c] EXCEPT !.op = "change"]
      <4>1. doing[c] \in Finding
        BY <2>1, <3>5, KindsOfWork DEF Change
      <4>2. doing' = [doing EXCEPT ![c] = j] /\ j.op = "change"
        BY <3>5, <4>1 DEF Change, Finding
      <4> HIDE DEF j
      <4> QED
        BY <3>3, <4>2
    <3>6. ASSUME Ends(c) PROVE IsSettled(r)' \/ ~ Exists(r)'
      BY <2>1, <2>5, <3>2, <3>6
    <3> QED
      BY <2>9, <3>4, <3>5, <3>6 DEF Customer, Like, Unlike, Save, Unsave, View, Share, Click,
         ChangeNothing, CommitChange
  <2>10. CASE UNCHANGED vars
    <3>1. UNCHANGED doing /\ reel'[r] = reel[r]
      BY <2>10 DEF vars, publishing
    <3> QED
      BY <2>1, <2>6, <3>1
  <2> QED
    BY <1>1, <2>7, <2>8, <2>9, <2>10 DEF Next
<1>2. Inv /\ [Next]_vars => [\A r \in Reels : IsSettled(r) => IsSettled(r)' \/ ~ Exists(r)']_vars
  BY <1>1
<1> QED
  BY <1>2, SpecInv, PTL DEF ArchivedStays, Spec

=============================================================================
