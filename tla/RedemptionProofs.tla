-------------------------- MODULE RedemptionProofs --------------------------
(***************************************************************************)
(* Theorems about Redemption, for any number of assignments, redemption    *)
(* requests and days and any limits.                                       *)
(***************************************************************************)
EXTENDS Redemption, FiniteSetTheorems, TLAPS

USE DEF Days, Never, Live, AsgStatus, CardStatus, Copies, Sights, Holding

(***************************************************************************)
(* The rows a transaction releases are again held by somebody or nobody.   *)
(***************************************************************************)
LEMMA ReleasedType ==
  ASSUME TypeOK, NEW who
  PROVE  Released(who) \in [Assignments -> Requests \cup {Nobody, Expiry}]
  BY DEF TypeOK, Released

LEMMA NotSeenType == NotSeen \in Sights
  BY RedemptionAssumption DEF NotSeen

\* What a request leaves behind when it answers is well typed.
LEMMA AnswerType ==
  ASSUME TypeOK, NEW r \in Requests, NEW what \in {"ok", "rejected", "aborted"},
         Answer(r, what), total' \in Nat, asg' \in [Assignments -> AsgStatus],
         redeemedOn' \in [Assignments -> Days \cup {Never}]
  PROVE  TypeOK'
<1>1. /\ Released(r) \in [Assignments -> Requests \cup {Nobody, Expiry}]
      /\ ReleasedCard(r) \in Requests \cup {Nobody, Expiry}
  BY ReleasedType DEF TypeOK, ReleasedCard
<1> QED
  BY <1>1, NotSeenType DEF TypeOK, Answer

(***************************************************************************)
(* The types hold initially and every step preserves them.                 *)
(***************************************************************************)
LEMMA InitTypeOK == Init => TypeOK
<1> SUFFICES ASSUME Init PROVE TypeOK
  OBVIOUS
<1>1. seen \in [Requests -> Sights]
  BY NotSeenType DEF Init
<1>2. copy \in [Requests -> Copies]
  BY DEF Init
<1> QED
  BY <1>1, <1>2, RedemptionAssumption DEF Init, TypeOK

\* Every step keeps the types, for any number of requests and assignments.
LEMMA NextTypeOK == TypeOK /\ [Next]_vars => TypeOK'
<1> SUFFICES ASSUME TypeOK, [Next]_vars PROVE TypeOK'
  OBVIOUS
<1>1. ASSUME NEW r \in Requests, RequestStep(r) PROVE TypeOK'
  <2>1. CASE Preview(r)
    BY <2>1 DEF TypeOK, Preview, rowVars
  <2>2. CASE LockAssignment(r)
    BY <2>2 DEF TypeOK, LockAssignment, rowVars
  <2>3. CASE LockCard(r)
    <3>1. [status |-> card, total |-> total, totalLimit |-> totalLimit,
           dailyLimit |-> dailyLimit, day |-> today] \in Sights
      BY RedemptionAssumption DEF TypeOK
    <3> QED
      BY <2>3, <3>1 DEF TypeOK, LockCard, rowVars
  <2>4. CASE AlreadyRedeemed(r) \/ RejectRedemption(r) \/ AbortRedemption(r)
    BY <2>4, AnswerType DEF TypeOK, AlreadyRedeemed, RejectRedemption, AbortRedemption
  <2>5. CASE CountToday(r)
    BY <2>5 DEF TypeOK, CountToday, rowVars
  <2>6. CASE Redeem(r)
    <3>1. seen[r].total \in Nat /\ seen[r].day \in Days /\ target[r] \in Assignments
      BY DEF TypeOK
    <3>2. /\ total' \in Nat
          /\ asg' \in [Assignments -> AsgStatus]
          /\ redeemedOn' \in [Assignments -> Days \cup {Never}]
      BY <2>6, <3>1 DEF TypeOK, Redeem, Counted
    <3> QED
      BY <2>6, <3>2, AnswerType DEF Redeem
  <2> QED
    BY <1>1, <2>1, <2>2, <2>3, <2>4, <2>5, <2>6 DEF RequestStep
<1>2. ASSUME NEW a \in Assignments, MarkViewed(a) \/ Scratch(a) PROVE TypeOK'
  BY <1>2 DEF TypeOK, MarkViewed, Scratch, reqVars
<1>3. CASE ExpiryStep
  <2>1. CASE ExpiryLocksCard
    BY <2>1 DEF TypeOK, ExpiryLocksCard, rowVars, reqVars
  <2>2. ASSUME NEW a \in Assignments, ExpiryLocksRow(a) PROVE TypeOK'
    BY <2>2 DEF TypeOK, ExpiryLocksRow, rowVars, reqVars
  <2>3. CASE ExpiryCommits
    BY <2>3, ReleasedType DEF TypeOK, ExpiryCommits, reqVars
  <2>4. CASE AbortExpiry
    BY <2>4, ReleasedType DEF TypeOK, AbortExpiry, rowVars, reqVars
  <2> QED
    BY <1>3, <2>1, <2>2, <2>3, <2>4 DEF ExpiryStep
<1>4. CASE Distribute
  BY <1>4 DEF TypeOK, Distribute, reqVars
<1>5. CASE Pause \/ Resume
  BY <1>5 DEF TypeOK, Pause, Resume, rowVars, reqVars
<1>6. CASE UpdateLimits
  BY <1>6 DEF TypeOK, UpdateLimits, rowVars, reqVars
<1>7. CASE NextDay
  BY <1>7, RedemptionAssumption DEF TypeOK, NextDay, rowVars, reqVars
<1>8. CASE UNCHANGED vars
  BY <1>8 DEF TypeOK, vars, rowVars, reqVars
<1> QED
  BY <1>1, <1>2, <1>3, <1>4, <1>5, <1>6, <1>7, <1>8 DEF Next

\* Every variable keeps its type.
THEOREM Typing == Spec => []TypeOK
  BY InitTypeOK, NextTypeOK, PTL DEF Spec

-----------------------------------------------------------------------------
(***************************************************************************)
(* The inductive invariant.  The statuses below redeemed tell that a card  *)
(* was scratched, redeemed_at tells that the assignment is redeemed, and   *)
(* what a stale copy says of either is still true: that is why the         *)
(* decision on a stale copy is harmless for everything but the counter.    *)
(* What a request has read of the card with its lock is still so, and so   *)
(* is what it has decided by that: nobody else comes between the tests of  *)
(* the limits, the count and the write.                                    *)
(***************************************************************************)
Revealing == {"scratched", "redeemed"}

RowsAreTrue ==
  \A a \in Assignments :
    /\ asg[a] \in Revealing => scratched[a]
    /\ scratched[a] => asg[a] # "none"
    /\ redeemedOn[a] # Never => asg[a] = "redeemed"

CopiesAreTrue ==
  \A r \in Requests :
    /\ copy[r].status \in Revealing => scratched[target[r]]
    /\ copy[r].redeemed => asg[target[r]] = "redeemed"

HoldersKnow ==
  \A r \in Requests :
    /\ cardLock = r <=> pc[r] \in Holding
    /\ pc[r] \in Holding =>
         /\ seen[r].status = card /\ seen[r].total = total
         /\ seen[r].totalLimit = totalLimit /\ seen[r].dailyLimit = dailyLimit
    /\ pc[r] = "counted" => Redeemable(r) /\ BelowDailyLimit(r)

Inv ==
  RowsAreTrue /\ CopiesAreTrue /\ OkMeansRedeemed /\ ExpiryIsComplete /\ HoldersKnow

\* Nobody holds the card's row: then nobody is deciding on it.
LEMMA NobodyHolds ==
  ASSUME HoldersKnow, cardLock \in {Nobody, Expiry}
  PROVE  \A r \in Requests : pc[r] \notin Holding
  BY RedemptionAssumption DEF HoldersKnow

\* When no request holds the card after a step, there is nothing to know.
LEMMA NothingToKnow ==
  ASSUME cardLock' \in {Nobody, Expiry}, \A r \in Requests : pc'[r] \notin Holding
  PROVE  HoldersKnow'
  BY RedemptionAssumption DEF HoldersKnow

\* A request that holds the card's row stays the only one that decides on it.
LEMMA RequestKnows ==
  ASSUME TypeOK, HoldersKnow, NEW r \in Requests, RequestStep(r)
  PROVE  HoldersKnow'
<1> USE RedemptionAssumption
<1>1. CASE Preview(r) \/ LockAssignment(r)
  <2>1. /\ pc[r] \notin Holding /\ pc'[r] \notin Holding
        /\ \A q \in Requests : q # r => pc'[q] = pc[q] /\ copy'[q] = copy[q]
        /\ UNCHANGED <<card, total, totalLimit, dailyLimit, redeemedOn, cardLock, seen>>
    BY <1>1 DEF TypeOK, Preview, LockAssignment, rowVars
  <2> QED
    BY <2>1 DEF HoldersKnow, Redeemable, BelowTotalLimit, BelowDailyLimit, Revealed,
                RedeemedOnDay
<1>2. CASE LockCard(r)
  <2>1. \A q \in Requests : pc[q] \notin Holding
    BY <1>2, NobodyHolds DEF LockCard, GetsCard, CardIsFree
  <2>2. /\ cardLock' = r /\ pc' = [pc EXCEPT ![r] = "holding"]
        /\ seen' = [seen EXCEPT ![r] =
                      [status |-> card, total |-> total, totalLimit |-> totalLimit,
                       dailyLimit |-> dailyLimit, day |-> today]]
        /\ UNCHANGED <<card, total, totalLimit, dailyLimit>>
    BY <1>2 DEF LockCard
  <2> QED
    BY <2>1, <2>2 DEF TypeOK, HoldersKnow
<1>3. CASE CountToday(r)
  <2>1. /\ pc[r] = "holding" /\ pc' = [pc EXCEPT ![r] = "counted"]
        /\ Redeemable(r) /\ BelowDailyLimit(r)
        /\ UNCHANGED <<card, total, totalLimit, dailyLimit, redeemedOn, cardLock, seen, copy>>
    BY <1>3 DEF CountToday, rowVars
  <2>2. \A q \in Requests :
          /\ Redeemable(q)' <=> Redeemable(q)
          /\ BelowDailyLimit(q)' <=> BelowDailyLimit(q)
    BY <2>1 DEF Redeemable, BelowTotalLimit, BelowDailyLimit, Revealed, RedeemedOnDay
  <2>3. pc'[r] = "counted" /\ \A q \in Requests : q # r => pc'[q] = pc[q]
    BY <2>1 DEF TypeOK
  <2> QED
    BY <2>1, <2>2, <2>3 DEF HoldersKnow
<1>4. ASSUME NEW what, Answer(r, what), cardLock \in {r, Expiry} PROVE HoldersKnow'
  <2>1. \A q \in Requests : q # r => pc[q] \notin Holding
    BY <1>4 DEF HoldersKnow
  <2>2. \A q \in Requests : pc'[q] \notin Holding
    BY <1>4, <2>1 DEF TypeOK, Answer
  <2>3. cardLock' \in {Nobody, Expiry}
    BY <1>4 DEF Answer, ReleasedCard
  <2> QED
    BY <2>2, <2>3, NothingToKnow
<1>5. CASE AlreadyRedeemed(r) \/ RejectRedemption(r) \/ Redeem(r)
  <2>1. cardLock = r
    BY <1>5 DEF HoldersKnow, AlreadyRedeemed, RejectRedemption, Redeem
  <2> QED
    BY <1>4, <1>5, <2>1 DEF AlreadyRedeemed, RejectRedemption, Redeem
<1>6. CASE AbortRedemption(r)
  BY <1>4, <1>6 DEF AbortRedemption, Deadlocked
<1> QED
  BY <1>1, <1>2, <1>3, <1>5, <1>6 DEF RequestStep

\* Edits, distributions and expiries change the card only while no redemption
\* holds it; the customer's requests and the clock change nothing it has read.
LEMMA NextKnows == TypeOK /\ HoldersKnow /\ [Next]_vars => HoldersKnow'
<1> SUFFICES ASSUME TypeOK, HoldersKnow, [Next]_vars PROVE HoldersKnow'
  OBVIOUS
<1>1. ASSUME NEW r \in Requests, RequestStep(r) PROVE HoldersKnow'
  BY <1>1, RequestKnows
<1>2. CASE /\ cardLock \in {Nobody, Expiry} /\ cardLock' \in {Nobody, Expiry}
           /\ UNCHANGED pc
  BY <1>2, NobodyHolds, NothingToKnow
<1>3. CASE UNCHANGED <<card, total, totalLimit, dailyLimit, redeemedOn, cardLock, reqVars>>
  BY <1>3 DEF reqVars, HoldersKnow, Redeemable, BelowTotalLimit, BelowDailyLimit,
              Revealed, RedeemedOnDay
<1> QED
  BY <1>1, <1>2, <1>3
     DEF Next, MarkViewed, Scratch, ExpiryStep, ExpiryLocksCard, ExpiryLocksRow,
         ExpiryCommits, AbortExpiry, Deadlocked, Distribute, Pause, Resume, UpdateLimits,
         NextDay, CardIsFree, vars, rowVars, reqVars

(***************************************************************************)
(* What the invariant says of the requests survives every step that keeps  *)
(* the requests, unscratches nothing and undoes no redemption.             *)
(***************************************************************************)
LEMMA RequestsKept ==
  ASSUME TypeOK, CopiesAreTrue, OkMeansRedeemed, UNCHANGED reqVars,
         \A a \in Assignments : /\ scratched[a] => scratched'[a]
                                /\ asg[a] = "redeemed" => asg'[a] = "redeemed"
  PROVE  CopiesAreTrue' /\ OkMeansRedeemed'
<1>1. \A r \in Requests : target[r] \in Assignments
  BY DEF TypeOK
<1> QED
  BY <1>1 DEF CopiesAreTrue, OkMeansRedeemed, Redeemed, reqVars

(***************************************************************************)
(* A redemption request keeps the invariant.                               *)
(***************************************************************************)
LEMMA RequestKeepsInv ==
  ASSUME TypeOK, Inv, NEW r \in Requests, RequestStep(r)
  PROVE  RowsAreTrue' /\ CopiesAreTrue' /\ OkMeansRedeemed' /\ ExpiryIsComplete'
<1> USE DEF Inv, RowsAreTrue, CopiesAreTrue, OkMeansRedeemed, Redeemed,
            ExpiryIsComplete, Revealing
<1>1. target[r] \in Assignments
  BY DEF TypeOK
<1>2. CASE Preview(r)
  BY <1>1, <1>2 DEF TypeOK, Preview, rowVars
<1>3. CASE LockAssignment(r)
  BY <1>3 DEF TypeOK, LockAssignment, rowVars
<1>4. CASE LockCard(r) \/ CountToday(r)
  BY <1>4 DEF TypeOK, LockCard, CountToday, rowVars
<1>5. CASE AlreadyRedeemed(r)
  BY <1>1, <1>5 DEF TypeOK, AlreadyRedeemed, Answer
<1>6. CASE RejectRedemption(r)
  BY <1>6 DEF TypeOK, RejectRedemption, Answer
<1>7. CASE Redeem(r)
  <2>1. scratched[target[r]] /\ card # "expired" /\ seen[r].day \in Days
    BY <1>7 DEF TypeOK, HoldersKnow, Redeem, Redeemable, Revealed
  <2>2. /\ asg' = [asg EXCEPT ![target[r]] = "redeemed"]
        /\ redeemedOn' = [redeemedOn EXCEPT ![target[r]] = seen[r].day]
        /\ reply' = [reply EXCEPT ![r] = "ok"]
        /\ UNCHANGED <<card, scratched, target, copy>>
    BY <1>7 DEF Redeem, Answer
  <2> QED
    BY <1>1, <2>1, <2>2 DEF TypeOK
<1>8. CASE AbortRedemption(r)
  BY <1>8 DEF TypeOK, AbortRedemption, Answer
<1> QED
  BY <1>2, <1>3, <1>4, <1>5, <1>6, <1>7, <1>8 DEF RequestStep

\* Every step keeps the invariant: locks, copies and rows agree.
LEMMA NextInv == TypeOK /\ Inv /\ [Next]_vars => Inv'
<1> SUFFICES ASSUME TypeOK, Inv, [Next]_vars
             PROVE  RowsAreTrue' /\ CopiesAreTrue' /\ OkMeansRedeemed' /\ ExpiryIsComplete'
  BY NextKnows DEF Inv
<1> DEFINE Goal == RowsAreTrue' /\ CopiesAreTrue' /\ OkMeansRedeemed' /\ ExpiryIsComplete'
<1> USE DEF Inv
<1>1. ASSUME NEW r \in Requests, RequestStep(r) PROVE Goal
  BY <1>1, RequestKeepsInv
<1>2. ASSUME NEW a \in Assignments, MarkViewed(a) PROVE Goal
  <2>1. CopiesAreTrue' /\ OkMeansRedeemed'
    BY <1>2, RequestsKept DEF TypeOK, MarkViewed
  <2> QED
    BY <1>2, <2>1 DEF TypeOK, MarkViewed, Visible, RowsAreTrue, Revealing, ExpiryIsComplete
<1>3. ASSUME NEW a \in Assignments, Scratch(a) PROVE Goal
  <2>1. asg[a] # "redeemed"
    BY <1>3 DEF Scratch, RowsAreTrue, Revealing
  <2>2. CopiesAreTrue' /\ OkMeansRedeemed'
    BY <1>3, <2>1, RequestsKept DEF TypeOK, Scratch
  <2> QED
    BY <1>3, <2>1, <2>2 DEF TypeOK, Scratch, Visible, RowsAreTrue, Revealing, ExpiryIsComplete
<1>4. CASE ExpiryCommits
  <2>1. CopiesAreTrue' /\ OkMeansRedeemed'
    BY <1>4, RequestsKept DEF TypeOK, ExpiryCommits, ToExpire
  <2> QED
    BY <1>4, <2>1 DEF TypeOK, ExpiryCommits, ToExpire, RowsAreTrue, Revealing, ExpiryIsComplete
<1>5. CASE Distribute
  <2>1. CopiesAreTrue' /\ OkMeansRedeemed'
    BY <1>5, RequestsKept DEF TypeOK, Distribute
  <2> QED
    BY <1>5, <2>1 DEF TypeOK, Distribute, RowsAreTrue, Revealing, ExpiryIsComplete
<1>6. CASE /\ UNCHANGED <<rowVars, reqVars>>
           /\ card' = "expired" => card = "expired"
  BY <1>6 DEF rowVars, reqVars, RowsAreTrue, CopiesAreTrue, OkMeansRedeemed,
              Redeemed, ExpiryIsComplete
<1>7. \/ \E r \in Requests : RequestStep(r)
      \/ \E a \in Assignments : MarkViewed(a) \/ Scratch(a)
      \/ ExpiryCommits \/ Distribute
      \/ /\ UNCHANGED <<rowVars, reqVars>>
         /\ card' = "expired" => card = "expired"
  BY DEF Next, ExpiryStep, ExpiryLocksCard, ExpiryLocksRow, AbortExpiry, Pause,
         Resume, UpdateLimits, NextDay, vars
<1> QED
  BY <1>1, <1>2, <1>3, <1>4, <1>5, <1>6, <1>7

(***************************************************************************)
(* What holds of rows, copies and replies together holds always.           *)
(***************************************************************************)
LEMMA Invariance == Spec => [](TypeOK /\ Inv)
<1>1. Init => TypeOK /\ Inv
  BY InitTypeOK, RedemptionAssumption
     DEF Init, Inv, RowsAreTrue, CopiesAreTrue, OkMeansRedeemed, Redeemed,
         ExpiryIsComplete, HoldersKnow, Revealing
<1>2. TypeOK /\ Inv /\ [Next]_vars => (TypeOK /\ Inv)'
  BY NextTypeOK, NextInv
<1> QED
  BY <1>1, <1>2, PTL DEF Spec

(***************************************************************************)
(* No code is redeemed unless its card was scratched: redeem's check of a  *)
(* possibly stale status is good enough.                                   *)
(***************************************************************************)
THEOREM RevealedBeforeRedeemed == Spec => []RedeemedWasRevealed
<1>1. Inv => RedeemedWasRevealed
  BY DEF Inv, RowsAreTrue, RedeemedWasRevealed, Redeemed, Revealing
<1> QED
  BY <1>1, Invariance, PTL

(***************************************************************************)
(* An expired card leaves nobody a live assignment, although the expiry    *)
(* takes its row locks one after another.                                  *)
(***************************************************************************)
THEOREM ExpiryLeavesNothingLive == Spec => []ExpiryIsComplete
<1>1. Inv => ExpiryIsComplete
  BY DEF Inv
<1> QED
  BY <1>1, Invariance, PTL

(***************************************************************************)
(* A redemption that was acknowledged is never undone.                     *)
(***************************************************************************)
THEOREM AcknowledgedIsRedeemed == Spec => []OkMeansRedeemed
<1>1. Inv => OkMeansRedeemed
  BY DEF Inv
<1> QED
  BY <1>1, Invariance, PTL

-----------------------------------------------------------------------------
(***************************************************************************)
(* Only a redemption moves the counter, and only by one.                   *)
(***************************************************************************)
LEMMA OnlyRedeemCounts ==
  ASSUME TypeOK, [Next]_vars, total' # total
  PROVE  \E r \in Requests : Redeem(r)
  BY DEF Next, RequestStep, ExpiryStep, Preview, LockAssignment, AlreadyRedeemed,
         LockCard, CountToday, RejectRedemption, AbortRedemption, MarkViewed, Scratch,
         ExpiryLocksCard, ExpiryLocksRow, ExpiryCommits, AbortExpiry, Distribute, Pause,
         Resume, UpdateLimits, NextDay, vars

(***************************************************************************)
(* The counter covers all redeemed assignments, so the total limit bounds  *)
(* them too, although a code may be counted more than once.                *)
(***************************************************************************)
LEMMA RedeemedFinite ==
  ASSUME TypeOK
  PROVE  IsFiniteSet(Redeemed) /\ Cardinality(Redeemed) \in Nat
  BY RedemptionAssumption, FS_Subset, FS_CardinalityType DEF Redeemed

CountsRedeemed == Cardinality(Redeemed) <= total

\* Only a redemption adds to the redeemed assignments, and it counts itself.
LEMMA NextCounted ==
  TypeOK /\ Inv /\ CountsRedeemed /\ [Next]_vars => CountsRedeemed'
<1> SUFFICES ASSUME TypeOK, Inv, CountsRedeemed, [Next]_vars
             PROVE  CountsRedeemed'
  OBVIOUS
<1>1. ASSUME NEW r \in Requests, Redeem(r) PROVE CountsRedeemed'
  <2>1. total' = total + 1 /\ Redeemed' = Redeemed \cup {target[r]}
    BY <1>1 DEF TypeOK, Inv, HoldersKnow, Redeem, Counted, Redeemed
  <2>2. Cardinality(Redeemed \cup {target[r]}) \in {Cardinality(Redeemed), Cardinality(Redeemed) + 1}
    BY RedeemedFinite, FS_AddElement
  <2> QED
    BY <2>1, <2>2, RedeemedFinite DEF TypeOK, CountsRedeemed
<1>2. CASE total' = total /\ Redeemed' = Redeemed
  BY <1>2 DEF CountsRedeemed
<1>3. CASE total' = total
  <2>1. CASE \E a \in Assignments : MarkViewed(a)
    BY <1>2, <1>3, <2>1 DEF TypeOK, MarkViewed, Redeemed
  <2>2. CASE \E a \in Assignments : Scratch(a)
    BY <1>2, <1>3, <2>2 DEF TypeOK, Scratch, Redeemed, Inv, RowsAreTrue, Revealing
  <2>3. CASE ExpiryCommits
    BY <1>2, <1>3, <2>3 DEF TypeOK, ExpiryCommits, ToExpire, Redeemed
  <2>4. CASE Distribute
    BY <1>2, <1>3, <2>4 DEF TypeOK, Distribute, Redeemed
  <2>5. CASE \E r \in Requests : Redeem(r)
    BY <1>1, <2>5
  <2>6. CASE UNCHANGED asg
    BY <1>2, <1>3, <2>6 DEF Redeemed
  <2> QED
    BY <2>1, <2>2, <2>3, <2>4, <2>5, <2>6
       DEF Next, RequestStep, ExpiryStep, Preview, LockAssignment, LockCard,
           CountToday, AlreadyRedeemed, RejectRedemption, AbortRedemption, ExpiryLocksCard, ExpiryLocksRow,
           AbortExpiry, Pause, Resume, UpdateLimits, NextDay, vars, rowVars
<1> QED
  BY <1>1, <1>3, OnlyRedeemCounts

\* Who has been told "ok" is a finite set that only grows, and the counter grows
\* only with it: a request redeems once, and is answered in the same step.
CountsAcknowledged ==
  /\ IsFiniteSet(Acknowledged)
  /\ total <= Cardinality(Acknowledged)
  /\ \A r \in Acknowledged : pc[r] = "done"

\* A request that is answered "ok" joins those who were.
LEMMA OneMoreAcknowledged ==
  ASSUME TypeOK, CountsAcknowledged, NEW r \in Requests, pc[r] # "done", Answer(r, "ok"),
         total' = total \/ total' = total + 1
  PROVE  CountsAcknowledged'
<1>1. /\ r \notin Acknowledged
      /\ Acknowledged' = Acknowledged \cup {r}
      /\ \A q \in Acknowledged' : pc'[q] = "done"
  BY DEF TypeOK, CountsAcknowledged, Acknowledged, Answer
<1>2. /\ IsFiniteSet(Acknowledged \cup {r})
      /\ Cardinality(Acknowledged \cup {r}) = Cardinality(Acknowledged) + 1
  BY <1>1, FS_AddElement DEF CountsAcknowledged
<1>3. Cardinality(Acknowledged) \in Nat
  BY FS_CardinalityType DEF CountsAcknowledged
<1> QED
  BY <1>1, <1>2, <1>3 DEF TypeOK, CountsAcknowledged

\* A request that is answered otherwise, and everything else, counts nothing.
LEMMA NextAcknowledged ==
  TypeOK /\ Inv /\ CountsAcknowledged /\ [Next]_vars => CountsAcknowledged'
<1> SUFFICES ASSUME TypeOK, Inv, CountsAcknowledged, [Next]_vars PROVE CountsAcknowledged'
  OBVIOUS
<1>1. ASSUME NEW r \in Requests, Redeem(r) \/ AlreadyRedeemed(r) PROVE CountsAcknowledged'
  BY <1>1, OneMoreAcknowledged DEF Inv, HoldersKnow, Redeem, AlreadyRedeemed, Counted
<1>2. ASSUME total' = total, Acknowledged' = Acknowledged,
             \A r \in Acknowledged : pc'[r] = pc[r]
      PROVE  CountsAcknowledged'
  BY <1>2 DEF CountsAcknowledged
<1>3. ASSUME NEW r \in Requests, RejectRedemption(r) \/ AbortRedemption(r)
      PROVE  CountsAcknowledged'
  <2>1. r \notin Acknowledged
    BY <1>3 DEF CountsAcknowledged, RejectRedemption, AbortRedemption, Deadlocked
  <2>2. Acknowledged' = Acknowledged /\ \A q \in Acknowledged : pc'[q] = pc[q]
    BY <1>3, <2>1 DEF TypeOK, RejectRedemption, AbortRedemption, Answer, Acknowledged
  <2>3. total' = total
    BY <1>3 DEF RejectRedemption, AbortRedemption
  <2> QED
    BY <1>2, <2>2, <2>3
<1>4. ASSUME NEW r \in Requests, Preview(r) \/ LockAssignment(r) \/ LockCard(r) \/ CountToday(r)
      PROVE  CountsAcknowledged'
  <2>1. Acknowledged' = Acknowledged
    BY <1>4 DEF Preview, LockAssignment, LockCard, CountToday, Acknowledged
  <2>2. r \notin Acknowledged
    BY <1>4 DEF CountsAcknowledged, Preview, LockAssignment, LockCard, CountToday
  <2>3. \A q \in Acknowledged : pc'[q] = pc[q]
    <3>1. \A q \in Requests : q # r => pc'[q] = pc[q]
      BY <1>4 DEF TypeOK, Preview, LockAssignment, LockCard, CountToday
    <3> QED
      BY <2>2, <3>1 DEF Acknowledged
  <2>4. total' = total
    BY <1>4 DEF Preview, LockAssignment, LockCard, CountToday
  <2> QED
    BY <1>2, <2>1, <2>3, <2>4
<1>5. CASE UNCHANGED <<total, reqVars>>
  BY <1>2, <1>5 DEF reqVars, Acknowledged
<1> QED
  BY <1>1, <1>3, <1>4, <1>5
     DEF Next, RequestStep, MarkViewed, Scratch, ExpiryStep, ExpiryLocksCard,
         ExpiryLocksRow, ExpiryCommits, AbortExpiry, Distribute, Pause, Resume,
         UpdateLimits, NextDay, vars

\* At first nothing is redeemed, nobody has been told so, and nothing counted.
LEMMA InitCounts == Init => CountsRedeemed /\ CountsAcknowledged
<1> SUFFICES ASSUME Init PROVE CountsRedeemed /\ CountsAcknowledged
  OBVIOUS
<1>1. Redeemed = {} /\ Acknowledged = {}
  BY DEF Init, Redeemed, Acknowledged
<1> QED
  BY <1>1, FS_EmptySet DEF Init, CountsRedeemed, CountsAcknowledged

\* ScratchCardService.redeem never redeems without counting, and never counts
\* without telling the customer "ok": the counter that the total limit is
\* compared with lies between the redeemed assignments and the answers.
THEOREM CounterCoversRedemptions == Spec => []EveryRedemptionCounted
<1>1. Init => CountsRedeemed /\ CountsAcknowledged
  BY InitCounts
<1>2. CountsRedeemed /\ CountsAcknowledged => EveryRedemptionCounted
  BY DEF CountsRedeemed, CountsAcknowledged, EveryRedemptionCounted
<1> QED
  BY <1>1, <1>2, NextCounted, NextAcknowledged, Invariance, PTL DEF Spec

-----------------------------------------------------------------------------
(***************************************************************************)
(* Only a redemption adds to the redeemed assignments or to those of a     *)
(* day.                                                                    *)
(***************************************************************************)
LEMMA OnlyRedeemRedeems ==
  ASSUME TypeOK, Inv, [Next]_vars, ~ \E r \in Requests : Redeem(r)
  PROVE  Redeemed' = Redeemed /\ redeemedOn' = redeemedOn
<1>1. CASE \E a \in Assignments : MarkViewed(a) \/ Scratch(a)
  BY <1>1 DEF TypeOK, Inv, RowsAreTrue, Revealing, MarkViewed, Scratch, Redeemed
<1>2. CASE ExpiryCommits \/ Distribute
  BY <1>2 DEF TypeOK, ExpiryCommits, ToExpire, Distribute, Redeemed
<1>3. CASE UNCHANGED <<asg, redeemedOn>>
  BY <1>3 DEF Redeemed
<1> QED
  BY <1>1, <1>2, <1>3
     DEF Next, RequestStep, ExpiryStep, Preview, LockAssignment, LockCard, CountToday,
         AlreadyRedeemed, RejectRedemption, AbortRedemption, ExpiryLocksCard, ExpiryLocksRow,
         AbortExpiry, Pause, Resume, UpdateLimits, NextDay, vars, rowVars

(***************************************************************************)
(* The limit with which a redemption was checked is the one in force when  *)
(* it commits, and the total it counts on is the stored one: neither the   *)
(* counter nor the number of redeemed assignments passes the total limit.  *)
(***************************************************************************)
THEOREM TotalLimitHolds == Spec => TotalLimitRespected
<1>1. TypeOK /\ Inv /\ CountsRedeemed /\ [Next]_vars =>
        (total' # total \/ Redeemed' # Redeemed =>
           \/ totalLimit = 0
           \/ total' <= totalLimit /\ Cardinality(Redeemed') <= totalLimit)
  <2> SUFFICES ASSUME TypeOK, Inv, CountsRedeemed, [Next]_vars,
                      total' # total \/ Redeemed' # Redeemed, totalLimit # 0
               PROVE  total' <= totalLimit /\ Cardinality(Redeemed') <= totalLimit
    OBVIOUS
  <2>1. PICK r \in Requests : Redeem(r)
    BY OnlyRedeemCounts, OnlyRedeemRedeems
  <2>2. total < totalLimit /\ total' = total + 1
    BY <2>1 DEF Inv, HoldersKnow, Redeem, Redeemable, BelowTotalLimit, Counted
  <2>3. total' <= totalLimit
    BY <2>2, RedemptionAssumption DEF TypeOK
  <2>4. CountsRedeemed' /\ TypeOK'
    BY NextCounted, NextTypeOK
  <2>5. Cardinality(Redeemed') <= total' /\ Cardinality(Redeemed') \in Nat
    <3>1. Redeemed' \subseteq Assignments
      BY DEF Redeemed
    <3> QED
      BY <2>4, <3>1, RedemptionAssumption, FS_Subset, FS_CardinalityType DEF CountsRedeemed
  <2> QED
    BY <2>2, <2>3, <2>5, RedemptionAssumption DEF TypeOK
<1>2. Init => CountsRedeemed
  BY InitCounts
<1> QED
  BY <1>1, <1>2, NextCounted, Invariance, PTL DEF Spec, TotalLimitRespected

(***************************************************************************)
(* No day gains a redemption past the daily limit in force at the commit:  *)
(* what was counted is still so, because nobody else redeems meanwhile.    *)
(***************************************************************************)
THEOREM DailyLimitHolds == Spec => DailyLimitRespected
<1>1. TypeOK /\ Inv /\ [Next]_vars =>
        \A d \in Days : ~ (RedeemedOnDay(d)' \subseteq RedeemedOnDay(d)) =>
          \/ dailyLimit = 0
          \/ Cardinality(RedeemedOnDay(d)') <= dailyLimit
  <2> SUFFICES ASSUME TypeOK, Inv, [Next]_vars, NEW d \in Days, dailyLimit # 0,
                      ~ (RedeemedOnDay(d)' \subseteq RedeemedOnDay(d))
               PROVE  Cardinality(RedeemedOnDay(d)') <= dailyLimit
    OBVIOUS
  <2>1. PICK r \in Requests : Redeem(r)
    BY OnlyRedeemRedeems DEF RedeemedOnDay
  <2>2. redeemedOn' = [redeemedOn EXCEPT ![target[r]] = seen[r].day]
    BY <2>1 DEF Redeem
  <2>3. seen[r].day = d
    BY <2>2 DEF TypeOK, RedeemedOnDay
  <2>4. Cardinality(RedeemedOnDay(d)) < dailyLimit
    BY <2>1, <2>3 DEF Inv, HoldersKnow, Redeem, BelowDailyLimit
  <2>5. /\ IsFiniteSet(RedeemedOnDay(d))
        /\ Cardinality(RedeemedOnDay(d)) \in Nat
    BY RedemptionAssumption, FS_Subset, FS_CardinalityType DEF RedeemedOnDay
  <2>6. RedeemedOnDay(d)' = RedeemedOnDay(d) \cup {target[r]}
    BY <2>2, <2>3 DEF TypeOK, RedeemedOnDay
  <2>7. Cardinality(RedeemedOnDay(d) \cup {target[r]})
          \in {Cardinality(RedeemedOnDay(d)), Cardinality(RedeemedOnDay(d)) + 1}
    BY <2>5, FS_AddElement
  <2>8. dailyLimit \in Nat
    BY RedemptionAssumption DEF TypeOK
  <2> QED
    BY <2>4, <2>5, <2>6, <2>7, <2>8
<1> QED
  BY <1>1, Invariance, PTL DEF Spec, DailyLimitRespected

-----------------------------------------------------------------------------
(***************************************************************************)
(* Lock waits do not close for ever: redemption and expiry lock in         *)
(* opposite orders, and the only circle they can form is the one the       *)
(* database detects.                                                       *)
(***************************************************************************)
HeldRows ==
  \A a \in Assignments :
    /\ rowLock[a] = Expiry => cardLock = Expiry
    /\ \A r \in Requests :
         rowLock[a] = r => pc[r] \in {"locked"} \cup Holding /\ target[r] = a

\* The request, or the expiry, has a step that waits for nobody.
RequestGoesOn(r) ==
  \/ pc[r] = "previewed" /\ rowLock[target[r]] = Nobody
  \/ pc[r] = "locked" /\ CardIsFree
  \/ pc[r] \in Holding
  \/ Deadlocked(r)

ExpiryGoesOn ==
  /\ cardLock = Expiry
  /\ \/ \E a \in ToExpire : rowLock[a] = Nobody
     \/ \A a \in ToExpire : rowLock[a] = Expiry

SomeoneGoesOn ==
  cardLock = Expiry \/ (\E r \in Requests : pc[r] \in {"previewed", "locked"} \cup Holding)
    => ExpiryGoesOn \/ \E r \in Requests : RequestGoesOn(r)

\* A row is released with the transaction that has locked it.
LEMMA NextHeldRows == TypeOK /\ Inv /\ HeldRows /\ [Next]_vars => HeldRows'
<1> SUFFICES ASSUME TypeOK, Inv, HeldRows, [Next]_vars PROVE HeldRows'
  OBVIOUS
<1> USE RedemptionAssumption DEF HeldRows
<1>1. ASSUME NEW r \in Requests, Preview(r) \/ CountToday(r) PROVE HeldRows'
  BY <1>1 DEF TypeOK, Preview, CountToday
<1>2. ASSUME NEW r \in Requests, LockAssignment(r) PROVE HeldRows'
  BY <1>2 DEF TypeOK, LockAssignment
<1>3. ASSUME NEW r \in Requests, LockCard(r) PROVE HeldRows'
  BY <1>3 DEF TypeOK, LockCard, GetsCard, CardIsFree
<1>4. ASSUME NEW r \in Requests, NEW what, Answer(r, what) PROVE HeldRows'
  BY <1>4 DEF TypeOK, Answer, Released, ReleasedCard
<1>5. ASSUME NEW a \in Assignments, ExpiryLocksRow(a) PROVE HeldRows'
  BY <1>5 DEF TypeOK, ExpiryLocksRow, reqVars
<1>6. CASE ExpiryCommits \/ AbortExpiry
  BY <1>6 DEF TypeOK, ExpiryCommits, AbortExpiry, Released, reqVars
<1>7. CASE ExpiryLocksCard
  BY <1>7 DEF ExpiryLocksCard, reqVars
<1>8. CASE UNCHANGED <<rowLock, cardLock, reqVars>>
  BY <1>8 DEF reqVars
<1> QED
  BY <1>1, <1>2, <1>3, <1>4, <1>5, <1>6, <1>7, <1>8
     DEF Next, RequestStep, AlreadyRedeemed, RejectRedemption, Redeem, AbortRedemption,
         MarkViewed, Scratch, ExpiryStep, Distribute, Pause, Resume, UpdateLimits, NextDay, vars

\* Whenever a redemption or an expiry is under way, one of them has a step that
\* waits for nobody, or the database sees their deadlock: the opposite orders
\* of redeem and expire_card cost a rollback, never a standstill.
THEOREM RedemptionsNeverStall == Spec => []SomeoneGoesOn
<1>1. Init => HeldRows
  BY RedemptionAssumption DEF Init, HeldRows
<1>2. TypeOK /\ Inv /\ HeldRows => SomeoneGoesOn
  <2> SUFFICES ASSUME TypeOK, Inv, HeldRows, ~ ExpiryGoesOn,
                      \A r \in Requests : ~ RequestGoesOn(r)
               PROVE  /\ cardLock # Expiry
                      /\ \A r \in Requests : pc[r] \notin {"previewed", "locked"} \cup Holding
    BY DEF SomeoneGoesOn
  <2>1. \A r \in Requests : pc[r] \notin Holding
    BY DEF RequestGoesOn
  <2>2. cardLock # Expiry
    <3> SUFFICES ASSUME cardLock = Expiry PROVE FALSE
      OBVIOUS
    <3>1. PICK a \in ToExpire : rowLock[a] # Expiry /\ rowLock[a] # Nobody
      BY DEF ExpiryGoesOn
    <3>2. a \in Assignments /\ rowLock[a] \in Requests
      BY <3>1 DEF TypeOK, ToExpire
    <3>3. pc[rowLock[a]] = "locked" /\ target[rowLock[a]] = a
      BY <2>1, <3>2 DEF HeldRows
    <3> QED
      BY <3>1, <3>2, <3>3 DEF RequestGoesOn, Deadlocked
  <2>3. CardIsFree
    BY <2>1, <2>2 DEF TypeOK, Inv, HoldersKnow, CardIsFree
  <2>4. \A r \in Requests : pc[r] # "locked"
    BY <2>3 DEF RequestGoesOn
  <2>5. ASSUME NEW r \in Requests, pc[r] = "previewed" PROVE FALSE
    <3>1. rowLock[target[r]] \in Requests \cup {Expiry} /\ target[r] \in Assignments
      BY <2>5 DEF TypeOK, RequestGoesOn
    <3> QED
      BY <2>1, <2>2, <2>4, <3>1 DEF HeldRows
  <2> QED
    BY <2>1, <2>2, <2>4, <2>5
<1> QED
  BY <1>1, <1>2, NextHeldRows, Invariance, PTL DEF Spec

-----------------------------------------------------------------------------
(***************************************************************************)
(* The steps of Redemption are steps of Entitlements.  A lapse is what     *)
(* ExpiryCommits does, because by then it holds every row it is to end.    *)
(***************************************************************************)
Promised == [a \in Assignments |-> PromiseOf(a)]

\* Granting promises, with or without ending the live ones, is a move of
\* Entitlements.
LEMMA PlainMove ==
  ASSUME NEW S \in SUBSET {a \in Assignments : asg[a] = "none"},
         \/ \A a \in Assignments :
              PromiseOf(a)' = IF a \in S THEN "live" ELSE PromiseOf(a)
         \/ \A a \in Assignments :
              PromiseOf(a)' = IF a \in S THEN "live"
                              ELSE IF PromiseOf(a) = "live" THEN "expired" ELSE PromiseOf(a)
  PROVE  E!Move
<1>1. S \in SUBSET E!Unpromised
  BY DEF E!Unpromised, PromiseOf
<1>2. E!Grant(S, Promised) \/ E!Grant(S, E!Lapsed)
  BY DEF E!Grant, E!Lapsed, Promised
<1> QED
  BY <1>1, <1>2 DEF E!Move, Promised

\* A redemption is one of Entitlements, or changes no promise: a second
\* redemption of the same code.
LEMMA RedeemPromise ==
  ASSUME TypeOK, Inv, NEW r \in Requests, Redeem(r)
  PROVE  [E!Next]_(E!vars)
<1> DEFINE b == target[r]
<1>1. b \in Assignments /\ asg[b] # "none"
  BY DEF TypeOK, Inv, RowsAreTrue, CopiesAreTrue, HoldersKnow, Revealing, Redeem,
         Redeemable, Revealed
<1>2. /\ card = "active" /\ card' = card
      /\ asg' = [asg EXCEPT ![b] = "redeemed"]
  BY DEF Inv, HoldersKnow, Redeem, Redeemable, Answer
<1> HIDE DEF b
<1>3. [a \in Assignments |-> PromiseOf(a)]'
        = [[a \in Assignments |-> PromiseOf(a)] EXCEPT ![b] = "redeemed"]
  BY <1>1, <1>2 DEF TypeOK, PromiseOf
<1>4. CASE asg[b] = "redeemed"
  <2>1. asg' = asg
    BY <1>2, <1>4 DEF TypeOK
  <2> QED
    BY <1>2, <2>1 DEF E!vars, PromiseOf
<1>5. CASE asg[b] # "redeemed"
  <2>1. PromiseOf(b) \in {"live", "expired"}
    BY <1>1, <1>5 DEF TypeOK, PromiseOf
  <2>2. E!Redeem(b)
    BY <1>1, <1>2, <1>3, <2>1 DEF E!Redeem
  <2> QED
    BY <1>1, <2>2 DEF E!Next
<1> QED
  BY <1>4, <1>5

\* Every step is a step of Entitlements or a stutter.
LEMMA NextKeepsPromises == TypeOK /\ Inv /\ [Next]_vars => [E!Next]_(E!vars)
<1> SUFFICES ASSUME TypeOK, Inv, [Next]_vars PROVE [E!Next]_(E!vars)
  OBVIOUS
<1>1. ASSUME NEW r \in Requests, Redeem(r) PROVE [E!Next]_(E!vars)
  BY <1>1, RedeemPromise
<1>2. CASE Distribute
  <2>1. PICK S \in SUBSET {a \in Assignments : asg[a] = "none"} :
          asg' = [a \in Assignments |-> IF a \in S THEN "assigned" ELSE asg[a]]
    BY <1>2 DEF Distribute
  <2>2. \A a \in Assignments : PromiseOf(a)' = IF a \in S THEN "live" ELSE PromiseOf(a)
    BY <2>1 DEF PromiseOf
  <2> QED
    BY <2>2, PlainMove DEF E!Next
<1>3. CASE ExpiryCommits
  <2>1. \A a \in Assignments :
          PromiseOf(a)' = IF PromiseOf(a) = "live" THEN "expired" ELSE PromiseOf(a)
    BY <1>3 DEF TypeOK, ExpiryCommits, ToExpire, PromiseOf
  <2> DEFINE S == {}
  <2>2. /\ S \in SUBSET {a \in Assignments : asg[a] = "none"}
        /\ \A a \in Assignments :
             PromiseOf(a)' = IF a \in S THEN "live"
                             ELSE IF PromiseOf(a) = "live" THEN "expired" ELSE PromiseOf(a)
    BY <2>1
  <2> HIDE DEF S
  <2> QED
    BY <2>2, PlainMove DEF E!Next
<1>4. CASE \A a \in Assignments : PromiseOf(a)' = PromiseOf(a)
  <2> DEFINE S == {}
  <2>1. /\ S \in SUBSET {a \in Assignments : asg[a] = "none"}
        /\ \A a \in Assignments :
             PromiseOf(a)' = IF a \in S THEN "live" ELSE PromiseOf(a)
    BY <1>4
  <2> HIDE DEF S
  <2> QED
    BY <2>1, PlainMove DEF E!Next
<1>5. ASSUME NEW b \in Assignments, MarkViewed(b) \/ Scratch(b)
      PROVE  \A a \in Assignments : PromiseOf(a)' = PromiseOf(a)
  <2>1. asg[b] \in Live
    BY <1>5 DEF TypeOK, MarkViewed, Scratch, Visible, Inv, RowsAreTrue, Revealing
  <2>2. \E s \in Live : asg' = [asg EXCEPT ![b] = s]
    BY <1>5 DEF MarkViewed, Scratch
  <2> QED
    BY <2>1, <2>2 DEF TypeOK, PromiseOf
<1>6. CASE UNCHANGED asg
  BY <1>4, <1>6 DEF PromiseOf
<1> QED
  BY <1>1, <1>2, <1>3, <1>4, <1>5, <1>6
     DEF Next, RequestStep, ExpiryStep, Preview, LockAssignment, LockCard,
         CountToday, AlreadyRedeemed, RejectRedemption, AbortRedemption, ExpiryLocksCard, ExpiryLocksRow,
         AbortExpiry, Pause, Resume, UpdateLimits, NextDay, vars, rowVars

(***************************************************************************)
(* Redemption implements Entitlements.                                     *)
(***************************************************************************)
THEOREM ImplementsEntitlements == Spec => KeepsPromises
<1>1. Init => E!Init
  BY DEF Init, E!Init, PromiseOf
<1> QED
  BY <1>1, NextKeepsPromises, Invariance, PTL DEF Spec, KeepsPromises, E!Spec

=============================================================================
