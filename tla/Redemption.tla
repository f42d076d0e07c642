----------------------------- MODULE Redemption -----------------------------
(***************************************************************************)
(* Redeeming the assignments of ONE scratch card, at the grain of the row  *)
(* locks that the requests take.                                           *)
(*                                                                         *)
(* A redemption reads the assignment without a lock (redemption_preview),  *)
(* locks its row, and then locks the card.  The second SELECT returns the  *)
(* object the session already has, WITH THE ATTRIBUTES OF THE FIRST READ   *)
(* (the ORM does not refresh an object in its identity map), so the        *)
(* decision is made on a copy that may be stale: `copy`.  The card is read *)
(* afresh with its lock: `seen`.  Checking the limits, counting the day's  *)
(* redemptions and writing are statements of their own, and what is        *)
(* written is computed from `seen`; only the card's row lock keeps other   *)
(* redemptions and edits of the limits from coming between them.           *)
(*                                                                         *)
(* An expiry locks in the opposite order, card first and then each         *)
(* assignment, so the two can deadlock; PostgreSQL then rolls one of them  *)
(* back.                                                                   *)
(*                                                                         *)
(* The rest of the card's life (module ScratchCards) appears here as the   *)
(* actions that change its status.                                         *)
(***************************************************************************)
EXTENDS Naturals, FiniteSets

CONSTANTS
  Assignments,  \* one per customer the card was distributed to
  Requests,     \* redemption requests, each served once
  Limits,       \* values of the two limits; 0 stands for NULL
  EndDay,       \* the day of card.ends_at
  LastDay,      \* the day of card.expires_at
  MaxDay,       \* bound: last day of the clock
  Nobody,       \* the holder of a free row
  Expiry        \* the transaction that expires the card

ASSUME RedemptionAssumption ==
  /\ IsFiniteSet(Assignments)
  /\ Limits \subseteq Nat
  /\ EndDay \in Nat /\ LastDay \in Nat /\ MaxDay \in Nat
  /\ EndDay <= LastDay
  /\ Nobody \notin Requests /\ Expiry \notin Requests /\ Nobody # Expiry

Days  == 0 .. MaxDay
Never == MaxDay + 1   \* redeemed_at is NULL

Live      == {"assigned", "viewed", "scratched"}
AsgStatus == Live \cup {"none", "redeemed", "expired"}

VARIABLES
  today,       \* the date of the clock
  card,        \* ScratchCard.status
  total,       \* ScratchCard.total_redeemed
  totalLimit,  \* ScratchCard.total_redemption_limit
  dailyLimit,  \* ScratchCard.daily_redemption_limit
  asg,         \* ScratchCardAssignment.status
  scratched,   \* its scratched_at is set
  redeemedOn,  \* the date of its redeemed_at
  rowLock,     \* who holds the assignment's row lock
  cardLock,    \* who holds the card's row lock from one step to the next
  pc,          \* where each redemption request is
  target,      \* the assignment its code names
  copy,        \* the assignment as its preview has read it
  seen,        \* the card as it was read with its lock, and the date of `now`
  reply        \* how its transaction ended

rowVars == <<asg, scratched, redeemedOn>>
reqVars == <<pc, target, copy, seen, reply>>
vars    == <<today, card, total, totalLimit, dailyLimit, rowVars, rowLock,
             cardLock, reqVars>>

CardStatus == {"publishing", "active", "paused", "expired"}

Copies == [status : AsgStatus, redeemed : BOOLEAN]
Sights == [status : CardStatus, total : Nat, totalLimit : Nat, dailyLimit : Nat,
           day : Days]
NotSeen == [status |-> "publishing", total |-> 0, totalLimit |-> 0,
            dailyLimit |-> 0, day |-> 0]

\* A request in one of these states holds the card's row.
Holding == {"holding", "counted"}

TypeOK ==
  /\ today \in Days
  /\ card \in CardStatus
  /\ total \in Nat
  /\ totalLimit \in Limits /\ dailyLimit \in Limits
  /\ asg \in [Assignments -> AsgStatus]
  /\ scratched \in [Assignments -> BOOLEAN]
  /\ redeemedOn \in [Assignments -> Days \cup {Never}]
  /\ rowLock \in [Assignments -> Requests \cup {Nobody, Expiry}]
  /\ cardLock \in Requests \cup {Nobody, Expiry}
  /\ pc \in [Requests -> {"idle", "previewed", "locked", "done"} \cup Holding]
  /\ target \in [Requests -> Assignments]
  /\ copy \in [Requests -> Copies]
  /\ seen \in [Requests -> Sights]
  /\ reply \in [Requests -> {"none", "ok", "rejected", "aborted"}]

Init ==
  /\ today = 0
  /\ card = "publishing"
  /\ total = 0
  /\ totalLimit \in Limits /\ dailyLimit \in Limits
  /\ asg = [a \in Assignments |-> "none"]
  /\ scratched = [a \in Assignments |-> FALSE]
  /\ redeemedOn = [a \in Assignments |-> Never]
  /\ rowLock = [a \in Assignments |-> Nobody]
  /\ cardLock = Nobody
  /\ pc = [r \in Requests |-> "idle"]
  /\ target \in [Requests -> Assignments]
  /\ copy = [r \in Requests |-> [status |-> "none", redeemed |-> FALSE]]
  /\ seen = [r \in Requests |-> NotSeen]
  /\ reply = [r \in Requests |-> "none"]

-----------------------------------------------------------------------------
(***************************************************************************)
(* The distribution of a job and the administrator's requests, as far as   *)
(* they concern redemption.  Each waits for the card's row and holds it    *)
(* while it runs.                                                          *)
(***************************************************************************)
CardIsFree == cardLock = Nobody

Distribute ==
  /\ CardIsFree
  /\ card' = "active"
  /\ \E sel \in SUBSET {a \in Assignments : asg[a] = "none"} :
       asg' = [a \in Assignments |-> IF a \in sel THEN "assigned" ELSE asg[a]]
  /\ UNCHANGED <<today, total, totalLimit, dailyLimit, scratched, redeemedOn,
                 rowLock, cardLock, reqVars>>

Pause ==
  /\ CardIsFree
  /\ card = "active"
  /\ card' = "paused"
  /\ UNCHANGED <<today, total, totalLimit, dailyLimit, rowVars, rowLock,
                 cardLock, reqVars>>

Resume ==
  /\ CardIsFree
  /\ card = "paused"
  /\ card' = "active"
  /\ UNCHANGED <<today, total, totalLimit, dailyLimit, rowVars, rowLock,
                 cardLock, reqVars>>

UpdateLimits ==
  /\ CardIsFree
  /\ card # "expired"
  /\ totalLimit' \in Limits /\ dailyLimit' \in Limits
  /\ UNCHANGED <<today, card, total, rowVars, rowLock, cardLock, reqVars>>

-----------------------------------------------------------------------------
(***************************************************************************)
(* The customer's requests lock the assignment row and are over at once.   *)
(* They read the card without a lock, as last committed.  (One that waits  *)
(* for a redemption of its row decides on the card of the moment it began  *)
(* to wait; that is the outcome of its running before that redemption.)    *)
(***************************************************************************)
Visible(a) ==
  /\ card = "active"
  /\ today <= LastDay
  /\ ~ scratched[a] => today <= EndDay
  /\ asg[a] \notin {"none", "expired"}

MarkViewed(a) ==
  /\ rowLock[a] = Nobody
  /\ Visible(a)
  /\ asg[a] = "assigned"
  /\ asg' = [asg EXCEPT ![a] = "viewed"]
  /\ UNCHANGED <<today, card, total, totalLimit, dailyLimit, scratched,
                 redeemedOn, rowLock, cardLock, reqVars>>

Scratch(a) ==
  /\ rowLock[a] = Nobody
  /\ Visible(a)
  /\ ~ scratched[a]
  /\ scratched' = [scratched EXCEPT ![a] = TRUE]
  /\ asg' = [asg EXCEPT ![a] = "scratched"]
  /\ UNCHANGED <<today, card, total, totalLimit, dailyLimit, redeemedOn,
                 rowLock, cardLock, reqVars>>

-----------------------------------------------------------------------------
(***************************************************************************)
(* An expiry, by the administrator or by the worker's maintenance: UPDATE  *)
(* the card, UPDATE every assignment not yet redeemed, commit.  The second *)
(* statement locks one row after another.                                  *)
(***************************************************************************)
\* mutant: revealed assignments are kept
RevealedStays == {a \in Assignments : asg[a] \in {"assigned", "viewed"}}
\* mutant: no condition on the assignment's status
EveryAssignment == {a \in Assignments : asg[a] # "none"}
ToExpire == {a \in Assignments : asg[a] \notin {"none", "redeemed"}}

ExpiryLocksCard ==
  /\ CardIsFree
  /\ card # "expired"
  /\ cardLock' = Expiry
  /\ UNCHANGED <<today, card, total, totalLimit, dailyLimit, rowVars, rowLock,
                 reqVars>>

ExpiryLocksRow(a) ==
  /\ cardLock = Expiry
  /\ a \in ToExpire
  /\ rowLock[a] = Nobody
  /\ rowLock' = [rowLock EXCEPT ![a] = Expiry]
  /\ UNCHANGED <<today, card, total, totalLimit, dailyLimit, rowVars, cardLock,
                 reqVars>>

\* The rows of a transaction that has ended.
Released(who) ==
  [a \in Assignments |-> IF rowLock[a] = who THEN Nobody ELSE rowLock[a]]

ExpiryCommits ==
  /\ cardLock = Expiry
  /\ \A a \in ToExpire : rowLock[a] = Expiry
  /\ card' = "expired"
  /\ asg' = [a \in Assignments |-> IF a \in ToExpire THEN "expired" ELSE asg[a]]
  /\ rowLock' = Released(Expiry)
  /\ cardLock' = Nobody
  /\ UNCHANGED <<today, total, totalLimit, dailyLimit, scratched, redeemedOn,
                 reqVars>>

-----------------------------------------------------------------------------
(***************************************************************************)
(* A redemption.  Whether the actor may redeem this card's codes is left   *)
(* out: a request that may not ends here without a trace.                  *)
(***************************************************************************)
Preview(r) ==
  /\ pc[r] = "idle"
  /\ asg[target[r]] # "none"
  /\ copy' = [copy EXCEPT ![r] = [status   |-> asg[target[r]],
                                  redeemed |-> redeemedOn[target[r]] # Never]]
  /\ pc' = [pc EXCEPT ![r] = "previewed"]
  /\ UNCHANGED <<today, card, total, totalLimit, dailyLimit, rowVars, rowLock,
                 cardLock, target, seen, reply>>

LockAssignment(r) ==
  /\ pc[r] = "previewed"
  /\ rowLock[target[r]] = Nobody
  /\ rowLock' = [rowLock EXCEPT ![target[r]] = r]
  /\ pc' = [pc EXCEPT ![r] = "locked"]
  /\ UNCHANGED <<today, card, total, totalLimit, dailyLimit, rowVars, cardLock,
                 target, copy, seen, reply>>

GetsUnlocked(r) == TRUE   \* mutant: get_card without its FOR UPDATE
GetsCard(r) == CardIsFree

LockCard(r) ==
  /\ pc[r] = "locked"
  /\ GetsCard(r)
  /\ cardLock' = r
  /\ seen' = [seen EXCEPT ![r] =
                [status |-> card, total |-> total, totalLimit |-> totalLimit,
                 dailyLimit |-> dailyLimit, day |-> today]]
  /\ pc' = [pc EXCEPT ![r] = "holding"]
  /\ UNCHANGED <<today, card, total, totalLimit, dailyLimit, rowVars, rowLock,
                 target, copy, reply>>

RedeemedOnDay(d) == {a \in Assignments : redeemedOn[a] = d}

BelowTotalLimit(r) == seen[r].totalLimit # 0 => seen[r].total < seen[r].totalLimit

BelowDailyLimit(r) ==
  seen[r].dailyLimit # 0 =>
    Cardinality(RedeemedOnDay(seen[r].day)) < seen[r].dailyLimit

Revealed(r) == copy[r].status = "scratched"

Redeemable(r) ==
  /\ Revealed(r)
  /\ seen[r].status = "active" /\ seen[r].day <= LastDay
  /\ BelowTotalLimit(r)

ReleasedCard(r) == IF cardLock = r THEN Nobody ELSE cardLock

SuccessKeepsLock(r, what) ==   \* mutant: the transaction is left open
  /\ pc' = [pc EXCEPT ![r] = "done"]
  /\ reply' = [reply EXCEPT ![r] = what]
  /\ seen' = [seen EXCEPT ![r] = NotSeen]
  /\ rowLock' = IF what = "ok" THEN rowLock ELSE Released(r)
  /\ cardLock' = ReleasedCard(r)
  /\ UNCHANGED <<today, card, totalLimit, dailyLimit, scratched, target, copy>>

\* The transaction of request r ends with this reply, its locks released.
Answer(r, what) ==
  /\ pc' = [pc EXCEPT ![r] = "done"]
  /\ reply' = [reply EXCEPT ![r] = what]
  /\ seen' = [seen EXCEPT ![r] = NotSeen]
  /\ rowLock' = Released(r)
  /\ cardLock' = ReleasedCard(r)
  /\ UNCHANGED <<today, card, totalLimit, dailyLimit, scratched, target, copy>>

AlreadyRedeemed(r) ==
  /\ pc[r] = "holding"
  /\ copy[r].redeemed
  /\ Answer(r, "ok")
  /\ UNCHANGED <<total, asg, redeemedOn>>

RejectRedemption(r) ==
  /\ pc[r] = "holding"
  /\ ~ copy[r].redeemed
  /\ ~ (Redeemable(r) /\ BelowDailyLimit(r))
  /\ Answer(r, "rejected")
  /\ UNCHANGED <<total, asg, redeemedOn>>

\* The day's redemptions are counted by a statement of its own.
CountToday(r) ==
  /\ pc[r] = "holding"
  /\ ~ copy[r].redeemed
  /\ Redeemable(r) /\ BelowDailyLimit(r)
  /\ pc' = [pc EXCEPT ![r] = "counted"]
  /\ UNCHANGED <<today, card, total, totalLimit, dailyLimit, rowVars, rowLock,
                 cardLock, target, copy, seen, reply>>

Uncounted(r) == total       \* mutant: the counter is left alone
CountedDown(r) == total - 1   \* mutant
Counted(r) == seen[r].total + 1

Redeem(r) ==
  /\ pc[r] = "counted"
  /\ asg' = [asg EXCEPT ![target[r]] = "redeemed"]
  /\ redeemedOn' = [redeemedOn EXCEPT ![target[r]] = seen[r].day]
  /\ total' = Counted(r)
  /\ Answer(r, "ok")

(***************************************************************************)
(* PostgreSQL's deadlock detector: request r holds a row the expiry still  *)
(* wants and waits for the card the expiry holds.  Either may be chosen;   *)
(* the handler that loses answers 500 and its transaction is undone.       *)
(***************************************************************************)
Deadlocked(r) ==
  pc[r] = "locked" /\ cardLock = Expiry /\ target[r] \in ToExpire

AbortRedemption(r) ==
  /\ Deadlocked(r)
  /\ Answer(r, "aborted")
  /\ UNCHANGED <<total, asg, redeemedOn>>

AbortExpiry ==
  /\ \E r \in Requests : Deadlocked(r)
  /\ rowLock' = Released(Expiry)
  /\ cardLock' = Nobody
  /\ UNCHANGED <<today, card, total, totalLimit, dailyLimit, rowVars, reqVars>>

NextDay ==
  /\ today < MaxDay
  /\ today' = today + 1
  /\ UNCHANGED <<card, total, totalLimit, dailyLimit, rowVars, rowLock,
                 cardLock, reqVars>>

-----------------------------------------------------------------------------
RequestStep(r) ==
  \/ Preview(r) \/ LockAssignment(r) \/ LockCard(r)
  \/ AlreadyRedeemed(r) \/ RejectRedemption(r)
  \/ CountToday(r) \/ Redeem(r)
  \/ AbortRedemption(r)

ExpiryStep ==
  \/ ExpiryLocksCard
  \/ \E a \in Assignments : ExpiryLocksRow(a)
  \/ ExpiryCommits
  \/ AbortExpiry

Next ==
  \/ \E r \in Requests : RequestStep(r)
  \/ \E a \in Assignments : MarkViewed(a) \/ Scratch(a)
  \/ ExpiryStep
  \/ Distribute \/ Pause \/ Resume \/ UpdateLimits
  \/ NextDay

Spec == Init /\ [][Next]_vars

(***************************************************************************)
(* A transaction that has begun goes on; PostgreSQL queues the waiters of  *)
(* a row, so none is passed over for ever; a deadlock is detected.         *)
(***************************************************************************)
Finish(r) ==
  AlreadyRedeemed(r) \/ RejectRedemption(r) \/ CountToday(r) \/ Redeem(r)

Detect == AbortExpiry \/ \E r \in Requests : AbortRedemption(r)

FairSpec ==
  /\ Spec
  /\ \A r \in Requests :
       SF_vars(LockAssignment(r)) /\ SF_vars(LockCard(r)) /\ WF_vars(Finish(r))
  /\ \A a \in Assignments : SF_vars(ExpiryLocksRow(a))
  /\ WF_vars(ExpiryCommits)
  /\ WF_vars(Detect)

-----------------------------------------------------------------------------
Redeemed == {a \in Assignments : asg[a] = "redeemed"}

(***************************************************************************)
(* A redemption takes neither the counter nor the number of redeemed       *)
(* assignments past the total limit in force WHEN IT COMMITS, although the *)
(* limit it was checked with and the total it is counted on were read      *)
(* before, and other requests redeem and edit the limits meanwhile.        *)
(***************************************************************************)
TotalLimitRespected ==
  [][total' # total \/ Redeemed' # Redeemed =>
       \/ totalLimit = 0
       \/ total' <= totalLimit /\ Cardinality(Redeemed') <= totalLimit]_vars

(***************************************************************************)
(* A day that gains a redemption has no more of them than the daily limit  *)
(* in force at the commit, although the day's redemptions were counted     *)
(* before, and the date may have changed since `now` was taken.            *)
(***************************************************************************)
DailyLimitRespected ==
  [][\A d \in Days :
       ~ (RedeemedOnDay(d)' \subseteq RedeemedOnDay(d)) =>
         \/ dailyLimit = 0
         \/ Cardinality(RedeemedOnDay(d)') <= dailyLimit]_vars

(***************************************************************************)
(* No redemption escapes the counter that the total limit is compared      *)
(* with: every redeemed assignment is in total_redeemed.  What else it     *)
(* counts was answered "ok": a rejected or aborted request leaves no trace *)
(* in it, although a code may be counted twice (RedemptionsCountedOnce).   *)
(***************************************************************************)
Acknowledged == {r \in Requests : reply[r] = "ok"}

EveryRedemptionCounted ==
  Cardinality(Redeemed) <= total /\ total <= Cardinality(Acknowledged)

(***************************************************************************)
(* A code is worth something only once its card has been scratched, though *)
(* redeem looks at a copy of the assignment that may be out of date        *)
(* ("Scratch card must be revealed before redemption").                    *)
(***************************************************************************)
RedeemedWasRevealed == \A a \in Redeemed : scratched[a]

(***************************************************************************)
(* When a card has expired no assignment of it is live, although an expiry *)
(* takes its locks one by one while customers view, scratch and redeem.    *)
(***************************************************************************)
ExpiryIsComplete == card = "expired" => \A a \in Assignments : asg[a] \notin Live

(***************************************************************************)
(* Whoever was told "ok" can rely on it: the assignment is redeemed, and   *)
(* stays so, whatever expiries, deadlocks and other requests do.           *)
(***************************************************************************)
OkMeansRedeemed == \A r \in Requests : reply[r] = "ok" => target[r] \in Redeemed

(***************************************************************************)
(* Lock waits end: a redemption that has read its assignment is answered,  *)
(* also when it meets an expiry, which locks in the opposite order.        *)
(***************************************************************************)
RequestsAreAnswered == \A r \in Requests : pc[r] = "previewed" ~> pc[r] = "done"

(***************************************************************************)
(* tests/test_scratch_card_postgres.py:279 and :354 redeem a code twice    *)
(* and expect a total_redeemed of 1: redeeming is idempotent.              *)
(***************************************************************************)
RedemptionsCountedOnce == total = Cardinality(Redeemed)

-----------------------------------------------------------------------------
(***************************************************************************)
(* Views, scratches, row locks and stale copies implement the promises of  *)
(* Entitlements: an expiry that locks row after row is one lapse, and a    *)
(* redemption that waited for two locks is one redemption.                 *)
(***************************************************************************)
PromiseOf(a) == IF asg[a] \in Live THEN "live" ELSE asg[a]

E == INSTANCE Entitlements WITH
       Holders <- Assignments,
       promise <- [a \in Assignments |-> PromiseOf(a)],
       open <- card = "active"

KeepsPromises == E!Spec

=============================================================================
