---------------------------- MODULE ScratchCards ----------------------------
(***************************************************************************)
(* Scratch-card campaigns of the Aranye backend: the administrators'       *)
(* requests, the distribution jobs they queue, the worker replicas that    *)
(* run these jobs, and the card assignments customers end up with.         *)
(*                                                                         *)
(* The shared state is the PostgreSQL database as COMMITTED: a transaction *)
(* changes the variables in the step that commits it.  A request that      *)
(* holds the card row FOR UPDATE from its first read is a single action.   *)
(* A worker transaction is several steps, because it reads rows it holds   *)
(* no lock on, and because it can be rolled back at any moment.  The row   *)
(* locks it holds meanwhile are `held` (cards its maintenance statements   *)
(* have updated) and `claimed` (its job).                                  *)
(*                                                                         *)
(* What happens inside one assignment (viewed, scratched, the redemption   *)
(* race) is in module Redemption; here an assignment is "live" from        *)
(* distribution until it is redeemed or expired.                           *)
(***************************************************************************)
EXTENDS Naturals, FiniteSets

CONSTANTS
  Cards,        \* ids a scratch card may be created under
  Users,        \* active customers
  Workers,      \* replicas of scripts/scratch_card_worker.py
  Windows,      \* the date windows administrators choose from
  MaxJobs,      \* bound: distribution jobs ever queued
  MaxTime,      \* bound: last instant of the clock
  MaxAttempts,  \* ScratchCardDistributionJob.max_attempts (3 in the code)
  MaxRetries,   \* bound: administrator retries of one job
  NoCard        \* the card of a job that does not exist yet

Window == [starts : Nat, ends : Nat, expires : Nat]

(***************************************************************************)
(* Windows satisfy the table's two date CHECK constraints.                 *)
(***************************************************************************)
ASSUME CampaignAssumption ==
  /\ MaxJobs \in Nat
  /\ MaxTime \in Nat
  /\ MaxAttempts \in Nat \ {0}
  /\ MaxRetries \in Nat
  /\ Windows \subseteq Window
  /\ \A d \in Windows : d.ends > d.starts /\ d.expires >= d.ends
  /\ NoCard \notin Cards

Jobs  == 1 .. MaxJobs   \* in the order of created_at
NoJob == 0
NoWindow == [starts |-> 0, ends |-> 0, expires |-> 0]

CardStatus == {"absent", "draft", "publishing", "scheduled", "active",
               "paused", "expired", "failed"}
JobStatus  == {"none", "pending", "completed", "failed"}
AsgStatus  == {"none", "live", "redeemed", "expired"}

VARIABLES
  now,        \* the database and worker clock
  card,       \* ScratchCard.status
  window,     \* ScratchCard.starts_at, ends_at, expires_at
  jobStatus,  \* ScratchCardDistributionJob.status
  jobCard,    \* its scratch_card_id
  attempts,   \* its attempts
  failures,   \* its failed_count
  retries,    \* history: accepted retry requests for the job
  asg,        \* the assignment of a card to a user
  notices,    \* notifications sent for that assignment
  pc,         \* where each worker replica is in its iteration
  started,    \* when its iteration began
  held,       \* cards its uncommitted maintenance updates have locked
  claimed,    \* the job row it has locked, or NoJob
  seen        \* the card status its failure path has read

cardVars == <<card, window>>
jobVars  == <<jobStatus, jobCard, attempts, failures, retries>>
asgVars  == <<asg, notices>>
txVars   == <<pc, started, held, claimed, seen>>
vars     == <<now, cardVars, jobVars, asgVars, txVars>>

TypeOK ==
  /\ now \in 0 .. MaxTime
  /\ card \in [Cards -> CardStatus]
  /\ window \in [Cards -> Windows \cup {NoWindow}]
  /\ jobStatus \in [Jobs -> JobStatus]
  /\ jobCard \in [Jobs -> Cards \cup {NoCard}]
  /\ attempts \in [Jobs -> Nat]
  /\ failures \in [Jobs -> Nat]
  /\ retries \in [Jobs -> 0 .. MaxRetries]
  /\ asg \in [Cards \X Users -> AsgStatus]
  /\ notices \in [Cards \X Users -> Nat]
  /\ pc \in [Workers -> {"idle", "claimed", "failing"}]
  /\ started \in [Workers -> 0 .. MaxTime]
  /\ held \in [Workers -> SUBSET Cards]
  /\ claimed \in [Workers -> Jobs \cup {NoJob}]
  /\ seen \in [Workers -> CardStatus]

Init ==
  /\ now = 0
  /\ card = [c \in Cards |-> "absent"]
  /\ window = [c \in Cards |-> NoWindow]
  /\ jobStatus = [j \in Jobs |-> "none"]
  /\ jobCard = [j \in Jobs |-> NoCard]
  /\ attempts = [j \in Jobs |-> 0]
  /\ failures = [j \in Jobs |-> 0]
  /\ retries = [j \in Jobs |-> 0]
  /\ asg = [p \in Cards \X Users |-> "none"]
  /\ notices = [p \in Cards \X Users |-> 0]
  /\ pc = [w \in Workers |-> "idle"]
  /\ started = [w \in Workers |-> 0]
  /\ held = [w \in Workers |-> {}]
  /\ claimed = [w \in Workers |-> NoJob]
  /\ seen = [w \in Workers |-> "absent"]

-----------------------------------------------------------------------------
(***************************************************************************)
(* Row locks held across the steps of a worker transaction.  A statement   *)
(* that needs such a row waits for the transaction to end.                 *)
(***************************************************************************)
Held(c)   == \E w \in Workers : c \in held[w]

ClaimsAreNotLocks(j) == FALSE   \* mutant: FOR UPDATE SKIP LOCKED dropped
Locked(j) == \E w \in Workers : claimed[w] = j

HeldByOther(w, c) == \E v \in Workers \ {w} : c \in held[v]

(***************************************************************************)
(* The two UPDATE statements of maintain_lifecycle on one card: the second *)
(* sees the first one's effect, so a scheduled card may go to active and   *)
(* on to expired at once.                                                  *)
(***************************************************************************)
Overdue(c, t) ==
  card[c] \in {"scheduled", "active", "paused"} /\ window[c].expires < t

Opened(c, t) == card[c] = "scheduled" /\ window[c].starts <= t

PausedNeverExpires(c, t) ==   \* mutant: PAUSED missing from the second UPDATE
  IF Overdue(c, t) /\ card[c] # "paused" THEN "expired"
  ELSE IF Opened(c, t) THEN "active" ELSE card[c]

Maintained(c, t) ==
  IF Overdue(c, t) THEN "expired"
  ELSE IF Opened(c, t) THEN "active" ELSE card[c]

Due(t) == {c \in Cards : Maintained(c, t) # card[c]}

(***************************************************************************)
(* What worker w's own transaction sees of the cards and the assignments:  *)
(* the committed rows under its maintenance updates.  Those are computed   *)
(* from the instant its iteration began and from rows it has locked.       *)
(***************************************************************************)
CardSeenBy(w) ==
  [c \in Cards |-> IF c \in held[w] THEN Maintained(c, started[w])
                                    ELSE card[c]]

EndsRedeemedToo(a) == IF a = "none" THEN a ELSE "expired"   \* mutant
EndOf(a) == IF a \in {"none", "redeemed"} THEN a ELSE "expired"

OnlyTheCardExpires(w) == asg   \* mutant: no third UPDATE
AsgSeenBy(w) ==
  [p \in Cards \X Users |->
     IF p[1] \in held[w] /\ Overdue(p[1], started[w]) THEN EndOf(asg[p])
                                                      ELSE asg[p]]

(***************************************************************************)
(* process_next_job claims the oldest row in one of these states that no   *)
(* other transaction has locked (FOR UPDATE SKIP LOCKED).                  *)
(***************************************************************************)
OneAttemptTooMany(j) ==   \* mutant: <= for <
  \/ jobStatus[j] = "pending"
  \/ jobStatus[j] = "failed" /\ attempts[j] <= MaxAttempts

Claimable(j) ==
  \/ jobStatus[j] = "pending"
  \/ jobStatus[j] = "failed" /\ attempts[j] < MaxAttempts

Free == {j \in Jobs : Claimable(j) /\ ~ Locked(j)}

NextJob(j) ==
  \/ j \in Free /\ \A k \in Free : j <= k
  \/ j = NoJob /\ Free = {}

PendingFor(c) == {j \in Jobs : jobCard[j] = c /\ jobStatus[j] = "pending"}

-----------------------------------------------------------------------------
(***************************************************************************)
(* Requests of an administrator.  Each locks the card row first and        *)
(* therefore waits while a worker holds it.                                *)
(***************************************************************************)
Insert(c, d) ==
  /\ card[c] = "absent"
  /\ card' = [card EXCEPT ![c] = "draft"]
  /\ window' = [window EXCEPT ![c] = d]
  /\ UNCHANGED <<now, jobVars, asgVars, txVars>>

CreateScratchCard(c) == \E d \in Windows : Insert(c, d)

DuplicateScratchCard(c, copy) ==
  /\ card[c] # "absent"
  /\ Insert(copy, window[c])

DeleteScratchCard(c) ==
  /\ card[c] = "draft"
  /\ ~ Held(c)
  /\ \A u \in Users : asg[<<c, u>>] = "none"
  /\ card' = [card EXCEPT ![c] = "absent"]
  /\ window' = [window EXCEPT ![c] = NoWindow]
  /\ UNCHANGED <<now, jobVars, asgVars, txVars>>

UpdateScratchCard(c) ==
  /\ card[c] \notin {"absent", "expired"}
  /\ ~ Held(c)
  /\ \E d \in Windows : window' = [window EXCEPT ![c] = d]
  /\ UNCHANGED <<now, card, jobVars, asgVars, txVars>>

PauseScratchCard(c) ==
  /\ card[c] \in {"active", "scheduled"}
  /\ ~ Held(c)
  /\ card' = [card EXCEPT ![c] = "paused"]
  /\ UNCHANGED <<now, window, jobVars, asgVars, txVars>>

(***************************************************************************)
(* A card that is made available opens at once unless its start is ahead.  *)
(***************************************************************************)
OpenStatus(c, t) == IF window[c].starts > t THEN "scheduled" ELSE "active"

ResumeScratchCard(c) ==
  /\ card[c] = "paused"
  /\ ~ Held(c)
  /\ card' = [card EXCEPT ![c] = OpenStatus(c, now)]
  /\ UNCHANGED <<now, window, jobVars, asgVars, txVars>>

ExpireScratchCard(c) ==
  /\ card[c] \notin {"absent", "expired"}
  /\ ~ Held(c)
  /\ card' = [card EXCEPT ![c] = "expired"]
  /\ asg' = [p \in Cards \X Users |-> IF p[1] = c THEN EndOf(asg[p]) ELSE asg[p]]
  /\ UNCHANGED <<now, window, jobVars, notices, txVars>>

(***************************************************************************)
(* enqueue_distribution.  RUNNING is a status no committed row has: the    *)
(* worker sets and leaves it within one transaction.                       *)
(***************************************************************************)
Distributable(c) ==
  /\ card[c] \notin {"absent", "paused", "expired"}
  /\ window[c].expires > now
  /\ PendingFor(c) = {}

QueuedStatus(s) == IF s \in {"draft", "failed"} THEN "publishing" ELSE s

AssignScratchCard(c) ==
  /\ Distributable(c)
  /\ ~ Held(c)
  /\ \E j \in Jobs :
       /\ jobStatus[j] = "none"
       /\ \A k \in 1 .. (j - 1) : jobStatus[k] # "none"
       /\ jobStatus' = [jobStatus EXCEPT ![j] = "pending"]
       /\ jobCard' = [jobCard EXCEPT ![j] = c]
  /\ card' = [card EXCEPT ![c] = QueuedStatus(@)]
  /\ UNCHANGED <<now, window, attempts, failures, retries, asgVars, txVars>>

(***************************************************************************)
(* retry_distribution_job locks the job but reads the card unlocked.  One  *)
(* step is enough: it writes PUBLISHING whatever it has read, and if it    *)
(* has read PUBLISHING it writes nothing, which is the outcome of its      *)
(* running before whoever changed the card meanwhile.                      *)
(***************************************************************************)
RetryDistributionJob(j) ==
  /\ jobStatus[j] = "failed"
  /\ ~ Locked(j)
  /\ ~ Held(jobCard[j])
  /\ retries[j] < MaxRetries
  /\ retries' = [retries EXCEPT ![j] = @ + 1]
  /\ jobStatus' = [jobStatus EXCEPT ![j] = "pending"]
  /\ card' = [card EXCEPT ![jobCard[j]] = "publishing"]
  /\ UNCHANGED <<now, window, jobCard, attempts, failures, asgVars, txVars>>

-----------------------------------------------------------------------------
(***************************************************************************)
(* A redemption commits with the card row locked and freshly read.  The    *)
(* assignment it checks may be an older version of the row (see module     *)
(* Redemption), so it can also hit an assignment that has since expired.   *)
(***************************************************************************)
Redeem(c, u) ==
  /\ asg[<<c, u>>] \in {"live", "expired"}
  /\ card[c] = "active"
  /\ window[c].starts <= now /\ now <= window[c].expires
  /\ ~ Held(c)
  /\ asg' = [asg EXCEPT ![<<c, u>>] = "redeemed"]
  /\ UNCHANGED <<now, cardVars, jobVars, notices, txVars>>

-----------------------------------------------------------------------------
(***************************************************************************)
(* One iteration of a worker is one transaction.  It starts by updating    *)
(* the cards that are due and by claiming a job.                           *)
(***************************************************************************)
ClaimIsCommitted(w) ==   \* mutant: RUNNING is committed before the attempt
  /\ pc[w] = "idle"
  /\ \E j \in Free :
       /\ claimed' = [claimed EXCEPT ![w] = j]
       /\ jobStatus' = [jobStatus EXCEPT ![j] = "running"]
  /\ pc' = [pc EXCEPT ![w] = "claimed"]
  /\ UNCHANGED <<now, cardVars, jobCard, attempts, failures, retries, asgVars,
                 started, held, seen>>

\* The UPDATEs lock the due rows one by one.  A replica that has some and waits
\* for more is still idle here: what it holds delays others, and the database
\* rolls it or another back (WorkerRollback) when they wait for each other.
WorkerBegin(w) ==
  /\ pc[w] = "idle"
  /\ \A c \in Due(now) : ~ Held(c)
  /\ \E j \in Jobs \cup {NoJob} :
       NextJob(j) /\ claimed' = [claimed EXCEPT ![w] = j]
  /\ pc' = [pc EXCEPT ![w] = "claimed"]
  /\ started' = [started EXCEPT ![w] = now]
  /\ held' = [held EXCEPT ![w] = Due(now)]
  /\ UNCHANGED <<now, cardVars, jobVars, asgVars, seen>>

\* The end of the transaction, committed or not: it releases its locks.
EndTransaction(w) ==
  /\ pc' = [pc EXCEPT ![w] = "idle"]
  /\ started' = [started EXCEPT ![w] = 0]
  /\ held' = [held EXCEPT ![w] = {}]
  /\ claimed' = [claimed EXCEPT ![w] = NoJob]
  /\ seen' = [seen EXCEPT ![w] = "absent"]

WorkerCommitNoJob(w) ==
  /\ pc[w] = "claimed" /\ claimed[w] = NoJob
  /\ card' = CardSeenBy(w)
  /\ asg' = AsgSeenBy(w)
  /\ EndTransaction(w)
  /\ UNCHANGED <<now, window, jobVars, notices>>

(***************************************************************************)
(* process_job and the commit.  The card is locked; its status is not      *)
(* looked at.  The audience is any set of users without an assignment (the *)
(* filters, the quantity and a clash of redemption codes choose it), and   *)
(* one notification is sent per assignment of this job.  The instant that  *)
(* decides scheduled or active was read before the lock was obtained.      *)
(***************************************************************************)
Audience(w, c) == {u \in Users : AsgSeenBy(w)[<<c, u>>] = "none"}

NotifiesTheWholeCard(p, c, sel) ==   \* mutant: selects by card, not by job
  p[1] = c /\ (p[2] \in sel \/ asg[p] # "none")
Notified(p, c, sel) == p[1] = c /\ p[2] \in sel

WorkerCommitJob(w) ==
  LET j == claimed[w]
      c == jobCard[j]
  IN /\ pc[w] = "claimed" /\ j # NoJob
     /\ ~ HeldByOther(w, c)
     /\ \E t \in started[w] .. now :
          card' = [CardSeenBy(w) EXCEPT ![c] = OpenStatus(c, t)]
     /\ \E sel \in SUBSET Audience(w, c) :
          /\ asg' = [p \in Cards \X Users |->
                       IF p[1] = c /\ p[2] \in sel THEN "live"
                                                   ELSE AsgSeenBy(w)[p]]
          /\ notices' = [p \in Cards \X Users |->
                           IF Notified(p, c, sel) THEN notices[p] + 1
                                                  ELSE notices[p]]
     /\ jobStatus' = [jobStatus EXCEPT ![j] = "completed"]
     /\ attempts' = [attempts EXCEPT ![j] = @ + 1]
     /\ EndTransaction(w)
     /\ UNCHANGED <<now, window, jobCard, failures, retries>>

(***************************************************************************)
(* process_job raises: the savepoint is rolled back, which releases the    *)
(* card row, and the failure path reads the card's status without a lock.  *)
(***************************************************************************)
WorkerAttemptFails(w) ==
  /\ pc[w] = "claimed" /\ claimed[w] # NoJob
  /\ pc' = [pc EXCEPT ![w] = "failing"]
  /\ seen' = [seen EXCEPT ![w] = CardSeenBy(w)[jobCard[claimed[w]]]]
  /\ UNCHANGED <<now, cardVars, jobVars, asgVars, started, held, claimed>>

(***************************************************************************)
(* The failure is recorded; the card row is written, FAILED, exactly when  *)
(* the status read was PUBLISHING, whatever the row holds by then.         *)
(***************************************************************************)
FailureLeavesTheCard(w) == FALSE   \* mutant
FailsTheCard(w) == seen[w] = "publishing"

WorkerCommitFailure(w) ==
  LET j == claimed[w]
      c == jobCard[j]
  IN /\ pc[w] = "failing"
     /\ FailsTheCard(w) => ~ HeldByOther(w, c)
     /\ card' = IF FailsTheCard(w) THEN [CardSeenBy(w) EXCEPT ![c] = "failed"]
                                   ELSE CardSeenBy(w)
     /\ asg' = AsgSeenBy(w)
     /\ jobStatus' = [jobStatus EXCEPT ![j] = "failed"]
     /\ attempts' = [attempts EXCEPT ![j] = @ + 1]
     /\ failures' = [failures EXCEPT ![j] = @ + 1]
     /\ EndTransaction(w)
     /\ UNCHANGED <<now, window, jobCard, retries, notices>>

(***************************************************************************)
(* A crash of the replica, or a statement outside the savepoint that       *)
(* fails: nothing of the iteration remains, not even the attempt.          *)
(***************************************************************************)

WorkerRollback(w) ==
  /\ pc[w] # "idle"
  /\ EndTransaction(w)
  /\ UNCHANGED <<now, cardVars, jobVars, asgVars>>

Tick ==
  /\ now < MaxTime
  /\ now' = now + 1
  /\ UNCHANGED <<cardVars, jobVars, asgVars, txVars>>

-----------------------------------------------------------------------------
AdminStep(c) ==
  \/ CreateScratchCard(c)
  \/ \E copy \in Cards : DuplicateScratchCard(c, copy)
  \/ DeleteScratchCard(c)
  \/ UpdateScratchCard(c)
  \/ PauseScratchCard(c)
  \/ ResumeScratchCard(c)
  \/ ExpireScratchCard(c)
  \/ AssignScratchCard(c)

WorkerFinishJob(w) == WorkerCommitJob(w) \/ WorkerCommitFailure(w)

WorkerStep(w) ==
  \/ WorkerBegin(w)
  \/ WorkerAttemptFails(w)
  \/ WorkerCommitNoJob(w)
  \/ WorkerFinishJob(w)
  \/ WorkerRollback(w)

Next ==
  \/ \E c \in Cards : AdminStep(c)
  \/ \E j \in Jobs : RetryDistributionJob(j)
  \/ \E c \in Cards, u \in Users : Redeem(c, u)
  \/ \E w \in Workers : WorkerStep(w)
  \/ Tick

Spec == Init /\ [][Next]_vars

(***************************************************************************)
(* The worker's loop runs for ever; it does not roll back every iteration  *)
(* that has a job, nor every one that has none.  Nothing is assumed of     *)
(* administrators, of customers or of the clock, and jobs may always fail. *)
(***************************************************************************)
WorkerFairness ==
  \A w \in Workers : /\ WF_vars(WorkerBegin(w))
                     /\ SF_vars(WorkerCommitNoJob(w))
                     /\ SF_vars(WorkerFinishJob(w))

FairSpec == Spec /\ WorkerFairness

-----------------------------------------------------------------------------
(***************************************************************************)
(* A card that shows "publishing" is being worked on: some job of it is    *)
(* pending.  Otherwise it would show "publishing" for ever, for no worker  *)
(* would look at it again and no request but a manual expiry applies.      *)
(* The failure path (process_next_job) and the retry request both decide   *)
(* on a card status they have not locked.                                  *)
(***************************************************************************)
PublishingHasPendingJob ==
  \A c \in Cards : card[c] = "publishing" => PendingFor(c) # {}

(***************************************************************************)
(* Customers hold nothing usable of an expired card, by whichever of the   *)
(* two paths it expired (maintain_lifecycle or the expire request) and     *)
(* whatever distributions ran at the same time.                            *)
(***************************************************************************)
ExpiredCardHasNoLiveAssignment ==
  \A c \in Cards, u \in Users : card[c] = "expired" => asg[<<c, u>>] # "live"

(***************************************************************************)
(* Everyone who got a card was told once, over reruns, failed attempts,    *)
(* rolled back iterations and several jobs for one card (process_job's     *)
(* INSERT ... SELECT of notifications; test line 258 checks equal counts). *)
(***************************************************************************)
NotifiedOncePerAssignment ==
  \A c \in Cards, u \in Users :
    notices[<<c, u>>] = IF asg[<<c, u>>] = "none" THEN 0 ELSE 1

(***************************************************************************)
(* A draft has never been distributed: deleting it, which cascades to its  *)
(* jobs and assignments, removes no job a worker may have claimed and no   *)
(* customer's card.                                                        *)
(***************************************************************************)
DraftIsUntouched ==
  \A c \in Cards : card[c] \in {"absent", "draft"} =>
    /\ \A j \in Jobs : jobStatus[j] # "none" => jobCard[j] # c
    /\ \A u \in Users : asg[<<c, u>>] = "none"

(***************************************************************************)
(* The counters of a job: every attempt but a successful last one is a     *)
(* recorded failure, whoever made it; a rolled back iteration counts as    *)
(* neither.                                                                *)
(***************************************************************************)
AttemptsAreAccountedFor ==
  \A j \in Jobs :
    attempts[j] = failures[j] + IF jobStatus[j] = "completed" THEN 1 ELSE 0

(***************************************************************************)
(* The retry ceiling: automatic retries stop at max_attempts, and an       *)
(* administrator's retry buys one attempt, however many replicas race for  *)
(* the job.                                                                *)
(***************************************************************************)
RetryCeiling == \A j \in Jobs : attempts[j] <= MaxAttempts + retries[j]

(***************************************************************************)
(* A completed job is never run, failed or retried again: with several     *)
(* replicas this is what FOR UPDATE SKIP LOCKED must ensure.               *)
(***************************************************************************)
CompletedJobIsFinal ==
  [][\A j \in Jobs : jobStatus[j] = "completed" =>
       jobStatus'[j] = "completed" /\ attempts'[j] = attempts[j]]_vars

(***************************************************************************)
(* README.md:81 "publication remains pending until a scratch-card worker   *)
(* is running": with a worker running, it does not remain pending.         *)
(***************************************************************************)
PublishingEnds == \A c \in Cards : card[c] = "publishing" ~> card[c] # "publishing"

(***************************************************************************)
(* A card past its expiry does not stay available: the next maintenance    *)
(* expires it, unless an administrator moves its window first.             *)
(***************************************************************************)
OverdueCardsAreExpired == \A c \in Cards : Overdue(c, now) ~> ~ Overdue(c, now)

-----------------------------------------------------------------------------
(***************************************************************************)
(* Each campaign, with all its jobs, replicas, crashes and maintenance     *)
(* statements, keeps the promises of Entitlements: whatever a worker's     *)
(* transaction does to several cards is, for each of them, one lapse, one  *)
(* distribution, or both.                                                  *)
(***************************************************************************)
E(c) == INSTANCE Entitlements WITH
          Holders <- Users,
          promise <- [u \in Users |-> asg[<<c, u>>]],
          open <- card[c] = "active"

KeepsPromises ==
  /\ \A c \in Cards : E(c)!Init
  /\ [][\A c \in Cards : [E(c)!Next]_(E(c)!vars)]_vars

=============================================================================
