------------------------- MODULE ScratchCardsProofs -------------------------
(***************************************************************************)
(* Theorems about ScratchCards, for any number of cards, users, replicas,  *)
(* jobs and retries and any date windows.                                  *)
(***************************************************************************)
EXTENDS ScratchCards, TLAPS

USE DEF Jobs, NoJob, CardStatus, JobStatus, AsgStatus

(***************************************************************************)
(* What a worker's transaction sees of a card is a card status, and it is  *)
(* "publishing" for exactly the cards committed as publishing: maintenance *)
(* neither starts nor ends a publication.                                  *)
(***************************************************************************)
LEMMA SeenCards ==
  ASSUME TypeOK, NEW w \in Workers
  PROVE  /\ CardSeenBy(w) \in [Cards -> CardStatus]
         /\ \A c \in Cards : CardSeenBy(w)[c] = "publishing" <=> card[c] = "publishing"
         /\ \A c \in Cards : CardSeenBy(w)[c] \in {"absent", "draft"}
                               <=> card[c] \in {"absent", "draft"}
  BY DEF TypeOK, CardSeenBy, Maintained, Overdue, Opened

(***************************************************************************)
(* What it sees of the assignments is well typed, and it sees an           *)
(* assignment exactly where one is committed.                              *)
(***************************************************************************)
LEMMA SeenAssignments ==
  ASSUME TypeOK, NEW w \in Workers
  PROVE  /\ AsgSeenBy(w) \in [Cards \X Users -> AsgStatus]
         /\ \A p \in Cards \X Users :
              /\ AsgSeenBy(w)[p] = "none" <=> asg[p] = "none"
              /\ AsgSeenBy(w)[p] = "live" => asg[p] = "live"
              /\ asg[p] = "redeemed" => AsgSeenBy(w)[p] = "redeemed"
  BY DEF TypeOK, AsgSeenBy, EndOf

\* The end of a worker's transaction keeps the types of what it resets.
LEMMA EndTyping ==
  ASSUME TypeOK, NEW w \in Workers, EndTransaction(w)
  PROVE  /\ pc' \in [Workers -> {"idle", "claimed", "failing"}]
         /\ started' \in [Workers -> 0 .. MaxTime]
         /\ held' \in [Workers -> SUBSET Cards]
         /\ claimed' \in [Workers -> Jobs \cup {NoJob}]
         /\ seen' \in [Workers -> CardStatus]
  BY CampaignAssumption DEF TypeOK, EndTransaction

-----------------------------------------------------------------------------
(***************************************************************************)
(* A job that exists belongs to a card, and a worker has claimed a job     *)
(* that exists.                                                            *)
(***************************************************************************)
References ==
  /\ \A j \in Jobs : jobStatus[j] # "none" => jobCard[j] \in Cards
  /\ \A w \in Workers : claimed[w] # NoJob => jobStatus[claimed[w]] # "none"
  /\ \A w \in Workers : pc[w] = "failing" => claimed[w] # NoJob

\* Every step keeps the references.
LEMMA NextReferences == TypeOK /\ References /\ [Next]_vars => References'
<1> SUFFICES ASSUME TypeOK, References, [Next]_vars PROVE References'
  OBVIOUS
<1> USE DEF TypeOK, References
<1>1. ASSUME NEW c \in Cards, AdminStep(c) PROVE References'
  <2>1. CASE AssignScratchCard(c)
    BY <2>1 DEF AssignScratchCard, txVars
  <2>2. CASE UNCHANGED <<jobVars, txVars>>
    BY <2>2 DEF jobVars, txVars
  <2> QED
    BY <1>1, <2>1, <2>2
       DEF AdminStep, CreateScratchCard, DuplicateScratchCard, Insert,
           DeleteScratchCard, UpdateScratchCard, PauseScratchCard,
           ResumeScratchCard, ExpireScratchCard
<1>2. ASSUME NEW j \in Jobs, RetryDistributionJob(j) PROVE References'
  BY <1>2 DEF RetryDistributionJob, txVars
<1>3. ASSUME NEW c \in Cards, NEW u \in Users, Redeem(c, u) PROVE References'
  BY <1>3 DEF Redeem, jobVars, txVars
<1>4. ASSUME NEW w \in Workers, WorkerStep(w) PROVE References'
  <2>1. CASE WorkerBegin(w)
    BY <2>1 DEF WorkerBegin, NextJob, Free, Claimable, jobVars
  <2>2. CASE WorkerAttemptFails(w)
    BY <2>2 DEF WorkerAttemptFails, jobVars
  <2>3. CASE WorkerCommitNoJob(w)
    BY <2>3 DEF WorkerCommitNoJob, EndTransaction, jobVars
  <2>4. CASE WorkerCommitJob(w)
    BY <2>4 DEF WorkerCommitJob, EndTransaction
  <2>5. CASE WorkerCommitFailure(w)
    <3>1. /\ jobCard' = jobCard
          /\ claimed' = [claimed EXCEPT ![w] = NoJob]
          /\ pc' = [pc EXCEPT ![w] = "idle"]
          /\ jobStatus' = [jobStatus EXCEPT ![claimed[w]] = "failed"]
      BY <2>5 DEF WorkerCommitFailure, EndTransaction
    <3> QED
      BY <3>1
  <2>6. CASE WorkerRollback(w)
    BY <2>6 DEF WorkerRollback, EndTransaction, jobVars
  <2> QED
    BY <1>4, <2>1, <2>2, <2>3, <2>4, <2>5, <2>6 DEF WorkerStep, WorkerFinishJob
<1>5. CASE Tick
  BY <1>5 DEF Tick, jobVars, txVars
<1>6. CASE UNCHANGED vars
  BY <1>6 DEF vars, jobVars, txVars
<1> QED
  BY <1>1, <1>2, <1>3, <1>4, <1>5, <1>6 DEF Next

(***************************************************************************)
(* The variables always have their types; in particular no job is ever     *)
(* committed as running and no card as archived.                           *)
(***************************************************************************)
LEMMA NextTypeOK == TypeOK /\ References /\ [Next]_vars => TypeOK'
<1> SUFFICES ASSUME TypeOK, References, [Next]_vars PROVE TypeOK'
  OBVIOUS
<1>1. ASSUME NEW c \in Cards, AdminStep(c) PROVE TypeOK'
  <2>1. CASE CreateScratchCard(c)
    BY <2>1 DEF TypeOK, CreateScratchCard, Insert, jobVars, asgVars, txVars
  <2>2. CASE \E copy \in Cards : DuplicateScratchCard(c, copy)
    BY <2>2 DEF TypeOK, DuplicateScratchCard, Insert, jobVars, asgVars, txVars
  <2>3. CASE DeleteScratchCard(c)
    BY <2>3 DEF TypeOK, DeleteScratchCard, jobVars, asgVars, txVars
  <2>4. CASE UpdateScratchCard(c)
    BY <2>4 DEF TypeOK, UpdateScratchCard, jobVars, asgVars, txVars
  <2>5. CASE PauseScratchCard(c)
    BY <2>5 DEF TypeOK, PauseScratchCard, jobVars, asgVars, txVars
  <2>6. CASE ResumeScratchCard(c)
    BY <2>6 DEF TypeOK, ResumeScratchCard, OpenStatus, jobVars, asgVars, txVars
  <2>7. CASE ExpireScratchCard(c)
    BY <2>7 DEF TypeOK, ExpireScratchCard, EndOf, jobVars, asgVars, txVars
  <2>8. CASE AssignScratchCard(c)
    BY <2>8 DEF TypeOK, AssignScratchCard, QueuedStatus, jobVars, asgVars, txVars
  <2> QED
    BY <1>1, <2>1, <2>2, <2>3, <2>4, <2>5, <2>6, <2>7, <2>8 DEF AdminStep
<1>2. ASSUME NEW j \in Jobs, RetryDistributionJob(j) PROVE TypeOK'
  <2>1. retries[j] + 1 \in 0 .. MaxRetries
    BY <1>2, CampaignAssumption DEF TypeOK, RetryDistributionJob
  <2> QED
    BY <1>2, <2>1 DEF TypeOK, RetryDistributionJob, asgVars, txVars
<1>3. ASSUME NEW c \in Cards, NEW u \in Users, Redeem(c, u) PROVE TypeOK'
  BY <1>3 DEF TypeOK, Redeem, cardVars, jobVars, txVars
<1>4. ASSUME NEW w \in Workers, WorkerStep(w) PROVE TypeOK'
  <2>1. CASE WorkerBegin(w)
    <3>1. Due(now) \subseteq Cards
      BY DEF Due
    <3> QED
      BY <2>1, <3>1 DEF TypeOK, WorkerBegin, cardVars, jobVars, asgVars
  <2>2. CASE WorkerAttemptFails(w)
    <3>1. jobCard[claimed[w]] \in Cards
      BY <2>2 DEF TypeOK, WorkerAttemptFails, References
    <3>2. CardSeenBy(w)[jobCard[claimed[w]]] \in CardStatus
      BY <3>1, SeenCards
    <3> QED
      BY <2>2, <3>2 DEF TypeOK, WorkerAttemptFails, cardVars, jobVars, asgVars
  <2>3. CASE WorkerCommitNoJob(w)
    BY <2>3, SeenCards, SeenAssignments, EndTyping DEF TypeOK, WorkerCommitNoJob, jobVars
  <2>4. CASE WorkerCommitJob(w)
    <3>1. PICK t \in started[w] .. now :
            card' = [CardSeenBy(w) EXCEPT ![jobCard[claimed[w]]] =
                       OpenStatus(jobCard[claimed[w]], t)]
      BY <2>4 DEF TypeOK, WorkerCommitJob
    <3>5. card' \in [Cards -> CardStatus]
      <4>1. OpenStatus(jobCard[claimed[w]], t) \in CardStatus
        BY DEF OpenStatus
      <4>2. CardSeenBy(w) \in [Cards -> CardStatus]
        BY SeenCards
      <4>3. jobCard[claimed[w]] \in Cards
        BY <2>4 DEF TypeOK, WorkerCommitJob, References
      <4> HIDE DEF CardStatus
      <4> QED
        BY <3>1, <4>1, <4>2, <4>3
    <3>2. asg' \in [Cards \X Users -> AsgStatus]
      <4>1. PICK sel : asg' = [p \in Cards \X Users |->
                                 IF p[1] = jobCard[claimed[w]] /\ p[2] \in sel
                                   THEN "live" ELSE AsgSeenBy(w)[p]]
        BY <2>4 DEF WorkerCommitJob
      <4>2. "live" \in AsgStatus
        OBVIOUS
      <4>3. AsgSeenBy(w) \in [Cards \X Users -> AsgStatus]
        BY SeenAssignments
      <4> HIDE DEF AsgStatus
      <4> QED
        BY <4>1, <4>2, <4>3
    <3>3. notices' \in [Cards \X Users -> Nat]
      BY <2>4 DEF TypeOK, WorkerCommitJob
    <3>4. /\ jobStatus' \in [Jobs -> JobStatus]
          /\ attempts' \in [Jobs -> Nat]
      BY <2>4 DEF TypeOK, WorkerCommitJob
    <3> QED
      BY <2>4, <3>5, <3>2, <3>3, <3>4, EndTyping DEF TypeOK, WorkerCommitJob
  <2>5. CASE WorkerCommitFailure(w)
    <3>1. card' \in [Cards -> CardStatus]
      BY <2>5, SeenCards DEF TypeOK, WorkerCommitFailure
    <3>2. jobStatus' \in [Jobs -> JobStatus]
      BY <2>5 DEF TypeOK, WorkerCommitFailure
    <3>3. claimed[w] \in Jobs
      BY <2>5 DEF TypeOK, WorkerCommitFailure, References
    <3>4. attempts' \in [Jobs -> Nat]
      BY <2>5, <3>3 DEF TypeOK, WorkerCommitFailure
    <3>5. failures' \in [Jobs -> Nat]
      BY <2>5, <3>3 DEF TypeOK, WorkerCommitFailure
    <3> QED
      BY <2>5, <3>1, <3>2, <3>4, <3>5, SeenAssignments, EndTyping DEF TypeOK, WorkerCommitFailure
  <2>6. CASE WorkerRollback(w)
    BY <2>6, EndTyping DEF TypeOK, WorkerRollback, cardVars, jobVars, asgVars
  <2> QED
    BY <1>4, <2>1, <2>2, <2>3, <2>4, <2>5, <2>6 DEF WorkerStep, WorkerFinishJob
<1>5. CASE Tick
  <2>1. now' \in 0..MaxTime
    BY <1>5, CampaignAssumption DEF TypeOK, Tick
  <2>2. UNCHANGED <<cardVars, jobVars, asgVars, txVars>>
    BY <1>5 DEF Tick
  <2> QED
    BY <2>1, <2>2 DEF TypeOK, cardVars, jobVars, asgVars, txVars
<1>6. CASE UNCHANGED vars
  BY <1>6 DEF TypeOK, vars, cardVars, jobVars, asgVars, txVars
<1> QED
  BY <1>1, <1>2, <1>3, <1>4, <1>5, <1>6 DEF Next

\* Every variable keeps its type, for any cards, users, workers and jobs.
THEOREM Typing == Spec => []TypeOK
<1>1. Init => TypeOK /\ References
  BY CampaignAssumption DEF Init, TypeOK, References
<1>2. TypeOK /\ References /\ [Next]_vars => TypeOK' /\ References'
  BY NextTypeOK, NextReferences
<1> QED
  BY <1>1, <1>2, PTL DEF Spec

-----------------------------------------------------------------------------
(***************************************************************************)
(* Why "publishing" is never stale.  The pending job that exists must not  *)
(* be one whose worker is about to fail it believing the card is not       *)
(* publishing, for that worker will not touch the card.                    *)
(***************************************************************************)
Attended ==
  \A c \in Cards : card[c] = "publishing" =>
    \E j \in Jobs : /\ jobCard[j] = c /\ jobStatus[j] = "pending"
                    /\ \A w \in Workers : pc[w] = "failing" /\ claimed[w] = j
                                            => seen[w] = "publishing"

\* A step that leaves jobs and transactions alone and publishes no card keeps it.
LEMMA AttendedByOthers ==
  ASSUME Attended, UNCHANGED <<jobVars, txVars>>,
         \A c \in Cards : card'[c] = "publishing" => card[c] = "publishing"
  PROVE  Attended'
  BY DEF Attended, jobVars, txVars

\* An administrator's request that queues a card queues a pending job for it.
LEMMA AttendedAfterAdmin ==
  ASSUME TypeOK, References, Attended, NEW c \in Cards, AdminStep(c)
  PROVE  Attended'
<1>1. CASE AssignScratchCard(c)
  <2>1. PICK j \in Jobs : /\ jobStatus[j] = "none"
                          /\ jobStatus' = [jobStatus EXCEPT ![j] = "pending"]
                          /\ jobCard' = [jobCard EXCEPT ![j] = c]
    BY <1>1 DEF AssignScratchCard
  <2>2. UNCHANGED <<pc, claimed, seen>>
    BY <1>1 DEF AssignScratchCard, txVars
  <2>3. \A w \in Workers : claimed[w] # j
    BY <2>1 DEF References
  <2>4. \A d \in Cards : card'[d] = "publishing" => d = c \/ card[d] = "publishing"
    BY <1>1 DEF AssignScratchCard, TypeOK
  <2>5. ASSUME NEW d \in Cards, card'[d] = "publishing", d # c
        PROVE  \E k \in Jobs : /\ jobCard'[k] = d /\ jobStatus'[k] = "pending"
                               /\ \A w \in Workers : pc'[w] = "failing" /\ claimed'[w] = k
                                                       => seen'[w] = "publishing"
    <3>1. PICK k \in Jobs : /\ jobCard[k] = d /\ jobStatus[k] = "pending"
                            /\ \A w \in Workers : pc[w] = "failing" /\ claimed[w] = k
                                                    => seen[w] = "publishing"
      BY <2>4, <2>5 DEF Attended
    <3>2. jobCard'[k] = d /\ jobStatus'[k] = "pending"
      BY <2>1, <3>1 DEF TypeOK
    <3> QED
      BY <2>2, <3>1, <3>2
  <2>6. /\ jobCard'[j] = c /\ jobStatus'[j] = "pending"
        /\ \A w \in Workers : claimed'[w] # j
    BY <2>1, <2>2, <2>3 DEF TypeOK
  <2> QED
    BY <2>5, <2>6 DEF Attended
<1>2. CASE ~ AssignScratchCard(c)
  <2>1. UNCHANGED <<jobVars, txVars>>
    BY <1>2 DEF AdminStep, CreateScratchCard, DuplicateScratchCard, Insert,
                DeleteScratchCard, UpdateScratchCard, PauseScratchCard,
                ResumeScratchCard, ExpireScratchCard
  <2>2. \A d \in Cards : card'[d] = "publishing" => card[d] = "publishing"
    BY <1>2 DEF TypeOK, AdminStep, CreateScratchCard, DuplicateScratchCard, Insert,
                DeleteScratchCard, UpdateScratchCard, PauseScratchCard,
                ResumeScratchCard, ExpireScratchCard, OpenStatus
  <2> QED
    BY <2>1, <2>2, AttendedByOthers
<1> QED
  BY <1>1, <1>2

\* A worker that ends a pending job takes its card out of publishing.
LEMMA AttendedAfterWorker ==
  ASSUME TypeOK, References, Attended, NEW w \in Workers, WorkerStep(w)
  PROVE  Attended'
<1> DEFINE Witness(k, d) ==
      /\ jobCard[k] = d /\ jobStatus[k] = "pending"
      /\ \A v \in Workers : pc[v] = "failing" /\ claimed[v] = k
                              => seen[v] = "publishing"
<1>0. SUFFICES ASSUME NEW d \in Cards, card'[d] = "publishing"
               PROVE  \E k \in Jobs : /\ jobCard'[k] = d /\ jobStatus'[k] = "pending"
                        /\ \A v \in Workers : pc'[v] = "failing" /\ claimed'[v] = k
                                                => seen'[v] = "publishing"
  BY DEF Attended
<1>1. CASE WorkerBegin(w)
  <2>1. PICK k \in Jobs : Witness(k, d)
    BY <1>0, <1>1 DEF Attended, WorkerBegin, cardVars
  <2> QED
    BY <1>1, <2>1 DEF WorkerBegin, jobVars, TypeOK
<1>2. CASE WorkerAttemptFails(w)
  <2>1. PICK k \in Jobs : Witness(k, d)
    BY <1>0, <1>2 DEF Attended, WorkerAttemptFails, cardVars
  <2>2. card[d] = "publishing"
    BY <1>0, <1>2 DEF WorkerAttemptFails, cardVars
  <2>3. claimed[w] = k => seen'[w] = "publishing"
    BY <1>2, <2>1, <2>2, SeenCards DEF WorkerAttemptFails, TypeOK
  <2> QED
    BY <1>2, <2>1, <2>3 DEF WorkerAttemptFails, jobVars, TypeOK
<1>3. CASE WorkerCommitNoJob(w)
  <2>1. card[d] = "publishing"
    BY <1>0, <1>3, SeenCards DEF WorkerCommitNoJob
  <2>2. PICK k \in Jobs : Witness(k, d)
    BY <2>1 DEF Attended
  <2> QED
    BY <1>3, <2>2 DEF WorkerCommitNoJob, EndTransaction, jobVars, TypeOK
<1>4. CASE WorkerCommitJob(w)
  <2>1. jobCard[claimed[w]] # d
    <3>1. PICK t \in started[w] .. now :
            card' = [CardSeenBy(w) EXCEPT ![jobCard[claimed[w]]] =
                       OpenStatus(jobCard[claimed[w]], t)]
      BY <1>4 DEF WorkerCommitJob
    <3> QED
      BY <1>0, <3>1, SeenCards DEF OpenStatus
  <2>2. card[d] = "publishing"
    BY <1>0, <1>4, <2>1, SeenCards DEF WorkerCommitJob
  <2>3. PICK k \in Jobs : Witness(k, d)
    BY <2>2 DEF Attended
  <2>4. jobStatus'[k] = "pending" /\ jobCard'[k] = d
    BY <1>4, <2>1, <2>3 DEF WorkerCommitJob, TypeOK
  <2> QED
    BY <1>4, <2>3, <2>4 DEF WorkerCommitJob, EndTransaction, TypeOK
<1>5. CASE WorkerCommitFailure(w)
  <2>1. card[d] = "publishing" /\ (FailsTheCard(w) => jobCard[claimed[w]] # d)
    BY <1>0, <1>5, SeenCards DEF WorkerCommitFailure
  <2>2. PICK k \in Jobs : Witness(k, d)
    BY <2>1 DEF Attended
  <2>3. k # claimed[w]
    BY <1>5, <2>1, <2>2 DEF WorkerCommitFailure, FailsTheCard
  <2>4. jobStatus'[k] = "pending" /\ jobCard'[k] = d
    BY <1>5, <2>2, <2>3 DEF WorkerCommitFailure, TypeOK
  <2> QED
    BY <1>5, <2>2, <2>4 DEF WorkerCommitFailure, EndTransaction, TypeOK
<1>6. CASE WorkerRollback(w)
  <2>1. PICK k \in Jobs : Witness(k, d)
    BY <1>0, <1>6 DEF Attended, WorkerRollback, cardVars
  <2> QED
    BY <1>6, <2>1 DEF WorkerRollback, EndTransaction, jobVars, TypeOK
<1> QED
  BY <1>1, <1>2, <1>3, <1>4, <1>5, <1>6 DEF WorkerStep, WorkerFinishJob

\* Every step keeps every publishing card attended.
LEMMA NextAttended == TypeOK /\ References /\ Attended /\ [Next]_vars => Attended'
<1> SUFFICES ASSUME TypeOK, References, Attended, [Next]_vars PROVE Attended'
  OBVIOUS
<1>1. ASSUME NEW j \in Jobs, RetryDistributionJob(j) PROVE Attended'
  <2>1. /\ \A w \in Workers : claimed[w] # j
        /\ UNCHANGED <<pc, claimed, seen, jobCard>>
        /\ jobStatus' = [jobStatus EXCEPT ![j] = "pending"]
        /\ \A d \in Cards : card'[d] = "publishing"
                              => d = jobCard[j] \/ card[d] = "publishing"
    BY <1>1 DEF RetryDistributionJob, Locked, txVars, TypeOK
  <2>2. \A k \in Jobs : jobStatus[k] = "pending" \/ k = j => jobStatus'[k] = "pending"
    BY <2>1 DEF TypeOK
  <2>3. ASSUME NEW d \in Cards, card[d] = "publishing"
        PROVE  \E k \in Jobs : /\ jobCard'[k] = d /\ jobStatus'[k] = "pending"
                 /\ \A v \in Workers : pc'[v] = "failing" /\ claimed'[v] = k
                                         => seen'[v] = "publishing"
    BY <2>1, <2>2, <2>3 DEF Attended
  <2> QED
    BY <2>1, <2>2, <2>3 DEF Attended
<1>2. ASSUME NEW c \in Cards, NEW u \in Users, Redeem(c, u) PROVE Attended'
  BY <1>2, AttendedByOthers DEF Redeem, cardVars
<1>3. CASE Tick
  BY <1>3, AttendedByOthers DEF Tick, cardVars
<1>4. CASE UNCHANGED vars
  BY <1>4, AttendedByOthers DEF vars, cardVars
<1> QED
  BY <1>1, <1>2, <1>3, <1>4, AttendedAfterAdmin, AttendedAfterWorker DEF Next

(***************************************************************************)
(* No card is stuck in "publishing" without a pending job, for any number  *)
(* of replicas failing jobs and administrators retrying them at once.      *)
(***************************************************************************)
THEOREM PublishingIsAttended == Spec => []PublishingHasPendingJob
<1>1. Init => TypeOK /\ References /\ Attended
  BY CampaignAssumption DEF Init, TypeOK, References, Attended
<1>2. TypeOK /\ References /\ Attended /\ [Next]_vars
        => TypeOK' /\ References' /\ Attended'
  BY NextTypeOK, NextReferences, NextAttended
<1>3. Attended => PublishingHasPendingJob
  BY DEF Attended, PublishingHasPendingJob, PendingFor
<1> QED
  BY <1>1, <1>2, <1>3, PTL DEF Spec

-----------------------------------------------------------------------------
(***************************************************************************)
(* The distribution jobs: who may work on one, and how often.              *)
(*                                                                         *)
(* What FOR UPDATE SKIP LOCKED gives: a claimed job has one worker, and as *)
(* its row is locked it is still one that may be claimed.                  *)
(***************************************************************************)
Claims ==
  /\ \A w \in Workers : claimed[w] # NoJob => Claimable(claimed[w])
  /\ \A v, w \in Workers : v # w /\ claimed[v] = claimed[w] => claimed[v] = NoJob

(***************************************************************************)
(* The counters of a job.  A pending job always has an attempt left, which *)
(* is why claiming it cannot break the ceiling.                            *)
(***************************************************************************)
Counters ==
  /\ AttemptsAreAccountedFor
  /\ RetryCeiling
  /\ \A j \in Jobs : /\ jobStatus[j] = "none" => attempts[j] = 0
                     /\ jobStatus[j] = "pending" => attempts[j] < MaxAttempts + retries[j]

-----------------------------------------------------------------------------
(***************************************************************************)
(* How a step can change a job: it is queued, retried, or the worker that  *)
(* has claimed it completes or fails it.                                   *)
(***************************************************************************)
Queues(j) ==
  /\ jobStatus[j] = "none" /\ jobStatus'[j] = "pending"
  /\ attempts'[j] = attempts[j] /\ failures'[j] = failures[j] /\ retries'[j] = retries[j]

Retries(j) ==
  /\ jobStatus[j] = "failed" /\ jobStatus'[j] = "pending"
  /\ \A w \in Workers : claimed[w] # j
  /\ attempts'[j] = attempts[j] /\ failures'[j] = failures[j]
  /\ retries'[j] = retries[j] + 1

Ends(w, j) ==
  /\ claimed[w] = j /\ claimed'[w] = NoJob
  /\ attempts'[j] = attempts[j] + 1 /\ retries'[j] = retries[j]
  /\ \/ jobStatus'[j] = "completed" /\ failures'[j] = failures[j]
     \/ jobStatus'[j] = "failed" /\ failures'[j] = failures[j] + 1

Keeps(j) ==
  /\ jobStatus'[j] = jobStatus[j] /\ attempts'[j] = attempts[j]
  /\ failures'[j] = failures[j] /\ retries'[j] = retries[j]

JobStep(j) == Keeps(j) \/ Queues(j) \/ Retries(j) \/ \E w \in Workers : Ends(w, j)

(***************************************************************************)
(* Every step of the system is one of these for every job, and a claim is  *)
(* only added to a free job or given up.                                   *)
(***************************************************************************)
ClaimStep ==
  \A w \in Workers :
    \/ claimed'[w] = claimed[w]
    \/ claimed'[w] = NoJob
    \/ /\ claimed'[w] \in Free
       /\ \A v \in Workers \ {w} : claimed'[v] = claimed[v]

\* An administrator's request queues a job or leaves all of them.
LEMMA AdminJobStep ==
  ASSUME TypeOK, NEW c \in Cards, AdminStep(c)
  PROVE  (\A j \in Jobs : JobStep(j)) /\ claimed' = claimed
<1>1. CASE AssignScratchCard(c)
  <2>1. PICK k \in Jobs : /\ jobStatus[k] = "none"
                          /\ jobStatus' = [jobStatus EXCEPT ![k] = "pending"]
    BY <1>1 DEF AssignScratchCard
  <2>2. UNCHANGED <<attempts, failures, retries, claimed>>
    BY <1>1 DEF AssignScratchCard, txVars
  <2> QED
    BY <2>1, <2>2 DEF TypeOK, JobStep, Keeps, Queues
<1>2. CASE ~ AssignScratchCard(c)
  <2>1. UNCHANGED <<jobVars, txVars>>
    BY <1>2 DEF AdminStep, CreateScratchCard, DuplicateScratchCard, Insert,
                DeleteScratchCard, UpdateScratchCard, PauseScratchCard,
                ResumeScratchCard, ExpireScratchCard
  <2> QED
    BY <2>1 DEF jobVars, txVars, JobStep, Keeps
<1> QED
  BY <1>1, <1>2

\* A worker's step ends the job it has claimed or leaves all of them.
LEMMA WorkerJobStep ==
  ASSUME TypeOK, References, NEW w \in Workers, WorkerStep(w)
  PROVE  (\A j \in Jobs : JobStep(j)) /\ ClaimStep
<1>1. CASE UNCHANGED jobVars
  <2>1. \A j \in Jobs : JobStep(j)
    BY <1>1 DEF jobVars, JobStep, Keeps
  <2>2. CASE WorkerBegin(w)
    <3>1. PICK j \in Jobs \cup {NoJob} :
            NextJob(j) /\ claimed' = [claimed EXCEPT ![w] = j]
      BY <2>2 DEF WorkerBegin
    <3> QED
      BY <2>1, <3>1 DEF TypeOK, ClaimStep, NextJob
  <2>3. CASE ~ WorkerBegin(w)
    <3>1. claimed' = claimed \/ claimed' = [claimed EXCEPT ![w] = NoJob]
      BY <2>3 DEF WorkerStep, WorkerFinishJob, WorkerAttemptFails, WorkerCommitNoJob,
                  WorkerCommitJob, WorkerCommitFailure, WorkerRollback, EndTransaction
    <3> QED
      BY <2>1, <3>1 DEF TypeOK, ClaimStep
  <2> QED
    BY <2>2, <2>3
<1>2. CASE WorkerFinishJob(w)
  <2> DEFINE k == claimed[w]
  <2>1. k \in Jobs
    BY <1>2 DEF TypeOK, References, WorkerFinishJob, WorkerCommitJob, WorkerCommitFailure
  <2>2. /\ claimed' = [claimed EXCEPT ![w] = NoJob]
        /\ attempts' = [attempts EXCEPT ![k] = @ + 1]
        /\ retries' = retries
        /\ \/ /\ jobStatus' = [jobStatus EXCEPT ![k] = "completed"]
              /\ failures' = failures
           \/ /\ jobStatus' = [jobStatus EXCEPT ![k] = "failed"]
              /\ failures' = [failures EXCEPT ![k] = @ + 1]
    BY <1>2 DEF WorkerFinishJob, WorkerCommitJob, WorkerCommitFailure, EndTransaction
  <2>3. claimed[w] = k
    OBVIOUS
  <2> HIDE DEF k
  <2>4. ClaimStep
    BY <2>2 DEF TypeOK, ClaimStep
  <2>5. ASSUME NEW j \in Jobs, j # k PROVE Keeps(j)
    BY <2>1, <2>2, <2>5 DEF TypeOK, Keeps
  <2>6. Ends(w, k)
    <3>1. /\ claimed[w] = k /\ claimed'[w] = NoJob
          /\ attempts'[k] = attempts[k] + 1 /\ retries'[k] = retries[k]
      BY <2>3, <2>1, <2>2 DEF TypeOK
    <3>2. \/ jobStatus'[k] = "completed" /\ failures'[k] = failures[k]
          \/ jobStatus'[k] = "failed" /\ failures'[k] = failures[k] + 1
      BY <2>1, <2>2 DEF TypeOK
    <3> QED
      BY <3>1, <3>2 DEF Ends
  <2> QED
    BY <2>4, <2>5, <2>6 DEF JobStep
<1> QED
  BY <1>1, <1>2 DEF WorkerStep, WorkerBegin, WorkerAttemptFails, WorkerCommitNoJob,
                    WorkerRollback

\* Every step treats every job in one of the four ways.
LEMMA EveryJobStep ==
  ASSUME TypeOK, References, [Next]_vars
  PROVE  (\A j \in Jobs : JobStep(j)) /\ ClaimStep
<1>1. ASSUME NEW c \in Cards, AdminStep(c)
      PROVE  (\A j \in Jobs : JobStep(j)) /\ ClaimStep
  BY <1>1, AdminJobStep DEF ClaimStep
<1>2. ASSUME NEW k \in Jobs, RetryDistributionJob(k)
      PROVE  (\A j \in Jobs : JobStep(j)) /\ ClaimStep
  <2>1. /\ claimed' = claimed
        /\ jobStatus[k] = "failed" /\ \A w \in Workers : claimed[w] # k
        /\ jobStatus' = [jobStatus EXCEPT ![k] = "pending"]
        /\ retries' = [retries EXCEPT ![k] = @ + 1]
        /\ UNCHANGED <<attempts, failures>>
    BY <1>2 DEF RetryDistributionJob, Locked, txVars
  <2>2. ClaimStep
    BY <2>1 DEF ClaimStep
  <2>3. Retries(k)
    BY <2>1 DEF TypeOK, Retries
  <2>4. ASSUME NEW j \in Jobs, j # k PROVE Keeps(j)
    BY <2>1, <2>4 DEF TypeOK, Keeps
  <2> QED
    BY <2>2, <2>3, <2>4 DEF JobStep
<1>3. CASE UNCHANGED <<jobVars, txVars>>
  BY <1>3 DEF jobVars, txVars, JobStep, Keeps, ClaimStep
<1> QED
  BY <1>1, <1>2, <1>3, WorkerJobStep DEF Next, Redeem, Tick, vars

-----------------------------------------------------------------------------
(***************************************************************************)
(* No job is claimed twice: a claim is only made on a free job, and a      *)
(* claimed job leaves its status only with its claim.                      *)
(***************************************************************************)
LEMMA NextClaims == TypeOK /\ References /\ Claims /\ [Next]_vars => Claims'
<1> SUFFICES ASSUME TypeOK, References, Claims, [Next]_vars PROVE Claims'
  OBVIOUS
<1>1. (\A j \in Jobs : JobStep(j)) /\ ClaimStep
  BY EveryJobStep
<1>2. \A w \in Workers : claimed[w] \in Jobs \cup {NoJob}
  BY DEF TypeOK
<1>3. NoJob \notin Jobs
  BY DEF NoJob, Jobs
<1>4. ASSUME NEW w \in Workers, NEW j \in Jobs, claimed'[w] = j PROVE Claimable(j)'
  <2>1. Claimable(j) /\ \A v \in Workers : claimed[v] = j => v = w
    BY <1>1, <1>2, <1>3, <1>4 DEF ClaimStep, Claims, Free, Locked
  <2>2. \A v \in Workers : ~ Ends(v, j)
    BY <1>3, <1>4, <2>1 DEF Ends
  <2>3. Keeps(j) \/ jobStatus'[j] = "pending"
    BY <1>1, <2>2 DEF JobStep, Queues, Retries
  <2> QED
    BY <2>1, <2>3 DEF Claimable, Keeps
<1>5. \A w \in Workers : claimed'[w] \in Jobs \cup {NoJob}
  BY <1>1, <1>2 DEF ClaimStep, Free
<1>6. ASSUME NEW v \in Workers, NEW w \in Workers, v # w, claimed'[v] = claimed'[w],
             claimed'[v] # NoJob
      PROVE  FALSE
  <2>1. claimed[v] # claimed[w] \/ claimed[v] = NoJob
    BY <1>6 DEF Claims
  <2>2. CASE claimed'[v] \in Free /\ claimed'[w] = claimed[w]
    BY <1>6, <2>2 DEF Free, Locked
  <2>3. CASE claimed'[w] \in Free /\ claimed'[v] = claimed[v]
    BY <1>6, <2>3 DEF Free, Locked
  <2>4. CASE claimed'[v] = claimed[v] /\ claimed'[w] = claimed[w]
    BY <1>6, <2>1, <2>4
  <2> QED
    BY <1>1, <1>6, <2>2, <2>3, <2>4 DEF ClaimStep
<1> QED
  BY <1>4, <1>5, <1>6 DEF Claims

(***************************************************************************)
(* The counters stay consistent, because the job a worker ends was still   *)
(* claimable when it ended.                                                *)
(***************************************************************************)
LEMMA NextCounters ==
  TypeOK /\ References /\ Claims /\ Counters /\ [Next]_vars => Counters'
<1> SUFFICES ASSUME TypeOK, References, Claims, Counters, [Next]_vars, NEW j \in Jobs
             PROVE  /\ attempts'[j] = failures'[j] + IF jobStatus'[j] = "completed" THEN 1 ELSE 0
                    /\ attempts'[j] <= MaxAttempts + retries'[j]
                    /\ jobStatus'[j] = "none" => attempts'[j] = 0
                    /\ jobStatus'[j] = "pending" => attempts'[j] < MaxAttempts + retries'[j]
  BY DEF Counters, AttemptsAreAccountedFor, RetryCeiling
<1>1. JobStep(j)
  BY EveryJobStep
<1>2. /\ attempts[j] \in Nat /\ failures[j] \in Nat /\ retries[j] \in Nat
      /\ MaxAttempts \in Nat \ {0}
  BY CampaignAssumption DEF TypeOK
<1>3. /\ attempts[j] = failures[j] + IF jobStatus[j] = "completed" THEN 1 ELSE 0
      /\ attempts[j] <= MaxAttempts + retries[j]
      /\ jobStatus[j] = "none" => attempts[j] = 0
      /\ jobStatus[j] = "pending" => attempts[j] < MaxAttempts + retries[j]
  BY DEF Counters, AttemptsAreAccountedFor, RetryCeiling
<1>4. CASE Keeps(j)
  BY <1>3, <1>4 DEF Keeps
<1>5. CASE Queues(j)
  BY <1>2, <1>3, <1>5 DEF Queues
<1>6. CASE Retries(j)
  BY <1>2, <1>3, <1>6 DEF Retries
<1>7. ASSUME NEW w \in Workers, Ends(w, j)
      PROVE  /\ attempts'[j] = failures'[j] + IF jobStatus'[j] = "completed" THEN 1 ELSE 0
             /\ attempts'[j] <= MaxAttempts + retries'[j]
             /\ jobStatus'[j] \notin {"none", "pending"}
  <2>1. Claimable(j)
    BY <1>7 DEF Ends, Claims, NoJob, Jobs
  <2> QED
    BY <1>2, <1>3, <1>7, <2>1 DEF Ends, Claimable
<1> QED
  BY <1>1, <1>4, <1>5, <1>6, <1>7 DEF JobStep

\* The claims and the counters are invariants of the specification.
LEMMA JobInvariance == Spec => [](TypeOK /\ References /\ Claims /\ Counters)
<1>1. Init => TypeOK /\ References
  BY CampaignAssumption DEF Init, TypeOK, References, Jobs, NoJob, CardStatus, JobStatus, AsgStatus
<1>2. Init => Claims /\ Counters
  BY CampaignAssumption DEF Init, Claims, Counters, AttemptsAreAccountedFor, RetryCeiling
<1> QED
  BY <1>1, <1>2, NextTypeOK, NextReferences, NextClaims, NextCounters, PTL DEF Spec

(***************************************************************************)
(* Every attempt is in the books, for any number of replicas, failures and *)
(* crashes.                                                                *)
(***************************************************************************)
THEOREM AttemptsAccounted == Spec => []AttemptsAreAccountedFor
<1>1. Counters => AttemptsAreAccountedFor
  BY DEF Counters
<1> QED
  BY <1>1, JobInvariance, PTL

(***************************************************************************)
(* A job is attempted at most max_attempts times, and once more for every  *)
(* retry an administrator asked for.                                       *)
(***************************************************************************)
THEOREM RetriesAreBounded == Spec => []RetryCeiling
<1>1. Counters => RetryCeiling
  BY DEF Counters
<1> QED
  BY <1>1, JobInvariance, PTL

(***************************************************************************)
(* A completed job is left alone for ever.                                 *)
(***************************************************************************)
THEOREM CompletionIsFinal == Spec => CompletedJobIsFinal
<1>1. TypeOK /\ References /\ Claims /\ [Next]_vars
        => \A j \in Jobs : jobStatus[j] = "completed" =>
             jobStatus'[j] = "completed" /\ attempts'[j] = attempts[j]
  <2> SUFFICES ASSUME TypeOK, References, Claims, [Next]_vars,
                      NEW j \in Jobs, jobStatus[j] = "completed"
               PROVE  Keeps(j)
    BY DEF Keeps
  <2>1. JobStep(j)
    BY EveryJobStep
  <2>2. \A w \in Workers : claimed[w] # j
    BY DEF Claims, Claimable, NoJob, Jobs
  <2> QED
    BY <2>1, <2>2 DEF JobStep, Queues, Retries, Ends
<1> QED
  BY <1>1, JobInvariance, PTL DEF Spec, CompletedJobIsFinal

-----------------------------------------------------------------------------
(***************************************************************************)
(* The replicas' maintenance.  Each replica updates the cards that are due *)
(* and keeps them locked to the end of its iteration; between the two an   *)
(* administrator, a redemption, the clock and other replicas go on.        *)
(***************************************************************************)
\* What a replica has updated still needs the update it has computed, and so is
\* due for every replica that begins later ...
HeldAreDue ==
  \A w \in Workers :
    /\ held[w] # {} => pc[w] # "idle" /\ started[w] <= now
    /\ held[w] \subseteq Due(started[w])

\* ... which waits: no two replicas have maintenance updates uncommitted.
MaintenanceIsExclusive == \A v, w \in Workers : v # w => held[v] = {} \/ held[w] = {}

\* A card that was due stays due while the clock goes on.
LEMMA DueStays ==
  ASSUME TypeOK, NEW t \in 0 .. MaxTime, NEW u \in 0 .. MaxTime, t <= u
  PROVE  Due(t) \subseteq Due(u)
<1> SUFFICES ASSUME NEW c \in Cards, Maintained(c, t) # card[c]
             PROVE  Maintained(c, u) # card[c]
  BY DEF Due
<1>1. window[c] \in Window \cup {NoWindow}
  BY CampaignAssumption DEF TypeOK
<1>2. window[c].starts \in Nat /\ window[c].expires \in Nat
  BY <1>1 DEF Window, NoWindow
<1>3. Overdue(c, t) => Overdue(c, u)
  BY <1>2, CampaignAssumption DEF Overdue
<1>4. Opened(c, t) => Opened(c, u)
  BY <1>2, CampaignAssumption DEF Opened
<1> QED
  BY <1>3, <1>4 DEF Maintained, Overdue, Opened

\* A step that changes no card that is held, and neither takes nor releases locks,
\* keeps it.
LEMMA HeldByOthers ==
  ASSUME TypeOK, HeldAreDue, UNCHANGED <<started, held>>, now' \in Nat, now <= now',
         \A w \in Workers : pc[w] # "idle" => pc'[w] # "idle",
         \A c \in Cards : Held(c) => card'[c] = card[c] /\ window'[c] = window[c]
  PROVE  HeldAreDue'
<1> SUFFICES ASSUME NEW w \in Workers
             PROVE  /\ held[w] # {} => pc'[w] # "idle" /\ started[w] <= now'
                    /\ \A c \in held[w] : c \in Cards /\ (c \in Due(started[w]))'
  BY DEF HeldAreDue, Due
<1>1. \A c \in held[w] : c \in Cards /\ c \in Due(started[w]) /\ Held(c)
  BY DEF HeldAreDue, TypeOK, Held
<1>2. \A c \in held[w] : Maintained(c, started[w])' # card'[c]
  BY <1>1 DEF Due, Maintained, Overdue, Opened
<1>3. held[w] # {} => pc'[w] # "idle" /\ started[w] <= now'
  BY CampaignAssumption DEF HeldAreDue, TypeOK
<1>4. \A c \in held[w] : (c \in Due(started[w]))'
  BY <1>1, <1>2 DEF Due
<1> QED
  BY <1>1, <1>3, <1>4

\* A replica that ends, committed or not, writes no card that another holds.
LEMMA HeldAfterEnd ==
  ASSUME TypeOK, HeldAreDue, NEW w \in Workers, EndTransaction(w), UNCHANGED <<now, window>>,
         \A c \in Cards : HeldByOther(w, c) => card'[c] = card[c]
  PROVE  HeldAreDue'
<1>1. /\ held'[w] = {}
      /\ \A v \in Workers \ {w} :
           held'[v] = held[v] /\ pc'[v] = pc[v] /\ started'[v] = started[v]
  BY DEF TypeOK, EndTransaction
<1>2. ASSUME NEW v \in Workers, v # w
      PROVE  /\ held[v] # {} => pc[v] # "idle" /\ started[v] <= now
             /\ \A c \in held[v] : c \in Cards /\ (c \in Due(started[v]))'
  <2>1. \A c \in held[v] : c \in Cards /\ c \in Due(started[v]) /\ HeldByOther(w, c)
    BY <1>2 DEF HeldAreDue, TypeOK, HeldByOther
  <2>2. \A c \in held[v] : Maintained(c, started[v])' # card'[c]
    BY <1>1, <1>2, <2>1 DEF Due, Maintained, Overdue, Opened
  <2> QED
    BY <2>1, <2>2 DEF HeldAreDue, Due
<1> QED
  BY <1>1, <1>2 DEF HeldAreDue, Due

\* Every step keeps both.
LEMMA NextMaintenance ==
  TypeOK /\ References /\ HeldAreDue /\ MaintenanceIsExclusive /\ [Next]_vars
    => HeldAreDue' /\ MaintenanceIsExclusive'
<1> SUFFICES ASSUME TypeOK, References, HeldAreDue, MaintenanceIsExclusive, [Next]_vars
             PROVE  HeldAreDue' /\ MaintenanceIsExclusive'
  OBVIOUS
<1>1. ASSUME UNCHANGED <<now, txVars>>,
             \A c \in Cards : Held(c) => card'[c] = card[c] /\ window'[c] = window[c]
      PROVE  HeldAreDue' /\ MaintenanceIsExclusive'
  <2>1. now \in Nat
    BY CampaignAssumption DEF TypeOK
  <2> QED
    BY <1>1, <2>1, HeldByOthers DEF txVars, MaintenanceIsExclusive
<1>2. ASSUME NEW c \in Cards, AdminStep(c) PROVE HeldAreDue' /\ MaintenanceIsExclusive'
  <2>1. UNCHANGED <<now, txVars>>
    BY <1>2 DEF AdminStep, CreateScratchCard, DuplicateScratchCard, Insert, DeleteScratchCard,
       UpdateScratchCard, PauseScratchCard, ResumeScratchCard, ExpireScratchCard,
       AssignScratchCard
  <2>2. \A d \in Cards : Held(d) => card[d] # "absent"
    <3>1. ASSUME NEW d \in Cards, NEW w \in Workers, d \in held[w] PROVE card[d] # "absent"
      BY <3>1 DEF HeldAreDue, Due, Maintained, Overdue, Opened
    <3> QED
      BY <3>1 DEF Held
  <2>3. \E d \in Cards :
          /\ card[d] = "absent" \/ ~ Held(d)
          /\ \A x \in Cards : x # d => card'[x] = card[x] /\ window'[x] = window[x]
    <3>1. ASSUME NEW d \in Cards, NEW win, Insert(d, win)
          PROVE  /\ card[d] = "absent"
                 /\ \A x \in Cards : x # d => card'[x] = card[x] /\ window'[x] = window[x]
      BY <3>1 DEF Insert, TypeOK
    <3>2. CASE CreateScratchCard(c) \/ \E copy \in Cards : DuplicateScratchCard(c, copy)
      BY <3>1, <3>2 DEF CreateScratchCard, DuplicateScratchCard
    <3>3. CASE ~ (CreateScratchCard(c) \/ \E copy \in Cards : DuplicateScratchCard(c, copy))
      <4>1. ~ Held(c) /\ \A x \in Cards : x # c => card'[x] = card[x] /\ window'[x] = window[x]
        BY <1>2, <3>3 DEF AdminStep, DeleteScratchCard, UpdateScratchCard, PauseScratchCard,
           ResumeScratchCard, ExpireScratchCard, AssignScratchCard, TypeOK
      <4> QED
        BY <4>1
    <3> QED
      BY <3>2, <3>3
  <2>4. \A x \in Cards : Held(x) => card'[x] = card[x] /\ window'[x] = window[x]
    BY <2>2, <2>3
  <2> QED
    BY <1>1, <2>1, <2>4
<1>3. ASSUME NEW j \in Jobs, RetryDistributionJob(j)
      PROVE  HeldAreDue' /\ MaintenanceIsExclusive'
  <2>1. UNCHANGED <<now, window, txVars>>
    BY <1>3 DEF RetryDistributionJob
  <2>2. \A x \in Cards : Held(x) => card'[x] = card[x]
    BY <1>3 DEF RetryDistributionJob, TypeOK
  <2> QED
    BY <1>1, <2>1, <2>2
<1>4. ASSUME NEW c \in Cards, NEW u \in Users, Redeem(c, u)
      PROVE  HeldAreDue' /\ MaintenanceIsExclusive'
  BY <1>1, <1>4 DEF Redeem, cardVars
<1>5. ASSUME NEW w \in Workers, WorkerBegin(w) PROVE HeldAreDue' /\ MaintenanceIsExclusive'
  <2>1. /\ held' = [held EXCEPT ![w] = Due(now)]
        /\ started' = [started EXCEPT ![w] = now]
        /\ pc' = [pc EXCEPT ![w] = "claimed"]
        /\ UNCHANGED <<now, card, window>>
        /\ \A c \in Due(now) : ~ Held(c)
    BY <1>5 DEF WorkerBegin, cardVars
  <2>2. /\ held'[w] = Due(now) /\ started'[w] = now /\ pc'[w] = "claimed"
        /\ \A v \in Workers \ {w} :
             held'[v] = held[v] /\ started'[v] = started[v] /\ pc'[v] = pc[v]
    BY <2>1 DEF TypeOK
  <2>3. \A t : Due(t)' = Due(t)
    BY <2>1 DEF Due, Maintained, Overdue, Opened
  <2>4. HeldAreDue'
    <3>1. \A v \in Workers : held'[v] \subseteq Due(started'[v])
      BY <2>2 DEF HeldAreDue
    <3>2. \A v \in Workers : held'[v] # {} => pc'[v] # "idle" /\ started'[v] <= now
      BY <2>2, CampaignAssumption DEF HeldAreDue, TypeOK
    <3>3. \A v \in Workers : (Due(started[v]))' = Due(started'[v])
      BY <2>1 DEF Due, Maintained, Overdue, Opened
    <3> QED
      BY <2>1, <3>1, <3>2, <3>3 DEF HeldAreDue
  <2>5. ASSUME NEW v \in Workers \ {w}, held[v] # {} PROVE Due(now) = {}
    <3>1. PICK c : c \in held[v]
      BY <2>5
    <3>2. c \in Due(started[v]) /\ started[v] <= now
      BY <2>5, <3>1 DEF HeldAreDue
    <3>3. c \in Due(now) /\ Held(c)
      BY <3>1, <3>2, DueStays DEF TypeOK, Held
    <3> QED
      BY <2>1, <3>3
  <2>6. MaintenanceIsExclusive'
    BY <2>2, <2>5 DEF MaintenanceIsExclusive
  <2> QED
    BY <2>4, <2>6
<1>6. ASSUME NEW w \in Workers, WorkerAttemptFails(w)
      PROVE  HeldAreDue' /\ MaintenanceIsExclusive'
  <2>1. UNCHANGED <<now, card, window, started, held>>
    BY <1>6 DEF WorkerAttemptFails, cardVars
  <2>2. \A v \in Workers : pc[v] # "idle" => pc'[v] # "idle"
    BY <1>6 DEF WorkerAttemptFails, TypeOK
  <2>3. now \in Nat
    BY CampaignAssumption DEF TypeOK
  <2> QED
    BY <2>1, <2>2, <2>3, HeldByOthers DEF MaintenanceIsExclusive
<1>7. ASSUME NEW w \in Workers, EndTransaction(w), UNCHANGED <<now, window>>,
             \A c \in Cards : HeldByOther(w, c) => card'[c] = card[c]
      PROVE  HeldAreDue' /\ MaintenanceIsExclusive'
  <2>1. \A v \in Workers : held'[v] \in {held[v], {}}
    BY <1>7 DEF EndTransaction, TypeOK
  <2>2. HeldAreDue'
    BY <1>7, HeldAfterEnd
  <2>3. MaintenanceIsExclusive'
    BY <2>1 DEF MaintenanceIsExclusive
  <2> QED
    BY <2>2, <2>3
<1>8. ASSUME NEW w \in Workers, NEW c \in Cards, HeldByOther(w, c)
      PROVE  CardSeenBy(w)[c] = card[c]
  BY <1>8 DEF HeldByOther, MaintenanceIsExclusive, CardSeenBy
<1>9. ASSUME NEW w \in Workers, WorkerCommitNoJob(w)
      PROVE  HeldAreDue' /\ MaintenanceIsExclusive'
  BY <1>7, <1>8, <1>9 DEF WorkerCommitNoJob
<1>10. ASSUME NEW w \in Workers, WorkerCommitJob(w)
       PROVE  HeldAreDue' /\ MaintenanceIsExclusive'
  <2>1. /\ EndTransaction(w) /\ UNCHANGED <<now, window>>
        /\ ~ HeldByOther(w, jobCard[claimed[w]])
    BY <1>10 DEF WorkerCommitJob
  <2>2. \E s : card' = [CardSeenBy(w) EXCEPT ![jobCard[claimed[w]]] = s]
    BY <1>10 DEF WorkerCommitJob
  <2>3. \A c \in Cards : HeldByOther(w, c) => card'[c] = card[c]
    BY <1>8, <2>1, <2>2, SeenCards
  <2> QED
    BY <1>7, <2>1, <2>3
<1>11. ASSUME NEW w \in Workers, WorkerCommitFailure(w)
       PROVE  HeldAreDue' /\ MaintenanceIsExclusive'
  <2>1. EndTransaction(w) /\ UNCHANGED <<now, window>>
    BY <1>11 DEF WorkerCommitFailure
  <2>2. \/ card' = CardSeenBy(w)
        \/ /\ ~ HeldByOther(w, jobCard[claimed[w]])
           /\ card' = [CardSeenBy(w) EXCEPT ![jobCard[claimed[w]]] = "failed"]
    BY <1>11 DEF WorkerCommitFailure
  <2>3. \A c \in Cards : HeldByOther(w, c) => card'[c] = card[c]
    BY <1>8, <2>2, SeenCards
  <2> QED
    BY <1>7, <2>1, <2>3
<1>12. ASSUME NEW w \in Workers, WorkerRollback(w)
       PROVE  HeldAreDue' /\ MaintenanceIsExclusive'
  BY <1>7, <1>12 DEF WorkerRollback, cardVars
<1>13. CASE Tick
  <2>1. UNCHANGED <<card, window, pc, started, held>> /\ now' = now + 1
    BY <1>13 DEF Tick, cardVars, txVars
  <2>2. now' \in Nat /\ now <= now'
    BY <2>1, CampaignAssumption DEF TypeOK
  <2> QED
    BY <2>1, <2>2, HeldByOthers DEF MaintenanceIsExclusive
<1>14. CASE UNCHANGED vars
  BY <1>1, <1>14 DEF vars, cardVars
<1> QED
  BY <1>2, <1>3, <1>4, <1>5, <1>6, <1>9, <1>10, <1>11, <1>12, <1>13, <1>14
     DEF Next, WorkerStep, WorkerFinishJob

\* Holding what is due, and alone, is kept from the start.
LEMMA MaintenanceInvariance == Spec => [](HeldAreDue /\ MaintenanceIsExclusive)
<1>1. Init => TypeOK /\ References
  BY CampaignAssumption DEF Init, TypeOK, References
<1>2. Init => HeldAreDue /\ MaintenanceIsExclusive
  BY DEF Init, HeldAreDue, MaintenanceIsExclusive
<1>3. TypeOK /\ References /\ [Next]_vars => TypeOK' /\ References'
  BY NextTypeOK, NextReferences
<1> QED
  BY <1>1, <1>2, <1>3, NextMaintenance, PTL DEF Spec

\* maintain_lifecycle runs in every replica, and its row locks are kept while a
\* job is distributed.  Still a second replica gets through its own only when
\* nothing is due, so that no card is activated or expired twice, and what the
\* first commits is what its cards are still due for.
THEOREM OneMaintenanceAtATime == Spec => [](HeldAreDue /\ MaintenanceIsExclusive)
  BY MaintenanceInvariance, PTL
=============================================================================
