------------------------ MODULE ScratchCardsAsgProofs ------------------------
(***************************************************************************)
(* Theorems about the assignments of ScratchCards: what customers were     *)
(* promised, and what becomes of it.                                       *)
(***************************************************************************)
EXTENDS ScratchCardsProofs

(***************************************************************************)
(* How a step can change the assignment of card c to user u: it is made,   *)
(* and with it a notification and an available card; it is redeemed; it is *)
(* ended; or nothing happens to it, and then the card does not expire.     *)
(***************************************************************************)
Makes(c, u) ==
  /\ asg[<<c, u>>] = "none" /\ asg'[<<c, u>>] = "live"
  /\ notices'[<<c, u>>] = notices[<<c, u>>] + 1
  /\ card'[c] \in {"scheduled", "active"}

Redeems(c, u) ==
  /\ asg[<<c, u>>] \in {"live", "expired"} /\ asg'[<<c, u>>] = "redeemed"
  /\ notices'[<<c, u>>] = notices[<<c, u>>]
  /\ card'[c] = card[c] /\ card[c] = "active"

EndsIt(c, u) ==
  /\ asg'[<<c, u>>] = EndOf(asg[<<c, u>>])
  /\ notices'[<<c, u>>] = notices[<<c, u>>]

LeavesIt(c, u) ==
  /\ asg'[<<c, u>>] = asg[<<c, u>>]
  /\ notices'[<<c, u>>] = notices[<<c, u>>]
  /\ card'[c] = "expired" => card[c] = "expired"

PairStep(c, u) == Makes(c, u) \/ Redeems(c, u) \/ EndsIt(c, u) \/ LeavesIt(c, u)

-----------------------------------------------------------------------------
(***************************************************************************)
(* A worker's view of a pair is that of a pair that was left or ended: its *)
(* maintenance updates expire a card together with its assignments.        *)
(***************************************************************************)
LEMMA SeenPair ==
  ASSUME TypeOK, NEW w \in Workers, NEW c \in Cards, NEW u \in Users
  PROVE  \/ AsgSeenBy(w)[<<c, u>>] = EndOf(asg[<<c, u>>])
         \/ /\ AsgSeenBy(w)[<<c, u>>] = asg[<<c, u>>]
            /\ CardSeenBy(w)[c] = "expired" => card[c] = "expired"
  BY DEF TypeOK, AsgSeenBy, CardSeenBy, Maintained, Overdue, Opened

\* A worker's step makes, ends or leaves each assignment.
LEMMA WorkerPairStep ==
  ASSUME TypeOK, References, NEW w \in Workers, WorkerStep(w),
         NEW c \in Cards, NEW u \in Users
  PROVE  PairStep(c, u)
<1>1. CASE WorkerCommitNoJob(w)
  <2>1. card' = CardSeenBy(w) /\ asg' = AsgSeenBy(w) /\ notices' = notices
    BY <1>1 DEF WorkerCommitNoJob
  <2> QED
    BY <2>1, SeenPair DEF PairStep, EndsIt, LeavesIt
<1>2. CASE WorkerCommitFailure(w)
  <2>1. asg' = AsgSeenBy(w) /\ notices' = notices
    BY <1>2 DEF WorkerCommitFailure
  <2>2. card'[c] = "expired" => CardSeenBy(w)[c] = "expired"
    BY <1>2, SeenCards DEF WorkerCommitFailure
  <2> QED
    BY <2>1, <2>2, SeenPair DEF PairStep, EndsIt, LeavesIt
<1>3. CASE WorkerCommitJob(w)
  <2> DEFINE d == jobCard[claimed[w]]
  <2>1. d \in Cards
    BY <1>3 DEF TypeOK, WorkerCommitJob, References
  <2>2. PICK t : card' = [CardSeenBy(w) EXCEPT ![d] = OpenStatus(d, t)]
    BY <1>3 DEF WorkerCommitJob
  <2>3. PICK sel \in SUBSET Audience(w, d) :
          /\ asg' = [p \in Cards \X Users |->
                       IF p[1] = d /\ p[2] \in sel THEN "live" ELSE AsgSeenBy(w)[p]]
          /\ notices' = [p \in Cards \X Users |->
                           IF Notified(p, d, sel) THEN notices[p] + 1 ELSE notices[p]]
    BY <1>3 DEF WorkerCommitJob
  <2> HIDE DEF d
  <2>4. CASE c = d /\ u \in sel
    <3>1. asg[<<c, u>>] = "none"
      BY <2>3, <2>4, SeenAssignments DEF Audience
    <3>2. card'[c] \in {"scheduled", "active"}
      BY <2>1, <2>2, <2>4, SeenCards DEF OpenStatus
    <3> QED
      BY <2>3, <2>4, <3>1, <3>2 DEF Notified, PairStep, Makes
  <2>5. CASE ~ (c = d /\ u \in sel)
    <3>1. /\ asg'[<<c, u>>] = AsgSeenBy(w)[<<c, u>>]
          /\ notices'[<<c, u>>] = notices[<<c, u>>]
      BY <2>3, <2>5 DEF Notified
    <3>2. card'[c] = "expired" => CardSeenBy(w)[c] = "expired"
      BY <2>2, SeenCards DEF OpenStatus
    <3> QED
      BY <3>1, <3>2, SeenPair DEF PairStep, EndsIt, LeavesIt
  <2> QED
    BY <2>4, <2>5
<1>4. CASE UNCHANGED <<cardVars, asgVars>>
  BY <1>4 DEF cardVars, asgVars, PairStep, LeavesIt
<1> QED
  BY <1>1, <1>2, <1>3, <1>4
     DEF WorkerStep, WorkerFinishJob, WorkerBegin, WorkerAttemptFails, WorkerRollback

\* An administrator's request ends or leaves each assignment.
LEMMA AdminPairStep ==
  ASSUME TypeOK, NEW d \in Cards, AdminStep(d), NEW c \in Cards, NEW u \in Users
  PROVE  PairStep(c, u)
<1>1. CASE ExpireScratchCard(d)
  BY <1>1 DEF TypeOK, ExpireScratchCard, PairStep, EndsIt, LeavesIt
<1>2. CASE ~ ExpireScratchCard(d)
  <2>1. UNCHANGED asgVars
    BY <1>2 DEF AdminStep, CreateScratchCard, DuplicateScratchCard, Insert,
                DeleteScratchCard, UpdateScratchCard, PauseScratchCard,
                ResumeScratchCard, AssignScratchCard
  <2>2. card'[c] = "expired" => card[c] = "expired"
    BY <1>2 DEF TypeOK, AdminStep, CreateScratchCard, DuplicateScratchCard, Insert,
                DeleteScratchCard, UpdateScratchCard, PauseScratchCard,
                ResumeScratchCard, OpenStatus, AssignScratchCard, QueuedStatus
  <2> QED
    BY <2>1, <2>2 DEF asgVars, PairStep, LeavesIt
<1> QED
  BY <1>1, <1>2

\* Every step treats every assignment in one of the four ways.
LEMMA EveryPairStep ==
  ASSUME TypeOK, References, [Next]_vars, NEW c \in Cards, NEW u \in Users
  PROVE  PairStep(c, u)
<1>1. ASSUME NEW j \in Jobs, RetryDistributionJob(j) PROVE PairStep(c, u)
  BY <1>1 DEF TypeOK, RetryDistributionJob, asgVars, PairStep, LeavesIt
<1>2. ASSUME NEW d \in Cards, NEW v \in Users, Redeem(d, v) PROVE PairStep(c, u)
  <2>1. CASE <<c, u>> = <<d, v>>
    BY <1>2, <2>1 DEF TypeOK, Redeem, cardVars, PairStep, Redeems
  <2>2. CASE <<c, u>> # <<d, v>>
    BY <1>2, <2>2 DEF TypeOK, Redeem, cardVars, PairStep, LeavesIt
  <2> QED
    BY <2>1, <2>2
<1>3. CASE UNCHANGED <<cardVars, asgVars>>
  BY <1>3 DEF cardVars, asgVars, PairStep, LeavesIt
<1> QED
  BY <1>1, <1>2, <1>3, WorkerPairStep, AdminPairStep DEF Next, Tick, vars

-----------------------------------------------------------------------------
(***************************************************************************)
(* The cards that are absent or drafts after a step were so before, and    *)
(* the step gave them no job.                                              *)
(***************************************************************************)
Unborn == {"absent", "draft"}

JobsOf(c) == {j \in Jobs : jobStatus[j] # "none" /\ jobCard[j] = c}

\* A worker makes no draft and gives a draft no job.
LEMMA WorkerKeepsDrafts ==
  ASSUME TypeOK, References, NEW w \in Workers, WorkerStep(w),
         NEW c \in Cards, card'[c] \in Unborn
  PROVE  card[c] \in Unborn /\ JobsOf(c)' \subseteq JobsOf(c)
<1>1. CASE UNCHANGED jobVars
  <2>1. card' = card \/ card' = CardSeenBy(w)
    BY <1>1 DEF WorkerStep, WorkerFinishJob, WorkerBegin, WorkerAttemptFails,
                WorkerCommitNoJob, WorkerCommitJob, WorkerCommitFailure,
                WorkerRollback, cardVars, jobVars, TypeOK, References
  <2> QED
    BY <1>1, <2>1, SeenCards DEF jobVars, JobsOf, Unborn
<1>2. CASE WorkerFinishJob(w)
  <2> DEFINE k == claimed[w]
  <2>1. jobCard' = jobCard /\ k \in Jobs /\ jobStatus[k] # "none"
    BY <1>2 DEF TypeOK, References, WorkerFinishJob, WorkerCommitJob, WorkerCommitFailure
  <2>2. \/ card' = CardSeenBy(w)
        \/ \E s \in {"scheduled", "active", "failed"} :
             card' = [CardSeenBy(w) EXCEPT ![jobCard[k]] = s]
    BY <1>2 DEF WorkerFinishJob, WorkerCommitJob, WorkerCommitFailure, OpenStatus
  <2>3. \E s \in {"completed", "failed"} : jobStatus' = [jobStatus EXCEPT ![k] = s]
    BY <1>2 DEF WorkerFinishJob, WorkerCommitJob, WorkerCommitFailure
  <2> HIDE DEF k
  <2>4. card[c] \in Unborn
    BY <2>2, SeenCards DEF Unborn
  <2>5. JobsOf(c)' \subseteq JobsOf(c)
    BY <2>1, <2>3 DEF TypeOK, JobsOf
  <2> QED
    BY <2>4, <2>5
<1> QED
  BY <1>1, <1>2 DEF WorkerStep, WorkerBegin, WorkerAttemptFails, WorkerCommitNoJob,
                    WorkerRollback

\* No step makes a draft of a published card or gives a draft a job.
LEMMA EveryStepKeepsDrafts ==
  ASSUME TypeOK, References, [Next]_vars, NEW c \in Cards, card'[c] \in Unborn
  PROVE  card[c] \in Unborn /\ JobsOf(c)' \subseteq JobsOf(c)
<1>1. ASSUME NEW d \in Cards, AdminStep(d)
      PROVE  card[c] \in Unborn /\ JobsOf(c)' \subseteq JobsOf(c)
  <2>1. CASE AssignScratchCard(d)
    <3>1. card' = [card EXCEPT ![d] = QueuedStatus(@)] /\ card[d] # "absent"
      BY <2>1 DEF AssignScratchCard, Distributable
    <3>2. c # d /\ card[c] \in Unborn
      BY <3>1 DEF TypeOK, QueuedStatus, Unborn
    <3>3. PICK j \in Jobs : /\ jobStatus[j] = "none"
                            /\ jobStatus' = [jobStatus EXCEPT ![j] = "pending"]
                            /\ jobCard' = [jobCard EXCEPT ![j] = d]
      BY <2>1 DEF AssignScratchCard
    <3>4. ASSUME NEW k \in Jobs, jobCard'[k] = c, jobStatus'[k] # "none"
          PROVE  jobCard[k] = c /\ jobStatus[k] # "none"
      BY <3>2, <3>3, <3>4 DEF TypeOK
    <3> QED
      BY <3>2, <3>4 DEF JobsOf
  <2>2. CASE ~ AssignScratchCard(d)
    <3>1. UNCHANGED jobVars
      BY <1>1, <2>2 DEF AdminStep, CreateScratchCard, DuplicateScratchCard, Insert,
                DeleteScratchCard, UpdateScratchCard, PauseScratchCard,
                ResumeScratchCard, ExpireScratchCard
    <3>2. card[c] \in Unborn
      BY <1>1, <2>2 DEF TypeOK, Unborn, AdminStep, CreateScratchCard,
                DuplicateScratchCard, Insert, DeleteScratchCard, UpdateScratchCard,
                PauseScratchCard, ResumeScratchCard, OpenStatus, ExpireScratchCard
    <3> QED
      BY <3>1, <3>2 DEF jobVars, JobsOf
  <2> QED
    BY <2>1, <2>2
<1>2. ASSUME NEW j \in Jobs, RetryDistributionJob(j)
      PROVE  card[c] \in Unborn /\ JobsOf(c)' \subseteq JobsOf(c)
  BY <1>2 DEF TypeOK, RetryDistributionJob, JobsOf, Unborn
<1>3. CASE UNCHANGED <<card, jobStatus, jobCard>>
  BY <1>3 DEF JobsOf
<1> QED
  BY <1>1, <1>2, <1>3, WorkerKeepsDrafts DEF Next, Redeem, Tick, cardVars, jobVars, vars

-----------------------------------------------------------------------------
(***************************************************************************)
(* The three invariants about assignments, each preserved by every way a   *)
(* step can treat one.                                                     *)
(***************************************************************************)
Promises ==
  ExpiredCardHasNoLiveAssignment /\ NotifiedOncePerAssignment /\ DraftIsUntouched

\* Every step keeps the three invariants about assignments.
LEMMA NextPromises == TypeOK /\ References /\ Promises /\ [Next]_vars => Promises'
<1> SUFFICES ASSUME TypeOK, References, Promises, [Next]_vars PROVE Promises'
  OBVIOUS
<1>1. ExpiredCardHasNoLiveAssignment'
  <2> SUFFICES ASSUME NEW c \in Cards, NEW u \in Users, card'[c] = "expired"
               PROVE  asg'[<<c, u>>] # "live"
    BY DEF ExpiredCardHasNoLiveAssignment
  <2> QED
    BY EveryPairStep DEF Promises, ExpiredCardHasNoLiveAssignment, PairStep, Makes,
                         Redeems, EndsIt, LeavesIt, EndOf
<1>2. NotifiedOncePerAssignment'
  <2> SUFFICES ASSUME NEW c \in Cards, NEW u \in Users
               PROVE  notices'[<<c, u>>] = IF asg'[<<c, u>>] = "none" THEN 0 ELSE 1
    BY DEF NotifiedOncePerAssignment
  <2>1. notices[<<c, u>>] = IF asg[<<c, u>>] = "none" THEN 0 ELSE 1
    BY DEF Promises, NotifiedOncePerAssignment
  <2> QED
    BY <2>1, EveryPairStep DEF PairStep, Makes, Redeems, EndsIt, LeavesIt, EndOf
<1>3. DraftIsUntouched'
  <2> SUFFICES ASSUME NEW c \in Cards, card'[c] \in Unborn
               PROVE  /\ \A j \in Jobs : jobStatus'[j] # "none" => jobCard'[j] # c
                      /\ \A u \in Users : asg'[<<c, u>>] = "none"
    BY DEF DraftIsUntouched, Unborn
  <2>1. card[c] \in Unborn /\ JobsOf(c)' \subseteq JobsOf(c)
    BY EveryStepKeepsDrafts
  <2>2. JobsOf(c)' = {}
    BY <2>1 DEF Promises, DraftIsUntouched, JobsOf, Unborn
  <2>3. ASSUME NEW u \in Users PROVE asg'[<<c, u>>] = "none"
    <3>1. asg[<<c, u>>] = "none"
      BY <2>1 DEF Promises, DraftIsUntouched, Unborn
    <3> QED
      BY <3>1, EveryPairStep DEF PairStep, Makes, Redeems, EndsIt, LeavesIt, EndOf, Unborn
  <2> QED
    BY <2>2, <2>3 DEF JobsOf
<1> QED
  BY <1>1, <1>2, <1>3 DEF Promises

\* They are invariants of the specification.
LEMMA PromiseInvariance == Spec => [](TypeOK /\ References /\ Promises)
<1>1. Init => TypeOK /\ References
  BY CampaignAssumption DEF Init, TypeOK, References, Jobs, NoJob, CardStatus, JobStatus, AsgStatus
<1>2. Init => Promises
  BY DEF Init, Promises, ExpiredCardHasNoLiveAssignment, NotifiedOncePerAssignment,
         DraftIsUntouched
<1> QED
  BY <1>1, <1>2, NextTypeOK, NextReferences, NextPromises, PTL DEF Spec

(***************************************************************************)
(* Nothing usable is left of an expired card, whoever expired it and       *)
(* whatever was distributing it.                                           *)
(***************************************************************************)
THEOREM ExpiryEndsAssignments == Spec => []ExpiredCardHasNoLiveAssignment
<1>1. Promises => ExpiredCardHasNoLiveAssignment
  BY DEF Promises
<1> QED
  BY <1>1, PromiseInvariance, PTL

(***************************************************************************)
(* Everybody is notified exactly once of what they were given.             *)
(***************************************************************************)
THEOREM EveryoneIsNotifiedOnce == Spec => []NotifiedOncePerAssignment
<1>1. Promises => NotifiedOncePerAssignment
  BY DEF Promises
<1> QED
  BY <1>1, PromiseInvariance, PTL

(***************************************************************************)
(* What can be deleted was never distributed.                              *)
(***************************************************************************)
THEOREM DraftsAreUntouched == Spec => []DraftIsUntouched
<1>1. Promises => DraftIsUntouched
  BY DEF Promises
<1> QED
  BY <1>1, PromiseInvariance, PTL

-----------------------------------------------------------------------------
(***************************************************************************)
(* Refinement.  Seen from one campaign, a step is a move if it lapses all  *)
(* of its assignments or none and then grants some that were not there.    *)
(***************************************************************************)
LEMMA MoveOfCampaign ==
  ASSUME NEW c \in Cards, NEW S \in SUBSET {u \in Users : asg[<<c, u>>] = "none"},
         \/ \A u \in Users :
              asg'[<<c, u>>] = IF u \in S THEN "live" ELSE asg[<<c, u>>]
         \/ \A u \in Users :
              asg'[<<c, u>>] = IF u \in S THEN "live"
                               ELSE IF asg[<<c, u>>] = "live" THEN "expired"
                               ELSE asg[<<c, u>>]
  PROVE  [E(c)!Next]_(E(c)!vars)
<1>1. S \in SUBSET E(c)!Unpromised
  BY DEF E!Unpromised
<1>2. E(c)!Grant(S, [u \in Users |-> asg[<<c, u>>]]) \/ E(c)!Grant(S, E(c)!Lapsed)
  BY DEF E!Grant, E!Lapsed
<1> QED
  BY <1>1, <1>2 DEF E!Move, E!Next

(***************************************************************************)
(* A step that grants nothing.                                             *)
(***************************************************************************)
LEMMA QuietOfCampaign ==
  ASSUME NEW c \in Cards,
         \/ \A u \in Users : asg'[<<c, u>>] = asg[<<c, u>>]
         \/ \A u \in Users : asg'[<<c, u>>] = EndOf(asg[<<c, u>>]),
         TypeOK
  PROVE  [E(c)!Next]_(E(c)!vars)
<1> DEFINE S == {}
<1>1. /\ S \in SUBSET {u \in Users : asg[<<c, u>>] = "none"}
      /\ \/ \A u \in Users :
              asg'[<<c, u>>] = IF u \in S THEN "live" ELSE asg[<<c, u>>]
         \/ \A u \in Users :
              asg'[<<c, u>>] = IF u \in S THEN "live"
                               ELSE IF asg[<<c, u>>] = "live" THEN "expired"
                               ELSE asg[<<c, u>>]
  BY DEF EndOf, TypeOK, AsgStatus
<1> HIDE DEF S
<1> QED
  BY <1>1, MoveOfCampaign

\* A worker's maintenance leaves a card's assignments or ends all the live ones.
LEMMA SeenCampaign ==
  ASSUME TypeOK, NEW w \in Workers, NEW c \in Cards
  PROVE  \/ \A u \in Users : AsgSeenBy(w)[<<c, u>>] = asg[<<c, u>>]
         \/ \A u \in Users : AsgSeenBy(w)[<<c, u>>] = EndOf(asg[<<c, u>>])
  BY DEF AsgSeenBy

\* A worker's step is a step of the card's Entitlements or a stutter.
LEMMA WorkerKeepsPromises ==
  ASSUME TypeOK, References, NEW w \in Workers, WorkerStep(w), NEW c \in Cards
  PROVE  [E(c)!Next]_(E(c)!vars)
<1>1. CASE UNCHANGED asg \/ asg' = AsgSeenBy(w)
  BY <1>1, SeenCampaign, QuietOfCampaign
<1>2. CASE WorkerCommitJob(w)
  <2> DEFINE d == jobCard[claimed[w]]
  <2>1. PICK sel \in SUBSET Audience(w, d) :
          asg' = [p \in Cards \X Users |->
                    IF p[1] = d /\ p[2] \in sel THEN "live" ELSE AsgSeenBy(w)[p]]
    BY <1>2 DEF WorkerCommitJob
  <2> HIDE DEF d
  <2> DEFINE S == IF c = d THEN sel ELSE {}
  <2>2. \A u \in Users :
          asg'[<<c, u>>] = IF u \in S THEN "live" ELSE AsgSeenBy(w)[<<c, u>>]
    BY <2>1
  <2>3. S \in SUBSET {u \in Users : asg[<<c, u>>] = "none"}
    BY <2>1, SeenAssignments DEF Audience
  <2> HIDE DEF S
  <2>4. CASE \A u \in Users : AsgSeenBy(w)[<<c, u>>] = asg[<<c, u>>]
    <3>1. \A u \in Users : asg'[<<c, u>>] = IF u \in S THEN "live" ELSE asg[<<c, u>>]
      BY <2>2, <2>4
    <3> QED
      BY <2>3, <3>1, MoveOfCampaign
  <2>5. CASE \A u \in Users : AsgSeenBy(w)[<<c, u>>] = EndOf(asg[<<c, u>>])
    <3>1. \A u \in Users :
            asg'[<<c, u>>] = IF u \in S THEN "live"
                             ELSE IF asg[<<c, u>>] = "live" THEN "expired"
                             ELSE asg[<<c, u>>]
      BY <2>2, <2>5 DEF EndOf, TypeOK, AsgStatus
    <3> QED
      BY <2>3, <3>1, MoveOfCampaign
  <2> QED
    BY <2>4, <2>5, SeenCampaign
<1> QED
  BY <1>1, <1>2
     DEF WorkerStep, WorkerFinishJob, WorkerBegin, WorkerAttemptFails,
         WorkerCommitNoJob, WorkerCommitFailure, WorkerRollback, asgVars

\* Every step is a step of the card's Entitlements or a stutter.
LEMMA NextKeepsPromises ==
  ASSUME TypeOK, References, [Next]_vars, NEW c \in Cards
  PROVE  [E(c)!Next]_(E(c)!vars)
<1>1. ASSUME NEW d \in Cards, ExpireScratchCard(d) PROVE [E(c)!Next]_(E(c)!vars)
  <2>1. \/ \A u \in Users : asg'[<<c, u>>] = asg[<<c, u>>]
        \/ \A u \in Users : asg'[<<c, u>>] = EndOf(asg[<<c, u>>])
    BY <1>1 DEF ExpireScratchCard
  <2> QED
    BY <2>1, QuietOfCampaign
<1>2. ASSUME NEW d \in Cards, NEW v \in Users, Redeem(d, v) PROVE [E(c)!Next]_(E(c)!vars)
  <2>1. CASE c = d
    <3>1. /\ card[c] = "active" /\ asg[<<c, v>>] \in {"live", "expired"}
          /\ UNCHANGED card
          /\ [u \in Users |-> asg[<<c, u>>]]'
               = [[u \in Users |-> asg[<<c, u>>]] EXCEPT ![v] = "redeemed"]
      BY <1>2, <2>1 DEF TypeOK, Redeem, cardVars
    <3>2. E(c)!Redeem(v)
      BY <3>1 DEF E!Redeem
    <3> QED
      BY <3>2 DEF E!Next
  <2>2. CASE c # d
    <3>1. \A u \in Users : asg'[<<c, u>>] = asg[<<c, u>>]
      BY <1>2, <2>2 DEF TypeOK, Redeem
    <3> QED
      BY <3>1, QuietOfCampaign
  <2> QED
    BY <2>1, <2>2
<1>3. CASE UNCHANGED asg
  BY <1>3, QuietOfCampaign
<1> QED
  BY <1>1, <1>2, <1>3, WorkerKeepsPromises
     DEF Next, AdminStep, CreateScratchCard, DuplicateScratchCard, Insert,
         DeleteScratchCard, UpdateScratchCard, PauseScratchCard, ResumeScratchCard,
         AssignScratchCard, RetryDistributionJob, Tick, asgVars, vars

(***************************************************************************)
(* Every campaign implements Entitlements.                                 *)
(***************************************************************************)
THEOREM ImplementsEntitlements == Spec => KeepsPromises
<1>1. Init => \A c \in Cards : E(c)!Init
  BY DEF Init, E!Init
<1>2. TypeOK /\ References /\ [Next]_vars
        => \A c \in Cards : [E(c)!Next]_(E(c)!vars)
  BY NextKeepsPromises
<1> QED
  BY <1>1, <1>2, PromiseInvariance, PTL DEF Spec, KeepsPromises

=============================================================================
