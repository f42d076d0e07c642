CONSTANTS
  Cards = {c1}
  Users = {u1, u2}
  Workers = {w1, w2}
  Windows <- MCWindows
  MaxJobs = 2
  MaxTime = 2
  MaxAttempts = 2
  MaxRetries = 1
  NoCard = NoCard
SPECIFICATION Spec
SYMMETRY Symmetry
INVARIANTS
  TypeOK
  PublishingHasPendingJob
  ExpiredCardHasNoLiveAssignment
  NotifiedOncePerAssignment
  RetryCeiling
PROPERTIES
  KeepsPromises
  CompletedJobIsFinal
