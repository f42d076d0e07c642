CONSTANTS
  Cards = {c1, c2}
  Users = {u1}
  Workers = {w1, w2}
  Windows <- MCOneWindow
  MaxJobs = 2
  MaxTime = 2
  MaxAttempts = 1
  MaxRetries = 0
  NoCard = NoCard
SPECIFICATION FairSpec
PROPERTIES
  PublishingEnds
  OverdueCardsAreExpired
