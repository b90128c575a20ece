CONSTANTS
  Interval = 2
  Poll = 2
  PassTime = 2
  ReadyMaxAge = 6
  Flaky = TRUE
  MaxChanges = 1
  MaxPosts = 3
SPECIFICATION FairSpec
INVARIANTS
  TypeOK
  NotificationKept
  ReadyMeansFresh
  ReadyWhenHealthy
PROPERTIES
  QuietBeforeTrigger
  EveryChangeSeen
  StopsRunning
