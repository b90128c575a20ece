CONSTANTS
  A = A
  B = B
  c1 = c1
  c2 = c2
  c3 = c3
  NoChannel = NoChannel
  Targets = {A, B}
  Serials = {c1, c2, c3}
  Ttl = 4
  Lives = {3, 4}
  Flaky = TRUE
SPECIFICATION FairSpec
INVARIANTS
  TypeOK
  NoneForgotten
  LapseEnds
PROPERTIES
  KeepsWatching
  WatchedAgain
  ShutsDown
