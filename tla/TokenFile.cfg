CONSTANTS
  run = run
  auth = auth
  Nothing = Nothing
  Done = Done
  Torn = Torn
  Run = run
  Auth = auth
  Writers = {run, auth}
  Contents <- MCTokens
  MaxTokens = 4
  MayFail = TRUE
SPECIFICATION FairSpec
INVARIANTS
  TypeOK
  NeverStripped
  RotationKept
PROPERTIES
  KeepsPromise
  EventuallySaved
