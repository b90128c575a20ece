CONSTANTS
  Ops = {"insert", "update", "delete"}
  MaxAttempts = 4
  BaseBackoff = 1
  MaxBackoff = 3
  Late = {"update", "delete"}
  MaxEdits = 2
SPECIFICATION FairSpec
INVARIANTS
  NoDuplicate
  InsertKnown
  DeleteReported
  Patience
PROPERTIES
  Returns
  KeepsToCall
CHECK_DEADLOCK FALSE
