CONSTANTS
  A = A
  B = B
  C = C
  i1 = i1
  i2 = i2
  i3 = i3
  i4 = i4
  i5 = i5
  i6 = i6
  p1 = p1
  p2 = p2
  NoId = NoId
  NoSource = NoSource
  Spans <- MCSpans
  Window <- MCWindow
  NewIds <- MCNewIds
  Names = {A, B, C}
  Accounts = {A, B, C}
  Spare = {}
  Ids = {i1, i2, i3, i4, i5}
  Existing = {i1}
  Clients = {p1}
  DryRun = {}
  Unreliable = TRUE
  Edits = {"move", "free", "delete", "mangle"}
  MaxEdits = 1
SPECIFICATION HSpec
INVARIANTS
  IInv
PROPERTIES
  SteadyBlocksKept
  Refines
