CONSTANTS
  A = A
  B = B
  C = C
  i1 = i1
  i2 = i2
  i3 = i3
  i4 = i4
  i5 = i5
  i6 = i6
  p1 = p1
  p2 = p2
  NoId = NoId
  NoSource = NoSource
  Spans <- MCSpans
  Window <- MCWindow
  NewIds <- MCNewIds
  Names = {A, B}
  Accounts = {A, B}
  Spare = {}
  Ids = {i1, i2, i3, i4, i5, i6}
  Existing = {i1}
  Clients = {p1, p2}
  DryRun = {}
  Unreliable = FALSE
  Edits = {}
  MaxEdits = 0
SPECIFICATION HSpec
INVARIANTS
  AtMostOneBlock
