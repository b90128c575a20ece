CONSTANTS
  r1 = r1
  r2 = r2
  good = good
  bad = bad
  t1 = t1
  t2 = t2
  h1 = h1
  h2 = h2
  on = on
  Requests = {r1, r2}
  Forms = {good, bad}
  GoodForms = {good}
  Tokens = {t1, t2}
  Hooks = {h1, h2}
  Meters = {on}
  Unset = Unset
  Bodies <- MCBodies
  ByHand <- MCByHand
  Broken = Broken
  Missing = Missing
  MaxPasses = 1
SPECIFICATION Spec
INVARIANTS
  MetricsKept
