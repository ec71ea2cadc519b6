SPECIFICATION Spec
CONSTANTS
  c1 = c1
  c2 = c2
  c3 = c3
  Calls = {c1, c2}
  Threshold = 2
  Cooldown = 1
  MaxTime = 5
  MaxReset = 2
INVARIANTS HalfOpenHasProbe
