\* Ids in order, two pips: retention deletes the active generation, because an
\* id is drawn before the lock is taken.
SPECIFICATION Spec
CONSTANTS
  Pips = {p1, p2}
  Runs = {r1}
  Doctors = {d1}
  Wheel = {w1}
  None = None
  OrderedClock = TRUE
  MaxId = 3
  MaxDamage = 0
  MaxLosses = 0
  MaxExits = 0
INVARIANT PruneKeepsCurrent
