\* One pip at a time, ids in order, two repairs: under fairness commands and
\* repairs come to an end, and every step refines the atomic overlay.  One
\* process may leave early, one wheel may be lost.
SPECIFICATION FairSpec
CONSTANTS
  Pips = {p1}
  Runs = {r1}
  Doctors = {d1, d2}
  Wheel = {w1, w2}
  None = None
  OrderedClock = TRUE
  MaxId = 5
  MaxDamage = 1
  MaxLosses = 1
  MaxExits = 1
PROPERTIES
  LockReleased
  RepairRestores
  ImplementsAtomicOverlay
