\* Two repairs of the same report: the second one quarantines the generation
\* that the first one rebuilt.
SPECIFICATION Spec
CONSTANTS
  Pips = {p1}
  Runs = {r1}
  Doctors = {d1, d2}
  Wheel = {w1}
  None = None
  OrderedClock = TRUE
  MaxId = 4
  MaxDamage = 1
  MaxLosses = 0
  MaxExits = 0
PROPERTY QuarantineMatchesPlan
