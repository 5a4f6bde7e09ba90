\* Somebody keeps running repair: the dangling link of an interrupted repair
\* stays.  With no container start, the commands may all be over.
SPECIFICATION RepairingSpec
CONSTANTS
  Pips = {p1}
  Runs = {}
  Doctors = {d1}
  Wheel = {w1}
  None = None
  OrderedClock = TRUE
  MaxId = 4
  MaxDamage = 1
  MaxLosses = 0
  MaxExits = 1
CHECK_DEADLOCK FALSE
PROPERTY DanglingOverlayIsRepaired
