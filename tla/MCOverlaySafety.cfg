\* Two pips against a container start and a repair; ids in any order, one
\* change and one lost wheel from outside, one early exit.
SPECIFICATION Spec
CONSTANTS
  Pips = {p1, p2}
  Runs = {r1}
  Doctors = {d1}
  Wheel = {w1, w2}
  None = None
  OrderedClock = FALSE
  MaxId = 4
  MaxDamage = 1
  MaxLosses = 1
  MaxExits = 1
SYMMETRY Symmetry
INVARIANTS
  TypeOK
  ActiveGenerationComplete
  ActiveReplayable
  ActiveKept
  SingleMutator
  NoLostInstall
  PendingWheelsKept
  QuarantineTruthful
PROPERTIES
  LinkMovesForward
  EvidencePreserved
