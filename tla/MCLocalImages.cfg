\* One worker installs and repairs; the other builds, prunes and runs.
SPECIFICATION Spec
CONSTANTS
  w1 = w1
  w2 = w2
  lockA = lockA
  lockB = lockB
  swr = swr
  ghcr = ghcr
  None = None
  Workers <- TwoWorkers
  Installers <- First
  Repairers <- First
  Runners <- Second
  Builders <- Second
  Versions <- TwoVersions
  LockOf <- TwoLocks
  Order <- TwoRegistries
  MaxImages = 5
  MaxEdits = 2
  MaxChanges = 2
  MaxLosses = 1
  MaxCommands = 3
  MaxEvents = 4
CHECK_DEADLOCK FALSE
INVARIANTS
  TypeOK
  SelectionTrusted
  ContainerMatchesConfig
PROPERTIES
  RepairKeepsImage
