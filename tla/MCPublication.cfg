\* One maintainer qualifies, releases and publishes while one builder builds and
\* prunes on the same machine.
SPECIFICATION Spec
CONSTANTS
  w1 = w1
  w2 = w2
  lockA = lockA
  lockB = lockB
  None = None
  Workers <- TwoWorkers
  Maintainers <- Maintainer
  Builders <- Builder
  Versions <- TwoVersions
  LockOf <- TwoLocks
  MaxImages = 3
  MaxEdits = 1
  MaxRuns = 1
  MaxFaults = 1
INVARIANTS
  TypeOK
  VerifiedTagRecorded
  ManifestQualified
  ManifestServed
