\* The command run in a terminal, for a project that may exist already; one
\* early end or unasked reboot and two changes from outside.
SPECIFICATION Spec
CONSTANTS
  Installer = {i1, i2}
  AsRoot = FALSE
  Project = {a}
  None = None
  Terminal = {TRUE}
  Source = {"pull"}
  InitialTodo = {"dkms", "docker"}
  Existing = {None, "local"}
  MaxExits = 1
  MaxDrifts = 2
SYMMETRY Symmetry
INVARIANTS
  TypeOK
  OneRun
  OnlyConfirmedChanges
  AppliedByConfirmingVersion
  TuningOnVerifiedKernel
  RebootedIntoPlan
  ImagesMatchRelease
  ProjectUsesRecordedImage
  StateAdmitted
PROPERTIES
  CheckpointsKept
  NotReplayed
