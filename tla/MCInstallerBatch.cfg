\* The command run with --non-interactive and any accepted digests, pulling or
\* building the images; one early end or unasked reboot, one change from
\* outside.
SPECIFICATION Spec
CONSTANTS
  Installer = {i1, i2}
  AsRoot = FALSE
  Project = {a}
  None = None
  Terminal = {FALSE}
  Source = {"pull", "build"}
  InitialTodo = {"dkms", "docker"}
  Existing = {None}
  MaxExits = 1
  MaxDrifts = 1
SYMMETRY Symmetry
INVARIANT NamedPlanApplied
