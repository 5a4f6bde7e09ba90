\* One project, an operator who repeats the same command and reboots when
\* asked; runs may end early twice, nothing else changes.
SPECIFICATION FairSpec
CONSTANTS
  Installer = {i1}
  AsRoot = FALSE
  Project = {a}
  None = None
  Terminal = {TRUE}
  Source = {"pull"}
  InitialTodo = {"sources", "dkms", "docker", "devices"}
  Existing = {None}
  MaxExits = 2
  MaxDrifts = 0
PROPERTIES
  FinishesOrObsolete
