\* As MCInstallerResume, with one early end: does repeating the command always
\* complete the installation?
SPECIFICATION FairSpec
CONSTANTS
  Installer = {i1}
  AsRoot = FALSE
  Project = {a}
  None = None
  Terminal = {TRUE}
  Source = {"pull"}
  InitialTodo = {"sources", "dkms", "docker", "devices"}
  Existing = {None}
  MaxExits = 1
  MaxDrifts = 0
PROPERTIES
  RerunFinishes
