------------------------------ MODULE MCInstaller ------------------------------
(***************************************************************************)
(* Model-checking instances of InstallerWorkflow.                          *)
(***************************************************************************)
EXTENDS InstallerWorkflow, TLC

\* Runs of the command are interchangeable.
Symmetry == Permutations(Installer)
================================================================================
