------------------------------ MODULE MCProgress ------------------------------
(***************************************************************************)
(* Model-checking instances of InstallerProgress.                          *)
(***************************************************************************)
EXTENDS InstallerProgress, TLC

\* A pull (live), the privileged helper (protocol) and an inspection (captured).
SomeCommands == {[tool |-> "docker", verb |-> "pull"],
                 [tool |-> "privileged", verb |-> "plan"],
                 [tool |-> "docker", verb |-> "inspect"]}

\* A carriage return before a line feed, alone and at the end; the secret within
\* a record, and cut by the end of one; a text longer than what is kept; nothing.
SomeTexts == {<<>>, <<"s", "t", "r">>, <<"s", "r", "n">>, <<"x", "r", "s">>, <<"x", "s", "t">>}
================================================================================
