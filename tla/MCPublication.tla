--------------------------- MODULE MCPublication ---------------------------
\* Instances of ReleasePublication for TLC.
EXTENDS ReleasePublication, TLC

CONSTANTS w1, w2, lockA, lockB

TwoWorkers == {w1, w2}
Maintainer == {w1}
Builder == {w2}
TwoVersions == 0 .. 1
TwoLocks == 0 :> lockA @@ 1 :> lockB
=============================================================================
