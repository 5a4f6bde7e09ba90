--------------------------- MODULE MCLocalImages ---------------------------
\* Instances of LocalImages for TLC.
EXTENDS LocalImages, TLC

CONSTANTS w1, w2, lockA, lockB, swr, ghcr

TwoWorkers == {w1, w2}
First == {w1}
Second == {w2}
TwoVersions == 0 .. 1
TwoLocks == 0 :> lockA @@ 1 :> lockB
TwoRegistries == <<swr, ghcr>>
=============================================================================
