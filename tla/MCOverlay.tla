------------------------------- MODULE MCOverlay -------------------------------
(***************************************************************************)
(* Model-checking instances of OverlayTransaction.                         *)
(***************************************************************************)
EXTENDS OverlayTransaction, TLC

\* Wheels are interchangeable, and so are the processes of one kind.
Symmetry == Permutations(Wheel) \union Permutations(Pips)
================================================================================
