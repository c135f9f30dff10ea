----------------------------- MODULE MCHolding -----------------------------
(***************************************************************************)
(* Small instances of HoldingService for TLC.                              *)
(***************************************************************************)
EXTENDS HoldingService, TLC

\* Ids, landlords and workers are interchangeable: no liveness is checked.
HoldingSymmetry ==
  Permutations(Users) \cup Permutations(Properties) \cup Permutations(Units)
    \cup Permutations(Workers)
=============================================================================
