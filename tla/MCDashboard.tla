----------------------------- MODULE MCDashboard -----------------------------
(***************************************************************************)
(* The instances of MCBackend with the dashboard.                          *)
(***************************************************************************)
EXTENDS MCBackend, Dashboard

\* Leases and workers are interchangeable; units belong to different landlords.
RequestSymmetry == Permutations(Leases) \cup Permutations(Workers)
=============================================================================
