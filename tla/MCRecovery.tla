------------------------------ MODULE MCRecovery ------------------------------
(***************************************************************************)
(* Small instances of PaymentRecovery for TLC.                             *)
(***************************************************************************)
EXTENDS PaymentRecovery, TLC

CONSTANTS u1, u2, tab1, tab2, tab3, k1, k2, k3

\* Tabs, keys and accounts are interchangeable.
RecoverySymmetry == Permutations(Tabs) \cup Permutations(Keys) \cup Permutations(Users)
=============================================================================
