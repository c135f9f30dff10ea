----------------------------- MODULE MCAccounts -----------------------------
(***************************************************************************)
(* Small instances of AccountService for TLC.                              *)
(***************************************************************************)
EXTENDS AccountService, TLC

\* Ids, e-mails, passwords and workers are interchangeable: no liveness is
\* checked.
AccountSymmetry ==
  Permutations(Accounts) \cup Permutations(Tenants) \cup Permutations(Emails)
    \cup Permutations(Passwords) \cup Permutations(Workers)
=============================================================================
