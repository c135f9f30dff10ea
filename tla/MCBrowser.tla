------------------------------ MODULE MCBrowser ------------------------------
(***************************************************************************)
(* A small tab for TLC.                                                    *)
(***************************************************************************)
EXTENDS Browser

CONSTANTS t1, t2, n1, l1, h1, h2

\* Tenants are interchangeable.
RowSymmetry == Permutations(Tenants)
=============================================================================
