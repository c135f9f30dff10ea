------------------------------ MODULE MCBackend ------------------------------
(***************************************************************************)
(* Small instances of Backend for TLC.                                     *)
(***************************************************************************)
EXTENDS Backend, TLC

CONSTANTS u1, u2, p1, p2, p3, n1, n2, t1, t2, l1, l2, w1, w2

\* One landlord with every row.
OnePropertyOwner == [p \in Properties |-> u1]
OneTenantOwner == [t \in Tenants |-> u1]
OneHome == [n \in Units |-> p1]

\* Landlord u1 with two properties, u2 with one; a unit and a tenant each.
TwoPropertyOwner == [p \in Properties |-> IF p = p3 THEN u2 ELSE u1]
TwoTenantOwner == [t \in Tenants |-> IF t = t1 THEN u1 ELSE u2]
TwoHome == [n \in Units |-> IF n = n1 THEN p1 ELSE p3]

\* Workers are interchangeable, and so are leases, and units of one property:
\* sound in the runs that check no liveness property.
WorkerSymmetry == Permutations(Workers)
RaceSymmetry ==
  Permutations(Leases) \cup Permutations(Units) \cup Permutations(Workers)

\* Updates that send any of the relationships.
AnyRelationships == SUBSET {"property", "unit", "tenant"}

\* One possible term of a lease, and three.
OneTerm == 1..2
ThreeTerms == 1..3
=============================================================================
