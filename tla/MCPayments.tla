------------------------------ MODULE MCPayments ------------------------------
(***************************************************************************)
(* Small instances of Payments for TLC.                                    *)
(***************************************************************************)
EXTENDS Payments, TLC

CONSTANTS u1, u2, k1, k2, pay1, pay2, lease1, lease2, t1, t2, home1, home2, w1, w2, w3

\* One landlord with one lease and two tenants.
OneProperty == [l \in Leases |-> home1]
OneOwner == [p \in Properties |-> u1]
OneLandlord == [t \in Tenants |-> u1]
FirstTenants == [l \in Leases |-> t1]

Payment(l, t, status, date) == [lease |-> l, tenant |-> t, status |-> status, date |-> date]

\* A payment with its date left out, one with a date that may not be edited,
\* and one for the other tenant.
Undated == {Payment(lease1, t1, "pending", None)}
DatedOrNot == Undated \cup {Payment(lease1, t1, "completed", 1)}
EitherTenant == Undated \cup {Payment(lease1, t2, "completed", 1)}

OneDate == {1}
TwoDates == 1..2

\* Workers and payment ids are interchangeable, in runs of safety properties.
PaymentSymmetry == Permutations(Workers) \cup Permutations(PaymentIds)
=============================================================================
