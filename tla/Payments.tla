------------------------------- MODULE Payments -------------------------------
(***************************************************************************)
(* The payment service at work: payment requests served concurrently,      *)
(* while properties are archived and restored and leases change tenant,    *)
(* and what that system promises about payments.                           *)
(***************************************************************************)
EXTENDS PaymentService

\* Any statement fails before it has an effect, or the connection, the 10 s
\* timeout or a restart ends the transaction; after COMMIT only the answer is lost.
Fail(w) ==
  /\ pc[w] # "idle"
  /\ Leave(w)
  /\ UNCHANGED <<ledger, portfolio, answers>>

\* archiveProperty and restoreProperty.
SetArchived(p) ==
  /\ archived' = IF p \in archived THEN archived \ {p} ELSE archived \cup {p}
  /\ UNCHANGED <<ledger, leaseTenant, answers, pc, req>>

\* updateLease: another tenant of the same landlord.
ReassignLease(l, t) ==
  /\ TenantOwner[t] = PropertyOwner[PropertyOf[l]]
  /\ leaseTenant' = [leaseTenant EXCEPT ![l] = t]
  /\ UNCHANGED <<ledger, archived, answers, pc, req>>

Step(w) == CreateStep(w) \/ EditStep(w)

Next ==
  \/ \E w \in Workers : ReceiveCreate(w) \/ ReceiveEdit(w) \/ Step(w) \/ Fail(w)
  \/ \E p \in Properties : SetArchived(p)
  \/ \E l \in Leases, t \in Tenants : ReassignLease(l, t)

Spec == Init /\ [][Next]_vars

\* The event loop comes back to every handler whose statement has returned, the
\* database answers every statement, and it ends every wait for a lock.
FairSpec == Spec /\ \A w \in Workers : WF_vars(Step(w))

-----------------------------------------------------------------------------
(* Properties.                                                              *)

\* Every variable stays in its type: committed rows are complete.
TypeOK ==
  /\ claims \in [ClaimIds -> ClaimRow \cup {None}]
  /\ payments \in [PaymentIds -> PaymentRow \cup {None}]
  /\ createAudits \subseteq PaymentIds
  /\ editAudit \in EditRow \cup {None}
  /\ leaseTenant \in [Leases -> Tenants]
  /\ archived \subseteq Properties
  /\ answers \subseteq Answer
  /\ pc \in [Workers -> Steps]
  /\ req \in [Workers -> Request]

\* Claim c recorded payment p.
Recorded(c, p) == claims[c] # None /\ claims[c].payment = p

\* A payment, its audit row and its completed claim exist together or not at
\* all, and a payment belongs to one claim, wherever handlers fail or wait.
PaymentsAccounted ==
  /\ \A p \in PaymentIds :
       /\ payments[p] # None <=> p \in createAudits
       /\ payments[p] # None <=> \E c \in ClaimIds : Recorded(c, p)
  /\ \A c, d \in ClaimIds, p \in PaymentIds : Recorded(c, p) /\ Recorded(d, p) => c = d

\* A 201 is given only for the details first recorded under the key, and its
\* body tells exactly these, though the client may have left out the date and
\* the payment may have been edited since.
ConfirmationsMatchDetails ==
  \A a \in answers : a.code = "created" =>
    /\ claims[a.claim] # None
    /\ claims[a.claim].fingerprint = a.details
    /\ a.body.lease = a.details.lease
    /\ a.body.tenant = a.details.tenant
    /\ a.body.status = a.details.status
    /\ a.details.date \in {None, a.body.date}

\* A replay finds the row whose uniqueness violation sent it there, complete:
\* the service never answers a replay that the result requires investigation.
ReplayFindsRecord == \A a \in answers : a.code # "replayError"

\* Payment history: a payment is never removed, never moves to another lease,
\* tenant or status, and never changes at all once it is completed, although
\* an update writes the row some statements after it looked at it.
PaymentHistoryKept ==
  [][\A p \in PaymentIds : payments[p] # None =>
       /\ payments'[p] # None
       /\ payments'[p].lease = payments[p].lease
       /\ payments'[p].tenant = payments[p].tenant
       /\ payments'[p].status = payments[p].status
       /\ payments[p].status = "completed" => payments'[p] = payments[p]]_payments

\* Every request is answered, although claims of a key wait for each other,
\* updates wait for a row, and transactions roll back.
EveryRequestAnswered == \A w \in Workers : pc[w] # "idle" ~> pc[w] = "idle"

\* The service implements exactly-once recording: the outcome of a request
\* identity is the response stored with its claim.
EO == INSTANCE ExactlyOncePayment WITH
  RequestIds <- ClaimIds,
  Outcomes <- Body,
  outcome <- [c \in ClaimIds |-> IF claims[c] = None THEN None ELSE claims[c].body],
  paid <- {p \in PaymentIds : payments[p] # None},
  told <- {<<a.claim, a.body>> : a \in {b \in answers : b.code = "created"}}

ImplementsExactlyOnce == EO!Spec
=============================================================================
