---------------------------- MODULE PaymentService ----------------------------
(***************************************************************************)
(* POST /api/payments with an Idempotency-Key, and PUT /api/payments/:id.  *)
(*                                                                         *)
(* Each runs one interactive transaction at READ COMMITTED.  What an open  *)
(* transaction has written is visible to nobody else, so it is kept in the *)
(* local variables req[w] of its handler until Commit; a rollback forgets  *)
(* it.  Two things of an open transaction do reach the others: the claim   *)
(* of a key makes a second claim of that key wait, and an updated payment  *)
(* row makes a second update of it wait.                                   *)
(*                                                                         *)
(* A submission stands for the accepted body of the request.  Its date is  *)
(* None when the client left paymentDate out, and is then chosen at the    *)
(* insert.  The date also stands for the fields a later update may edit.   *)
(***************************************************************************)
EXTENDS Naturals, FiniteSets

CONSTANTS
  Users,          \* authenticated landlords
  Keys,           \* Idempotency-Key values, generated by the browsers
  PaymentIds,     \* ids cuid() may give to rows of the table payments (a bound)
  Leases,         \* rows of the table leases
  Tenants,        \* rows of the table tenants
  Properties,     \* rows of the table properties
  PropertyOf,     \* leases.propertyId; an update keeps it with its landlord
  PropertyOwner,  \* properties.userId
  TenantOwner,    \* tenants.userId
  FirstTenant,    \* the tenant of each lease to begin with
  Dates,          \* payment dates (a bound)
  Submissions,    \* bodies the clients of this instance send (a bound)
  Edits,          \* dates those clients send in updates
  Workers,        \* requests being served at the same time (a bound)
  None            \* SQL NULL, and a field a request does not carry

PaymentStatuses == {"pending", "completed", "failed"}

Details ==
  [lease: Leases, tenant: Tenants, status: PaymentStatuses, date: Dates \cup {None}]

\* The response of a creation: the payment with its lease and tenant included.
Body ==
  [payment: PaymentIds, lease: Leases, tenant: Tenants, status: PaymentStatuses,
   date: Dates, leaseTenant: Tenants]

PaymentRow == [lease: Leases, tenant: Tenants, status: PaymentStatuses, date: Dates]

\* A row of payment_create_requests; the fingerprint stands for what is hashed.
ClaimRow ==
  [fingerprint: Details, payment: PaymentIds \cup {None}, body: Body \cup {None}]

\* Its primary key: the user and the key.
ClaimIds == Users \X Keys

EditRow == [payment: PaymentIds, before: Dates, after: Dates]

Answer ==
  [claim: ClaimIds, details: Details,
   code: {"created", "replayError", "finalizeError"}, body: Body \cup {None}]

CreateSteps == {"claim", "lease", "tenant", "insert", "audit", "complete", "commit",
                "respond", "record", "access"}
EditSteps == {"load", "check", "edit", "editAudit", "editCommit"}
Steps == {"idle"} \cup CreateSteps \cup EditSteps

\* The local variables of a handler and the writes of its open transaction.
Request ==
  [claim: ClaimIds \cup {None}, details: Details \cup {None},
   user: Users \cup {None}, leaseTenant: Tenants \cup {None},
   payment: PaymentIds \cup {None}, row: PaymentRow \cup {None},
   audited: BOOLEAN, record: ClaimRow \cup {None},
   date: Dates \cup {None}, before: Dates \cup {None}]

ASSUME PortfolioAssumption ==
  /\ PropertyOf \in [Leases -> Properties]
  /\ PropertyOwner \in [Properties -> Users]
  /\ TenantOwner \in [Tenants -> Users]
  /\ FirstTenant \in [Leases -> Tenants]

ASSUME SubmissionsAssumption == Submissions \subseteq Details /\ Edits \subseteq Dates

ASSUME NullAssumption ==
  None \notin Users \cup Tenants \cup PaymentIds \cup Dates
              \cup ClaimIds \cup Details \cup ClaimRow \cup PaymentRow \cup Body \cup EditRow

VARIABLES
  claims,        \* payment_create_requests: a row, or None, for each primary key
  payments,      \* the table payments: a row, or None, for each id
  createAudits,  \* the payments a CREATE_PAYMENT audit row names
  editAudit,     \* the UPDATE_PAYMENT audit row inserted last
  leaseTenant,   \* leases.tenantId
  archived,      \* the properties whose deletedAt is set
  answers,       \* the 201 and integrity-error responses sent so far
  pc,            \* the statement each worker runs next
  req            \* the local variables of each worker

ledger == <<claims, payments, createAudits, editAudit>>
portfolio == <<leaseTenant, archived>>
vars == <<claims, payments, createAudits, editAudit, leaseTenant, archived,
          answers, pc, req>>

NoRequest ==
  [claim |-> None, details |-> None, user |-> None, leaseTenant |-> None,
   payment |-> None, row |-> None, audited |-> FALSE, record |-> None,
   date |-> None, before |-> None]

Init ==
  /\ claims = [c \in ClaimIds |-> None]
  /\ payments = [p \in PaymentIds |-> None]
  /\ createAudits = {}
  /\ editAudit = None
  /\ leaseTenant = FirstTenant
  /\ archived = {}
  /\ answers = {}
  /\ pc = [w \in Workers |-> "idle"]
  /\ req = [w \in Workers |-> NoRequest]

-----------------------------------------------------------------------------
(* Control of a handler.                                                    *)

\* Lease l under a property of user u with deletedAt null.
Accessible(u, l) ==
  PropertyOwner[PropertyOf[l]] = u /\ PropertyOf[l] \notin archived

\* The next statement of w, with `local` its local variables from now on.
Go(w, step, local) ==
  /\ pc' = [pc EXCEPT ![w] = step]
  /\ req' = [req EXCEPT ![w] = local]

\* The handler is over and its transaction, if still open, is rolled back.
Leave(w) == Go(w, "idle", NoRequest)

\* The handler is over with an answer that carries evidence about the key.
Reply(w, code, body) ==
  /\ answers' = answers \cup {[claim |-> req[w].claim, details |-> req[w].details,
                               code |-> code, body |-> body]}
  /\ Leave(w)

\* The uncommitted insert of a claim of c by another transaction.
ClaimedByOther(w, c) ==
  \E v \in Workers \ {w} :
    pc[v] \in {"lease", "tenant", "insert", "audit", "complete", "commit"} /\ req[v].claim = c

\* The uncommitted update of payment p by another transaction.
LockedByOther(w, p) ==
  \E v \in Workers \ {w} : pc[v] \in {"editAudit", "editCommit"} /\ req[v].payment = p

-----------------------------------------------------------------------------
(* createPaymentHandler.                                                    *)

\* Mutant: the key alone identifies a request, whoever sends it.
ReceiveCreateUnscoped(w) ==
  /\ pc[w] = "idle"
  /\ \E c \in ClaimIds, d \in Submissions :
       Go(w, "claim", [NoRequest EXCEPT !.claim = <<CHOOSE u \in Users : TRUE, c[2]>>,
                                        !.user = c[1], !.details = d])
  /\ UNCHANGED <<ledger, portfolio, answers>>

\* parsePaymentRequestKey and fingerprintPaymentRequest.
ReceiveCreate(w) ==
  /\ pc[w] = "idle"
  /\ \E c \in ClaimIds, d \in Submissions :
       Go(w, "claim", [NoRequest EXCEPT !.claim = c, !.user = c[1], !.details = d])
  /\ UNCHANGED <<ledger, portfolio, answers>>

\* Mutant: the claim is looked up instead of inserted, so nobody waits for it.
ClaimWithoutWaiting(w) ==
  /\ pc[w] = "claim"
  /\ \/ /\ claims[req[w].claim] = None
        /\ Go(w, "lease", [req[w] EXCEPT !.record =
             [fingerprint |-> req[w].details, payment |-> None, body |-> None]])
     \/ claims[req[w].claim] # None /\ Go(w, "record", req[w])
  /\ UNCHANGED <<ledger, portfolio, answers>>

\* claimPaymentRequest: the INSERT waits until no other transaction holds the
\* key; a row committed by then is error 23505, which rolls back and replays.
Claim(w) ==
  /\ pc[w] = "claim"
  /\ ~ClaimedByOther(w, req[w].claim)
  /\ \/ /\ claims[req[w].claim] = None
        /\ Go(w, "lease", [req[w] EXCEPT !.record =
             [fingerprint |-> req[w].details, payment |-> None, body |-> None]])
     \/ claims[req[w].claim] # None /\ Go(w, "record", req[w])
  /\ UNCHANGED <<ledger, portfolio, answers>>

\* Mutant: the claim waits for ever.
ClaimNeverTimesOut(w) == FALSE /\ UNCHANGED vars

\* The wait exceeds lock_timeout (55P03): a 503, and nothing is known of the key.
ClaimTimeout(w) ==
  /\ pc[w] = "claim"
  /\ ClaimedByOther(w, req[w].claim)
  /\ Leave(w)
  /\ UNCHANGED <<ledger, portfolio, answers>>

\* createPayment: the lease, with the tenant it has now.
CheckLease(w) ==
  LET l == req[w].details.lease IN
  /\ pc[w] = "lease"
  /\ \/ /\ Accessible(req[w].user, l)
        /\ Go(w, "tenant", [req[w] EXCEPT !.leaseTenant = leaseTenant[l]])
     \/ ~Accessible(req[w].user, l) /\ Leave(w)
  /\ UNCHANGED <<ledger, portfolio, answers>>

\* createPayment: the tenant is the user's, and was the lease's a statement ago.
CheckTenant(w) ==
  LET t == req[w].details.tenant
      accepted == TenantOwner[t] = req[w].user /\ t = req[w].leaseTenant IN
  /\ pc[w] = "tenant"
  /\ \/ accepted /\ Go(w, "insert", req[w])
     \/ ~accepted /\ Leave(w)
  /\ UNCHANGED <<ledger, portfolio, answers>>

\* Mutant: an omitted date is stored as it is.
InsertUndated(w) ==
  /\ pc[w] = "insert"
  /\ \E p \in PaymentIds :
       /\ payments[p] = None
       /\ \A v \in Workers : req[v].payment # p
       /\ Go(w, "audit",
             [req[w] EXCEPT
                !.payment = p,
                !.leaseTenant = leaseTenant[req[w].details.lease],
                !.row = [lease |-> req[w].details.lease, tenant |-> req[w].details.tenant,
                         status |-> req[w].details.status, date |-> req[w].details.date]])
  /\ UNCHANGED <<ledger, portfolio, answers>>

\* createPaymentRecord: the row with its date filled in, and the lease and the
\* tenant it returns, read once more.
InsertPayment(w) ==
  /\ pc[w] = "insert"
  /\ \E p \in PaymentIds, date \in Dates :
       /\ payments[p] = None
       /\ \A v \in Workers : req[v].payment # p
       /\ req[w].details.date # None => date = req[w].details.date
       /\ Go(w, "audit",
             [req[w] EXCEPT
                !.payment = p,
                !.leaseTenant = leaseTenant[req[w].details.lease],
                !.row = [lease |-> req[w].details.lease, tenant |-> req[w].details.tenant,
                         status |-> req[w].details.status, date |-> date]])
  /\ UNCHANGED <<ledger, portfolio, answers>>

\* createAuditLog with the transaction's client.
AuditCreation(w) ==
  /\ pc[w] = "audit"
  /\ Go(w, "complete", [req[w] EXCEPT !.audited = TRUE])
  /\ UNCHANGED <<ledger, portfolio, answers>>

Response(w) ==
  [payment |-> req[w].payment, lease |-> req[w].row.lease, tenant |-> req[w].row.tenant,
   status |-> req[w].row.status, date |-> req[w].row.date,
   leaseTenant |-> req[w].leaseTenant]

\* verifyCompletedRequest: complete, and its parts name each other.
Complete(record, user) ==
  /\ record.payment # None
  /\ record.body # None
  /\ record.body.payment = record.payment
  /\ record.body.leaseTenant = record.body.tenant
  /\ TenantOwner[record.body.tenant] = user

\* completePaymentRequest: the response is stored with the claim, or the
\* transaction fails with IDEMPOTENCY_RECORD_INCOMPLETE, phase finalize.
CompleteClaim(w) ==
  LET record == [fingerprint |-> req[w].record.fingerprint, payment |-> req[w].payment,
                 body |-> Response(w)] IN
  /\ pc[w] = "complete"
  /\ \/ /\ Complete(record, req[w].user)
        /\ Go(w, "commit", [req[w] EXCEPT !.record = record])
        /\ UNCHANGED answers
     \/ /\ ~Complete(record, req[w].user)
        /\ Reply(w, "finalizeError", None)
  /\ UNCHANGED <<ledger, portfolio>>

\* COMMIT: everything the transaction wrote becomes visible at once.
Commit(w) ==
  /\ pc[w] = "commit"
  /\ claims' = [claims EXCEPT ![req[w].claim] = req[w].record]
  /\ payments' = [payments EXCEPT ![req[w].payment] = req[w].row]
  /\ createAudits' = IF req[w].audited THEN createAudits \cup {req[w].payment} ELSE createAudits
  /\ Go(w, "respond", req[w])
  /\ UNCHANGED <<editAudit, portfolio, answers>>

\* The 201 is sent once COMMIT has returned.
Respond(w) ==
  /\ pc[w] = "respond"
  /\ Reply(w, "created", req[w].record.body)
  /\ UNCHANGED <<ledger, portfolio>>

\* replayPaymentRequest: the committed row, which must be there and complete.
ReadRecord(w) ==
  LET record == claims[req[w].claim]
      sound == record # None /\ Complete(record, req[w].user) IN
  /\ pc[w] = "record"
  /\ \/ sound /\ Go(w, "access", [req[w] EXCEPT !.record = record]) /\ UNCHANGED answers
     \/ ~sound /\ Reply(w, "replayError", None)
  /\ UNCHANGED <<ledger, portfolio>>

\* Mutant: a replay does not compare the details.
ReplayAnyDetails(w) ==
  LET row == payments[req[w].record.payment] IN
  /\ pc[w] = "access"
  /\ \/ row # None /\ Accessible(req[w].user, row.lease) /\ Reply(w, "created", req[w].record.body)
     \/ /\ ~(row # None /\ Accessible(req[w].user, row.lease))
        /\ Leave(w)
        /\ UNCHANGED answers
  /\ UNCHANGED <<ledger, portfolio>>

\* Mutant: a replay answers with the payment as it is now.
ReplayCurrent(w) ==
  LET row == payments[req[w].record.payment]
      granted ==
        /\ row # None
        /\ Accessible(req[w].user, row.lease)
        /\ req[w].record.fingerprint = req[w].details IN
  /\ pc[w] = "access"
  /\ \/ granted /\ Reply(w, "created", [req[w].record.body EXCEPT !.date = row.date])
     \/ ~granted /\ Leave(w) /\ UNCHANGED answers
  /\ UNCHANGED <<ledger, portfolio>>

\* replayPaymentRequest: the payment is still accessible (else 404), the details
\* are those of the first request (else 409), and the stored body is the answer.
Replay(w) ==
  LET row == payments[req[w].record.payment]
      granted ==
        /\ row # None
        /\ Accessible(req[w].user, row.lease)
        /\ req[w].record.fingerprint = req[w].details IN
  /\ pc[w] = "access"
  /\ \/ granted /\ Reply(w, "created", req[w].record.body)
     \/ ~granted /\ Leave(w) /\ UNCHANGED answers
  /\ UNCHANGED <<ledger, portfolio>>

CreateStep(w) ==
  \/ Claim(w) \/ ClaimTimeout(w)
  \/ CheckLease(w) \/ CheckTenant(w) \/ InsertPayment(w) \/ AuditCreation(w)
  \/ CompleteClaim(w) \/ Commit(w) \/ Respond(w)
  \/ ReadRecord(w) \/ Replay(w)

-----------------------------------------------------------------------------
(* updatePaymentHandler.                                                    *)

ReceiveEdit(w) ==
  /\ pc[w] = "idle"
  /\ \E u \in Users, p \in PaymentIds, date \in Edits :
       /\ payments[p] # None
       /\ Go(w, "load", [NoRequest EXCEPT !.user = u, !.payment = p, !.date = date])
  /\ UNCHANGED <<ledger, portfolio, answers>>

\* The payment as the user may see it: getPaymentById and updatePayment alike.
Visible(u, p) == payments[p] # None /\ Accessible(u, payments[p].lease)

\* The handler reads the previous state for the audit row, before the transaction.
LoadPayment(w) ==
  LET p == req[w].payment IN
  /\ pc[w] = "load"
  /\ \/ Visible(req[w].user, p) /\ Go(w, "check", [req[w] EXCEPT !.before = payments[p].date])
     \/ ~Visible(req[w].user, p) /\ Leave(w)
  /\ UNCHANGED <<ledger, portfolio, answers>>

\* Mutant: the status is not looked at.
CheckEditAnyStatus(w) ==
  LET editable == Visible(req[w].user, req[w].payment) IN
  /\ pc[w] = "check"
  /\ \/ editable /\ Go(w, "edit", req[w])
     \/ ~editable /\ Leave(w)
  /\ UNCHANGED <<ledger, portfolio, answers>>

\* updatePayment: still visible, and not completed.
CheckEdit(w) ==
  LET editable == /\ Visible(req[w].user, req[w].payment)
                  /\ payments[req[w].payment].status # "completed" IN
  /\ pc[w] = "check"
  /\ \/ editable /\ Go(w, "edit", req[w])
     \/ ~editable /\ Leave(w)
  /\ UNCHANGED <<ledger, portfolio, answers>>

\* updatePayment: the UPDATE waits for the row.
EditPayment(w) ==
  /\ pc[w] = "edit"
  /\ ~LockedByOther(w, req[w].payment)
  /\ Go(w, "editAudit",
        [req[w] EXCEPT !.row = [payments[req[w].payment] EXCEPT !.date = req[w].date]])
  /\ UNCHANGED <<ledger, portfolio, answers>>

\* The wait outlasts the timeout of the transaction.
EditTimeout(w) ==
  /\ pc[w] = "edit"
  /\ LockedByOther(w, req[w].payment)
  /\ Leave(w)
  /\ UNCHANGED <<ledger, portfolio, answers>>

\* createAuditLog with the transaction's client.
AuditEdit(w) ==
  /\ pc[w] = "editAudit"
  /\ Go(w, "editCommit", [req[w] EXCEPT !.audited = TRUE])
  /\ UNCHANGED <<ledger, portfolio, answers>>

\* COMMIT of the payment and its audit row.
CommitEdit(w) ==
  /\ pc[w] = "editCommit"
  /\ payments' = [payments EXCEPT ![req[w].payment] = req[w].row]
  /\ editAudit' = IF req[w].audited
                    THEN [payment |-> req[w].payment, before |-> req[w].before,
                          after |-> req[w].row.date]
                    ELSE editAudit
  /\ Leave(w)
  /\ UNCHANGED <<claims, createAudits, portfolio, answers>>

EditStep(w) ==
  \/ LoadPayment(w) \/ CheckEdit(w) \/ EditPayment(w) \/ EditTimeout(w)
  \/ AuditEdit(w) \/ CommitEdit(w)
=============================================================================
