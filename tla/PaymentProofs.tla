---------------------------- MODULE PaymentProofs ----------------------------
(***************************************************************************)
(* Proofs about Payments, for any number of landlords, keys, payments,     *)
(* leases, tenants and concurrent requests.                                *)
(*                                                                         *)
(* The inductive invariant says what the open transactions hold (a key, an *)
(* unused payment id, each by one of them), what each handler has read or  *)
(* prepared by the time it reaches a statement, and what every committed   *)
(* claim looks like.                                                       *)
(***************************************************************************)
EXTENDS Payments, TLAPS

\* The transaction holds the claim of its key, and the id of its payment.
HoldsClaim == {"lease", "tenant", "insert", "audit", "complete", "commit"}
HoldsPayment == {"audit", "complete", "commit"}

\* What a claim stores when it is complete.
RowOK(c, row) ==
  /\ row \in ClaimRow
  /\ row.payment \in PaymentIds
  /\ row.body \in Body
  /\ row.body.payment = row.payment
  /\ row.body.leaseTenant = row.body.tenant
  /\ TenantOwner[row.body.tenant] = c[1]
  /\ row.body.lease = row.fingerprint.lease
  /\ row.body.tenant = row.fingerprint.tenant
  /\ row.body.status = row.fingerprint.status
  /\ row.fingerprint.date \in {None, row.body.date}

\* The payment row a creation is about to insert.
RowPrepared(r) ==
  /\ r.payment \in PaymentIds
  /\ payments[r.payment] = None
  /\ r.leaseTenant \in Tenants
  /\ r.row \in PaymentRow
  /\ r.row.lease = r.details.lease
  /\ r.row.tenant = r.details.tenant
  /\ r.row.status = r.details.status
  /\ r.details.date \in {None, r.row.date}

\* What a handler relies on before the statement `step`, given its locals r.
CreateOK(step, r) ==
  /\ step \in CreateSteps =>
       r.claim \in ClaimIds /\ r.details \in Details /\ r.user = r.claim[1]
  /\ step \in HoldsClaim => claims[r.claim] = None
  /\ step \in HoldsClaim \ {"commit"} =>
       r.record = [fingerprint |-> r.details, payment |-> None, body |-> None]
  /\ step \in HoldsPayment => RowPrepared(r)
  /\ step \in {"complete", "commit"} => r.audited
  /\ step = "commit" =>
       /\ RowOK(r.claim, r.record)
       /\ r.record.payment = r.payment
       /\ r.record.fingerprint = r.details
  /\ step = "record" => claims[r.claim] # None
  /\ step \in {"respond", "access"} => claims[r.claim] # None /\ r.record = claims[r.claim]
  /\ step = "respond" => r.record.fingerprint = r.details

\* Rows that differ in their date at most.
SameRecord(row, old) ==
  row.lease = old.lease /\ row.tenant = old.tenant /\ row.status = old.status

EditOK(step, r) ==
  /\ step \in EditSteps =>
       /\ r.user \in Users
       /\ r.payment \in PaymentIds
       /\ r.date \in Dates
       /\ payments[r.payment] # None
  /\ step \in EditSteps \ {"load"} => r.before \in Dates
  /\ step \in {"edit", "editAudit", "editCommit"} => payments[r.payment].status # "completed"
  /\ step \in {"editAudit", "editCommit"} => r.row \in PaymentRow /\ SameRecord(r.row, payments[r.payment])

LocalOK(step, r) == CreateOK(step, r) /\ EditOK(step, r)

\* No two open transactions hold the same claim, or the same new payment.
Exclusive ==
  \A v, w \in Workers : v # w =>
    /\ pc[v] \in HoldsClaim /\ pc[w] \in HoldsClaim => req[v].claim # req[w].claim
    /\ pc[v] \in HoldsPayment /\ pc[w] \in HoldsPayment => req[v].payment # req[w].payment

\* Every answered confirmation repeats the claim it came from.
AnswersOK ==
  \A a \in answers :
    /\ a.code # "replayError"
    /\ a.code = "created" =>
         /\ claims[a.claim] # None
         /\ claims[a.claim].fingerprint = a.details
         /\ claims[a.claim].body = a.body

Inv ==
  /\ TypeOK
  /\ \A w \in Workers : LocalOK(pc[w], req[w])
  /\ Exclusive
  /\ \A c \in ClaimIds : claims[c] # None => RowOK(c, claims[c])
  /\ PaymentsAccounted
  /\ AnswersOK

-----------------------------------------------------------------------------
(* Steps that leave the tables of the ledger alone.                         *)

\* A step of w that changes its locals, and at most the answers besides.
LEMMA LocalStep ==
  ASSUME Inv, NEW w \in Workers, NEW step \in Steps, NEW r \in Request,
         Go(w, step, r), UNCHANGED <<ledger, portfolio>>,
         answers' \subseteq Answer, AnswersOK',
         LocalOK(step, r),
         \A v \in Workers \ {w} : pc[v] \in HoldsClaim /\ step \in HoldsClaim
                                    => req[v].claim # r.claim,
         \A v \in Workers \ {w} : pc[v] \in HoldsPayment /\ step \in HoldsPayment
                                    => req[v].payment # r.payment
  PROVE  Inv'
<1>1. pc \in [Workers -> Steps] /\ req \in [Workers -> Request]
  BY DEF Inv, TypeOK
<1>2. pc'[w] = step /\ req'[w] = r
  BY <1>1 DEF Go
<1>3. \A v \in Workers \ {w} : pc'[v] = pc[v] /\ req'[v] = req[v]
  BY <1>1 DEF Go
<1>4. claims' = claims /\ payments' = payments
  BY DEF ledger
<1>5. TypeOK'
  BY <1>1 DEF Inv, TypeOK, Go, ledger, portfolio
<1>6. (\A v \in Workers : LocalOK(pc[v], req[v]))'
  <2> SUFFICES ASSUME NEW v \in Workers PROVE LocalOK(pc[v], req[v])'
    OBVIOUS
  <2>1. CASE v = w
    BY <2>1, <1>2, <1>4 DEF LocalOK, CreateOK, EditOK, RowPrepared, RowOK
  <2>2. CASE v # w
    <3>1. LocalOK(pc[v], req[v])
      BY DEF Inv
    <3> QED
      BY <2>2, <3>1, <1>3, <1>4 DEF LocalOK, CreateOK, EditOK, RowPrepared, RowOK
  <2> QED
    BY <2>1, <2>2
<1>7. Exclusive'
  <2>1. Exclusive
    BY DEF Inv
  <2> QED
    BY <2>1, <1>2, <1>3 DEF Exclusive
<1>8. (\A c \in ClaimIds : claims[c] # None => RowOK(c, claims[c]))'
  BY <1>4 DEF Inv, RowOK
<1>9. PaymentsAccounted'
  BY DEF Inv, PaymentsAccounted, Recorded, ledger
<1> QED
  BY <1>5, <1>6, <1>7, <1>8, <1>9 DEF Inv

\* A step of w that also keeps what w holds, and answers nobody.
LEMMA KeepingStep ==
  ASSUME Inv, NEW w \in Workers, NEW step \in Steps, NEW r \in Request,
         Go(w, step, r), UNCHANGED <<ledger, portfolio, answers>>,
         LocalOK(step, r),
         step \in HoldsClaim => pc[w] \in HoldsClaim /\ r.claim = req[w].claim,
         step \in HoldsPayment => pc[w] \in HoldsPayment /\ r.payment = req[w].payment
  PROVE  Inv'
<1>1. answers' \subseteq Answer
  BY DEF Inv, TypeOK
<1>2. AnswersOK'
  BY DEF Inv, AnswersOK, ledger
<1>3. Exclusive
  BY DEF Inv
<1>4. UNCHANGED <<ledger, portfolio>>
  OBVIOUS
<1> QED
  BY <1>1, <1>2, <1>3, <1>4, LocalStep DEF Exclusive

LEMMA EmptyRequest == NoRequest \in Request /\ "idle" \in Steps /\ LocalOK("idle", NoRequest)
BY DEF NoRequest, Request, Steps, LocalOK, CreateOK, EditOK, CreateSteps, EditSteps,
       HoldsClaim, HoldsPayment

\* Leaving without an answer that carries evidence.
LEMMA LeaveStep ==
  ASSUME Inv, NEW w \in Workers, Leave(w), UNCHANGED <<ledger, portfolio, answers>>
  PROVE  Inv'
<1>1. "idle" \notin HoldsClaim /\ "idle" \notin HoldsPayment
  BY DEF HoldsClaim, HoldsPayment
<1>2. Go(w, "idle", NoRequest)
  BY DEF Leave
<1> QED
  BY <1>1, <1>2, EmptyRequest, KeepingStep

\* Leaving with such an answer.
LEMMA ReplyStep ==
  ASSUME Inv, NEW w \in Workers, NEW code, NEW body, Reply(w, code, body),
         UNCHANGED <<ledger, portfolio>>,
         pc[w] \in CreateSteps,
         code \in {"created", "finalizeError"},
         body \in Body \cup {None},
         code = "created" =>
           /\ claims[req[w].claim] # None
           /\ claims[req[w].claim].fingerprint = req[w].details
           /\ claims[req[w].claim].body = body
  PROVE  Inv'
<1>1. "idle" \notin HoldsClaim /\ "idle" \notin HoldsPayment
  BY DEF HoldsClaim, HoldsPayment
<1>2. Go(w, "idle", NoRequest)
  BY DEF Leave, Reply
<1> DEFINE answer == [claim |-> req[w].claim, details |-> req[w].details,
                      code |-> code, body |-> body]
<1>3. answers' = answers \cup {answer}
  BY DEF Reply
<1>4. req[w].claim \in ClaimIds /\ req[w].details \in Details
  BY DEF Inv, LocalOK, CreateOK
<1>5. answer \in Answer
  BY <1>4 DEF Answer
<1>6. answer.claim = req[w].claim /\ answer.details = req[w].details
      /\ answer.code = code /\ answer.body = body
  OBVIOUS
<1> HIDE DEF answer
<1>7. answers' \subseteq Answer
  BY <1>3, <1>5 DEF Inv, TypeOK
<1>8. AnswersOK'
  <2>1. claims' = claims
    BY DEF ledger
  <2>2. AnswersOK
    BY DEF Inv
  <2> QED
    BY <1>3, <1>6, <2>1, <2>2 DEF AnswersOK
<1> QED
  BY <1>1, <1>2, <1>7, <1>8, EmptyRequest, LocalStep

-----------------------------------------------------------------------------
(* The actions of a creation.                                               *)

\* The type of the locals after a change of some of them.
LEMMA RequestChanged ==
  ASSUME NEW r \in Request,
         NEW record \in ClaimRow \cup {None}, NEW tenant \in Tenants \cup {None},
         NEW payment \in PaymentIds \cup {None}, NEW row \in PaymentRow \cup {None},
         NEW date \in Dates \cup {None}
  PROVE  /\ [r EXCEPT !.record = record] \in Request
         /\ [r EXCEPT !.leaseTenant = tenant] \in Request
         /\ [r EXCEPT !.payment = payment, !.leaseTenant = tenant, !.row = row] \in Request
         /\ [r EXCEPT !.audited = TRUE] \in Request
         /\ [r EXCEPT !.before = date] \in Request
         /\ [r EXCEPT !.row = row] \in Request
<1>1. [r EXCEPT !.record = record] \in Request
  BY DEF Request
<1>2. [r EXCEPT !.leaseTenant = tenant] \in Request
  BY DEF Request
<1>3. [r EXCEPT !.payment = payment, !.leaseTenant = tenant, !.row = row] \in Request
  BY DEF Request
<1>4. [r EXCEPT !.audited = TRUE] \in Request
  BY DEF Request
<1>5. [r EXCEPT !.before = date] \in Request
  BY DEF Request
<1>6. [r EXCEPT !.row = row] \in Request
  BY DEF Request
<1> QED
  BY <1>1, <1>2, <1>3, <1>4, <1>5, <1>6

LEMMA NoneIsNothing ==
  /\ None \notin Users /\ None \notin Tenants /\ None \notin PaymentIds /\ None \notin Dates
  /\ None \notin ClaimIds /\ None \notin Details /\ None \notin ClaimRow
  /\ None \notin PaymentRow /\ None \notin Body
BY NullAssumption

\* A newly received creation.
LEMMA ReceiveCreateStep ==
  ASSUME Inv, NEW w \in Workers, ReceiveCreate(w)
  PROVE  Inv'
<1>1. PICK c \in ClaimIds, d \in Submissions :
        Go(w, "claim", [NoRequest EXCEPT !.claim = c, !.user = c[1], !.details = d])
  BY DEF ReceiveCreate
<1> DEFINE r == [NoRequest EXCEPT !.claim = c, !.user = c[1], !.details = d]
<1>2. c[1] \in Users
  BY DEF ClaimIds
<1>3. d \in Details
  BY SubmissionsAssumption
<1>4. r \in Request
  BY <1>2, <1>3 DEF Request, NoRequest
<1>5. r.claim = c /\ r.user = c[1] /\ r.details = d
  BY DEF NoRequest
<1> HIDE DEF r
<1>6. LocalOK("claim", r)
  BY <1>3, <1>5 DEF LocalOK, CreateOK, EditOK, CreateSteps, EditSteps, HoldsClaim, HoldsPayment
<1>7. "claim" \in Steps /\ "claim" \notin HoldsClaim /\ "claim" \notin HoldsPayment
  BY DEF Steps, CreateSteps, HoldsClaim, HoldsPayment
<1>8. Go(w, "claim", r)
  BY <1>1 DEF r
<1>9. UNCHANGED <<ledger, portfolio, answers>>
  BY DEF ReceiveCreate
<1> QED
  BY <1>4, <1>6, <1>7, <1>8, <1>9, KeepingStep

\* The claim is taken, or it is found committed.
LEMMA ClaimStep ==
  ASSUME Inv, NEW w \in Workers, Claim(w)
  PROVE  Inv'
<1> DEFINE row == [fingerprint |-> req[w].details, payment |-> None, body |-> None]
           r == [req[w] EXCEPT !.record = row]
<1>1. LocalOK("claim", req[w]) /\ req[w] \in Request
  BY DEF Inv, TypeOK, Claim
<1>2. UNCHANGED <<ledger, portfolio>> /\ answers' = answers
  BY DEF Claim
<1>3. req[w].claim \in ClaimIds /\ req[w].details \in Details /\ req[w].user = req[w].claim[1]
  BY <1>1 DEF LocalOK, CreateOK, CreateSteps
<1>4. CASE claims[req[w].claim] = None /\ Go(w, "lease", r)
  <2>1. row \in ClaimRow
    BY <1>3 DEF ClaimRow
  <2>2. r \in Request
    BY <2>1, <1>1, RequestChanged
  <2>3. r.claim = req[w].claim /\ r.details = req[w].details /\ r.user = req[w].user /\ r.record = row
    BY <1>1 DEF Request
  <2>4. row = [fingerprint |-> r.details, payment |-> None, body |-> None]
    BY <2>3
  <2> HIDE DEF row, r
  <2>5. LocalOK("lease", r)
    BY <1>3, <1>4, <2>3, <2>4
    DEF LocalOK, CreateOK, EditOK, CreateSteps, EditSteps, HoldsClaim, HoldsPayment
  <2>6. \A v \in Workers \ {w} : pc[v] \in HoldsClaim => req[v].claim # r.claim
    BY <2>3 DEF Claim, ClaimedByOther, HoldsClaim
  <2>7. "lease" \in Steps /\ "lease" \notin HoldsPayment
    BY DEF Steps, CreateSteps, HoldsPayment
  <2>8. answers' \subseteq Answer
    BY <1>2 DEF Inv, TypeOK
  <2>9. AnswersOK'
    BY <1>2 DEF Inv, AnswersOK, ledger
  <2> QED
    BY <1>2, <1>4, <2>2, <2>5, <2>6, <2>7, <2>8, <2>9, LocalStep
<1>5. CASE claims[req[w].claim] # None /\ Go(w, "record", req[w])
  <2>1. LocalOK("record", req[w])
    BY <1>3, <1>5
    DEF LocalOK, CreateOK, EditOK, CreateSteps, EditSteps, HoldsClaim, HoldsPayment
  <2>2. "record" \in Steps /\ "record" \notin HoldsClaim /\ "record" \notin HoldsPayment
    BY DEF Steps, CreateSteps, HoldsClaim, HoldsPayment
  <2> QED
    BY <1>1, <1>2, <1>5, <2>1, <2>2, KeepingStep
<1> QED
  BY <1>4, <1>5 DEF Claim

LEMMA CheckLeaseStep ==
  ASSUME Inv, NEW w \in Workers, CheckLease(w)
  PROVE  Inv'
<1> DEFINE t == leaseTenant[req[w].details.lease]
           r == [req[w] EXCEPT !.leaseTenant = t]
<1>1. LocalOK("lease", req[w]) /\ req[w] \in Request /\ pc[w] = "lease"
  BY DEF Inv, TypeOK, CheckLease
<1>2. UNCHANGED <<ledger, portfolio, answers>>
  BY DEF CheckLease
<1>3. req[w].details \in Details
  BY <1>1 DEF LocalOK, CreateOK, CreateSteps
<1>4. CASE Go(w, "tenant", r)
  <2>1. t \in Tenants
    BY <1>3 DEF Inv, TypeOK, Details
  <2>2. r \in Request
    BY <2>1, <1>1, RequestChanged
  <2>3. /\ r.claim = req[w].claim /\ r.details = req[w].details
        /\ r.user = req[w].user /\ r.record = req[w].record
    BY <1>1 DEF Request
  <2> HIDE DEF t, r
  <2>4. LocalOK("tenant", r)
    BY <1>1, <2>3
    DEF LocalOK, CreateOK, EditOK, CreateSteps, EditSteps, HoldsClaim, HoldsPayment
  <2>5. "tenant" \in Steps /\ "tenant" \notin HoldsPayment /\ "lease" \in HoldsClaim
    BY DEF Steps, CreateSteps, HoldsPayment, HoldsClaim
  <2> QED
    BY <1>1, <1>2, <1>4, <2>2, <2>3, <2>4, <2>5, KeepingStep
<1>5. CASE Leave(w)
  BY <1>2, <1>5, LeaveStep
<1> QED
  BY <1>4, <1>5 DEF CheckLease

LEMMA CheckTenantStep ==
  ASSUME Inv, NEW w \in Workers, CheckTenant(w)
  PROVE  Inv'
<1>1. LocalOK("tenant", req[w]) /\ req[w] \in Request /\ pc[w] = "tenant"
  BY DEF Inv, TypeOK, CheckTenant
<1>2. UNCHANGED <<ledger, portfolio, answers>>
  BY DEF CheckTenant
<1>3. CASE Go(w, "insert", req[w])
  <2>1. LocalOK("insert", req[w])
    BY <1>1 DEF LocalOK, CreateOK, EditOK, CreateSteps, EditSteps, HoldsClaim, HoldsPayment
  <2>2. "insert" \in Steps /\ "insert" \notin HoldsPayment /\ "tenant" \in HoldsClaim
    BY DEF Steps, CreateSteps, HoldsPayment, HoldsClaim
  <2> QED
    BY <1>1, <1>2, <1>3, <2>1, <2>2, KeepingStep
<1>4. CASE Leave(w)
  BY <1>2, <1>4, LeaveStep
<1> QED
  BY <1>3, <1>4 DEF CheckTenant

\* The payment row is prepared under an id nobody else has.
LEMMA InsertPaymentStep ==
  ASSUME Inv, NEW w \in Workers, InsertPayment(w)
  PROVE  Inv'
<1> DEFINE d == req[w].details
           Row(date) == [lease |-> d.lease, tenant |-> d.tenant, status |-> d.status, date |-> date]
           t == leaseTenant[d.lease]
<1>1. LocalOK("insert", req[w]) /\ req[w] \in Request /\ pc[w] = "insert"
  BY DEF Inv, TypeOK, InsertPayment
<1>2. UNCHANGED <<ledger, portfolio>> /\ answers' = answers
  BY DEF InsertPayment
<1>3. d \in Details
  BY <1>1 DEF LocalOK, CreateOK, CreateSteps
<1>4. PICK p \in PaymentIds, date \in Dates :
        /\ payments[p] = None
        /\ \A v \in Workers : req[v].payment # p
        /\ d.date # None => date = d.date
        /\ Go(w, "audit",
              [req[w] EXCEPT !.payment = p, !.leaseTenant = t, !.row = Row(date)])
  BY DEF InsertPayment
<1> DEFINE row == Row(date)
           r == [req[w] EXCEPT !.payment = p, !.leaseTenant = t, !.row = row]
<1>5. row \in PaymentRow /\ t \in Tenants
  BY <1>3 DEF Inv, TypeOK, Details, PaymentRow
<1>6. row.lease = d.lease /\ row.tenant = d.tenant /\ row.status = d.status /\ row.date = date
  OBVIOUS
<1>7. Go(w, "audit", r)
  BY <1>4
<1> HIDE DEF Row, row, t
<1>8. r \in Request
  BY <1>1, <1>5, RequestChanged
<1>9. /\ r.claim = req[w].claim /\ r.details = d /\ r.user = req[w].user
      /\ r.record = req[w].record /\ r.payment = p /\ r.leaseTenant = t /\ r.row = row
  BY <1>1 DEF Request
<1> HIDE DEF r, d
<1>10. RowPrepared(r)
  BY <1>4, <1>5, <1>6, <1>9 DEF RowPrepared
<1>11. LocalOK("audit", r)
  BY <1>1, <1>9, <1>10
  DEF LocalOK, CreateOK, EditOK, CreateSteps, EditSteps, HoldsClaim, HoldsPayment, d
<1>12. "audit" \in Steps /\ pc[w] \in HoldsClaim
  BY <1>1 DEF Steps, CreateSteps, HoldsClaim
<1>13. \A v \in Workers \ {w} : pc[v] \in HoldsClaim => req[v].claim # r.claim
  BY <1>9, <1>12 DEF Inv, Exclusive
<1>14. answers' \subseteq Answer
  BY <1>2 DEF Inv, TypeOK
<1>15. AnswersOK'
  BY <1>2 DEF Inv, AnswersOK, ledger
<1> QED
  BY <1>2, <1>4, <1>7, <1>8, <1>9, <1>11, <1>12, <1>13, <1>14, <1>15, LocalStep

LEMMA AuditCreationStep ==
  ASSUME Inv, NEW w \in Workers, AuditCreation(w)
  PROVE  Inv'
<1> DEFINE r == [req[w] EXCEPT !.audited = TRUE]
<1>1. LocalOK("audit", req[w]) /\ req[w] \in Request /\ pc[w] = "audit"
  BY DEF Inv, TypeOK, AuditCreation
<1>2. UNCHANGED <<ledger, portfolio, answers>> /\ Go(w, "complete", r)
  BY DEF AuditCreation
<1>3. r \in Request
  BY <1>1, RequestChanged
<1>4. /\ r.claim = req[w].claim /\ r.details = req[w].details /\ r.user = req[w].user
      /\ r.record = req[w].record /\ r.payment = req[w].payment /\ r.row = req[w].row
      /\ r.leaseTenant = req[w].leaseTenant /\ r.audited
  BY <1>1 DEF Request
<1> HIDE DEF r
<1>5. LocalOK("complete", r)
  BY <1>1, <1>4 DEF LocalOK, CreateOK, EditOK, CreateSteps, EditSteps, HoldsClaim,
                    HoldsPayment, RowPrepared
<1>6. "complete" \in Steps /\ "audit" \in HoldsPayment /\ "audit" \in HoldsClaim
  BY DEF Steps, CreateSteps, HoldsPayment, HoldsClaim
<1> QED
  BY <1>1, <1>2, <1>3, <1>4, <1>5, <1>6, KeepingStep

\* The claim is completed with a response that matches its details, or given up.
LEMMA CompleteClaimStep ==
  ASSUME Inv, NEW w \in Workers, CompleteClaim(w)
  PROVE  Inv'
<1> DEFINE body == Response(w)
           record == [fingerprint |-> req[w].record.fingerprint, payment |-> req[w].payment, body |-> body]
           r == [req[w] EXCEPT !.record = record]
<1>1. LocalOK("complete", req[w]) /\ req[w] \in Request /\ pc[w] = "complete"
  BY DEF Inv, TypeOK, CompleteClaim
<1>2. UNCHANGED <<ledger, portfolio>>
  BY DEF CompleteClaim
<1>3. /\ req[w].claim \in ClaimIds /\ req[w].details \in Details
      /\ req[w].user = req[w].claim[1]
      /\ req[w].record = [fingerprint |-> req[w].details, payment |-> None, body |-> None]
      /\ RowPrepared(req[w])
  BY <1>1 DEF LocalOK, CreateOK, CreateSteps, HoldsClaim, HoldsPayment
<1>4. CASE Complete(record, req[w].user) /\ Go(w, "commit", r) /\ UNCHANGED answers
  <2>1. body \in Body
    BY <1>3 DEF Response, RowPrepared, PaymentRow, Body
  <2>2. /\ body.payment = req[w].payment /\ body.lease = req[w].row.lease
        /\ body.tenant = req[w].row.tenant /\ body.status = req[w].row.status
        /\ body.date = req[w].row.date
    BY DEF Response
  <2> HIDE DEF body
  <2>3. record = [fingerprint |-> req[w].details, payment |-> req[w].payment, body |-> body]
    BY <1>3
  <2>4. record \in ClaimRow
    BY <1>3, <2>1, <2>3 DEF ClaimRow, RowPrepared
  <2>5. record.fingerprint = req[w].details /\ record.payment = req[w].payment /\ record.body = body
    BY <2>3
  <2>6. r \in Request
    BY <1>1, <2>4, RequestChanged
  <2>7. /\ r.claim = req[w].claim /\ r.details = req[w].details /\ r.user = req[w].user
        /\ r.record = record /\ r.payment = req[w].payment /\ r.row = req[w].row
        /\ r.leaseTenant = req[w].leaseTenant /\ r.audited = req[w].audited
    BY <1>1 DEF Request
  <2> HIDE DEF r, record
  <2>8. RowOK(r.claim, r.record)
    BY <1>3, <1>4, <2>1, <2>2, <2>4, <2>5, <2>7 DEF RowOK, Complete, RowPrepared
  <2>9. RowPrepared(r)
    BY <1>3, <2>7 DEF RowPrepared
  <2>10. LocalOK("commit", r)
    BY <1>1, <1>3, <2>5, <2>7, <2>8, <2>9
    DEF LocalOK, CreateOK, EditOK, CreateSteps, EditSteps, HoldsClaim, HoldsPayment
  <2>11. "commit" \in Steps /\ "complete" \in HoldsPayment /\ "complete" \in HoldsClaim
    BY DEF Steps, CreateSteps, HoldsPayment, HoldsClaim
  <2> QED
    BY <1>1, <1>2, <1>4, <2>6, <2>7, <2>10, <2>11, KeepingStep
<1>5. CASE Reply(w, "finalizeError", None)
  <2>1. pc[w] \in CreateSteps
    BY <1>1 DEF CreateSteps
  <2> QED
    BY <1>2, <1>5, <2>1, ReplyStep
<1> QED
  BY <1>4, <1>5 DEF CompleteClaim

\* A commit turns what the transaction held into rows: no other transaction
\* holds the key or the payment, and no answered or committed row changes.
LEMMA CommitStep ==
  ASSUME Inv, NEW w \in Workers, Commit(w)
  PROVE  Inv'
<1> DEFINE r == req[w]
<1>1. LocalOK("commit", r) /\ r \in Request /\ pc[w] = "commit"
  BY DEF Inv, TypeOK, Commit
<1>2. /\ r.claim \in ClaimIds /\ r.details \in Details /\ r.user = r.claim[1]
      /\ claims[r.claim] = None /\ RowPrepared(r) /\ r.audited
      /\ RowOK(r.claim, r.record) /\ r.record.payment = r.payment
      /\ r.record.fingerprint = r.details
  BY <1>1 DEF LocalOK, CreateOK, CreateSteps, HoldsClaim, HoldsPayment
<1>3. r.record \in ClaimRow /\ r.row \in PaymentRow /\ r.payment \in PaymentIds
      /\ payments[r.payment] = None
  BY <1>2 DEF RowOK, RowPrepared
<1>4. r.record # None /\ r.row # None
  BY <1>3, NoneIsNothing
<1>5. claims \in [ClaimIds -> ClaimRow \cup {None}] /\ payments \in [PaymentIds -> PaymentRow \cup {None}]
      /\ pc \in [Workers -> Steps] /\ req \in [Workers -> Request]
  BY DEF Inv, TypeOK
<1>6. claims'[r.claim] = r.record /\ \A c \in ClaimIds : c # r.claim => claims'[c] = claims[c]
  BY <1>2, <1>5 DEF Commit
<1>7. payments'[r.payment] = r.row
      /\ \A p \in PaymentIds : p # r.payment => payments'[p] = payments[p]
  BY <1>3, <1>5 DEF Commit
<1>8. createAudits' = createAudits \cup {r.payment}
  BY <1>2 DEF Commit
<1>9. pc'[w] = "respond" /\ req' = req /\ \A v \in Workers \ {w} : pc'[v] = pc[v]
  BY <1>5 DEF Commit, Go
<1>10. TypeOK'
  <2>1. claims' \in [ClaimIds -> ClaimRow \cup {None}]
    BY <1>3, <1>5 DEF Commit
  <2>2. payments' \in [PaymentIds -> PaymentRow \cup {None}]
    BY <1>3, <1>5 DEF Commit
  <2>3. createAudits' \subseteq PaymentIds
    BY <1>3, <1>8 DEF Inv, TypeOK
  <2>4. pc' \in [Workers -> Steps]
    BY <1>5 DEF Commit, Go, Steps, CreateSteps
  <2> QED
    BY <1>5, <1>9, <2>1, <2>2, <2>3, <2>4 DEF Inv, TypeOK, Commit, portfolio
<1> HIDE DEF r
<1>11. (\A v \in Workers : LocalOK(pc[v], req[v]))'
  <2> SUFFICES ASSUME NEW v \in Workers PROVE LocalOK(pc[v], req[v])'
    OBVIOUS
  <2>1. CASE v = w
    <3>1. req[v] = r
      BY <2>1 DEF r
    <3> QED
      BY <1>2, <1>4, <1>6, <1>9, <2>1, <3>1
      DEF LocalOK, CreateOK, EditOK, CreateSteps, EditSteps, HoldsClaim, HoldsPayment
  <2>2. CASE v # w
    <3>1. LocalOK(pc[v], req[v]) /\ pc'[v] = pc[v] /\ req'[v] = req[v]
      BY <1>9, <2>2 DEF Inv
    <3>2. pc[v] \in HoldsClaim => req[v].claim # r.claim
      BY <1>1, <2>2 DEF Inv, Exclusive, HoldsClaim, r
    <3>3. pc[v] \in HoldsPayment => req[v].payment # r.payment
      BY <1>1, <2>2 DEF Inv, Exclusive, HoldsPayment, r
    <3>4. pc[v] \in CreateSteps => req[v].claim \in ClaimIds
      BY <3>1 DEF LocalOK, CreateOK
    <3>5. pc[v] \in HoldsClaim => claims'[req[v].claim] = None
      BY <1>6, <3>1, <3>2, <3>4 DEF LocalOK, CreateOK, HoldsClaim, CreateSteps
    <3>6. pc[v] \in {"respond", "record", "access"} =>
            claims'[req[v].claim] = claims[req[v].claim]
      BY <1>2, <1>6, <3>1, <3>4 DEF LocalOK, CreateOK, CreateSteps
    <3>7. pc[v] \in HoldsPayment => RowPrepared(req[v])'
      BY <1>7, <3>1, <3>3 DEF LocalOK, CreateOK, RowPrepared
    <3>8. CreateOK(pc[v], req[v])'
      BY <3>1, <3>5, <3>6, <3>7 DEF LocalOK, CreateOK, RowOK
    <3>9. EditOK(pc[v], req[v])'
      <4>1. pc[v] \in EditSteps => payments'[req[v].payment] = payments[req[v].payment]
        BY <1>3, <1>7, <3>1 DEF LocalOK, EditOK
      <4> QED
        BY <3>1, <4>1 DEF LocalOK, EditOK, EditSteps, SameRecord
    <3> QED
      BY <3>8, <3>9 DEF LocalOK
  <2> QED
    BY <2>1, <2>2
<1>12. Exclusive'
  <2>1. "respond" \notin HoldsClaim /\ "respond" \notin HoldsPayment
    BY DEF HoldsClaim, HoldsPayment
  <2> QED
    BY <1>9, <2>1 DEF Inv, Exclusive
<1>13. (\A c \in ClaimIds : claims[c] # None => RowOK(c, claims[c]))'
  BY <1>2, <1>6 DEF Inv, RowOK
<1>14. PaymentsAccounted'
  <2>1. PaymentsAccounted
    BY DEF Inv
  <2>2. \A c \in ClaimIds : ~Recorded(c, r.payment)
    BY <1>3, <2>1 DEF PaymentsAccounted
  <2>3. \A c \in ClaimIds, p \in PaymentIds :
          Recorded(c, p)' <=> Recorded(c, p) \/ (c = r.claim /\ p = r.payment)
    BY <1>2, <1>4, <1>6 DEF Recorded
  <2>4. \A p \in PaymentIds : payments'[p] # None <=> payments[p] # None \/ p = r.payment
    BY <1>4, <1>7
  <2>5. \A p \in PaymentIds : p \in createAudits' <=> p \in createAudits \/ p = r.payment
    BY <1>8
  <2> QED
    BY <1>2, <1>3, <2>1, <2>2, <2>3, <2>4, <2>5 DEF PaymentsAccounted
<1>15. AnswersOK'
  <2>1. answers' = answers /\ answers \subseteq Answer /\ AnswersOK
    BY DEF Inv, TypeOK, Commit
  <2>2. \A a \in answers : a.claim \in ClaimIds
    BY <2>1 DEF Answer
  <2> QED
    BY <1>2, <1>6, <2>1, <2>2 DEF AnswersOK
<1> QED
  BY <1>10, <1>11, <1>12, <1>13, <1>14, <1>15 DEF Inv

LEMMA RespondStep ==
  ASSUME Inv, NEW w \in Workers, Respond(w)
  PROVE  Inv'
<1>1. LocalOK("respond", req[w]) /\ pc[w] = "respond"
  BY DEF Inv, Respond
<1>2. /\ req[w].claim \in ClaimIds /\ claims[req[w].claim] # None
      /\ req[w].record = claims[req[w].claim] /\ req[w].record.fingerprint = req[w].details
  BY <1>1 DEF LocalOK, CreateOK, CreateSteps
<1>3. req[w].record.body \in Body
  BY <1>2 DEF Inv, RowOK
<1>4. pc[w] \in CreateSteps
  BY <1>1 DEF CreateSteps
<1>5. UNCHANGED <<ledger, portfolio>> /\ Reply(w, "created", req[w].record.body)
  BY DEF Respond
<1> QED
  BY <1>2, <1>3, <1>4, <1>5, ReplyStep

\* A replay finds the claim complete, since a claim is committed complete.
LEMMA ReadRecordStep ==
  ASSUME Inv, NEW w \in Workers, ReadRecord(w)
  PROVE  Inv'
<1> DEFINE record == claims[req[w].claim]
           r == [req[w] EXCEPT !.record = record]
<1>1. LocalOK("record", req[w]) /\ req[w] \in Request /\ pc[w] = "record"
  BY DEF Inv, TypeOK, ReadRecord
<1>2. /\ req[w].claim \in ClaimIds /\ req[w].details \in Details
      /\ req[w].user = req[w].claim[1] /\ record # None
  BY <1>1 DEF LocalOK, CreateOK, CreateSteps
<1>3. RowOK(req[w].claim, record)
  BY <1>2 DEF Inv
<1>4. Complete(record, req[w].user)
  BY <1>2, <1>3, NoneIsNothing DEF Complete, RowOK
<1>5. UNCHANGED <<ledger, portfolio, answers>> /\ Go(w, "access", r)
  BY <1>2, <1>4 DEF ReadRecord
<1>6. r \in Request
  BY <1>1, <1>3, RequestChanged DEF RowOK
<1>7. /\ r.claim = req[w].claim /\ r.details = req[w].details /\ r.user = req[w].user
      /\ r.record = record
  BY <1>1 DEF Request
<1> HIDE DEF r
<1>8. LocalOK("access", r)
  BY <1>2, <1>7 DEF LocalOK, CreateOK, EditOK, CreateSteps, EditSteps, HoldsClaim, HoldsPayment
<1>9. "access" \in Steps /\ "access" \notin HoldsClaim /\ "access" \notin HoldsPayment
  BY DEF Steps, CreateSteps, HoldsClaim, HoldsPayment
<1> QED
  BY <1>5, <1>6, <1>8, <1>9, KeepingStep

LEMMA ReplayStep ==
  ASSUME Inv, NEW w \in Workers, Replay(w)
  PROVE  Inv'
<1>1. LocalOK("access", req[w]) /\ pc[w] = "access"
  BY DEF Inv, Replay
<1>2. /\ req[w].claim \in ClaimIds /\ claims[req[w].claim] # None
      /\ req[w].record = claims[req[w].claim]
  BY <1>1 DEF LocalOK, CreateOK, CreateSteps
<1>3. UNCHANGED <<ledger, portfolio>>
  BY DEF Replay
<1>4. CASE /\ req[w].record.fingerprint = req[w].details
           /\ Reply(w, "created", req[w].record.body)
  <2>1. req[w].record.body \in Body
    BY <1>2 DEF Inv, RowOK
  <2>2. pc[w] \in CreateSteps
    BY <1>1 DEF CreateSteps
  <2> QED
    BY <1>2, <1>3, <1>4, <2>1, <2>2, ReplyStep
<1>5. CASE Leave(w) /\ UNCHANGED answers
  BY <1>3, <1>5, LeaveStep
<1> QED
  BY <1>4, <1>5 DEF Replay

LEMMA CreateStepKeeps ==
  ASSUME Inv, NEW w \in Workers, CreateStep(w)
  PROVE  Inv'
<1>1. CASE ClaimTimeout(w)
  <2>1. Leave(w) /\ UNCHANGED <<ledger, portfolio, answers>>
    BY <1>1 DEF ClaimTimeout
  <2> QED
    BY <2>1, LeaveStep
<1> QED
  BY <1>1, ClaimStep, CheckLeaseStep, CheckTenantStep, InsertPaymentStep, AuditCreationStep,
     CompleteClaimStep, CommitStep, RespondStep, ReadRecordStep, ReplayStep DEF CreateStep

-----------------------------------------------------------------------------
(* The actions of an update.                                                *)

LEMMA ReceiveEditStep ==
  ASSUME Inv, NEW w \in Workers, ReceiveEdit(w)
  PROVE  Inv'
<1>1. PICK u \in Users, p \in PaymentIds, date \in Edits :
        /\ payments[p] # None
        /\ Go(w, "load", [NoRequest EXCEPT !.user = u, !.payment = p, !.date = date])
  BY DEF ReceiveEdit
<1> DEFINE r == [NoRequest EXCEPT !.user = u, !.payment = p, !.date = date]
<1>2. date \in Dates
  BY SubmissionsAssumption
<1>3. r \in Request
  BY <1>2 DEF Request, NoRequest
<1>4. r.user = u /\ r.payment = p /\ r.date = date
  BY DEF NoRequest
<1> HIDE DEF r
<1>5. LocalOK("load", r)
  BY <1>1, <1>2, <1>4 DEF LocalOK, CreateOK, EditOK, CreateSteps, EditSteps, HoldsClaim, HoldsPayment
<1>6. "load" \in Steps /\ "load" \notin HoldsClaim /\ "load" \notin HoldsPayment
  BY DEF Steps, EditSteps, HoldsClaim, HoldsPayment
<1>7. Go(w, "load", r) /\ UNCHANGED <<ledger, portfolio, answers>>
  BY <1>1 DEF r, ReceiveEdit
<1> QED
  BY <1>3, <1>5, <1>6, <1>7, KeepingStep

LEMMA LoadPaymentStep ==
  ASSUME Inv, NEW w \in Workers, LoadPayment(w)
  PROVE  Inv'
<1> DEFINE before == payments[req[w].payment].date
           r == [req[w] EXCEPT !.before = before]
<1>1. LocalOK("load", req[w]) /\ req[w] \in Request
  BY DEF Inv, TypeOK, LoadPayment
<1>2. UNCHANGED <<ledger, portfolio, answers>>
  BY DEF LoadPayment
<1>3. CASE Go(w, "check", r)
  <2>1. req[w].payment \in PaymentIds /\ payments[req[w].payment] # None
    BY <1>1 DEF LocalOK, EditOK, EditSteps
  <2>2. before \in Dates
    BY <2>1 DEF Inv, TypeOK, PaymentRow
  <2>3. r \in Request
    BY <1>1, <2>2, RequestChanged
  <2>4. /\ r.user = req[w].user /\ r.payment = req[w].payment /\ r.date = req[w].date
        /\ r.before = before
    BY <1>1 DEF Request
  <2> HIDE DEF before, r
  <2>5. LocalOK("check", r)
    BY <1>1, <2>2, <2>4
    DEF LocalOK, CreateOK, EditOK, CreateSteps, EditSteps, HoldsClaim, HoldsPayment
  <2>6. "check" \in Steps /\ "check" \notin HoldsClaim /\ "check" \notin HoldsPayment
    BY DEF Steps, EditSteps, HoldsClaim, HoldsPayment
  <2> QED
    BY <1>2, <1>3, <2>3, <2>5, <2>6, KeepingStep
<1>4. CASE Leave(w)
  BY <1>2, <1>4, LeaveStep
<1> QED
  BY <1>3, <1>4 DEF LoadPayment

LEMMA CheckEditStep ==
  ASSUME Inv, NEW w \in Workers, CheckEdit(w)
  PROVE  Inv'
<1>1. LocalOK("check", req[w]) /\ req[w] \in Request
  BY DEF Inv, TypeOK, CheckEdit
<1>2. UNCHANGED <<ledger, portfolio, answers>>
  BY DEF CheckEdit
<1>3. CASE payments[req[w].payment].status # "completed" /\ Go(w, "edit", req[w])
  <2>1. LocalOK("edit", req[w])
    BY <1>1, <1>3 DEF LocalOK, CreateOK, EditOK, CreateSteps, EditSteps, HoldsClaim, HoldsPayment
  <2>2. "edit" \in Steps /\ "edit" \notin HoldsClaim /\ "edit" \notin HoldsPayment
    BY DEF Steps, EditSteps, HoldsClaim, HoldsPayment
  <2> QED
    BY <1>1, <1>2, <1>3, <2>1, <2>2, KeepingStep
<1>4. CASE Leave(w)
  BY <1>2, <1>4, LeaveStep
<1> QED
  BY <1>3, <1>4 DEF CheckEdit

LEMMA EditPaymentStep ==
  ASSUME Inv, NEW w \in Workers, EditPayment(w)
  PROVE  Inv'
<1> DEFINE row == [payments[req[w].payment] EXCEPT !.date = req[w].date]
           r == [req[w] EXCEPT !.row = row]
<1>1. LocalOK("edit", req[w]) /\ req[w] \in Request
  BY DEF Inv, TypeOK, EditPayment
<1>2. UNCHANGED <<ledger, portfolio, answers>> /\ Go(w, "editAudit", r)
  BY DEF EditPayment
<1>3. /\ req[w].payment \in PaymentIds /\ payments[req[w].payment] # None
      /\ req[w].date \in Dates
  BY <1>1 DEF LocalOK, EditOK, EditSteps
<1>4. payments[req[w].payment] \in PaymentRow
  BY <1>3 DEF Inv, TypeOK
<1>5. row \in PaymentRow /\ SameRecord(row, payments[req[w].payment])
  BY <1>3, <1>4 DEF PaymentRow, SameRecord
<1> HIDE DEF row
<1>6. r \in Request
  BY <1>1, <1>5, RequestChanged
<1>7. /\ r.user = req[w].user /\ r.payment = req[w].payment /\ r.date = req[w].date
      /\ r.before = req[w].before /\ r.row = row
  BY <1>1 DEF Request
<1> HIDE DEF r
<1>8. LocalOK("editAudit", r)
  BY <1>1, <1>5, <1>7
  DEF LocalOK, CreateOK, EditOK, CreateSteps, EditSteps, HoldsClaim, HoldsPayment
<1>9. "editAudit" \in Steps /\ "editAudit" \notin HoldsClaim /\ "editAudit" \notin HoldsPayment
  BY DEF Steps, EditSteps, HoldsClaim, HoldsPayment
<1> QED
  BY <1>2, <1>6, <1>8, <1>9, KeepingStep

LEMMA AuditEditStep ==
  ASSUME Inv, NEW w \in Workers, AuditEdit(w)
  PROVE  Inv'
<1> DEFINE r == [req[w] EXCEPT !.audited = TRUE]
<1>1. LocalOK("editAudit", req[w]) /\ req[w] \in Request
  BY DEF Inv, TypeOK, AuditEdit
<1>2. UNCHANGED <<ledger, portfolio, answers>> /\ Go(w, "editCommit", r)
  BY DEF AuditEdit
<1>3. r \in Request
  BY <1>1, RequestChanged
<1>4. /\ r.user = req[w].user /\ r.payment = req[w].payment /\ r.date = req[w].date
      /\ r.before = req[w].before /\ r.row = req[w].row
  BY <1>1 DEF Request
<1> HIDE DEF r
<1>5. LocalOK("editCommit", r)
  BY <1>1, <1>4
  DEF LocalOK, CreateOK, EditOK, CreateSteps, EditSteps, HoldsClaim, HoldsPayment
<1>6. "editCommit" \in Steps /\ "editCommit" \notin HoldsClaim /\ "editCommit" \notin HoldsPayment
  BY DEF Steps, EditSteps, HoldsClaim, HoldsPayment
<1> QED
  BY <1>2, <1>3, <1>5, <1>6, KeepingStep

\* An update changes a row that exists: which payments exist stays the same.
LEMMA CommitEditStep ==
  ASSUME Inv, NEW w \in Workers, CommitEdit(w)
  PROVE  Inv'
<1> DEFINE r == req[w]
<1>1. LocalOK("editCommit", r) /\ r \in Request
  BY DEF Inv, TypeOK, CommitEdit
<1>2. /\ r.payment \in PaymentIds /\ payments[r.payment] # None
      /\ r.before \in Dates /\ r.row \in PaymentRow
      /\ SameRecord(r.row, payments[r.payment])
  BY <1>1 DEF LocalOK, EditOK, EditSteps
<1>3. r.row # None
  BY <1>2, NoneIsNothing
<1>4. payments \in [PaymentIds -> PaymentRow \cup {None}]
      /\ pc \in [Workers -> Steps] /\ req \in [Workers -> Request]
  BY DEF Inv, TypeOK
<1>5. payments'[r.payment] = r.row
      /\ \A p \in PaymentIds : p # r.payment => payments'[p] = payments[p]
  BY <1>2, <1>4 DEF CommitEdit
<1>6. pc'[w] = "idle" /\ req'[w] = NoRequest
      /\ \A v \in Workers \ {w} : pc'[v] = pc[v] /\ req'[v] = req[v]
  BY <1>4 DEF CommitEdit, Leave, Go
<1>7. claims' = claims /\ createAudits' = createAudits /\ answers' = answers
  BY DEF CommitEdit
<1>8. TypeOK'
  <2>1. payments' \in [PaymentIds -> PaymentRow \cup {None}]
    BY <1>2, <1>4 DEF CommitEdit
  <2>2. editAudit' \in EditRow \cup {None}
    BY <1>2 DEF Inv, TypeOK, CommitEdit, EditRow, PaymentRow
  <2>3. pc' \in [Workers -> Steps] /\ req' \in [Workers -> Request]
    BY <1>4, EmptyRequest DEF CommitEdit, Leave, Go
  <2> QED
    BY <1>7, <2>1, <2>2, <2>3 DEF Inv, TypeOK, CommitEdit, portfolio
<1> HIDE DEF r
<1>9. (\A v \in Workers : LocalOK(pc[v], req[v]))'
  <2> SUFFICES ASSUME NEW v \in Workers PROVE LocalOK(pc[v], req[v])'
    OBVIOUS
  <2>1. CASE v = w
    BY <2>1, <1>6, EmptyRequest
    DEF LocalOK, CreateOK, EditOK, CreateSteps, EditSteps, HoldsClaim, HoldsPayment
  <2>2. CASE v # w
    <3>1. LocalOK(pc[v], req[v]) /\ pc'[v] = pc[v] /\ req'[v] = req[v]
      BY <1>6, <2>2 DEF Inv
    <3>2. pc[v] \in HoldsPayment => RowPrepared(req[v])'
      BY <1>2, <1>5, <3>1 DEF LocalOK, CreateOK, RowPrepared
    <3>3. CreateOK(pc[v], req[v])'
      BY <1>7, <3>1, <3>2 DEF LocalOK, CreateOK, RowOK
    <3>4. EditOK(pc[v], req[v])'
      <4>1. \A p \in PaymentIds : payments[p] # None =>
              payments'[p] # None /\ SameRecord(payments'[p], payments[p])
        BY <1>2, <1>3, <1>5 DEF SameRecord
      <4> QED
        BY <3>1, <4>1 DEF LocalOK, EditOK, EditSteps, SameRecord
    <3> QED
      BY <3>3, <3>4 DEF LocalOK
  <2> QED
    BY <2>1, <2>2
<1>10. Exclusive'
  <2>1. "idle" \notin HoldsClaim /\ "idle" \notin HoldsPayment
    BY DEF HoldsClaim, HoldsPayment
  <2> QED
    BY <1>6, <2>1 DEF Inv, Exclusive
<1>11. (\A c \in ClaimIds : claims[c] # None => RowOK(c, claims[c]))'
  BY <1>7 DEF Inv, RowOK
<1>12. PaymentsAccounted'
  <2>1. \A p \in PaymentIds : payments'[p] # None <=> payments[p] # None
    BY <1>2, <1>3, <1>5
  <2> QED
    BY <1>7, <2>1 DEF Inv, PaymentsAccounted, Recorded
<1>13. AnswersOK'
  BY <1>7 DEF Inv, AnswersOK
<1> QED
  BY <1>8, <1>9, <1>10, <1>11, <1>12, <1>13 DEF Inv

LEMMA EditStepKeeps ==
  ASSUME Inv, NEW w \in Workers, EditStep(w)
  PROVE  Inv'
<1>1. CASE EditTimeout(w)
  <2>1. Leave(w) /\ UNCHANGED <<ledger, portfolio, answers>>
    BY <1>1 DEF EditTimeout
  <2> QED
    BY <2>1, LeaveStep
<1> QED
  BY <1>1, LoadPaymentStep, CheckEditStep, EditPaymentStep, AuditEditStep, CommitEditStep
  DEF EditStep

-----------------------------------------------------------------------------
(* The invariant.                                                           *)

LEMMA InvInit == Init => Inv
<1> SUFFICES ASSUME Init PROVE Inv
  OBVIOUS
<1>1. TypeOK
  BY EmptyRequest, PortfolioAssumption DEF Init, TypeOK
<1>2. \A w \in Workers : LocalOK(pc[w], req[w])
  BY EmptyRequest DEF Init
<1>3. Exclusive
  BY DEF Init, Exclusive, HoldsClaim, HoldsPayment
<1>4. \A c \in ClaimIds : claims[c] # None => RowOK(c, claims[c])
  BY DEF Init
<1>5. PaymentsAccounted
  BY DEF Init, PaymentsAccounted, Recorded
<1>6. AnswersOK
  BY DEF Init, AnswersOK
<1> QED
  BY <1>1, <1>2, <1>3, <1>4, <1>5, <1>6 DEF Inv

\* The portfolio changes while payments stay as they are.
LEMMA PortfolioStepKeeps ==
  ASSUME Inv, UNCHANGED <<ledger, answers, pc, req>>,
         leaseTenant' \in [Leases -> Tenants], archived' \subseteq Properties
  PROVE  Inv'
<1>1. TypeOK'
  BY DEF Inv, TypeOK, ledger
<1>2. (\A w \in Workers : LocalOK(pc[w], req[w]))'
  BY DEF Inv, LocalOK, CreateOK, EditOK, RowPrepared, RowOK, ledger
<1>3. Exclusive'
  BY DEF Inv, Exclusive
<1>4. (\A c \in ClaimIds : claims[c] # None => RowOK(c, claims[c]))'
  BY DEF Inv, RowOK, ledger
<1>5. PaymentsAccounted'
  BY DEF Inv, PaymentsAccounted, Recorded, ledger
<1>6. AnswersOK'
  BY DEF Inv, AnswersOK, ledger
<1> QED
  BY <1>1, <1>2, <1>3, <1>4, <1>5, <1>6 DEF Inv

LEMMA InvNext == Inv /\ [Next]_vars => Inv'
<1> SUFFICES ASSUME Inv, [Next]_vars PROVE Inv'
  OBVIOUS
<1>1. ASSUME NEW w \in Workers, ReceiveCreate(w) \/ ReceiveEdit(w) \/ Step(w)
      PROVE  Inv'
  BY <1>1, ReceiveCreateStep, ReceiveEditStep, CreateStepKeeps, EditStepKeeps DEF Step
<1>2. ASSUME NEW w \in Workers, Fail(w)
      PROVE  Inv'
  <2>1. Leave(w) /\ UNCHANGED <<ledger, portfolio, answers>>
    BY <1>2 DEF Fail
  <2> QED
    BY <2>1, LeaveStep
<1>3. ASSUME NEW p \in Properties, SetArchived(p)
      PROVE  Inv'
  <2>1. leaseTenant' \in [Leases -> Tenants] /\ archived' \subseteq Properties
    BY <1>3 DEF Inv, TypeOK, SetArchived
  <2> QED
    BY <1>3, <2>1, PortfolioStepKeeps DEF SetArchived
<1>4. ASSUME NEW l \in Leases, NEW t \in Tenants, ReassignLease(l, t)
      PROVE  Inv'
  <2>1. leaseTenant' \in [Leases -> Tenants] /\ archived' \subseteq Properties
    BY <1>4 DEF Inv, TypeOK, ReassignLease
  <2> QED
    BY <1>4, <2>1, PortfolioStepKeeps DEF ReassignLease
<1>5. CASE UNCHANGED vars
  <2>1. leaseTenant' \in [Leases -> Tenants] /\ archived' \subseteq Properties
    BY <1>5 DEF Inv, TypeOK, vars
  <2> QED
    BY <1>5, <2>1, PortfolioStepKeeps DEF vars, ledger
<1> QED
  BY <1>1, <1>2, <1>3, <1>4, <1>5 DEF Next

LEMMA InvAlways == Spec => []Inv
<1> QED
  BY InvInit, InvNext, PTL DEF Spec

\* Type correctness: the variables of Payments keep their types, so whatever is
\* committed is a complete row.
THEOREM TypeCorrect == Spec => []TypeOK
<1>1. Inv => TypeOK
  BY DEF Inv
<1> QED
  BY <1>1, InvAlways, PTL

\* A payment, its audit row and its completed claim exist together or not at all,
\* for any number of concurrent requests, rollbacks and lost answers.
THEOREM AlwaysAccounted == Spec => []PaymentsAccounted
<1>1. Inv => PaymentsAccounted
  BY DEF Inv
<1> QED
  BY <1>1, InvAlways, PTL

\* A 201 confirms exactly the details it was asked for.
THEOREM ConfirmationsMatch == Spec => []ConfirmationsMatchDetails
<1>1. Inv => ConfirmationsMatchDetails
  BY DEF Inv, TypeOK, Answer, AnswersOK, RowOK, ConfirmationsMatchDetails
<1> QED
  BY <1>1, InvAlways, PTL

\* No replay finds its record missing or incomplete.
THEOREM ReplaysFindRecord == Spec => []ReplayFindsRecord
<1>1. Inv => ReplayFindsRecord
  BY DEF Inv, AnswersOK, ReplayFindsRecord
<1> QED
  BY <1>1, InvAlways, PTL

\* Only the two commits touch the table of payments.
LEMMA PaymentsChange ==
  ASSUME Next, payments' # payments
  PROVE  \E w \in Workers : Commit(w) \/ CommitEdit(w)
<1>1. ASSUME NEW p \in Properties, SetArchived(p) PROVE FALSE
  BY <1>1 DEF SetArchived, ledger
<1>2. ASSUME NEW l \in Leases, NEW t \in Tenants, ReassignLease(l, t) PROVE FALSE
  BY <1>2 DEF ReassignLease, ledger
<1>3. PICK w \in Workers : ReceiveCreate(w) \/ ReceiveEdit(w) \/ Step(w) \/ Fail(w)
  BY <1>1, <1>2 DEF Next
<1>4. ~ReceiveCreate(w) /\ ~ReceiveEdit(w) /\ ~Fail(w)
  BY DEF ReceiveCreate, ReceiveEdit, Fail, ledger
<1>5. CreateStep(w) => Commit(w)
  BY DEF CreateStep, Claim, ClaimTimeout, CheckLease, CheckTenant, InsertPayment, AuditCreation,
         CompleteClaim, Respond, ReadRecord, Replay, ledger
<1>6. EditStep(w) => CommitEdit(w)
  BY DEF EditStep, LoadPayment, CheckEdit, EditPayment, EditTimeout, AuditEdit, ledger
<1> QED
  BY <1>3, <1>4, <1>5, <1>6 DEF Step

\* Payment history: no payment disappears, changes hands, or changes after it
\* is completed.
THEOREM HistoryKept == Spec => PaymentHistoryKept
<1> DEFINE Kept(p) == /\ payments'[p] # None
                      /\ payments'[p].lease = payments[p].lease
                      /\ payments'[p].tenant = payments[p].tenant
                      /\ payments'[p].status = payments[p].status
                      /\ payments[p].status = "completed" => payments'[p] = payments[p]
<1>1. ASSUME Inv, Next, payments' # payments, NEW p \in PaymentIds, payments[p] # None
      PROVE  Kept(p)
  <2>1. PICK w \in Workers : Commit(w) \/ CommitEdit(w)
    BY <1>1, PaymentsChange
  <2>2. payments \in [PaymentIds -> PaymentRow \cup {None}] /\ LocalOK(pc[w], req[w])
    BY <1>1 DEF Inv, TypeOK
  <2>3. CASE Commit(w)
    <3>1. payments[req[w].payment] = None
      BY <2>2, <2>3 DEF Commit, LocalOK, CreateOK, HoldsPayment, RowPrepared
    <3> QED
      BY <1>1, <2>2, <2>3, <3>1 DEF Commit
  <2>4. CASE CommitEdit(w)
    <3>1. /\ payments[req[w].payment].status # "completed"
          /\ req[w].row \in PaymentRow
          /\ SameRecord(req[w].row, payments[req[w].payment])
      BY <2>2, <2>4 DEF CommitEdit, LocalOK, EditOK
    <3>2. req[w].row # None
      BY <3>1, NoneIsNothing
    <3> QED
      BY <1>1, <2>2, <2>4, <3>1, <3>2 DEF CommitEdit, SameRecord
  <2> QED
    BY <2>1, <2>3, <2>4
<1>2. Inv /\ [Next]_vars => [\A p \in PaymentIds : payments[p] # None => Kept(p)]_payments
  BY <1>1 DEF vars
<1>3. Inv /\ [Next]_vars =>
        [\A p \in PaymentIds : payments[p] # None =>
           /\ payments'[p] # None
           /\ payments'[p].lease = payments[p].lease
           /\ payments'[p].tenant = payments[p].tenant
           /\ payments'[p].status = payments[p].status
           /\ payments[p].status = "completed" => payments'[p] = payments[p]]_payments
  BY <1>2
<1> QED
  BY <1>3, InvAlways, PTL DEF Spec, PaymentHistoryKept

-----------------------------------------------------------------------------
(* Exactly-once recording.                                                  *)

Outcome == [c \in ClaimIds |-> IF claims[c] = None THEN None ELSE claims[c].body]
Paid == {p \in PaymentIds : payments[p] # None}
Confirmations == {a \in answers : a.code = "created"}
Told == {<<a.claim, a.body>> : a \in Confirmations}
Abstract == <<Outcome, Paid, Told>>

\* Nothing happens for the abstract specification.
LEMMA Stutter ==
  ASSUME claims' = claims,
         \A p \in PaymentIds : payments'[p] # None <=> payments[p] # None,
         \A a : a \in answers' /\ a.code = "created" <=> a \in answers /\ a.code = "created"
  PROVE  UNCHANGED Abstract
<1>1. Outcome' = Outcome
  BY DEF Outcome
<1>2. Paid' = Paid
  BY DEF Paid
<1>3. Confirmations' = Confirmations
  BY DEF Confirmations
<1>4. Told' = Told
  BY <1>3 DEF Told
<1> QED
  BY <1>1, <1>2, <1>4 DEF Abstract

\* An answer other than a confirmation tells of no outcome.
LEMMA RefusalStutters ==
  ASSUME NEW w \in Workers, NEW code, code # "created", Reply(w, code, None), UNCHANGED ledger
  PROVE  UNCHANGED Abstract
<1> DEFINE answer == [claim |-> req[w].claim, details |-> req[w].details,
                      code |-> code, body |-> None]
<1>1. answers' = answers \cup {answer}
  BY DEF Reply
<1>2. answer.code # "created"
  OBVIOUS
<1> HIDE DEF answer
<1>3. \A a : a \in answers' /\ a.code = "created" <=> a \in answers /\ a.code = "created"
  BY <1>1, <1>2
<1> QED
  BY <1>3, Stutter DEF ledger

LEMMA ConfirmationTells ==
  ASSUME Inv, NEW w \in Workers, NEW body, Reply(w, "created", body), UNCHANGED ledger,
         req[w].claim \in ClaimIds,
         claims[req[w].claim] # None,
         body = claims[req[w].claim].body
  PROVE  \E c \in ClaimIds : EO!Tell(c)
<1> PICK c \in ClaimIds : c = req[w].claim
  OBVIOUS
<1> DEFINE answer == [claim |-> req[w].claim, details |-> req[w].details,
                      code |-> "created", body |-> body]
<1>1. answers' = answers \cup {answer}
  BY DEF Reply
<1>2. answer.code = "created" /\ answer.claim = c /\ answer.body = body
  OBVIOUS
<1> HIDE DEF answer
<1>3. Confirmations' = Confirmations \cup {answer}
  BY <1>1, <1>2 DEF Confirmations
<1>4. Told' = Told \cup {<<c, body>>}
  BY <1>2, <1>3 DEF Told
<1>5. Outcome[c] = body 
  BY DEF Outcome
<1>6. body # None
  BY NoneIsNothing DEF Inv, RowOK
<1>7. Outcome' = Outcome /\ Paid' = Paid
  BY DEF Outcome, Paid, ledger
<1>8. Told' = Told \cup {<<c, Outcome[c]>>} /\ Outcome[c] # None
  BY <1>4, <1>5, <1>6
<1> QED
  BY <1>7, <1>8 DEF EO!Tell, Outcome, Paid, Told, Confirmations

LEMMA CommitRecords ==
  ASSUME Inv, NEW w \in Workers, Commit(w)
  PROVE  \E c \in ClaimIds, body \in Body : EO!Record(c, body)
<1> DEFINE r == req[w]
           body == r.record.body
<1>1. LocalOK("commit", r)
  BY DEF Inv, Commit
<1>2. /\ r.claim \in ClaimIds /\ claims[r.claim] = None
      /\ r.payment \in PaymentIds /\ payments[r.payment] = None /\ r.row \in PaymentRow
      /\ RowOK(r.claim, r.record) /\ r.record.payment = r.payment
  BY <1>1 DEF LocalOK, CreateOK, CreateSteps, HoldsClaim, HoldsPayment, RowPrepared
<1>3. body \in Body /\ body.payment = r.payment /\ r.record # None
  BY <1>2, NoneIsNothing DEF RowOK
<1>4. r.row # None
  BY <1>2, NoneIsNothing
<1>5. claims \in [ClaimIds -> ClaimRow \cup {None}]
      /\ payments \in [PaymentIds -> PaymentRow \cup {None}]
  BY DEF Inv, TypeOK
<1>6. claims'[r.claim] = r.record
      /\ \A c \in ClaimIds : c # r.claim => claims'[c] = claims[c]
  BY <1>2, <1>5 DEF Commit
<1>7. payments'[r.payment] = r.row
      /\ \A p \in PaymentIds : p # r.payment => payments'[p] = payments[p]
  BY <1>2, <1>5 DEF Commit
<1>8. answers' = answers
  BY DEF Commit
<1> HIDE DEF body, r
<1>9. \A c \in ClaimIds : (IF claims'[c] = None THEN None ELSE claims'[c].body) =
                            (IF c = r.claim THEN body ELSE Outcome[c])
  BY <1>3, <1>6 DEF Outcome, body
<1>10. Outcome' = [Outcome EXCEPT ![r.claim] = body]
  BY <1>9 DEF Outcome
<1>11. Paid' = Paid \cup {body.payment}
  BY <1>2, <1>3, <1>4, <1>7 DEF Paid
<1>12. Outcome[r.claim] = None /\ body.payment \notin Paid
  BY <1>2, <1>3 DEF Outcome, Paid
<1>13. Told' = Told
  BY <1>8 DEF Told, Confirmations
<1> PICK c \in ClaimIds, b \in Body : c = r.claim /\ b = body
  BY <1>2, <1>3
<1>14. EO!Record(c, b)
  BY <1>10, <1>11, <1>12, <1>13 DEF EO!Record, Outcome, Paid, Told, Confirmations
<1> QED
  BY <1>14

LEMMA ExactlyOnceStep == Inv /\ [Next]_vars => [EO!Next]_Abstract
<1> SUFFICES ASSUME Inv, [Next]_vars PROVE [EO!Next]_Abstract
  OBVIOUS
<1>1. CASE UNCHANGED <<ledger, answers>>
  BY <1>1, Stutter DEF ledger
<1>2. ASSUME NEW w \in Workers, Commit(w)
      PROVE  [EO!Next]_Abstract
  BY <1>2, CommitRecords DEF EO!Next
<1>3. ASSUME NEW w \in Workers, Respond(w)
      PROVE  [EO!Next]_Abstract
  <2>1. LocalOK("respond", req[w])
    BY <1>3 DEF Inv, Respond
  <2>2. /\ req[w].claim \in ClaimIds /\ claims[req[w].claim] # None
        /\ req[w].record = claims[req[w].claim]
    BY <2>1 DEF LocalOK, CreateOK, CreateSteps
  <2>3. Reply(w, "created", req[w].record.body) /\ UNCHANGED ledger
    BY <1>3 DEF Respond
  <2> QED
    BY <2>2, <2>3, ConfirmationTells DEF EO!Next
<1>4. ASSUME NEW w \in Workers, Replay(w)
      PROVE  [EO!Next]_Abstract
  <2>1. LocalOK("access", req[w])
    BY <1>4 DEF Inv, Replay
  <2>2. /\ req[w].claim \in ClaimIds /\ claims[req[w].claim] # None
        /\ req[w].record = claims[req[w].claim]
    BY <2>1 DEF LocalOK, CreateOK, CreateSteps
  <2>3. UNCHANGED ledger
    BY <1>4 DEF Replay
  <2>4. CASE Reply(w, "created", req[w].record.body)
    BY <2>2, <2>3, <2>4, ConfirmationTells DEF EO!Next
  <2>5. CASE UNCHANGED answers
    BY <2>3, <2>5, Stutter DEF ledger
  <2> QED
    BY <1>4, <2>4, <2>5 DEF Replay
<1>5. ASSUME NEW w \in Workers, CompleteClaim(w)
      PROVE  [EO!Next]_Abstract
  <2>1. UNCHANGED ledger
    BY <1>5 DEF CompleteClaim
  <2>2. CASE UNCHANGED answers
    BY <2>1, <2>2, Stutter DEF ledger
  <2>3. CASE Reply(w, "finalizeError", None)
    BY <2>1, <2>3, RefusalStutters
  <2> QED
    BY <1>5, <2>2, <2>3 DEF CompleteClaim
<1>6. ASSUME NEW w \in Workers, ReadRecord(w)
      PROVE  [EO!Next]_Abstract
  <2>1. UNCHANGED ledger
    BY <1>6 DEF ReadRecord
  <2>2. CASE UNCHANGED answers
    BY <2>1, <2>2, Stutter DEF ledger
  <2>3. CASE Reply(w, "replayError", None)
    BY <2>1, <2>3, RefusalStutters
  <2> QED
    BY <1>6, <2>2, <2>3 DEF ReadRecord
<1>7. ASSUME NEW w \in Workers, CommitEdit(w)
      PROVE  [EO!Next]_Abstract
  <2>1. LocalOK("editCommit", req[w])
    BY <1>7 DEF Inv, CommitEdit
  <2>2. /\ req[w].payment \in PaymentIds /\ payments[req[w].payment] # None
        /\ req[w].row # None
    BY <2>1, NoneIsNothing DEF LocalOK, EditOK, EditSteps
  <2>3. \A p \in PaymentIds : payments'[p] # None <=> payments[p] # None
    BY <1>7, <2>2 DEF Inv, TypeOK, CommitEdit
  <2> QED
    BY <1>7, <2>3, Stutter DEF CommitEdit
<1>8. ASSUME NEW w \in Workers,
             ReceiveCreate(w) \/ ReceiveEdit(w) \/ Step(w) \/ Fail(w)
      PROVE  [EO!Next]_Abstract
  <2>1. \/ UNCHANGED <<ledger, answers>>
        \/ Commit(w) \/ Respond(w) \/ Replay(w) \/ CompleteClaim(w) \/ ReadRecord(w)
        \/ CommitEdit(w)
    BY <1>8 DEF Step, CreateStep, EditStep, ReceiveCreate, ReceiveEdit, Fail, Claim,
       ClaimTimeout, CheckLease, CheckTenant, InsertPayment, AuditCreation, LoadPayment,
       CheckEdit, EditPayment, EditTimeout, AuditEdit
  <2> QED
    BY <2>1, <1>1, <1>2, <1>3, <1>4, <1>5, <1>6, <1>7
<1>9. ASSUME NEW p \in Properties, SetArchived(p)
      PROVE  [EO!Next]_Abstract
  BY <1>9, <1>1 DEF SetArchived
<1>10. ASSUME NEW l \in Leases, NEW t \in Tenants, ReassignLease(l, t)
       PROVE  [EO!Next]_Abstract
  BY <1>10, <1>1 DEF ReassignLease
<1>11. CASE UNCHANGED vars
  BY <1>11, <1>1 DEF vars, ledger
<1> QED
  BY <1>8, <1>9, <1>10, <1>11 DEF Next

LEMMA ExactlyOnceInit == Init => EO!Init
<1> SUFFICES ASSUME Init PROVE EO!Init
  OBVIOUS
<1>1. Outcome = [c \in ClaimIds |-> None]
  BY DEF Init, Outcome
<1>2. Paid = {}
  BY DEF Init, Paid
<1>3. Told = {}
  BY DEF Init, Told, Confirmations
<1> QED
  BY <1>1, <1>2, <1>3 DEF EO!Init, Outcome, Paid, Told, Confirmations

\* The service implements exactly-once recording: a request identity records at
\* most one payment, and everyone told of it is told the same, afterwards.
THEOREM ExactlyOnce == Spec => ImplementsExactlyOnce
<1>1. Inv /\ [Next]_vars => [EO!Next]_<<Outcome, Paid, Told>>
  BY ExactlyOnceStep DEF Abstract
<1>2. Inv /\ [Next]_vars => [EO!Next]_<<[c \in ClaimIds |-> IF claims[c] = None THEN None ELSE claims[c].body],
                                        {p \in PaymentIds : payments[p] # None},
                                        {<<a.claim, a.body>> : a \in {b \in answers : b.code = "created"}}>>
  BY <1>1 DEF Outcome, Paid, Told, Confirmations
<1> QED
  BY <1>2, ExactlyOnceInit, InvAlways, PTL DEF Spec, EO!Spec, ImplementsExactlyOnce
=============================================================================
