---------------------------- MODULE SerialProofs ----------------------------
(***************************************************************************)
(* What Backend guarantees when requests do not overlap, for any number of *)
(* landlords, rows and requests: the documented state machine of leases,   *)
(* the archival rules, and audit rows and stamps that agree with it.       *)
(*                                                                         *)
(* None of it survives concurrency, and each proof rests at one place on   *)
(* the handler being alone: what it read is still so when it writes.       *)
(***************************************************************************)
EXTENDS BackendProofs

\* Requests are served one at a time.
OneAtATime == \A w, v \in Workers : w = v

-----------------------------------------------------------------------------
(* What a handler that is alone knows.                                      *)

Documented ==
  {<<"activate", "PENDING", "ACTIVE">>, <<"end", "ACTIVE", "ENDED">>,
   <<"terminate", "ACTIVE", "TERMINATED">>, <<"restore", "TERMINATED", "ACTIVE">>}

\* The status a lifecycle operation has read is the one in the table, and the
\* one it keeps for its audit row.
LifecycleOK(w) ==
  LET r == req[w]
  IN r.op \in LifecycleOperations =>
       /\ pc[w] = "load" => r.id \in DOMAIN lease /\ r.before = StatusBefore(r)
       /\ pc[w] \in {"conflict", "write"} =>
            /\ r.id \in DOMAIN lease
            /\ r.before = StatusBefore(r)
            /\ lease[r.id].status = RequiredStatus(r.op)
       /\ pc[w] = "audit" /\ r.op \in AuditedOperations =>
            <<r.op, r.before, r.status>> \in Documented

\* A unit or tenant about to be archived has no ACTIVE lease.
ArchivalOK(w) ==
  LET r == req[w]
  IN pc[w] # "idle" =>
       /\ r.op = "archiveUnit" => r.id \in Units
       /\ r.op = "archiveTenant" => r.id \in Tenants
       /\ r.op = "archiveProperty" => r.id \in Properties
       /\ r.op = "archiveUnit" /\ pc[w] = "write" => ActiveLeases(r.id) = {}
       /\ r.op = "archiveTenant" /\ pc[w] = "write" =>
            \A l \in DOMAIN lease : ~(lease[l].tenant = r.id /\ lease[l].status = "ACTIVE")

\* A termination date means that the lease is terminated.
StampMeansTerminated ==
  \A l \in DOMAIN lease : lease[l].terminatedAt => lease[l].status = "TERMINATED"

SerialInv ==
  /\ \A w \in Workers : LifecycleOK(w) /\ ArchivalOK(w)
  /\ AuditNamesTransition
  /\ StampMeansTerminated

-----------------------------------------------------------------------------
(* Steps that leave the leases alone.                                       *)

LEMMA ControlTyped == Inv => pc \in [Workers -> Steps] /\ req \in [Workers -> Request]
  BY DEF Inv, TypeOK

LEMMA FinishSerial ==
  ASSUME OneAtATime, Inv, SerialInv, NEW w \in Workers, Finish(w), lease' = lease,
         AuditNamesTransition'
  PROVE  SerialInv'
<1>1. pc'[w] = "idle"
  BY ControlTyped DEF Finish
<1>2. \A v \in Workers : LifecycleOK(v)' /\ ArchivalOK(v)'
  BY <1>1 DEF OneAtATime, LifecycleOK, ArchivalOK
<1> QED
  BY <1>2 DEF SerialInv, StampMeansTerminated

\* A read by worker w, after which it is at another statement.
LEMMA ReadSerial ==
  ASSUME OneAtATime, SerialInv, NEW w \in Workers, lease' = lease, audit' = audit,
         LifecycleOK(w)', ArchivalOK(w)'
  PROVE  SerialInv'
  BY DEF OneAtATime, SerialInv, AuditNamesTransition, StampMeansTerminated

LEMMA CheckSerial ==
  ASSUME OneAtATime, Inv, SerialInv, NEW w \in Workers, NEW found, NEW step,
         Check(w, found, step),
         found /\ pc'[w] = step /\ req' = req /\ UNCHANGED tables
           => LifecycleOK(w)' /\ ArchivalOK(w)'
  PROVE  SerialInv'
<1>1. lease' = lease /\ audit' = audit
  BY DEF Check, tables
<1>2. CASE Finish(w)
  BY <1>1, <1>2, FinishSerial DEF SerialInv, AuditNamesTransition
<1>3. CASE found /\ Goto(w, step) /\ UNCHANGED req
  <2>1. pc'[w] = step
    BY <1>3, ControlTyped DEF Goto
  <2> QED
    BY <1>1, <1>3, <2>1, ReadSerial DEF Check
<1> QED
  BY <1>2, <1>3 DEF Check

LEMMA ReceiveSerial ==
  ASSUME OneAtATime, Inv, SerialInv, NEW w \in Workers, ReceiveRequest(w)
  PROVE  SerialInv'
<1>1. ASSUME NEW r, NEW step, Receive(w, r, step), r.op \in {"create", "update"}
      PROVE  SerialInv'
  <2>1. req'[w] = r /\ lease' = lease /\ audit' = audit
    BY <1>1, ControlTyped DEF Receive, tables
  <2>2. LifecycleOK(w)' /\ ArchivalOK(w)'
    BY <1>1, <2>1 DEF LifecycleOK, ArchivalOK, LifecycleOperations
  <2> QED
    BY <2>1, <2>2, ReadSerial
<1>2. CASE ReceiveCreate(w) \/ ReceiveUpdate(w)
  <2>1. PICK r, step : Receive(w, r, step) /\ r.op \in {"create", "update"}
    <3>1. CASE ReceiveCreate(w)
      BY <3>1 DEF ReceiveCreate, Body
    <3>2. CASE ReceiveUpdate(w)
      BY <3>2 DEF ReceiveUpdate, Body
    <3> QED
      BY <1>2, <3>1, <3>2
  <2> QED
    BY <1>1, <2>1
<1>3. CASE ReceiveLifecycle(w)
  <2>1. PICK r : Receive(w, r, "lookup") /\ r.op \in LifecycleOperations
    BY <1>3 DEF ReceiveLifecycle, Body
  <2>2. req'[w] = r /\ pc'[w] = "lookup" /\ lease' = lease /\ audit' = audit
    BY <2>1, ControlTyped DEF Receive, Goto, tables
  <2>3. LifecycleOK(w)' /\ ArchivalOK(w)'
    BY <2>1, <2>2 DEF LifecycleOK, ArchivalOK, LifecycleOperations
  <2> QED
    BY <2>2, <2>3, ReadSerial
<1>4. CASE ReceivePortfolioRequest(w)
  <2>1. PICK r :
          /\ Receive(w, r, "load")
          /\ r.op \notin LifecycleOperations
          /\ r.op = "archiveUnit" => r.id \in Units
          /\ r.op = "archiveTenant" => r.id \in Tenants
          /\ r.op = "archiveProperty" => r.id \in Properties
    <3>1. CASE ReceiveMove(w)
      BY <3>1 DEF ReceiveMove, Body, LifecycleOperations
    <3>2. CASE ReceiveArchival(w)
      <4>0. PICK u \in Users, i \in Archivable :
              \E op \in ArchivalOperations(i) :
                Receive(w, Body(op, u, i, None, None, None, None, None, None), "load")
        BY <3>2 DEF ReceiveArchival
      <4>1. PICK op \in ArchivalOperations(i) :
              Receive(w, Body(op, u, i, None, None, None, None, None, None), "load")
        BY <4>0
      <4> DEFINE r == Body(op, u, i, None, None, None, None, None, None)
      <4>2. r.op = op /\ r.id = i
        BY DEF Body
      <4>3. /\ op \notin LifecycleOperations
            /\ op = "archiveUnit" => i \in Units
            /\ op = "archiveTenant" => i \in Tenants
            /\ op = "archiveProperty" => i \in Properties
        BY DEF ArchivalOperations, Archivable, LifecycleOperations
      <4> HIDE DEF r
      <4> QED
        BY <4>1, <4>2, <4>3 DEF r
    <3> QED
      BY <1>4, <3>1, <3>2 DEF ReceivePortfolioRequest
  <2>2. req'[w] = r /\ pc'[w] = "load" /\ lease' = lease /\ audit' = audit
    BY <2>1, ControlTyped DEF Receive, Goto, tables
  <2>3. LifecycleOK(w)' /\ ArchivalOK(w)'
    BY <2>1, <2>2 DEF LifecycleOK, ArchivalOK
  <2> QED
    BY <2>2, <2>3, ReadSerial
<1> QED
  BY <1>2, <1>3, <1>4 DEF ReceiveRequest, ReceiveLeaseRequest

LEMMA LookupLeaseSerial ==
  ASSUME OneAtATime, Inv, SerialInv, NEW w \in Workers, LookupLease(w)
  PROVE  SerialInv'
<1>1. lease' = lease /\ audit' = audit
  BY DEF LookupLease, tables
<1>2. CASE Finish(w)
  BY <1>1, <1>2, FinishSerial DEF SerialInv, AuditNamesTransition
<1>3. CASE /\ OwnsLease(req[w].user, req[w].id)
           /\ req' = [req EXCEPT ![w].before = StatusBefore(req[w])]
           /\ Goto(w, "load")
  <2>1. pc'[w] = "load"
    BY <1>3, ControlTyped DEF Goto
  <2>2. /\ req'[w].op = req[w].op /\ req'[w].id = req[w].id
        /\ req'[w].before = StatusBefore(req[w])
    <3>1. req'[w] = [req[w] EXCEPT !.before = StatusBefore(req[w])]
      BY <1>3, ControlTyped
    <3>2. req[w] \in Request
      BY ControlTyped
    <3> QED
      BY <3>1, <3>2 DEF Request
  <2>3. req[w].id \in DOMAIN lease /\ req[w].op \in LifecycleOperations \cup {"update"}
    BY <1>3 DEF OwnsLease, LookupLease
  <2>4. LifecycleOK(w)' /\ ArchivalOK(w)'
    BY <1>1, <2>1, <2>2, <2>3 DEF LifecycleOK, ArchivalOK, LifecycleOperations, StatusBefore
  <2> QED
    BY <1>1, <2>4, ReadSerial
<1> QED
  BY <1>2, <1>3 DEF LookupLease

LEMMA LoadUpdateSerial ==
  ASSUME OneAtATime, Inv, SerialInv, NEW w \in Workers, LoadUpdate(w)
  PROVE  SerialInv'
<1>1. lease' = lease /\ audit' = audit /\ req[w].op = "update"
  BY DEF LoadUpdate, tables
<1>2. CASE Finish(w)
  BY <1>1, <1>2, FinishSerial DEF SerialInv, AuditNamesTransition
<1>3. CASE ~Finish(w)
  <2>1. req'[w].op = "update"
    <3> DEFINE row == lease[req[w].id]
               merged(p, n, t, s, e, status) ==
                 [req[w] EXCEPT !.property = p, !.unit = n, !.tenant = t,
                                !.start = s, !.end = e, !.status = status]
               r == merged(Merge(req[w].property, row.property),
                           Merge(req[w].unit, row.unit),
                           Merge(req[w].tenant, row.tenant),
                           Merge(req[w].start, row.start),
                           Merge(req[w].end, row.end), row.status)
    <3>1. req' = [req EXCEPT ![w] = r]
      BY <1>3 DEF LoadUpdate, Completed
    <3>2. \A p, n, t, s, e, status : merged(p, n, t, s, e, status).op = req[w].op
      BY ControlTyped DEF Request
    <3>3. r.op = req[w].op
      <4> HIDE DEF merged
      <4> QED
        BY <3>2
    <3> HIDE DEF r
    <3> QED
      BY <1>1, <3>1, <3>3, ControlTyped
  <2>2. LifecycleOK(w)' /\ ArchivalOK(w)'
    BY <2>1 DEF LifecycleOK, ArchivalOK, LifecycleOperations
  <2> QED
    BY <1>1, <2>2, ReadSerial
<1> QED
  BY <1>2, <1>3

LEMMA LoadForLifecycleSerial ==
  ASSUME OneAtATime, Inv, SerialInv, NEW w \in Workers, LoadForLifecycle(w)
  PROVE  SerialInv'
<1>1. lease' = lease /\ audit' = audit /\ pc[w] = "load" /\ req[w].op \in LifecycleOperations
  BY DEF LoadForLifecycle, tables
<1>2. CASE Finish(w)
  BY <1>1, <1>2, FinishSerial DEF SerialInv, AuditNamesTransition
<1>3. CASE ~Finish(w)
  <2>1. /\ TransitionAllowed(req[w])
        /\ req' = req \/ req' = [req EXCEPT ![w].unit = lease[req[w].id].unit]
        /\ Goto(w, "conflict") \/ Goto(w, "write")
    BY <1>3 DEF LoadForLifecycle
  <2>2. pc'[w] \in {"conflict", "write"}
    BY <2>1, ControlTyped DEF Goto
  <2>3. req'[w].op = req[w].op /\ req'[w].id = req[w].id /\ req'[w].before = req[w].before
    <3>1. req'[w] = req[w] \/ req'[w] = [req[w] EXCEPT !.unit = lease[req[w].id].unit]
      BY <2>1, ControlTyped
    <3>2. req[w] \in Request
      BY ControlTyped
    <3> QED
      BY <3>1, <3>2 DEF Request
  <2>4. LifecycleOK(w)
    BY DEF SerialInv
  <2>5. LifecycleOK(w)'
    BY <1>1, <2>1, <2>2, <2>3, <2>4 DEF LifecycleOK, TransitionAllowed, StatusBefore
  <2>6. ArchivalOK(w)'
    BY <1>1, <2>3 DEF ArchivalOK, LifecycleOperations
  <2> QED
    BY <1>1, <2>5, <2>6, ReadSerial
<1> QED
  BY <1>2, <1>3

\* The checks of create and update.
LEMMA WriterChecksSerial ==
  ASSUME OneAtATime, Inv, SerialInv, NEW w \in Workers,
         CheckProperty(w) \/ CheckUnit(w) \/ CheckTenant(w)
  PROVE  SerialInv'
<1>1. req[w].op \in {"create", "update"}
  BY DEF CheckProperty, CheckUnit, CheckTenant, Inv, HandlerOK, LeaseHandlerOK
<1>2. PICK found, step : Check(w, found, step)
  BY DEF CheckProperty, CheckUnit, CheckTenant
<1>3. req' = req => LifecycleOK(w)' /\ ArchivalOK(w)'
  BY <1>1 DEF LifecycleOK, ArchivalOK, LifecycleOperations
<1> QED
  BY <1>2, <1>3, CheckSerial

LEMMA CheckConflictSerial ==
  ASSUME OneAtATime, Inv, SerialInv, NEW w \in Workers, CheckConflict(w)
  PROVE  SerialInv'
<1>1. pc[w] = "conflict" /\ req[w].op \in LeaseOperations
  BY DEF CheckConflict
<1>2. LifecycleOK(w)
  BY DEF SerialInv
<1>3. ASSUME pc'[w] = "write", req' = req, UNCHANGED tables
      PROVE  LifecycleOK(w)' /\ ArchivalOK(w)'
  BY <1>1, <1>2, <1>3 DEF LifecycleOK, ArchivalOK, LeaseOperations, tables, StatusBefore
<1> QED
  BY <1>3, CheckSerial DEF CheckConflict

LEMMA LeasesLookedAt ==
  ASSUME OneAtATime, Inv, SerialInv, NEW w \in Workers,
         CheckUnitLeases(w) \/ CheckTenantLeases(w)
  PROVE  SerialInv'
<1>1. ArchivalOK(w) /\ pc[w] = "conflict"
  BY DEF SerialInv, CheckUnitLeases, CheckTenantLeases
<1>2. CASE CheckUnitLeases(w)
  <2>1. req[w].op = "archiveUnit" /\ Check(w, ActiveLeases(req[w].id) = {}, "write")
    BY <1>2 DEF CheckUnitLeases
  <2>2. ASSUME ActiveLeases(req[w].id) = {}, pc'[w] = "write", req' = req, UNCHANGED tables
        PROVE  LifecycleOK(w)' /\ ArchivalOK(w)'
    BY <1>1, <2>1, <2>2
       DEF LifecycleOK, ArchivalOK, LifecycleOperations, ActiveLeases, tables
  <2> QED
    BY <2>1, <2>2, CheckSerial
<1>3. CASE CheckTenantLeases(w)
  <2> DEFINE free == \A l \in DOMAIN lease :
                       ~(lease[l].tenant = req[w].id /\ lease[l].status = "ACTIVE")
  <2>1. req[w].op = "archiveTenant" /\ Check(w, free, "write")
    BY <1>3 DEF CheckTenantLeases
  <2>2. ASSUME free, pc'[w] = "write", req' = req, UNCHANGED tables
        PROVE  LifecycleOK(w)' /\ ArchivalOK(w)'
    BY <1>1, <2>1, <2>2 DEF LifecycleOK, ArchivalOK, LifecycleOperations, tables
  <2> HIDE DEF free
  <2> QED
    BY <2>1, <2>2, CheckSerial
<1> QED
  BY <1>2, <1>3

\* The other reads of the portfolio services.
LEMMA PortfolioReadsSerial ==
  ASSUME OneAtATime, Inv, SerialInv, NEW w \in Workers,
         LoadUnit(w) \/ CheckDestination(w) \/ LoadTenant(w) \/ LoadProperty(w)
  PROVE  SerialInv'
<1>1. pc[w] # "idle" /\ ArchivalOK(w)
  BY DEF SerialInv, LoadUnit, CheckDestination, LoadTenant, LoadProperty
<1>2. PICK found, step :
        /\ Check(w, found, step)
        /\ req[w].op \notin LifecycleOperations
        /\ req[w].op \in {"archiveUnit", "archiveTenant"} => step = "conflict"
  BY DEF LoadUnit, CheckDestination, LoadTenant, LoadProperty, LifecycleOperations
<1>3. ASSUME pc'[w] = step, req' = req
      PROVE  LifecycleOK(w)' /\ ArchivalOK(w)'
  BY <1>1, <1>2, <1>3 DEF LifecycleOK, ArchivalOK
<1> QED
  BY <1>2, <1>3, CheckSerial

-----------------------------------------------------------------------------
(* Writes.                                                                  *)

\* How worker w may replace a row when it is alone: it leaves the status, or
\* takes it along the documented transition of its operation.
SerialRow(w, row) ==
  /\ row.terminatedAt => row.status = "TERMINATED"
  /\ req[w].op \in LifecycleOperations =>
       /\ <<req[w].op, lease[req[w].id].status, row.status>> \in Documented
       /\ req[w].before = StatusBefore(req[w])
  /\ req[w].id \in DOMAIN lease /\ req[w].op \notin LifecycleOperations =>
       row.status = lease[req[w].id].status

LEMMA WriteLeaseSerial ==
  ASSUME OneAtATime, Inv, SerialInv, NEW w \in Workers, NEW row,
         GoodWrite(w, row), SerialRow(w, row)
  PROVE  SerialInv'
<1>1. CASE Finish(w) /\ UNCHANGED tables
  BY <1>1, FinishSerial DEF SerialInv, AuditNamesTransition, tables
<1>2. CASE Written(w, req[w].id, row)
  <2>1. /\ lease' = [k \in DOMAIN lease \cup {req[w].id} |->
                       IF k = req[w].id THEN row ELSE lease[k]]
        /\ audit' = audit
    BY <1>2 DEF Written
  <2>2. pc'[w] = "audit"
    BY <1>2, ControlTyped DEF Written, Goto
  <2>3. /\ req'[w].op = req[w].op /\ req'[w].before = req[w].before
        /\ req'[w].status = row.status
    <3>1. req'[w] = [NoRequest EXCEPT !.op = req[w].op, !.id = req[w].id,
                                      !.before = req[w].before, !.status = row.status]
      BY <1>2, ControlTyped DEF Written
    <3> QED
      BY <3>1 DEF NoRequest, Body
  <2>4. LifecycleOK(w)'
    BY <2>2, <2>3 DEF LifecycleOK, SerialRow, StatusBefore
  <2>5. ArchivalOK(w)'
    BY <2>3 DEF ArchivalOK, GoodWrite, LeaseOperations
  <2>6. StampMeansTerminated'
    BY <2>1 DEF SerialInv, StampMeansTerminated, SerialRow
  <2> QED
    BY <2>1, <2>4, <2>5, <2>6 DEF OneAtATime, SerialInv, AuditNamesTransition
<1> QED
  BY <1>1, <1>2 DEF GoodWrite, WriteLease

LEMMA CreatedSerial ==
  ASSUME Inv, NEW w \in Workers, CreateLease(w)
  PROVE  SerialRow(w, InsertedRow(req[w]))
<1>1. pc[w] = "write" /\ req[w].op = "create"
  BY DEF CreateLease, Writing
<1>2. req[w].id \notin DOMAIN lease
  BY <1>1 DEF Inv, HandlerOK, LeaseHandlerOK, Creating, Prepared
<1> QED
  BY <1>1, <1>2 DEF SerialRow, InsertedRow, LifecycleOperations

LEMMA UpdatedSerial ==
  ASSUME Inv, SerialInv, NEW w \in Workers, UpdateLease(w)
  PROVE  SerialRow(w, UpdatedRow(lease[req[w].id], req[w]))
<1> DEFINE old == lease[req[w].id]
           row == UpdatedRow(old, req[w])
<1>1. pc[w] = "write" /\ req[w].op = "update"
  BY DEF UpdateLease, Writing
<1>2. req[w].id \in DOMAIN lease
  BY <1>1 DEF Inv, HandlerOK, LeaseHandlerOK, Prepared
<1>3. old \in LeaseRow
  BY <1>2, StoredRowsGood DEF GoodRow
<1>4. old.terminatedAt => old.status = "TERMINATED"
  BY <1>2 DEF SerialInv, StampMeansTerminated
<1>5. row.status = old.status /\ row.terminatedAt = old.terminatedAt
  BY <1>3 DEF UpdatedRow, LeaseRow
<1> HIDE DEF row
<1>6. SerialRow(w, row)
  BY <1>1, <1>4, <1>5 DEF SerialRow, LifecycleOperations
<1> QED
  BY <1>6 DEF row

LEMMA LifecycleSerial ==
  ASSUME Inv, SerialInv, NEW w \in Workers,
         ActivateLease(w) \/ TerminateLease(w) \/ RestoreLease(w) \/ EndLease(w)
  PROVE  \E row : GoodWrite(w, row) /\ SerialRow(w, row)
<1> DEFINE old == lease[req[w].id]
<1>1. pc[w] = "write" /\ req[w].op \in LifecycleOperations
  BY DEF ActivateLease, TerminateLease, RestoreLease, EndLease, Writing, LifecycleOperations
<1>2. /\ req[w].id \in DOMAIN lease
      /\ req[w].before = StatusBefore(req[w])
      /\ old.status = RequiredStatus(req[w].op)
  BY <1>1 DEF SerialInv, LifecycleOK
<1>3. old \in LeaseRow /\ (old.terminatedAt => old.status = "TERMINATED")
  BY <1>2, StoredRowsGood DEF GoodRow, SerialInv, StampMeansTerminated
<1> HIDE DEF old
<1>4. CASE ActivateLease(w) /\ GoodWrite(w, ActivatedRow(old))
  <2>1. req[w].op = "activate" /\ old.status = "PENDING"
    BY <1>2, <1>4 DEF ActivateLease, Writing, RequiredStatus
  <2>2. ActivatedRow(old).status = "ACTIVE" /\ ~ActivatedRow(old).terminatedAt
    BY <1>3, <2>1 DEF ActivatedRow, LeaseRow
  <2>3. SerialRow(w, ActivatedRow(old))
    BY <1>1, <1>2, <2>1, <2>2 DEF SerialRow, Documented, old
  <2> QED
    BY <1>4, <2>3
<1>5. CASE TerminateLease(w) /\ GoodWrite(w, TerminatedRow(old))
  <2>1. req[w].op = "terminate" /\ old.status = "ACTIVE"
    BY <1>2, <1>5 DEF TerminateLease, Writing, RequiredStatus
  <2>2. TerminatedRow(old).status = "TERMINATED"
    BY <1>3 DEF TerminatedRow, LeaseRow
  <2>3. SerialRow(w, TerminatedRow(old))
    BY <1>1, <1>2, <2>1, <2>2 DEF SerialRow, Documented, old
  <2> QED
    BY <1>5, <2>3
<1>6. CASE RestoreLease(w) /\ GoodWrite(w, RestoredRow(old))
  <2>1. req[w].op = "restore" /\ old.status = "TERMINATED"
    BY <1>2, <1>6 DEF RestoreLease, Writing, RequiredStatus
  <2>2. RestoredRow(old).status = "ACTIVE" /\ ~RestoredRow(old).terminatedAt
    BY <1>3 DEF RestoredRow, LeaseRow
  <2>3. SerialRow(w, RestoredRow(old))
    BY <1>1, <1>2, <2>1, <2>2 DEF SerialRow, Documented, old
  <2> QED
    BY <1>6, <2>3
<1>7. CASE EndLease(w) /\ GoodWrite(w, EndedRow(old))
  <2>1. req[w].op = "end" /\ old.status = "ACTIVE"
    BY <1>2, <1>7 DEF EndLease, Writing, RequiredStatus
  <2>2. EndedRow(old).status = "ENDED" /\ ~EndedRow(old).terminatedAt
    BY <1>3, <2>1 DEF EndedRow, LeaseRow
  <2>3. SerialRow(w, EndedRow(old))
    BY <1>1, <1>2, <2>1, <2>2 DEF SerialRow, Documented, old
  <2> QED
    BY <1>7, <2>3
<1> QED
  BY <1>4, <1>5, <1>6, <1>7, LifecycleWrite DEF old

\* Every write of a lease is one of these.
LEMMA WritesSerial ==
  ASSUME Inv, SerialInv, NEW w \in Workers,
         \/ CreateLease(w) \/ UpdateLease(w) \/ ActivateLease(w)
         \/ TerminateLease(w) \/ RestoreLease(w) \/ EndLease(w)
  PROVE  \E row : GoodWrite(w, row) /\ SerialRow(w, row)
  BY CreatedSerial, CreateLeaseWrite, UpdatedSerial, UpdateLeaseWrite, LifecycleSerial

\* The writes of the portfolio services leave every lease alone.
LEMMA PortfolioWritesSerial ==
  ASSUME OneAtATime, Inv, SerialInv, NEW w \in Workers,
         MoveUnit(w) \/ ArchiveRow(w) \/ RestoreRow(w)
  PROVE  SerialInv'
<1>1. /\ lease' = lease /\ audit' = audit /\ req' = req
      /\ Goto(w, "audit")
      /\ req[w].op \notin LifecycleOperations /\ pc[w] # "idle"
  BY DEF MoveUnit, ArchiveRow, RestoreRow, LifecycleOperations
<1>2. pc'[w] = "audit" /\ ArchivalOK(w)
  BY <1>1, ControlTyped DEF Goto, SerialInv
<1>3. LifecycleOK(w)' /\ ArchivalOK(w)'
  BY <1>1, <1>2 DEF LifecycleOK, ArchivalOK
<1> QED
  BY <1>1, <1>3, ReadSerial

LEMMA WriteAuditSerial ==
  ASSUME OneAtATime, Inv, SerialInv, NEW w \in Workers, WriteAudit(w)
  PROVE  SerialInv'
<1>1. LifecycleOK(w) /\ pc[w] = "audit" /\ lease' = lease /\ Finish(w)
  BY DEF SerialInv, WriteAudit
<1>2. AuditNamesTransition'
  <2>1. CASE audit' = audit
    BY <2>1 DEF SerialInv, AuditNamesTransition
  <2>2. CASE /\ req[w].op \in AuditedOperations
             /\ audit' = [op |-> req[w].op, id |-> req[w].id,
                          before |-> req[w].before, after |-> req[w].status]
    BY <1>1, <2>2 DEF AuditNamesTransition, LifecycleOK, Documented
  <2> QED
    BY <2>1, <2>2 DEF WriteAudit
<1> QED
  BY <1>1, <1>2, FinishSerial

-----------------------------------------------------------------------------
(* The invariant of requests that do not overlap.                           *)

LEMMA InitSerial == Init => SerialInv
<1> SUFFICES ASSUME Init PROVE SerialInv
  OBVIOUS
<1>1. \A w \in Workers : pc[w] = "idle"
  BY DEF Init
<1>2. \A w \in Workers : LifecycleOK(w) /\ ArchivalOK(w)
  BY <1>1 DEF LifecycleOK, ArchivalOK
<1>3. AuditNamesTransition /\ StampMeansTerminated
  BY DEF Init, AuditNamesTransition, StampMeansTerminated
<1> QED
  BY <1>2, <1>3 DEF SerialInv

LEMMA NextSerial ==
  ASSUME OneAtATime, Inv, SerialInv, [Next]_vars
  PROVE  SerialInv'
<1>1. CASE UNCHANGED vars
  BY <1>1 DEF vars, SerialInv, LifecycleOK, ArchivalOK, ActiveLeases, AuditNamesTransition,
              StampMeansTerminated, StatusBefore
<1>2. ASSUME NEW w \in Workers, ReceiveRequest(w) PROVE SerialInv'
  BY <1>2, ReceiveSerial
<1>3. ASSUME NEW w \in Workers, LeaseStep(w) PROVE SerialInv'
  <2>1. CASE \/ CreateLease(w) \/ UpdateLease(w) \/ ActivateLease(w)
             \/ TerminateLease(w) \/ RestoreLease(w) \/ EndLease(w)
    <3>1. PICK row : GoodWrite(w, row) /\ SerialRow(w, row)
      BY <2>1, WritesSerial
    <3> QED
      BY <3>1, WriteLeaseSerial
  <2> QED
    BY <1>3, <2>1, LookupLeaseSerial, LoadUpdateSerial, LoadForLifecycleSerial,
       WriterChecksSerial, CheckConflictSerial DEF LeaseStep
<1>4. ASSUME NEW w \in Workers, PortfolioStep(w) PROVE SerialInv'
  BY <1>4, PortfolioReadsSerial, LeasesLookedAt, PortfolioWritesSerial DEF PortfolioStep
<1>5. ASSUME NEW w \in Workers, WriteAudit(w) PROVE SerialInv'
  BY <1>5, WriteAuditSerial
<1>6. ASSUME NEW w \in Workers, Fail(w) PROVE SerialInv'
  BY <1>6, FinishSerial DEF Fail, tables, SerialInv, AuditNamesTransition
<1> QED
  BY <1>1, <1>2, <1>3, <1>4, <1>5, <1>6 DEF Next, Step

LEMMA SpecSerial ==
  ASSUME OneAtATime
  PROVE  Spec => []SerialInv
<1>1. Inv /\ SerialInv /\ [Next]_vars => SerialInv'
  BY NextSerial
<1> QED
  BY <1>1, InitSerial, SpecInv, PTL DEF Spec

\* When requests do not overlap, the audit row of a lifecycle endpoint names
\* the documented transition that has happened.
THEOREM SerialAuditTruthful ==
  ASSUME OneAtATime
  PROVE  Spec => []AuditNamesTransition
  BY SpecSerial, PTL DEF SerialInv

\* When requests do not overlap, an ACTIVE lease never has a terminatedAt.
THEOREM SerialActiveUnstamped ==
  ASSUME OneAtATime
  PROVE  Spec => []ActiveIsUnstamped
<1>1. SerialInv => ActiveIsUnstamped
  BY DEF SerialInv, StampMeansTerminated, ActiveIsUnstamped
<1> QED
  BY <1>1, SpecSerial, PTL

-----------------------------------------------------------------------------
(* Archival.                                                                *)

\* Rows become archived by the write of an archive endpoint only.
LEMMA ArchivedBy ==
  ASSUME [Next]_vars, NEW i \in archived' \ archived
  PROVE  \E w \in Workers : ArchiveRow(w) /\ req[w].id = i
<1>1. ASSUME NEW w \in Workers, PortfolioStep(w)
      PROVE  ArchiveRow(w) /\ req[w].id = i
  <2>1. CASE ArchiveRow(w)
    BY <2>1 DEF ArchiveRow
  <2>2. CASE ~ArchiveRow(w)
    <3>1. archived' \subseteq archived
      BY <1>1, <2>2
         DEF PortfolioStep, LoadUnit, CheckDestination, CheckUnitLeases, MoveUnit, LoadTenant,
             CheckTenantLeases, LoadProperty, RestoreRow, Check, tables
    <3> QED
      BY <3>1
  <2> QED
    BY <2>1, <2>2
<1>2. ASSUME NEW w \in Workers,
             ReceiveRequest(w) \/ LeaseStep(w) \/ WriteAudit(w) \/ Fail(w)
      PROVE  archived' = archived
  <2>1. CASE ReceiveRequest(w) \/ WriteAudit(w) \/ Fail(w)
    BY <2>1
       DEF ReceiveRequest, ReceiveLeaseRequest, ReceiveCreate, ReceiveUpdate, ReceiveLifecycle,
           ReceivePortfolioRequest, ReceiveMove, ReceiveArchival, Receive, WriteAudit, Fail,
           tables
  <2>2. CASE LeaseStep(w)
    BY <2>2
       DEF LeaseStep, LookupLease, LoadUpdate, LoadForLifecycle, CheckProperty, CheckUnit,
           CheckTenant, CheckConflict, Check, CreateLease, UpdateLease, ActivateLease,
           TerminateLease, RestoreLease, EndLease, WriteLease, Written, tables
  <2> QED
    BY <1>2, <2>1, <2>2
<1>3. ~UNCHANGED vars
  BY DEF vars
<1> QED
  BY <1>1, <1>2, <1>3 DEF Next, Step

\* When requests do not overlap, a unit with an ACTIVE lease is never archived.
THEOREM SerialUnitArchival ==
  ASSUME OneAtATime
  PROVE  Spec => UnitArchiveRejectsActive
<1>1. ASSUME Inv, SerialInv, [Next]_vars, NEW n \in Units, n \in archived' \ archived
      PROVE  ActiveLeases(n)' = {}
  <2>1. PICK w \in Workers : ArchiveRow(w) /\ req[w].id = n
    BY <1>1, ArchivedBy
  <2>2. ArchivalOK(w)
    BY <1>1 DEF SerialInv
  <2>3. /\ pc[w] = "write" /\ lease' = lease
        /\ req[w].op \in {"archiveUnit", "archiveTenant", "archiveProperty"}
    BY <2>1 DEF ArchiveRow
  <2>4. req[w].op = "archiveUnit"
    BY <2>1, <2>2, <2>3, IdsAssumption DEF ArchivalOK
  <2>5. ActiveLeases(n) = {}
    BY <2>1, <2>2, <2>3, <2>4 DEF ArchivalOK
  <2> QED
    BY <2>3, <2>5 DEF ActiveLeases
<1>2. Inv /\ SerialInv /\ [Next]_vars
        => [\A n \in Units : n \in archived' \ archived => ActiveLeases(n)' = {}]_vars
  BY <1>1
<1> QED
  BY <1>2, SpecInv, SpecSerial, PTL DEF Spec, UnitArchiveRejectsActive

\* When requests do not overlap, a tenant with an ACTIVE lease is never archived.
THEOREM SerialTenantArchival ==
  ASSUME OneAtATime
  PROVE  Spec => TenantArchiveRejectsActive
<1>1. ASSUME Inv, SerialInv, [Next]_vars, NEW t \in Tenants, NEW l \in DOMAIN lease',
             t \in archived' \ archived, lease'[l].tenant = t
      PROVE  lease'[l].status # "ACTIVE"
  <2>1. PICK w \in Workers : ArchiveRow(w) /\ req[w].id = t
    BY <1>1, ArchivedBy
  <2>2. ArchivalOK(w)
    BY <1>1 DEF SerialInv
  <2>3. /\ pc[w] = "write" /\ lease' = lease
        /\ req[w].op \in {"archiveUnit", "archiveTenant", "archiveProperty"}
    BY <2>1 DEF ArchiveRow
  <2>4. req[w].op = "archiveTenant"
    BY <2>1, <2>2, <2>3, IdsAssumption DEF ArchivalOK
  <2> QED
    BY <1>1, <2>1, <2>2, <2>3, <2>4 DEF ArchivalOK
<1>2. Inv /\ SerialInv /\ [Next]_vars
        => [\A t \in Tenants, l \in DOMAIN lease' :
              t \in archived' \ archived /\ lease'[l].tenant = t
              => lease'[l].status # "ACTIVE"]_vars
  BY <1>1
<1> QED
  BY <1>2, SpecInv, SpecSerial, PTL DEF Spec, TenantArchiveRejectsActive

-----------------------------------------------------------------------------
(* The state machine of leases.                                             *)

\* The lease a step may insert or take along one documented transition.
LeaseMoves(l) ==
  /\ DOMAIN lease' = DOMAIN lease \cup {l}
  /\ \A k \in DOMAIN lease' \ {l} : lease'[k] = lease[k]
  /\ lease'[l].status \in Statuses
  /\ l \in DOMAIN lease =>
       \/ lease'[l].status = lease[l].status
       \/ <<lease[l].status, lease'[l].status>> \in LSM!Transitions

LEMMA OnlyOneMoves ==
  ASSUME Inv, SerialInv, [Next]_vars
  PROVE  UNCHANGED lease \/ \E l \in Leases : LeaseMoves(l)
<1>1. ASSUME NEW w \in Workers, NEW row, GoodWrite(w, row), SerialRow(w, row)
      PROVE  UNCHANGED lease \/ \E l \in Leases : LeaseMoves(l)
  <2> DEFINE l == req[w].id
  <2>1. CASE UNCHANGED tables
    BY <2>1 DEF tables
  <2>2. CASE Written(w, l, row)
    <3>1. lease' = [k \in DOMAIN lease \cup {l} |-> IF k = l THEN row ELSE lease[k]]
      BY <2>2 DEF Written
    <3>2. l \in Leases /\ row \in LeaseRow
      BY <1>1 DEF GoodWrite, GoodRow, Inv, HandlerOK, LeaseHandlerOK
    <3>3. row.status \in Statuses
      BY <3>2 DEF LeaseRow
    <3>4. l \in DOMAIN lease =>
            \/ row.status = lease[l].status
            \/ <<lease[l].status, row.status>> \in LSM!Transitions
      BY <1>1 DEF SerialRow, Documented, LSM!Transitions
    <3> HIDE DEF l
    <3>5. LeaseMoves(l)
      BY <3>1, <3>3, <3>4 DEF LeaseMoves
    <3> QED
      BY <3>2, <3>5
  <2> QED
    BY <1>1, <2>1, <2>2 DEF GoodWrite, WriteLease
<1>2. ASSUME NEW w \in Workers,
             \/ CreateLease(w) \/ UpdateLease(w) \/ ActivateLease(w)
             \/ TerminateLease(w) \/ RestoreLease(w) \/ EndLease(w)
      PROVE  UNCHANGED lease \/ \E l \in Leases : LeaseMoves(l)
  BY <1>1, <1>2, WritesSerial
<1>3. ASSUME NEW w \in Workers,
             \/ ReceiveRequest(w) \/ PortfolioStep(w) \/ WriteAudit(w) \/ Fail(w)
             \/ LookupLease(w) \/ LoadUpdate(w) \/ LoadForLifecycle(w) \/ CheckProperty(w)
             \/ CheckUnit(w) \/ CheckTenant(w) \/ CheckConflict(w)
      PROVE  UNCHANGED lease
  BY <1>3 DEF ReceiveRequest, ReceiveLeaseRequest, ReceiveCreate, ReceiveUpdate,
     ReceiveLifecycle, ReceivePortfolioRequest, ReceiveMove, ReceiveArchival, Receive,
     PortfolioStep, LoadUnit, LoadTenant, LoadProperty, CheckDestination, CheckUnitLeases,
     CheckTenantLeases, MoveUnit, ArchiveRow, RestoreRow, WriteAudit, Fail, LookupLease,
     LoadUpdate, LoadForLifecycle, CheckProperty, CheckUnit, CheckTenant, CheckConflict,
     Check, tables
<1> QED
  BY <1>2, <1>3 DEF Next, Step, LeaseStep, vars

\* When requests do not overlap, an ENDED lease is final.
THEOREM SerialEndedFinal ==
  ASSUME OneAtATime
  PROVE  Spec => EndedIsFinal
<1>1. ASSUME Inv, SerialInv, [Next]_vars, NEW k \in DOMAIN lease, lease[k].status = "ENDED"
      PROVE  lease'[k].status = "ENDED"
  BY <1>1, OnlyOneMoves DEF LeaseMoves, LSM!Transitions
<1>2. Inv /\ SerialInv /\ [Next]_vars
        => [\A l \in DOMAIN lease :
              lease[l].status = "ENDED" => lease'[l].status = "ENDED"]_lease
  BY <1>1
<1> QED
  BY <1>2, SpecInv, SpecSerial, PTL DEF Spec, EndedIsFinal

LEMMA MachineInit == Init => LSM!Init
  BY DEF Init, LSM!Init, StatusOf

LEMMA MachineStep ==
  ASSUME Inv, SerialInv, [Next]_vars
  PROVE  [LSM!Next]_[l \in Leases |-> StatusOf(l)]
<1> DEFINE status == [l \in Leases |-> StatusOf(l)]
<1>1. CASE UNCHANGED lease
  BY <1>1 DEF StatusOf
<1>2. ASSUME NEW l \in Leases, LeaseMoves(l)
      PROVE  [LSM!Next]_status
  <2> DEFINE s == lease'[l].status
  <2>1. \A k \in Leases : StatusOf(k)' = IF k = l THEN s ELSE StatusOf(k)
    BY <1>2 DEF LeaseMoves, StatusOf
  <2>2. status' = [status EXCEPT ![l] = s]
    BY <2>1
  <2>3. s \in Statuses
    BY <1>2 DEF LeaseMoves
  <2>4. s \in LSM!Statuses
    BY <2>3 DEF Statuses, LSM!Statuses
  <2>5. CASE l \notin DOMAIN lease
    <3>1. status[l] = None
      BY <2>5 DEF StatusOf
    <3> QED
      BY <2>2, <2>4, <3>1 DEF LSM!Next, LSM!Create
  <2>6. CASE l \in DOMAIN lease /\ s = lease[l].status
    <3>1. \A k \in Leases : StatusOf(k)' = StatusOf(k)
      BY <2>1, <2>6 DEF StatusOf
    <3> QED
      BY <3>1
  <2>7. CASE l \in DOMAIN lease /\ <<lease[l].status, s>> \in LSM!Transitions
    <3>1. status[l] = lease[l].status
      BY <2>7 DEF StatusOf
    <3> QED
      BY <2>2, <2>4, <2>7, <3>1 DEF LSM!Next, LSM!Transition
  <2> QED
    BY <1>2, <2>5, <2>6, <2>7 DEF LeaseMoves
<1> QED
  BY <1>1, <1>2, OnlyOneMoves

\* When requests do not overlap, leases follow the documented state machine.
THEOREM SerialStateMachine ==
  ASSUME OneAtATime
  PROVE  Spec => ImplementsLeaseStateMachine
<1>1. Inv /\ SerialInv /\ [Next]_vars => [LSM!Next]_[l \in Leases |-> StatusOf(l)]
  BY MachineStep
<1> QED
  BY <1>1, MachineInit, SpecInv, SpecSerial, PTL DEF Spec, LSM!Spec, ImplementsLeaseStateMachine
=============================================================================
