---------------------------- MODULE LeaseService ----------------------------
(***************************************************************************)
(* The mutating lease endpoints: lease.controller.ts and the functions of  *)
(* lease.service.ts they call, one action per database statement.          *)
(*                                                                         *)
(* create and update run in a transaction whose only write comes last; the *)
(* four lifecycle operations run outside any.  In every case the write     *)
(* selects its row by id alone: nothing read earlier is checked again by   *)
(* the write, except that the unique index is.                             *)
(***************************************************************************)
EXTENDS Tables

LifecycleOperations == {"activate", "terminate", "restore", "end"}

\* Mutant: restore reopens ended leases.
RequiredStatusReopening(op) ==
  CASE op = "activate" -> "PENDING"
    [] op = "restore" -> "ENDED"
    [] OTHER -> "ACTIVE"

\* The status a lifecycle operation insists on when it reads the lease.
RequiredStatus(op) ==
  CASE op = "activate" -> "PENDING"
    [] op = "restore" -> "TERMINATED"
    [] OTHER -> "ACTIVE"

\* Ids no insert has used or is about to use: cuid() never repeats one.
FreeIds == Leases \ (DOMAIN lease \cup {req[w].id : w \in Workers})

-----------------------------------------------------------------------------
(* Requests, as the zod schemas let them through.                           *)

ReceiveCreate(w) ==
  \E u \in Users, l \in FreeIds, p \in Properties, n \in Units, t \in Tenants,
     s \in Dates, e \in Dates, status \in CreateStatuses :
    /\ s < e
    /\ Receive(w, Body("create", u, l, p, n, t, s, e, status), "property")

\* What a body that sends these fields may say of one of them.
Sent(field, fields, values) == IF field \in fields THEN values ELSE {None}

\* Every field is optional; the schema is strict and has no status.
ReceiveUpdate(w) ==
  \E u \in Users, l \in Leases, fields \in UpdateFields :
    \E p \in Sent("property", fields, Properties),
       n \in Sent("unit", fields, Units), t \in Sent("tenant", fields, Tenants),
       s \in Sent("start", fields, Dates), e \in Sent("end", fields, Dates) :
      /\ s # None /\ e # None => s < e
      /\ Receive(w, Body("update", u, l, p, n, t, s, e, None), "lookup")

ReceiveLifecycle(w) ==
  \E u \in Users, l \in Leases, op \in LifecycleOperations :
    Receive(w, Body(op, u, l, None, None, None, None, None, None), "lookup")

-----------------------------------------------------------------------------
(* Reads.                                                                   *)

\* The status an audit row will give as the one before; only audited
\* operations use it.
StatusBefore(r) == IF r.op \in AuditedOperations THEN lease[r.id].status ELSE None

\* The controller's getLeaseById: 404, or remember the status for the audit.
LookupLease(w) ==
  /\ pc[w] = "lookup"
  /\ req[w].op \in LifecycleOperations \cup {"update"}
  /\ \/ /\ OwnsLease(req[w].user, req[w].id)
        /\ req' = [req EXCEPT ![w].before = StatusBefore(req[w])]
        /\ Goto(w, "load")
     \/ /\ ~OwnsLease(req[w].user, req[w].id)
        /\ Finish(w)
  /\ UNCHANGED tables

\* A field of the body, or the one of the row just read when it is absent.
Merge(given, existing) == IF given = None THEN existing ELSE given

\* The final dates, compared whichever of them the body brings.
TermAccepted(r, row) == Merge(r.start, row.start) < Merge(r.end, row.end)

\* Mutant: the dates go on to the write as they were sent.
CompletedButDates(r, row) ==
  [r EXCEPT !.property = Merge(r.property, row.property), !.unit = Merge(r.unit, row.unit),
            !.tenant = Merge(r.tenant, row.tenant), !.status = row.status]

\* The body, completed with the row just read.
Completed(r, row) ==
  [r EXCEPT !.property = Merge(r.property, row.property), !.unit = Merge(r.unit, row.unit),
            !.tenant = Merge(r.tenant, row.tenant), !.start = Merge(r.start, row.start),
            !.end = Merge(r.end, row.end), !.status = row.status]

LoadUpdate(w) ==
  LET r == req[w]
  IN /\ pc[w] = "load"
     /\ r.op = "update"
     /\ \/ /\ OwnsLease(r.user, r.id)
           /\ TermAccepted(r, lease[r.id])
           /\ req' = [req EXCEPT ![w] = Completed(r, lease[r.id])]
           /\ Goto(w, "property")
        \/ /\ OwnsLease(r.user, r.id) => ~TermAccepted(r, lease[r.id])
           /\ Finish(w)
     /\ UNCHANGED tables

CheckProperty(w) ==
  /\ pc[w] = "property"
  /\ req[w].op \in {"create", "update"}
  /\ Check(w, OpenProperty(req[w].user, req[w].property), "unit")

CheckUnit(w) ==
  /\ pc[w] = "unit"
  /\ Check(w, OpenUnitOf(req[w].user, req[w].property, req[w].unit), "tenant")

CheckTenant(w) ==
  /\ pc[w] = "tenant"
  /\ Check(w, OpenTenant(req[w].user, req[w].tenant),
           IF req[w].status = "ACTIVE" THEN "conflict" ELSE "write")

\* Mutant: the status is not compared.
TransitionAllowedAlways(r) == OwnsLease(r.user, r.id)

TransitionAllowed(r) ==
  OwnsLease(r.user, r.id) /\ lease[r.id].status = RequiredStatus(r.op)

\* The service reads the lease again and insists on the required status.
\* activate and restore keep its unit for the conflict query.
LoadForLifecycle(w) ==
  LET r == req[w]
  IN /\ pc[w] = "load"
     /\ r.op \in LifecycleOperations
     /\ \/ /\ TransitionAllowed(r)
           /\ \/ /\ r.op \in {"activate", "restore"}
                 /\ req' = [req EXCEPT ![w].unit = lease[r.id].unit]
                 /\ Goto(w, "conflict")
              \/ /\ r.op \in {"terminate", "end"}
                 /\ Goto(w, "write")
                 /\ UNCHANGED req
        \/ ~TransitionAllowed(r) /\ Finish(w)
     /\ UNCHANGED tables

\* Another ACTIVE lease on the unit answers 409.
CheckConflict(w) ==
  /\ pc[w] = "conflict"
  /\ req[w].op \in LeaseOperations
  /\ Check(w, ActiveLeases(req[w].unit) \subseteq {req[w].id}, "write")

-----------------------------------------------------------------------------
(* Writes: one statement each, refused as a whole by the unique index.      *)

\* The row is returned; the audit needs the operation, its id and statuses.
Written(w, l, row) ==
  /\ lease' = [k \in DOMAIN lease \cup {l} |-> IF k = l THEN row ELSE lease[k]]
  /\ req' = [req EXCEPT ![w] =
       [NoRequest EXCEPT !.op = req[w].op, !.id = l,
                         !.before = req[w].before, !.status = row.status]]
  /\ Goto(w, "audit")
  /\ UNCHANGED <<home, archived, audit>>

\* The index decides: the row is written, or P2002 becomes a 409.
WriteLease(w, row) ==
  \/ /\ IndexAccepts(req[w].id, row.unit, row.status)
     /\ Written(w, req[w].id, row)
  \/ /\ ~IndexAccepts(req[w].id, row.unit, row.status)
     /\ Finish(w)
     /\ UNCHANGED tables

\* Mutant: the end date is not stored.
InsertedRowOpenEnded(r) ==
  [status |-> r.status, property |-> r.property, unit |-> r.unit,
   tenant |-> r.tenant, start |-> r.start, end |-> None, terminatedAt |-> FALSE]

\* terminatedAt stays null whatever the status.
InsertedRow(r) ==
  [status |-> r.status, property |-> r.property, unit |-> r.unit,
   tenant |-> r.tenant, start |-> r.start, end |-> r.end, terminatedAt |-> FALSE]

\* Mutant: the status read with the existing lease is written back.
UpdatedRowWithStatus(row, r) ==
  [row EXCEPT !.property = r.property, !.unit = r.unit, !.tenant = r.tenant,
              !.start = r.start, !.end = r.end, !.status = r.status]

\* All five merged values are written; the status is not.  A column without a
\* value would be left alone.
UpdatedRow(row, r) ==
  [row EXCEPT !.property = r.property, !.unit = r.unit, !.tenant = r.tenant,
              !.start = Merge(r.start, row.start), !.end = Merge(r.end, row.end)]

Writing(w, op) == pc[w] = "write" /\ req[w].op = op

CreateLease(w) ==
  /\ Writing(w, "create")
  /\ WriteLease(w, InsertedRow(req[w]))

UpdateLease(w) ==
  /\ Writing(w, "update")
  /\ WriteLease(w, UpdatedRow(lease[req[w].id], req[w]))

ActivatedRow(row) == [row EXCEPT !.status = "ACTIVE"]

ActivateLease(w) ==
  /\ Writing(w, "activate")
  /\ WriteLease(w, ActivatedRow(lease[req[w].id]))

\* Mutant: the date is forgotten.
TerminatedRowUnstamped(row) == [row EXCEPT !.status = "TERMINATED"]

TerminatedRow(row) == [row EXCEPT !.status = "TERMINATED", !.terminatedAt = TRUE]

TerminateLease(w) ==
  /\ Writing(w, "terminate")
  /\ WriteLease(w, TerminatedRow(lease[req[w].id]))

\* Mutant: the date is left in place.
RestoredRowStamped(row) == [row EXCEPT !.status = "ACTIVE"]

RestoredRow(row) == [row EXCEPT !.status = "ACTIVE", !.terminatedAt = FALSE]

RestoreLease(w) ==
  /\ Writing(w, "restore")
  /\ WriteLease(w, RestoredRow(lease[req[w].id]))

EndedRow(row) == [row EXCEPT !.status = "ENDED"]

EndLease(w) ==
  /\ Writing(w, "end")
  /\ WriteLease(w, EndedRow(lease[req[w].id]))

LeaseStep(w) ==
  \/ LookupLease(w) \/ LoadUpdate(w) \/ LoadForLifecycle(w)
  \/ CheckProperty(w) \/ CheckUnit(w) \/ CheckTenant(w) \/ CheckConflict(w)
  \/ CreateLease(w) \/ UpdateLease(w) \/ ActivateLease(w)
  \/ TerminateLease(w) \/ RestoreLease(w) \/ EndLease(w)

ReceiveLeaseRequest(w) ==
  ReceiveCreate(w) \/ ReceiveUpdate(w) \/ ReceiveLifecycle(w)
=============================================================================
