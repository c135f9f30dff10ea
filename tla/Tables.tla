------------------------------- MODULE Tables -------------------------------
(***************************************************************************)
(* The rows of the PostgreSQL schema that leases depend on, the queries    *)
(* the services run against them, and the requests in flight.              *)
(*                                                                         *)
(* The backend is a single Node process serving many requests at once.     *)
(* Every `await prisma.x` is one database statement: it is atomic, and     *)
(* between two awaits of one handler any statement of any other handler    *)
(* may run.  The interactive transactions of the lease service run at      *)
(* PostgreSQL's default READ COMMITTED level and contain one write, their  *)
(* last statement, so each of their reads also sees whatever has been      *)
(* committed by the time it runs.                                          *)
(*                                                                         *)
(* A handler is a worker: pc[w] names the next statement it will run and   *)
(* req[w] holds the local variables that survive from one await to the     *)
(* next.                                                                   *)
(***************************************************************************)
EXTENDS Naturals, FiniteSets

CONSTANTS
  Users,          \* authenticated landlords
  Properties,     \* rows of the table properties
  Units,          \* rows of the table units
  Tenants,        \* rows of the table tenants
  Leases,         \* ids cuid() may give to rows of the table leases (a bound)
  Workers,        \* requests being served at the same time (a bound)
  PropertyOwner,  \* properties.userId; no statement ever assigns it again
  TenantOwner,    \* tenants.userId; no statement ever assigns it again
  FirstHome,      \* the property under which each unit was created
  Dates,          \* start and end dates, as days (a bound)
  Operations,     \* the endpoints the clients of this instance call
  CreateStatuses, \* statuses those clients put in POST /api/leases
  UpdateFields,   \* sets of fields, one of which each PUT /api/leases/:id brings
  AuditedOperations, \* operations whose audit rows are kept (a bound)
  None            \* SQL NULL, and a field a request does not carry

Statuses == {"PENDING", "ACTIVE", "ENDED", "TERMINATED"}

LeaseOperations == {"create", "update", "activate", "terminate", "restore", "end"}
UnitOperations == {"moveUnit", "archiveUnit", "restoreUnit"}
TenantOperations == {"archiveTenant", "restoreTenant"}
PropertyOperations == {"archiveProperty", "restoreProperty"}
AllOperations ==
  LeaseOperations \cup UnitOperations \cup TenantOperations \cup PropertyOperations

Steps == {"idle", "lookup", "load", "property", "unit", "tenant", "conflict",
          "write", "audit"}

Archivable == Properties \cup Units \cup Tenants
Ids == Leases \cup Archivable

LeaseRow ==
  [status: Statuses, property: Properties, unit: Units, tenant: Tenants,
   start: Dates, end: Dates, terminatedAt: BOOLEAN]

\* The local variables of a handler.  For an update the fields hold the body
\* of the request until the existing lease is read, and the merged values after.
Request ==
  [op: AllOperations \cup {None}, user: Users \cup {None}, id: Ids \cup {None},
   property: Properties \cup {None}, unit: Units \cup {None},
   tenant: Tenants \cup {None}, start: Dates \cup {None}, end: Dates \cup {None},
   status: Statuses \cup {None}, before: Statuses \cup {None}]

AuditRow ==
  [op: AllOperations, id: Ids \cup {None},
   before: Statuses \cup {None}, after: Statuses \cup {None}]

ASSUME OwnersAssumption ==
  /\ PropertyOwner \in [Properties -> Users]
  /\ TenantOwner \in [Tenants -> Users]
  /\ FirstHome \in [Units -> Properties]

ASSUME InputsAssumption ==
  /\ Dates \subseteq Nat
  /\ Operations \subseteq AllOperations
  /\ CreateStatuses \subseteq Statuses
  /\ UpdateFields \subseteq SUBSET {"property", "unit", "tenant", "start", "end"}
  /\ AuditedOperations \subseteq AllOperations

\* An id names a row of one table only, and NULL is none of the values.
ASSUME IdsAssumption ==
  /\ Properties \cap Units = {}
  /\ Properties \cap Tenants = {}
  /\ Units \cap Tenants = {}
  /\ Leases \cap Archivable = {}
  /\ \A values \in {Users, Ids, Dates, Statuses, AllOperations} : None \notin values

VARIABLES
  lease,     \* the table leases: a function on the ids inserted so far
  home,      \* units.propertyId
  archived,  \* the rows of properties, units, tenants whose deletedAt is set
  audit,     \* the row inserted last in audit_logs, which no service reads
  pc,        \* the statement each worker runs next
  req        \* the local variables of each worker

tables == <<lease, home, archived, audit>>
vars == <<lease, home, archived, audit, pc, req>>

\* What a request brings along; `before` is filled in by the handler.
Body(op, user, id, property, unit, tenant, start, end, status) ==
  [op |-> op, user |-> user, id |-> id, property |-> property, unit |-> unit,
   tenant |-> tenant, start |-> start, end |-> end, status |-> status, before |-> None]

NoRequest == Body(None, None, None, None, None, None, None, None, None)

-----------------------------------------------------------------------------
(* Queries: the `where` clauses the services share.                         *)

\* lease of a property of user u, archived or not
OwnsLease(u, l) == l \in DOMAIN lease /\ PropertyOwner[lease[l].property] = u

\* property of user u with deletedAt null
OpenProperty(u, p) == PropertyOwner[p] = u /\ p \notin archived

\* unit under property p with deletedAt null, p itself an open property of u
OpenUnitOf(u, p, n) ==
  home[n] = p /\ n \notin archived /\ OpenProperty(u, p)

\* tenant of user u with deletedAt null
OpenTenant(u, t) == TenantOwner[t] = u /\ t \notin archived

\* the leases with status ACTIVE on unit n
ActiveLeases(n) == {l \in DOMAIN lease : lease[l].unit = n /\ lease[l].status = "ACTIVE"}

\* Mutant: the index is missing.
IndexAcceptsAll(l, n, status) == TRUE

\* Mutant: the index guards inserts only.
IndexAcceptsUpdates(l, n, status) ==
  status = "ACTIVE" /\ l \notin DOMAIN lease => ActiveLeases(n) = {}

\* The partial unique index leases_one_active_per_unit_idx accepts row l with
\* this unit and status; when it does not, the statement fails with P2002.
IndexAccepts(l, n, status) == status = "ACTIVE" => ActiveLeases(n) \subseteq {l}

-----------------------------------------------------------------------------
(* Control of a handler.                                                    *)

Goto(w, step) == pc' = [pc EXCEPT ![w] = step]

\* The response is sent, successful or not, and the local variables are gone.
Finish(w) ==
  /\ pc' = [pc EXCEPT ![w] = "idle"]
  /\ req' = [req EXCEPT ![w] = NoRequest]

\* A request whose body passed the validators is dispatched to its handler.
\* The worker that takes it is idle, as ReceiveRequest says.
Receive(w, request, step) ==
  /\ request.op \in Operations
  /\ req' = [req EXCEPT ![w] = request]
  /\ Goto(w, step)
  /\ UNCHANGED tables

\* One read that decides between going on to the next statement and an error.
Check(w, found, step) ==
  /\ \/ found /\ Goto(w, step) /\ UNCHANGED req
     \/ ~found /\ Finish(w)
  /\ UNCHANGED tables

Init ==
  /\ lease = [l \in {} |-> None]
  /\ home = FirstHome
  /\ archived = {}
  /\ audit = None
  /\ pc = [w \in Workers |-> "idle"]
  /\ req = [w \in Workers |-> NoRequest]
=============================================================================
