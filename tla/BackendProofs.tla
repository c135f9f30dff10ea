---------------------------- MODULE BackendProofs ----------------------------
(***************************************************************************)
(* Proofs about Backend, for any number of landlords, properties, units,   *)
(* tenants, leases and concurrent requests.                                *)
(*                                                                         *)
(* The inductive invariant adds to the types of the tables what each       *)
(* handler has established by the time it reaches a statement, and in      *)
(* particular what stays true of it while other handlers run.              *)
(***************************************************************************)
EXTENDS Backend, TLAPS

-----------------------------------------------------------------------------
(* The inductive invariant.                                                 *)

\* create and update, once all fields of the row are known.
Prepared == {"property", "unit", "tenant", "conflict", "write"}

Creating(w) == req[w].op = "create" /\ pc[w] \in Prepared

FieldsKnown(r) ==
  /\ r.property \in Properties
  /\ r.unit \in Units
  /\ r.tenant \in Tenants
  /\ r.start \in Dates
  /\ r.end \in Dates
  /\ r.status \in Statuses
  /\ r.start < r.end

\* What a handler of the lease service relies on at each statement.
LeaseHandlerOK(w) ==
  LET r == req[w]
  IN /\ pc[w] \in {"unit", "tenant"} => r.op \in {"create", "update"}
     /\ r.op \in LeaseOperations /\ pc[w] # "idle" => r.id \in Leases
     /\ r.op \in {"create", "update"} /\ pc[w] \in Prepared => FieldsKnown(r)
     /\ Creating(w) => r.status \in CreateStatuses /\ r.id \notin DOMAIN lease
     /\ r.op = "update" /\ pc[w] \in Prepared => r.id \in DOMAIN lease
     /\ r.op \in LifecycleOperations /\ pc[w] \in {"conflict", "write"}
          => r.id \in DOMAIN lease

\* The rows a create or update has accepted so far belong to its user, and go
\* on doing so: owners never change and a unit moves within its landlord.
OwnershipChecked(w) ==
  LET r == req[w]
  IN r.op \in {"create", "update"} =>
       /\ pc[w] \in {"unit", "tenant", "conflict", "write"}
            => PropertyOwner[r.property] = r.user
       /\ pc[w] \in {"tenant", "conflict", "write"}
            => PropertyOwner[home[r.unit]] = r.user
       /\ pc[w] \in {"conflict", "write"} => TenantOwner[r.tenant] = r.user

\* What a handler of the portfolio services relies on.
PortfolioHandlerOK(w) ==
  LET r == req[w]
  IN /\ r.op = "moveUnit" /\ pc[w] # "idle" => r.id \in Units /\ r.property \in Properties
     /\ r.op = "moveUnit" /\ pc[w] \in {"property", "write"}
          => PropertyOwner[home[r.id]] = r.user
     /\ r.op = "moveUnit" /\ pc[w] = "write" => PropertyOwner[r.property] = r.user
     /\ r.op \in {"archiveUnit", "archiveTenant", "archiveProperty"} /\ pc[w] # "idle"
          => r.id \in Archivable

HandlerOK(w) ==
  /\ pc[w] # "idle" => req[w].op \in AllOperations
  /\ LeaseHandlerOK(w)
  /\ OwnershipChecked(w)
  /\ PortfolioHandlerOK(w)

\* Two creates in flight insert different rows.
FreshIds ==
  \A w, v \in Workers : Creating(w) /\ Creating(v) /\ req[w].id = req[v].id => w = v

Inv ==
  /\ TypeOK
  /\ \A w \in Workers : HandlerOK(w)
  /\ FreshIds
  /\ OneLandlordPerLease
  /\ DatesOrdered

-----------------------------------------------------------------------------
(* Frames: what a step of one handler leaves alone.                         *)

\* Everything but the request of worker w.
OthersSame(w) ==
  \A v \in Workers \ {w} : pc'[v] = pc[v] /\ req'[v] = req[v]

\* Units still belong to the landlords they belonged to.
LandlordsSame ==
  \A n \in Units : PropertyOwner[home'[n]] = PropertyOwner[home[n]]

\* A step of w disturbs what no other handler relies on.
LEMMA OthersKept ==
  ASSUME Inv, TypeOK', NEW w \in Workers, OthersSame(w), LandlordsSame,
         DOMAIN lease \subseteq DOMAIN lease',
         DOMAIN lease' \subseteq DOMAIN lease \cup {req[w].id},
         DOMAIN lease' # DOMAIN lease => Creating(w)
  PROVE  \A v \in Workers \ {w} : HandlerOK(v)'
<1> SUFFICES ASSUME NEW v \in Workers \ {w} PROVE HandlerOK(v)'
  OBVIOUS
<1>1. pc'[v] = pc[v] /\ req'[v] = req[v]
  BY DEF OthersSame
<1>2. HandlerOK(v)
  BY DEF Inv
<1>3. (pc[v] # "idle" => req[v].op \in AllOperations)'
  BY <1>1, <1>2 DEF HandlerOK
<1>4. Creating(v) => req[v].id \notin DOMAIN lease'
  <2> SUFFICES ASSUME Creating(v), req[v].id \in DOMAIN lease' PROVE FALSE
    OBVIOUS
  <2>1. req[v].id \notin DOMAIN lease
    BY <1>2 DEF HandlerOK, LeaseHandlerOK
  <2>2. req[v].id = req[w].id /\ Creating(w)
    BY <2>1
  <2> QED
    BY <2>2 DEF Inv, FreshIds
<1>5. LeaseHandlerOK(v)'
  BY <1>1, <1>2, <1>4 DEF HandlerOK, LeaseHandlerOK, Creating, FieldsKnown
<1>6. OwnershipChecked(v)'
  <2>1. req[v].op \in {"create", "update"} /\ pc[v] \in Prepared => req[v].unit \in Units
    BY <1>2 DEF HandlerOK, LeaseHandlerOK, FieldsKnown
  <2> QED
    BY <1>1, <1>2, <2>1 DEF HandlerOK, OwnershipChecked, LandlordsSame, Prepared
<1>7. PortfolioHandlerOK(v)'
  BY <1>1, <1>2 DEF HandlerOK, PortfolioHandlerOK, LandlordsSame
<1> QED
  BY <1>3, <1>5, <1>6, <1>7 DEF HandlerOK

\* A step that changes only the local state of w.
LEMMA LocalStep ==
  ASSUME Inv, NEW w \in Workers, NEW step \in Steps, NEW r \in Request,
         pc' = [pc EXCEPT ![w] = step], req' = [req EXCEPT ![w] = r],
         UNCHANGED tables,
         HandlerOK(w)',
         Creating(w)' => \/ Creating(w) /\ r.id = req[w].id
                         \/ \A v \in Workers : r.id # req[v].id
  PROVE  Inv'
<1>1. TypeOK'
  BY DEF Inv, TypeOK, tables
<1>2. pc \in [Workers -> Steps] /\ req \in [Workers -> Request]
  BY DEF Inv, TypeOK
<1>3. OthersSame(w)
  BY <1>2 DEF OthersSame
<1>4. \A v \in Workers \ {w} : HandlerOK(v)'
  BY <1>1, <1>3, OthersKept DEF LandlordsSame, tables
<1>5. FreshIds'
  <2> SUFFICES ASSUME NEW v \in Workers, NEW z \in Workers, v # z,
                      Creating(v)', Creating(z)', req'[v].id = req'[z].id
               PROVE  FALSE
    BY DEF FreshIds
  <2>1. CASE v # w /\ z # w
    BY <1>3, <2>1 DEF OthersSame, Creating, Inv, FreshIds
  <2>2. CASE v = w
    BY <1>2, <1>3, <2>2 DEF OthersSame, Creating, Inv, FreshIds
  <2>3. CASE z = w
    BY <1>2, <1>3, <2>3 DEF OthersSame, Creating, Inv, FreshIds
  <2> QED
    BY <2>1, <2>2, <2>3
<1>6. OneLandlordPerLease' /\ DatesOrdered'
  BY DEF Inv, OneLandlordPerLease, DatesOrdered, tables
<1> QED
  BY <1>1, <1>4, <1>5, <1>6 DEF Inv

LEMMA NoRequestType == NoRequest \in Request
  BY DEF NoRequest, Body, Request

\* Answering a request keeps the invariant.
LEMMA FinishStep ==
  ASSUME Inv, NEW w \in Workers, Finish(w), UNCHANGED tables
  PROVE  Inv'
<1>1. pc' = [pc EXCEPT ![w] = "idle"] /\ req' = [req EXCEPT ![w] = NoRequest]
  BY DEF Finish
<1>2. pc'[w] = "idle"
  BY <1>1 DEF Inv, TypeOK
<1>3. HandlerOK(w)'
  BY <1>2 DEF HandlerOK, LeaseHandlerOK, OwnershipChecked, PortfolioHandlerOK,
              Creating, Prepared
<1>4. ~Creating(w)'
  BY <1>2 DEF Creating, Prepared
<1> QED
  BY <1>1, <1>3, <1>4, LocalStep, NoRequestType DEF Steps

\* So does a read that either goes on to the next statement or answers.
LEMMA CheckStep ==
  ASSUME Inv, NEW w \in Workers, NEW step \in Steps, NEW found, Check(w, found, step),
         found /\ pc' = [pc EXCEPT ![w] = step] /\ req' = req => HandlerOK(w)',
         step \in Prepared => pc[w] \in Prepared
  PROVE  Inv'
<1>1. CASE Finish(w)
  BY <1>1, FinishStep DEF Check
<1>2. CASE found /\ Goto(w, step) /\ UNCHANGED req
  <2>1. req \in [Workers -> Request] /\ pc \in [Workers -> Steps]
    BY DEF Inv, TypeOK
  <2>2. req' = [req EXCEPT ![w] = req[w]] /\ req[w] \in Request
    BY <1>2, <2>1
  <2>3. Creating(w)' => Creating(w)
    BY <1>2, <2>1 DEF Creating, Goto
  <2>4. UNCHANGED tables
    BY DEF Check
  <2>5. pc' = [pc EXCEPT ![w] = step] /\ HandlerOK(w)'
    BY <1>2 DEF Goto
  <2> QED
    BY <2>2, <2>3, <2>4, <2>5, LocalStep
<1> QED
  BY <1>1, <1>2 DEF Check

-----------------------------------------------------------------------------
(* Requests arrive.                                                         *)

LEMMA ReceiveCreateStep ==
  ASSUME Inv, NEW w \in Workers, ReceiveCreate(w)
  PROVE  Inv'
<1>1. PICK u \in Users, l \in FreeIds, p \in Properties, n \in Units, t \in Tenants,
           s \in Dates, e \in Dates, status \in CreateStatuses :
        s < e /\ Receive(w, Body("create", u, l, p, n, t, s, e, status), "property")
  BY DEF ReceiveCreate
<1> DEFINE r == Body("create", u, l, p, n, t, s, e, status)
<1>2. /\ r \in Request
      /\ r.op = "create" /\ r.user = u /\ r.id = l /\ r.property = p /\ r.unit = n
      /\ r.tenant = t /\ r.start = s /\ r.end = e /\ r.status = status
  BY InputsAssumption DEF Body, Request, FreeIds, AllOperations, LeaseOperations, Ids
<1>3. pc' = [pc EXCEPT ![w] = "property"] /\ req' = [req EXCEPT ![w] = r] /\ UNCHANGED tables
  BY <1>1 DEF Receive, Goto
<1>4. pc'[w] = "property" /\ req'[w] = r
  BY <1>3 DEF Inv, TypeOK
<1>5. l \in Leases /\ l \notin DOMAIN lease /\ \A v \in Workers : req[v].id # l
  BY DEF FreeIds
<1> HIDE DEF r
<1>6. HandlerOK(w)'
  BY <1>1, <1>2, <1>3, <1>4, <1>5, InputsAssumption
     DEF HandlerOK, LeaseHandlerOK, OwnershipChecked, PortfolioHandlerOK, Creating,
         Prepared, FieldsKnown, AllOperations, LeaseOperations, LifecycleOperations, tables
<1> QED
  BY <1>2, <1>3, <1>5, <1>6, LocalStep DEF Steps

LEMMA ReceiveUpdateStep ==
  ASSUME Inv, NEW w \in Workers, ReceiveUpdate(w)
  PROVE  Inv'
<1>0. \A field, fields, values : Sent(field, fields, values) \subseteq values \cup {None}
  BY DEF Sent
<1>1. PICK u \in Users, l \in Leases, p \in Properties \cup {None},
           n \in Units \cup {None}, t \in Tenants \cup {None},
           s \in Dates \cup {None}, e \in Dates \cup {None} :
        Receive(w, Body("update", u, l, p, n, t, s, e, None), "lookup")
  <2>1. PICK u \in Users, l \in Leases, fields \in UpdateFields :
          \E p \in Sent("property", fields, Properties),
             n \in Sent("unit", fields, Units), t \in Sent("tenant", fields, Tenants),
             s \in Sent("start", fields, Dates), e \in Sent("end", fields, Dates) :
            Receive(w, Body("update", u, l, p, n, t, s, e, None), "lookup")
    BY DEF ReceiveUpdate
  <2> HIDE DEF Inv
  <2> QED
    BY <1>0, <2>1, Zenon
<1> DEFINE r == Body("update", u, l, p, n, t, s, e, None)
<1>2. r \in Request /\ r.op = "update" /\ r.id \in Leases
  BY DEF Body, Request, AllOperations, LeaseOperations, Ids
<1>3. pc' = [pc EXCEPT ![w] = "lookup"] /\ req' = [req EXCEPT ![w] = r] /\ UNCHANGED tables
  BY <1>1 DEF Receive, Goto
<1>4. pc'[w] = "lookup" /\ req'[w] = r
  BY <1>3 DEF Inv, TypeOK
<1> HIDE DEF r
<1>5. HandlerOK(w)' /\ ~Creating(w)'
  BY <1>2, <1>4
     DEF HandlerOK, LeaseHandlerOK, OwnershipChecked, PortfolioHandlerOK, Creating,
         Prepared, AllOperations, LeaseOperations
<1> QED
  BY <1>2, <1>3, <1>5, LocalStep DEF Steps

LEMMA ReceiveLifecycleStep ==
  ASSUME Inv, NEW w \in Workers, ReceiveLifecycle(w)
  PROVE  Inv'
<1>1. PICK u \in Users, l \in Leases, op \in LifecycleOperations :
        Receive(w, Body(op, u, l, None, None, None, None, None, None), "lookup")
  BY DEF ReceiveLifecycle
<1> DEFINE r == Body(op, u, l, None, None, None, None, None, None)
<1>2. r \in Request /\ r.op \in LifecycleOperations /\ r.id \in Leases
  BY DEF Body, Request, AllOperations, LeaseOperations, LifecycleOperations, Ids
<1>3. pc' = [pc EXCEPT ![w] = "lookup"] /\ req' = [req EXCEPT ![w] = r] /\ UNCHANGED tables
  BY <1>1 DEF Receive, Goto
<1>4. pc'[w] = "lookup" /\ req'[w] = r
  BY <1>3 DEF Inv, TypeOK
<1> HIDE DEF r
<1>5. HandlerOK(w)' /\ ~Creating(w)'
  BY <1>2, <1>4
     DEF HandlerOK, LeaseHandlerOK, OwnershipChecked, PortfolioHandlerOK, Creating,
         Prepared, AllOperations, LeaseOperations, LifecycleOperations
<1> QED
  BY <1>2, <1>3, <1>5, LocalStep DEF Steps

LEMMA ReceivePortfolioStep ==
  ASSUME Inv, NEW w \in Workers, ReceivePortfolioRequest(w)
  PROVE  Inv'
<1>1. PICK op \in AllOperations, u \in Users, i \in Archivable, p \in Properties \cup {None} :
        /\ Receive(w, Body(op, u, i, p, None, None, None, None, None), "load")
        /\ op \in UnitOperations \cup TenantOperations \cup PropertyOperations
        /\ op = "moveUnit" => i \in Units /\ p \in Properties
  BY DEF ReceivePortfolioRequest, ReceiveMove, ReceiveArchival, ArchivalOperations,
         AllOperations, UnitOperations, TenantOperations, PropertyOperations, Archivable
<1> DEFINE r == Body(op, u, i, p, None, None, None, None, None)
<1>2. r \in Request /\ r.op = op /\ r.id = i /\ r.property = p
  BY DEF Body, Request, Ids
<1>3. pc' = [pc EXCEPT ![w] = "load"] /\ req' = [req EXCEPT ![w] = r] /\ UNCHANGED tables
  BY <1>1 DEF Receive, Goto
<1>4. pc'[w] = "load" /\ req'[w] = r
  BY <1>3 DEF Inv, TypeOK
<1> HIDE DEF r
<1>5. HandlerOK(w)' /\ ~Creating(w)'
  BY <1>1, <1>2, <1>4
     DEF HandlerOK, LeaseHandlerOK, OwnershipChecked, PortfolioHandlerOK, Creating,
         Prepared, AllOperations, LeaseOperations, LifecycleOperations, UnitOperations,
         TenantOperations, PropertyOperations
<1> QED
  BY <1>2, <1>3, <1>5, LocalStep DEF Steps

-----------------------------------------------------------------------------
(* Reads of the lease service.                                              *)

LEMMA LookupLeaseStep ==
  ASSUME Inv, NEW w \in Workers, LookupLease(w)
  PROVE  Inv'
<1>1. CASE Finish(w)
  BY <1>1, FinishStep DEF LookupLease
<1>2. CASE OwnsLease(req[w].user, req[w].id) /\ Goto(w, "load")
           /\ req' = [req EXCEPT ![w].before = StatusBefore(req[w])]
  <2> DEFINE r == [req[w] EXCEPT !.before = StatusBefore(req[w])]
  <2>1. req[w] \in Request /\ pc \in [Workers -> Steps] /\ req \in [Workers -> Request]
    BY DEF Inv, TypeOK
  <2>2. lease[req[w].id] \in LeaseRow
    BY <1>2 DEF OwnsLease, Inv, TypeOK
  <2>b. StatusBefore(req[w]) \in Statuses \cup {None}
    BY <2>2 DEF StatusBefore, LeaseRow
  <2>3. r \in Request /\ r.op = req[w].op /\ r.id = req[w].id
    BY <2>1, <2>b DEF Request
  <2>4. req' = [req EXCEPT ![w] = r] /\ pc' = [pc EXCEPT ![w] = "load"]
    BY <1>2 DEF Goto
  <2>5. pc'[w] = "load" /\ req'[w] = r /\ UNCHANGED tables
    BY <2>1, <2>4 DEF LookupLease
  <2>6. req[w].op \in LifecycleOperations \cup {"update"} /\ pc[w] = "lookup"
    BY DEF LookupLease
  <2> HIDE DEF r
  <2>7. HandlerOK(w)' /\ ~Creating(w)'
    BY <2>3, <2>5, <2>6 DEF Inv, HandlerOK, LeaseHandlerOK, OwnershipChecked,
       PortfolioHandlerOK, Creating, Prepared, LifecycleOperations
  <2> QED
    BY <2>3, <2>4, <2>5, <2>7, LocalStep DEF Steps
<1> QED
  BY <1>1, <1>2 DEF LookupLease

LEMMA LoadUpdateStep ==
  ASSUME Inv, NEW w \in Workers, LoadUpdate(w)
  PROVE  Inv'
<1> DEFINE row == lease[req[w].id]
           r == [req[w] EXCEPT !.property = Merge(req[w].property, row.property),
                               !.unit = Merge(req[w].unit, row.unit),
                               !.tenant = Merge(req[w].tenant, row.tenant),
                               !.start = Merge(req[w].start, row.start),
                               !.end = Merge(req[w].end, row.end),
                               !.status = row.status]
<1>1. CASE Finish(w)
  BY <1>1, FinishStep DEF LoadUpdate
<1>2. CASE /\ OwnsLease(req[w].user, req[w].id)
           /\ TermAccepted(req[w], row)
           /\ req' = [req EXCEPT ![w] = r]
           /\ Goto(w, "property")
  <2>1. req[w] \in Request /\ pc \in [Workers -> Steps] /\ req \in [Workers -> Request]
    BY DEF Inv, TypeOK
  <2>2. row \in LeaseRow
    BY <1>2 DEF OwnsLease, Inv, TypeOK
  <2>m. /\ Merge(req[w].property, row.property) \in Properties
        /\ Merge(req[w].unit, row.unit) \in Units
        /\ Merge(req[w].tenant, row.tenant) \in Tenants
        /\ Merge(req[w].start, row.start) \in Dates
        /\ Merge(req[w].end, row.end) \in Dates
        /\ row.status \in Statuses
    BY <2>1, <2>2 DEF Request, LeaseRow, Merge
  <2>3. /\ r.op = req[w].op /\ r.user = req[w].user /\ r.id = req[w].id
        /\ r.property = Merge(req[w].property, row.property)
        /\ r.unit = Merge(req[w].unit, row.unit)
        /\ r.tenant = Merge(req[w].tenant, row.tenant)
        /\ r.start = Merge(req[w].start, row.start)
        /\ r.end = Merge(req[w].end, row.end)
        /\ r.status = row.status
        /\ r \in Request
    <3> HIDE DEF row
    <3> QED
      BY <2>1, <2>m DEF Request
  <2>4. pc' = [pc EXCEPT ![w] = "property"]
    BY <1>2 DEF Goto
  <2>5. pc'[w] = "property" /\ req'[w] = r /\ UNCHANGED tables
    BY <1>2, <2>1, <2>4 DEF LoadUpdate
  <2>6. req[w].op = "update" /\ pc[w] = "load" /\ r.id \in DOMAIN lease
    BY <1>2, <2>3 DEF LoadUpdate, OwnsLease
  <2>7. FieldsKnown(r)
    BY <1>2, <2>m, <2>3 DEF FieldsKnown, TermAccepted
  <2>8. r.id \in Leases
    BY <2>3, <2>6 DEF Inv, HandlerOK, LeaseHandlerOK, LeaseOperations
  <2> HIDE DEF r
  <2>9. HandlerOK(w)' /\ ~Creating(w)'
    BY <2>3, <2>5, <2>6, <2>7, <2>8 DEF HandlerOK, LeaseHandlerOK, OwnershipChecked,
       PortfolioHandlerOK, Creating, Prepared, LeaseOperations, LifecycleOperations,
       AllOperations, tables
  <2> QED
    BY <1>2, <2>3, <2>4, <2>5, <2>9, LocalStep DEF Steps
<1> QED
  BY <1>1, <1>2 DEF LoadUpdate, Completed

LEMMA LoadForLifecycleStep ==
  ASSUME Inv, NEW w \in Workers, LoadForLifecycle(w)
  PROVE  Inv'
<1> DEFINE r == IF req[w].op \in {"activate", "restore"}
                  THEN [req[w] EXCEPT !.unit = lease[req[w].id].unit] ELSE req[w]
           next == IF req[w].op \in {"activate", "restore"} THEN "conflict" ELSE "write"
<1>1. CASE Finish(w)
  BY <1>1, FinishStep DEF LoadForLifecycle
<1>2. CASE TransitionAllowed(req[w]) /\ Goto(w, next) /\ req' = [req EXCEPT ![w] = r]
  <2>1. req[w] \in Request /\ pc \in [Workers -> Steps] /\ req \in [Workers -> Request]
    BY DEF Inv, TypeOK
  <2>2. lease[req[w].id] \in LeaseRow /\ req[w].id \in DOMAIN lease
    BY <1>2 DEF TransitionAllowed, OwnsLease, Inv, TypeOK
  <2>3. r \in Request /\ r.op = req[w].op /\ r.id = req[w].id
    BY <2>1, <2>2, ZenonT(60) DEF Request, LeaseRow
  <2>4. req' = [req EXCEPT ![w] = r] /\ pc' = [pc EXCEPT ![w] = next]
        /\ next \in {"conflict", "write"}
    BY <1>2 DEF Goto
  <2>5. pc'[w] = next /\ req'[w] = r /\ UNCHANGED tables
    BY <2>1, <2>4 DEF LoadForLifecycle
  <2>6. req[w].op \in LifecycleOperations /\ pc[w] = "load"
    BY DEF LoadForLifecycle
  <2>7. req[w].id \in Leases
    BY <2>6 DEF Inv, HandlerOK, LeaseHandlerOK, LeaseOperations, LifecycleOperations
  <2> HIDE DEF r, next
  <2>8. HandlerOK(w)' /\ ~Creating(w)'
    BY <2>2, <2>3, <2>4, <2>5, <2>6, <2>7 DEF HandlerOK, LeaseHandlerOK,
       OwnershipChecked, PortfolioHandlerOK, Creating, Prepared, LeaseOperations,
       LifecycleOperations, AllOperations, tables
  <2> QED
    BY <2>3, <2>4, <2>5, <2>8, LocalStep DEF Steps
<1>3. Finish(w) \/ (TransitionAllowed(req[w]) /\ Goto(w, next) /\ req' = [req EXCEPT ![w] = r])
  <2>1. req \in [Workers -> Request]
    BY DEF Inv, TypeOK
  <2>2. UNCHANGED req => req' = [req EXCEPT ![w] = req[w]]
    BY <2>1
  <2> QED
    BY <2>2 DEF LoadForLifecycle
<1> QED
  BY <1>1, <1>2, <1>3

LEMMA LeaseCheckStep ==
  ASSUME Inv, NEW w \in Workers,
         CheckProperty(w) \/ CheckUnit(w) \/ CheckTenant(w) \/ CheckConflict(w)
  PROVE  Inv'
<1>1. HandlerOK(w) /\ pc \in [Workers -> Steps] /\ req \in [Workers -> Request]
  BY DEF Inv, TypeOK
<1>2. CASE CheckProperty(w)
  <2> DEFINE found == OpenProperty(req[w].user, req[w].property)
  <2>1. pc[w] = "property" /\ req[w].op \in {"create", "update"} /\ Check(w, found, "unit")
    BY <1>2 DEF CheckProperty
  <2>2. ASSUME found, pc' = [pc EXCEPT ![w] = "unit"], req' = req PROVE HandlerOK(w)'
    BY <1>1, <2>1, <2>2 DEF Check, HandlerOK, LeaseHandlerOK, OwnershipChecked,
       PortfolioHandlerOK, Creating, Prepared, LeaseOperations, LifecycleOperations,
       OpenProperty, tables, Finish
  <2> QED
    BY <2>1, <2>2, CheckStep DEF Steps, Prepared
<1>3. CASE CheckUnit(w)
  <2> DEFINE found == OpenUnitOf(req[w].user, req[w].property, req[w].unit)
  <2>1. pc[w] = "unit" /\ Check(w, found, "tenant")
    BY <1>3 DEF CheckUnit
  <2>2. ASSUME found, pc' = [pc EXCEPT ![w] = "tenant"], req' = req PROVE HandlerOK(w)'
    BY <1>1, <2>1, <2>2 DEF Check, HandlerOK, LeaseHandlerOK, OwnershipChecked,
       PortfolioHandlerOK, Creating, Prepared, LeaseOperations, LifecycleOperations,
       OpenUnitOf, OpenProperty, tables, Finish
  <2> QED
    BY <2>1, <2>2, CheckStep DEF Steps, Prepared
<1>4. CASE CheckTenant(w)
  <2> DEFINE found == OpenTenant(req[w].user, req[w].tenant)
             next == IF req[w].status = "ACTIVE" THEN "conflict" ELSE "write"
  <2>1. pc[w] = "tenant" /\ Check(w, found, next) /\ next \in {"conflict", "write"}
    BY <1>4 DEF CheckTenant
  <2> HIDE DEF next
  <2>2. ASSUME found, pc' = [pc EXCEPT ![w] = next], req' = req PROVE HandlerOK(w)'
    BY <1>1, <2>1, <2>2 DEF Check, HandlerOK, LeaseHandlerOK, OwnershipChecked,
       PortfolioHandlerOK, Creating, Prepared, LeaseOperations, LifecycleOperations,
       OpenTenant, tables, Finish
  <2> QED
    BY <2>1, <2>2, CheckStep DEF Steps, Prepared
<1>5. CASE CheckConflict(w)
  <2> DEFINE found == ActiveLeases(req[w].unit) \subseteq {req[w].id}
  <2>1. pc[w] = "conflict" /\ req[w].op \in LeaseOperations /\ Check(w, found, "write")
    BY <1>5 DEF CheckConflict
  <2>2. ASSUME found, pc' = [pc EXCEPT ![w] = "write"], req' = req PROVE HandlerOK(w)'
    BY <1>1, <2>1, <2>2 DEF Check, HandlerOK, LeaseHandlerOK, OwnershipChecked,
       PortfolioHandlerOK, Creating, Prepared, LeaseOperations, LifecycleOperations,
       tables, Finish
  <2> QED
    BY <2>1, <2>2, CheckStep DEF Steps, Prepared
<1> QED
  BY <1>2, <1>3, <1>4, <1>5

-----------------------------------------------------------------------------
(* Writes of the lease service.                                             *)

\* A row that may be stored: complete, in order, of one landlord.
GoodRow(row) ==
  /\ row \in LeaseRow
  /\ row.start < row.end
  /\ PropertyOwner[home[row.unit]] = PropertyOwner[row.property]
  /\ TenantOwner[row.tenant] = PropertyOwner[row.property]

LEMMA StoredRowsGood ==
  ASSUME Inv, NEW l \in DOMAIN lease
  PROVE  GoodRow(lease[l])
  BY DEF Inv, TypeOK, GoodRow, OneLandlordPerLease, DatesOrdered

\* Storing a good row keeps the invariant.
LEMMA WriteLeaseStep ==
  ASSUME Inv, NEW w \in Workers, NEW row, GoodRow(row), WriteLease(w, row),
         pc[w] = "write", req[w].op \in LeaseOperations,
         req[w].id \notin DOMAIN lease => req[w].op = "create"
  PROVE  Inv'
<1>1. CASE Finish(w) /\ UNCHANGED tables
  BY <1>1, FinishStep
<1>2. CASE Written(w, req[w].id, row)
  <2> DEFINE l == req[w].id
             r == [NoRequest EXCEPT !.op = req[w].op, !.id = l,
                                    !.before = req[w].before, !.status = row.status]
  <2>1. /\ req[w] \in Request /\ pc \in [Workers -> Steps] /\ req \in [Workers -> Request]
        /\ l \in Leases
        /\ HandlerOK(w)
    BY DEF Inv, TypeOK, HandlerOK, LeaseHandlerOK
  <2>2. PICK ids \in SUBSET Leases : lease \in [ids -> LeaseRow]
    BY DEF Inv, TypeOK
  <2>3. lease' = [k \in DOMAIN lease \cup {l} |-> IF k = l THEN row ELSE lease[k]]
    BY <1>2 DEF Written
  <2>4. DOMAIN lease' = DOMAIN lease \cup {l} /\ lease' \in [ids \cup {l} -> LeaseRow]
    BY <2>1, <2>2, <2>3 DEF GoodRow
  <2>5. r \in Request /\ r.op = req[w].op /\ r.id = l
    BY <2>1 DEF Request, GoodRow, LeaseRow, NoRequest, Body
  <2>6. req' = [req EXCEPT ![w] = r] /\ pc' = [pc EXCEPT ![w] = "audit"]
        /\ UNCHANGED <<home, archived, audit>>
    BY <1>2 DEF Written, Goto
  <2>7. pc'[w] = "audit" /\ req'[w] = r /\ OthersSame(w)
    BY <2>1, <2>6 DEF OthersSame
  <2> HIDE DEF r
  <2>8. TypeOK'
    BY <2>1, <2>4, <2>5, <2>6 DEF Inv, TypeOK, Steps
  <2>9. DOMAIN lease' # DOMAIN lease => Creating(w)
    BY <2>4 DEF Creating, Prepared
  <2>10. \A v \in Workers \ {w} : HandlerOK(v)'
    BY <2>4, <2>6, <2>7, <2>8, <2>9, OthersKept DEF LandlordsSame
  <2>11. HandlerOK(w)' /\ ~Creating(w)'
    BY <2>1, <2>5, <2>7 DEF HandlerOK, LeaseHandlerOK, OwnershipChecked,
       PortfolioHandlerOK, Creating, Prepared, LeaseOperations, LifecycleOperations,
       AllOperations
  <2>12. FreshIds'
    BY <2>7, <2>11 DEF Inv, FreshIds, OthersSame, Creating
  <2>13. \A k \in DOMAIN lease' : lease'[k] = row \/ (k \in DOMAIN lease /\ lease'[k] = lease[k])
    BY <2>3, <2>4
  <2>14. DatesOrdered'
    BY <2>13 DEF Inv, DatesOrdered, GoodRow
  <2>15. OneLandlordPerLease'
    BY <2>6, <2>13 DEF Inv, OneLandlordPerLease, GoodRow
  <2> QED
    BY <2>8, <2>10, <2>11, <2>12, <2>14, <2>15 DEF Inv
<1> QED
  BY <1>1, <1>2 DEF WriteLease

\* Every write of the lease service is a WriteLease of a good row, and an
\* insert when the row is new.
GoodWrite(w, row) ==
  /\ GoodRow(row)
  /\ WriteLease(w, row)
  /\ pc[w] = "write"
  /\ req[w].op \in LeaseOperations
  /\ req[w].id \notin DOMAIN lease => req[w].op = "create"

LEMMA CreateLeaseWrite ==
  ASSUME Inv, NEW w \in Workers, CreateLease(w)
  PROVE  GoodWrite(w, InsertedRow(req[w]))
<1>1. pc[w] = "write" /\ req[w].op = "create" /\ WriteLease(w, InsertedRow(req[w]))
  BY DEF CreateLease, Writing
<1>2. HandlerOK(w)
  BY DEF Inv
<1>3. FieldsKnown(req[w])
  BY <1>1, <1>2 DEF HandlerOK, LeaseHandlerOK, Prepared
<1>4. GoodRow(InsertedRow(req[w]))
  BY <1>1, <1>2, <1>3 DEF GoodRow, InsertedRow, HandlerOK, OwnershipChecked, FieldsKnown,
     LeaseRow
<1> QED
  BY <1>1, <1>4 DEF GoodWrite, LeaseOperations

LEMMA UpdateLeaseWrite ==
  ASSUME Inv, NEW w \in Workers, UpdateLease(w)
  PROVE  GoodWrite(w, UpdatedRow(lease[req[w].id], req[w]))
<1> DEFINE old == lease[req[w].id]
           row == UpdatedRow(old, req[w])
<1>1. pc[w] = "write" /\ req[w].op = "update" /\ WriteLease(w, row)
  BY DEF UpdateLease, Writing
<1>2. HandlerOK(w)
  BY DEF Inv
<1>3. FieldsKnown(req[w]) /\ req[w].id \in DOMAIN lease
  BY <1>1, <1>2 DEF HandlerOK, LeaseHandlerOK, Prepared
<1>4. old \in LeaseRow
  BY <1>3, StoredRowsGood DEF GoodRow
<1>5. /\ row.property = req[w].property /\ row.unit = req[w].unit
      /\ row.tenant = req[w].tenant
      /\ row.start = req[w].start /\ row.end = req[w].end
      /\ row \in LeaseRow
  <2> DEFINE r == req[w]
  <2>1. row = [old EXCEPT !.property = r.property, !.unit = r.unit, !.tenant = r.tenant,
                          !.start = r.start, !.end = r.end]
    <3>1. r.start # None /\ r.end # None
      BY <1>3, IdsAssumption DEF FieldsKnown
    <3> QED
      BY <3>1 DEF UpdatedRow, Merge
  <2> HIDE DEF old, row, r
  <2>2. row = [status |-> old.status, property |-> r.property, unit |-> r.unit,
               tenant |-> r.tenant, start |-> r.start, end |-> r.end,
               terminatedAt |-> old.terminatedAt]
    BY <1>4, <2>1 DEF LeaseRow
  <2> QED
    BY <1>3, <1>4, <2>2 DEF LeaseRow, FieldsKnown, r
<1>6. GoodRow(row)
  <2> HIDE DEF row
  <2> QED
    BY <1>1, <1>2, <1>3, <1>5 DEF GoodRow, HandlerOK, OwnershipChecked, FieldsKnown
<1> QED
  BY <1>1, <1>3, <1>6 DEF GoodWrite, LeaseOperations

LEMMA LifecycleWrite ==
  ASSUME Inv, NEW w \in Workers,
         ActivateLease(w) \/ TerminateLease(w) \/ RestoreLease(w) \/ EndLease(w)
  PROVE  \/ ActivateLease(w) /\ GoodWrite(w, ActivatedRow(lease[req[w].id]))
         \/ TerminateLease(w) /\ GoodWrite(w, TerminatedRow(lease[req[w].id]))
         \/ RestoreLease(w) /\ GoodWrite(w, RestoredRow(lease[req[w].id]))
         \/ EndLease(w) /\ GoodWrite(w, EndedRow(lease[req[w].id]))
<1> DEFINE old == lease[req[w].id]
<1>1. pc[w] = "write" /\ req[w].op \in LifecycleOperations
  BY DEF ActivateLease, TerminateLease, RestoreLease, EndLease, Writing, LifecycleOperations
<1>2. req[w].id \in DOMAIN lease
  BY <1>1 DEF Inv, HandlerOK, LeaseHandlerOK
<1>3. GoodRow(old)
  BY <1>2, StoredRowsGood
<1>4. \A row \in LeaseRow :
        row.start = old.start /\ row.end = old.end /\ row.property = old.property
        /\ row.unit = old.unit /\ row.tenant = old.tenant => GoodRow(row)
  BY <1>3 DEF GoodRow
<1>5. /\ GoodRow(ActivatedRow(old)) /\ GoodRow(TerminatedRow(old))
      /\ GoodRow(RestoredRow(old)) /\ GoodRow(EndedRow(old))
  <2> HIDE DEF old
  <2>1. old \in LeaseRow
    BY <1>3 DEF GoodRow
  <2> QED
    BY <1>4, <2>1 DEF LeaseRow, ActivatedRow, TerminatedRow, RestoredRow, EndedRow, Statuses
<1> QED
  BY <1>1, <1>2, <1>5 DEF ActivateLease, TerminateLease, RestoreLease, EndLease, GoodWrite,
     LifecycleOperations, LeaseOperations, Writing

LEMMA LeaseWriteStep ==
  ASSUME Inv, NEW w \in Workers, NEW row, GoodWrite(w, row)
  PROVE  Inv'
  BY WriteLeaseStep DEF GoodWrite

-----------------------------------------------------------------------------
(* The portfolio services.                                                  *)

LEMMA PortfolioCheckStep ==
  ASSUME Inv, NEW w \in Workers,
         \/ LoadUnit(w) \/ LoadTenant(w) \/ LoadProperty(w)
         \/ CheckDestination(w) \/ CheckUnitLeases(w) \/ CheckTenantLeases(w)
  PROVE  Inv'
<1>1. HandlerOK(w) /\ pc \in [Workers -> Steps] /\ req \in [Workers -> Request]
  BY DEF Inv, TypeOK
<1>2. CASE \E step \in {"conflict", "write"}, found \in BOOLEAN :
             /\ Check(w, found, step)
             /\ req[w].op \in AllOperations \ (LeaseOperations \cup {"moveUnit"})
             /\ pc[w] # "idle"
  <2>1. PICK step \in {"conflict", "write"}, found \in BOOLEAN :
             /\ Check(w, found, step)
             /\ req[w].op \in AllOperations \ (LeaseOperations \cup {"moveUnit"})
             /\ pc[w] # "idle"
    BY <1>2
  <2>2. CASE Finish(w)
    BY <2>1, <2>2, FinishStep DEF Check
  <2>3. CASE Goto(w, step) /\ UNCHANGED req
    <3>1. pc' = [pc EXCEPT ![w] = step] /\ req' = [req EXCEPT ![w] = req[w]]
          /\ UNCHANGED tables /\ req[w] \in Request
      BY <1>1, <2>1, <2>3 DEF Goto, Check
    <3>2. pc'[w] = step /\ req'[w] = req[w]
      BY <1>1, <3>1
    <3>3. HandlerOK(w)' /\ ~Creating(w)'
      BY <1>1, <2>1, <3>1, <3>2 DEF HandlerOK, LeaseHandlerOK, OwnershipChecked,
         PortfolioHandlerOK, Creating, LeaseOperations, LifecycleOperations
    <3> QED
      BY <2>1, <3>1, <3>3, LocalStep DEF Steps
  <2> QED
    BY <2>1, <2>2, <2>3 DEF Check
<1>3. CASE LoadUnit(w) /\ req[w].op = "moveUnit"
  <2> DEFINE found == OpenUnitOf(req[w].user, home[req[w].id], req[w].id)
  <2>1. pc[w] = "load" /\ Check(w, found, "property")
    BY <1>3 DEF LoadUnit
  <2>2. CASE Finish(w)
    BY <2>1, <2>2, FinishStep DEF Check
  <2>3. CASE found /\ Goto(w, "property") /\ UNCHANGED req
    <3>1. pc' = [pc EXCEPT ![w] = "property"] /\ req' = [req EXCEPT ![w] = req[w]]
          /\ UNCHANGED tables /\ req[w] \in Request
      BY <1>1, <2>1, <2>3 DEF Goto, Check
    <3>2. pc'[w] = "property" /\ req'[w] = req[w]
      BY <1>1, <3>1
    <3>3. HandlerOK(w)' /\ ~Creating(w)'
      BY <1>1, <1>3, <2>1, <2>3, <3>1, <3>2 DEF HandlerOK, LeaseHandlerOK, OwnershipChecked,
         PortfolioHandlerOK, Creating, LeaseOperations, LifecycleOperations, OpenUnitOf,
         OpenProperty, tables
    <3> QED
      BY <3>1, <3>3, LocalStep DEF Steps
  <2> QED
    BY <2>1, <2>2, <2>3 DEF Check
<1>4. CASE CheckDestination(w)
  <2> DEFINE found == OpenProperty(req[w].user, req[w].property)
  <2>1. pc[w] = "property" /\ req[w].op = "moveUnit" /\ Check(w, found, "write")
    BY <1>4 DEF CheckDestination
  <2>2. ASSUME found, pc' = [pc EXCEPT ![w] = "write"], req' = req PROVE HandlerOK(w)'
    BY <1>1, <2>1, <2>2 DEF Check, HandlerOK, LeaseHandlerOK, OwnershipChecked,
       PortfolioHandlerOK, Creating, LeaseOperations, LifecycleOperations,
       OpenProperty, tables, Finish
  <2> QED
    BY <2>1, <2>2, CheckStep DEF Steps, Prepared
<1>5. CASE LoadUnit(w) /\ req[w].op # "moveUnit"
  BY <1>2, <1>5 DEF LoadUnit, AllOperations, UnitOperations, LeaseOperations,
     OpenUnitOf, OpenProperty, Check
<1>6. CASE LoadTenant(w) \/ LoadProperty(w) \/ CheckUnitLeases(w) \/ CheckTenantLeases(w)
  BY <1>2, <1>6 DEF LoadTenant, LoadProperty, CheckUnitLeases, CheckTenantLeases,
     AllOperations, UnitOperations, TenantOperations, PropertyOperations, LeaseOperations,
     OpenTenant, OpenProperty, Check
<1> QED
  BY <1>3, <1>4, <1>5, <1>6

LEMMA MoveUnitStep ==
  ASSUME Inv, NEW w \in Workers, MoveUnit(w)
  PROVE  Inv'
<1>1. /\ HandlerOK(w) /\ pc \in [Workers -> Steps] /\ req \in [Workers -> Request]
      /\ home \in [Units -> Properties]
  BY DEF Inv, TypeOK
<1>2. /\ req[w].op = "moveUnit" /\ pc[w] = "write"
      /\ home' = [home EXCEPT ![req[w].id] = req[w].property]
      /\ pc' = [pc EXCEPT ![w] = "audit"]
      /\ UNCHANGED <<lease, archived, audit, req>>
  BY DEF MoveUnit, Goto
<1>3. /\ req[w].id \in Units /\ req[w].property \in Properties
      /\ PropertyOwner[home[req[w].id]] = req[w].user
      /\ PropertyOwner[req[w].property] = req[w].user
  BY <1>1, <1>2 DEF HandlerOK, PortfolioHandlerOK
<1>4. LandlordsSame
  BY <1>1, <1>2, <1>3 DEF LandlordsSame
<1>5. OthersSame(w) /\ pc'[w] = "audit" /\ req'[w] = req[w]
  BY <1>1, <1>2 DEF OthersSame
<1>6. TypeOK'
  BY <1>1, <1>2, <1>3 DEF Inv, TypeOK, Steps
<1>7. \A v \in Workers \ {w} : HandlerOK(v)'
  BY <1>2, <1>4, <1>5, <1>6, OthersKept
<1>8. HandlerOK(w)' /\ ~Creating(w)'
  BY <1>1, <1>2, <1>5, <1>3 DEF HandlerOK, LeaseHandlerOK, OwnershipChecked,
     PortfolioHandlerOK, Creating, Prepared, LeaseOperations, LifecycleOperations
<1>9. FreshIds'
  BY <1>5, <1>8 DEF Inv, FreshIds, OthersSame, Creating
<1>10. OneLandlordPerLease'
  <2>1. \A l \in DOMAIN lease : lease[l].unit \in Units
    BY DEF Inv, TypeOK, LeaseRow
  <2> QED
    BY <1>2, <1>4, <2>1 DEF Inv, OneLandlordPerLease, LandlordsSame
<1>11. DatesOrdered'
  BY <1>2 DEF Inv, DatesOrdered
<1> QED
  BY <1>6, <1>7, <1>8, <1>9, <1>10, <1>11 DEF Inv

LEMMA ArchivalWriteStep ==
  ASSUME Inv, NEW w \in Workers, ArchiveRow(w) \/ RestoreRow(w)
  PROVE  Inv'
<1>1. HandlerOK(w) /\ pc \in [Workers -> Steps] /\ req \in [Workers -> Request]
      /\ archived \subseteq Archivable
  BY DEF Inv, TypeOK
<1>2. /\ req[w].op \in AllOperations \ (LeaseOperations \cup {"moveUnit"})
      /\ pc[w] = "write"
      /\ pc' = [pc EXCEPT ![w] = "audit"]
      /\ UNCHANGED <<lease, home, audit, req>>
  BY DEF ArchiveRow, RestoreRow, Goto, AllOperations, LeaseOperations, UnitOperations,
         TenantOperations, PropertyOperations
<1>3. archived' \subseteq Archivable
  <2>1. CASE ArchiveRow(w)
    BY <1>1, <2>1 DEF ArchiveRow, HandlerOK, PortfolioHandlerOK
  <2>2. CASE RestoreRow(w)
    BY <1>1, <2>2 DEF RestoreRow
  <2> QED
    BY <2>1, <2>2
<1>4. LandlordsSame
  BY <1>2 DEF LandlordsSame
<1>5. OthersSame(w) /\ pc'[w] = "audit" /\ req'[w] = req[w]
  BY <1>1, <1>2 DEF OthersSame
<1>6. TypeOK'
  BY <1>1, <1>2, <1>3 DEF Inv, TypeOK, Steps
<1>7. \A v \in Workers \ {w} : HandlerOK(v)'
  BY <1>2, <1>4, <1>5, <1>6, OthersKept
<1>8. HandlerOK(w)' /\ ~Creating(w)'
  BY <1>1, <1>2, <1>5 DEF HandlerOK, LeaseHandlerOK, OwnershipChecked,
     PortfolioHandlerOK, Creating, Prepared, LeaseOperations, LifecycleOperations
<1>9. FreshIds'
  BY <1>5, <1>8 DEF Inv, FreshIds, OthersSame, Creating
<1>10. OneLandlordPerLease' /\ DatesOrdered'
  BY <1>2 DEF Inv, OneLandlordPerLease, DatesOrdered
<1> QED
  BY <1>6, <1>7, <1>8, <1>9, <1>10 DEF Inv

LEMMA WriteAuditStep ==
  ASSUME Inv, NEW w \in Workers, WriteAudit(w)
  PROVE  Inv'
<1>1. /\ HandlerOK(w) /\ pc \in [Workers -> Steps] /\ req \in [Workers -> Request]
      /\ audit \in AuditRow \cup {None}
  BY DEF Inv, TypeOK
<1>2. /\ pc[w] = "audit" /\ pc' = [pc EXCEPT ![w] = "idle"]
      /\ req' = [req EXCEPT ![w] = NoRequest]
      /\ UNCHANGED <<lease, home, archived>>
  BY DEF WriteAudit, Finish
<1>3. audit' \in AuditRow \cup {None}
  BY <1>1, <1>2, InputsAssumption DEF WriteAudit, AuditRow, Request
<1>4. LandlordsSame
  BY <1>2 DEF LandlordsSame
<1>5. OthersSame(w) /\ pc'[w] = "idle"
  BY <1>1, <1>2 DEF OthersSame
<1>6. TypeOK'
  BY <1>1, <1>2, <1>3, NoRequestType DEF Inv, TypeOK, Steps
<1>7. \A v \in Workers \ {w} : HandlerOK(v)'
  BY <1>2, <1>4, <1>5, <1>6, OthersKept
<1>8. HandlerOK(w)' /\ ~Creating(w)'
  BY <1>5 DEF HandlerOK, LeaseHandlerOK, OwnershipChecked,
     PortfolioHandlerOK, Creating, Prepared
<1>9. FreshIds'
  BY <1>5, <1>8 DEF Inv, FreshIds, OthersSame, Creating
<1>10. OneLandlordPerLease' /\ DatesOrdered'
  BY <1>2 DEF Inv, OneLandlordPerLease, DatesOrdered
<1> QED
  BY <1>6, <1>7, <1>8, <1>9, <1>10 DEF Inv

-----------------------------------------------------------------------------
(* The invariant.                                                           *)

LEMMA InitInv == Init => Inv
<1> SUFFICES ASSUME Init PROVE Inv
  OBVIOUS
<1>1. lease \in [{} -> LeaseRow] /\ {} \in SUBSET Leases
  BY DEF Init
<1>2. TypeOK
  BY <1>1, NoRequestType, OwnersAssumption DEF Init, TypeOK, Steps
<1>3. \A w \in Workers : pc[w] = "idle"
  BY DEF Init
<1>4. \A w \in Workers : HandlerOK(w) /\ ~Creating(w)
  BY <1>3 DEF HandlerOK, LeaseHandlerOK, OwnershipChecked, PortfolioHandlerOK, Creating,
     Prepared
<1>5. OneLandlordPerLease /\ DatesOrdered
  BY <1>1 DEF OneLandlordPerLease, DatesOrdered
<1> QED
  BY <1>2, <1>4, <1>5 DEF Inv, FreshIds

LEMMA NextInv == Inv /\ [Next]_vars => Inv'
<1> SUFFICES ASSUME Inv, [Next]_vars PROVE Inv'
  OBVIOUS
<1>1. CASE UNCHANGED vars
  BY <1>1 DEF vars, Inv, TypeOK, HandlerOK, LeaseHandlerOK, OwnershipChecked,
     PortfolioHandlerOK, Creating, FreshIds, OneLandlordPerLease, DatesOrdered
<1>2. ASSUME NEW w \in Workers, ReceiveRequest(w) PROVE Inv'
  BY <1>2, ReceiveCreateStep, ReceiveUpdateStep, ReceiveLifecycleStep, ReceivePortfolioStep
     DEF ReceiveRequest, ReceiveLeaseRequest
<1>3. ASSUME NEW w \in Workers, LeaseStep(w) PROVE Inv'
  <2>1. CASE CreateLease(w)
    BY <2>1, CreateLeaseWrite, LeaseWriteStep
  <2>2. CASE UpdateLease(w)
    BY <2>2, UpdateLeaseWrite, LeaseWriteStep
  <2>3. CASE ActivateLease(w) \/ TerminateLease(w) \/ RestoreLease(w) \/ EndLease(w)
    BY <2>3, LifecycleWrite, LeaseWriteStep
  <2> QED
    BY <1>3, <2>1, <2>2, <2>3, LookupLeaseStep, LoadUpdateStep, LoadForLifecycleStep,
       LeaseCheckStep DEF LeaseStep
<1>4. ASSUME NEW w \in Workers, PortfolioStep(w) PROVE Inv'
  BY <1>4, PortfolioCheckStep, MoveUnitStep, ArchivalWriteStep DEF PortfolioStep
<1>5. ASSUME NEW w \in Workers, WriteAudit(w) PROVE Inv'
  BY <1>5, WriteAuditStep
<1>6. ASSUME NEW w \in Workers, Fail(w) PROVE Inv'
  BY <1>6, FinishStep DEF Fail
<1> QED
  BY <1>1, <1>2, <1>3, <1>4, <1>5, <1>6 DEF Next, Step

LEMMA SpecInv == Spec => []Inv
  BY InitInv, NextInv, PTL DEF Spec

\* Rows stay complete and handlers' variables typed, in every instance.
THEOREM TypeCorrect == Spec => []TypeOK
  BY SpecInv, PTL DEF Inv

\* No lease ever joins rows of two landlords.
THEOREM LandlordsSeparate == Spec => []OneLandlordPerLease
  BY SpecInv, PTL DEF Inv

\* Every lease ends after it starts, whatever updates overlap.
THEOREM DatesStayOrdered == Spec => []DatesOrdered
  BY SpecInv, PTL DEF Inv

-----------------------------------------------------------------------------
(* What a step may do to the table of leases.                               *)

\* How a stored row differs from the one it replaces.
StatusKept(w, row) ==
  LET l == req[w].id
  IN /\ l \in DOMAIN lease =>
          /\ row.status = "PENDING" => lease[l].status = "PENDING"
          /\ row.status = "TERMINATED" =>
               \/ row.terminatedAt
               \/ lease[l].status = "TERMINATED" /\ row.terminatedAt = lease[l].terminatedAt
     /\ l \notin DOMAIN lease => row.status \in CreateStatuses

\* Worker w stores a row the unique index accepts.
Stores(w, row) ==
  /\ row \in LeaseRow
  /\ req[w].id \in Leases
  /\ IndexAccepts(req[w].id, row.unit, row.status)
  /\ lease' = [k \in DOMAIN lease \cup {req[w].id} |->
                 IF k = req[w].id THEN row ELSE lease[k]]
  /\ StatusKept(w, row)

LEMMA StoreOrNot ==
  ASSUME Inv, NEW w \in Workers, NEW row, GoodWrite(w, row), StatusKept(w, row)
  PROVE  UNCHANGED lease \/ Stores(w, row)
<1>1. req[w].id \in Leases
  BY DEF GoodWrite, Inv, HandlerOK, LeaseHandlerOK
<1> QED
  BY <1>1 DEF GoodWrite, WriteLease, Written, Stores, GoodRow, tables

LEMMA LeaseChange ==
  ASSUME Inv, [Next]_vars
  PROVE  UNCHANGED lease \/ \E w \in Workers : \E row : Stores(w, row)
<1>1. ASSUME NEW w \in Workers, CreateLease(w)
      PROVE  UNCHANGED lease \/ \E row : Stores(w, row)
  <2> DEFINE row == InsertedRow(req[w])
  <2>1. GoodWrite(w, row)
    BY <1>1, CreateLeaseWrite
  <2>2. HandlerOK(w) /\ Creating(w)
    BY <1>1 DEF Inv, CreateLease, Writing, Creating, Prepared
  <2>3. StatusKept(w, row)
    BY <2>2 DEF StatusKept, HandlerOK, LeaseHandlerOK, InsertedRow
  <2> QED
    BY <2>1, <2>3, StoreOrNot
<1>2. ASSUME NEW w \in Workers, UpdateLease(w)
      PROVE  UNCHANGED lease \/ \E row : Stores(w, row)
  <2> DEFINE row == UpdatedRow(lease[req[w].id], req[w])
  <2>1. GoodWrite(w, row)
    BY <1>2, UpdateLeaseWrite
  <2>2. req[w].id \in DOMAIN lease
    BY <1>2 DEF Inv, HandlerOK, LeaseHandlerOK, UpdateLease, Writing, Prepared
  <2>3. lease[req[w].id] \in LeaseRow
    BY <2>2, StoredRowsGood DEF GoodRow
  <2>4. row.status = lease[req[w].id].status /\ row.terminatedAt = lease[req[w].id].terminatedAt
    BY <2>3 DEF UpdatedRow, LeaseRow
  <2> HIDE DEF row
  <2>5. StatusKept(w, row)
    BY <2>2, <2>4 DEF StatusKept
  <2> QED
    BY <2>1, <2>5, StoreOrNot
<1>3. ASSUME NEW w \in Workers,
             ActivateLease(w) \/ TerminateLease(w) \/ RestoreLease(w) \/ EndLease(w)
      PROVE  UNCHANGED lease \/ \E row : Stores(w, row)
  <2> DEFINE old == lease[req[w].id]
  <2>1. PICK row \in {ActivatedRow(old), TerminatedRow(old), RestoredRow(old), EndedRow(old)} :
          GoodWrite(w, row)
    BY <1>3, LifecycleWrite
  <2>2. req[w].id \in DOMAIN lease
    BY <1>3 DEF Inv, HandlerOK, LeaseHandlerOK, ActivateLease, TerminateLease,
       RestoreLease, EndLease, Writing, LifecycleOperations
  <2>3. old \in LeaseRow
    BY <2>2, StoredRowsGood DEF GoodRow
  <2>4. row.status # "PENDING" /\ (row.status = "TERMINATED" => row.terminatedAt)
    <3> HIDE DEF old
    <3> QED
      BY <2>1, <2>3 DEF ActivatedRow, TerminatedRow, RestoredRow, EndedRow, LeaseRow
  <2>5. StatusKept(w, row)
    BY <2>2, <2>4 DEF StatusKept
  <2> QED
    BY <2>1, <2>5, StoreOrNot
<1>4. ASSUME NEW w \in Workers,
             \/ ReceiveRequest(w) \/ PortfolioStep(w) \/ WriteAudit(w) \/ Fail(w)
             \/ LookupLease(w) \/ LoadUpdate(w) \/ LoadForLifecycle(w) \/ CheckProperty(w)
             \/ CheckUnit(w) \/ CheckTenant(w) \/ CheckConflict(w)
      PROVE  UNCHANGED lease
  BY <1>4 DEF ReceiveRequest, ReceiveLeaseRequest, ReceiveCreate, ReceiveUpdate,
     ReceiveLifecycle, ReceivePortfolioRequest, ReceiveMove, ReceiveArchival, Receive,
     PortfolioStep, LoadUnit, LoadTenant, LoadProperty, CheckDestination, CheckUnitLeases,
     CheckTenantLeases, MoveUnit, ArchiveRow, RestoreRow, WriteAudit, Fail, LookupLease,
     LoadUpdate, LoadForLifecycle, CheckProperty, CheckUnit, CheckTenant, CheckConflict,
     Check, tables
<1> QED
  BY <1>1, <1>2, <1>3, <1>4 DEF Next, Step, LeaseStep, vars

\* The rows after a store, one by one.
LEMMA RowsAfter ==
  ASSUME Inv, NEW w \in Workers, NEW row, Stores(w, row)
  PROVE  /\ DOMAIN lease' = DOMAIN lease \cup {req[w].id}
         /\ \A k \in DOMAIN lease' : lease'[k] = IF k = req[w].id THEN row ELSE lease[k]
  BY DEF Stores

-----------------------------------------------------------------------------
(* Occupancy and status.                                                    *)

LEMMA OneActiveStep ==
  ASSUME Inv, OneActivePerUnit, [Next]_vars
  PROVE  OneActivePerUnit'
<1>1. CASE UNCHANGED lease
  BY <1>1 DEF OneActivePerUnit
<1>2. ASSUME NEW w \in Workers, NEW row, Stores(w, row)
      PROVE  OneActivePerUnit'
  <2>1. row.status = "ACTIVE" => \A k \in DOMAIN lease :
          lease[k].unit = row.unit /\ lease[k].status = "ACTIVE" => k = req[w].id
    BY <1>2 DEF Stores, IndexAccepts, ActiveLeases
  <2>2. /\ DOMAIN lease' = DOMAIN lease \cup {req[w].id}
        /\ \A k \in DOMAIN lease' : lease'[k] = IF k = req[w].id THEN row ELSE lease[k]
    BY <1>2, RowsAfter
  <2>3. SUFFICES ASSUME NEW l \in DOMAIN lease', NEW k \in DOMAIN lease', l # k,
                        lease'[l].status = "ACTIVE", lease'[k].status = "ACTIVE",
                        lease'[l].unit = lease'[k].unit
                 PROVE  FALSE
    BY DEF OneActivePerUnit
  <2>4. CASE l = req[w].id
    BY <2>1, <2>2, <2>3, <2>4
  <2>5. CASE k = req[w].id
    BY <2>1, <2>2, <2>3, <2>5
  <2>6. CASE l # req[w].id /\ k # req[w].id
    BY <2>2, <2>3, <2>6 DEF OneActivePerUnit
  <2> QED
    BY <2>4, <2>5, <2>6
<1> QED
  BY <1>1, <1>2, LeaseChange

\* At most one ACTIVE lease per unit.
THEOREM SingleOccupancy == Spec => []OneActivePerUnit
<1>1. Init => OneActivePerUnit
  BY DEF Init, OneActivePerUnit
<1> QED
  BY <1>1, SpecInv, OneActiveStep, PTL DEF Spec

\* No step takes a lease back to PENDING.
THEOREM PendingIsLeftForGood == Spec => NeverPendingAgain
<1>1. Inv /\ [Next]_vars =>
        [\A l \in DOMAIN lease : lease'[l].status = "PENDING" => lease[l].status = "PENDING"]_lease
  <2> SUFFICES ASSUME Inv, [Next]_vars, NEW l \in DOMAIN lease, lease' # lease,
                      lease'[l].status = "PENDING"
               PROVE  lease[l].status = "PENDING"
    OBVIOUS
  <2>1. PICK w \in Workers : \E row : Stores(w, row)
    BY LeaseChange
  <2>2. PICK row : Stores(w, row)
    BY <2>1
  <2> QED
    BY <2>2, RowsAfter DEF Stores, StatusKept
<1> QED
  BY <1>1, SpecInv, PTL DEF Spec, NeverPendingAgain

\* Only a creation leaves a TERMINATED lease without the date it was terminated,
\* whatever statuses creations may name.
THEOREM StampKeptWithStatus == Spec => TerminatedIsStamped
<1>1. Inv /\ [Next]_vars =>
        [\A l \in DOMAIN lease :
           lease'[l].status = "TERMINATED" /\ ~lease'[l].terminatedAt
           => lease[l].status = "TERMINATED" /\ ~lease[l].terminatedAt]_lease
  <2> SUFFICES ASSUME Inv, [Next]_vars, NEW l \in DOMAIN lease, lease' # lease,
                      lease'[l].status = "TERMINATED", ~lease'[l].terminatedAt
               PROVE  lease[l].status = "TERMINATED" /\ ~lease[l].terminatedAt
    OBVIOUS
  <2>1. PICK w \in Workers : \E row : Stores(w, row)
    BY LeaseChange
  <2>2. PICK row : Stores(w, row)
    BY <2>1
  <2>3. CASE l # req[w].id
    BY <2>2, <2>3, RowsAfter
  <2>4. CASE l = req[w].id
    <3>1. lease'[l] = row /\ StatusKept(w, row)
      BY <2>2, <2>4, RowsAfter DEF Stores
    <3>2. row.status = "TERMINATED" /\ ~row.terminatedAt
      BY <3>1
    <3> QED
      BY <2>4, <3>1, <3>2, Zenon DEF StatusKept
  <2> QED
    BY <2>3, <2>4
<1> QED
  BY <1>1, SpecInv, PTL DEF Spec, TerminatedIsStamped

-----------------------------------------------------------------------------
(* Backend implements UnitOccupancy.                                        *)

Occupants == [n \in Units |-> ActiveLeases(n)]

LEMMA OccupancyInit == Init => UO!Init
<1> SUFFICES ASSUME Init PROVE UO!Init
  OBVIOUS
<1>1. \A n \in Units : ActiveLeases(n) = {}
  BY DEF Init, ActiveLeases
<1> QED
  BY <1>1 DEF UO!Init

\* Only the lease that is stored enters or leaves a unit.
LEMMA OccupantsAfter ==
  ASSUME Inv, NEW w \in Workers, NEW row, Stores(w, row), NEW n \in Units
  PROVE  ActiveLeases(n)' =
           (ActiveLeases(n) \ {req[w].id}) \cup
           (IF row.status = "ACTIVE" /\ row.unit = n THEN {req[w].id} ELSE {})
<1> DEFINE l == req[w].id
<1>1. /\ DOMAIN lease' = DOMAIN lease \cup {l}
      /\ \A k \in DOMAIN lease' : lease'[k] = IF k = l THEN row ELSE lease[k]
  BY RowsAfter
<1>2. ActiveLeases(n)' = {k \in DOMAIN lease' : lease'[k].unit = n /\ lease'[k].status = "ACTIVE"}
  BY DEF ActiveLeases
<1>3. \A k : k \in ActiveLeases(n)' <=>
               \/ k = l /\ row.unit = n /\ row.status = "ACTIVE"
               \/ k # l /\ k \in ActiveLeases(n)
  BY <1>1, <1>2 DEF ActiveLeases
<1> HIDE DEF l
<1>4. CASE row.status = "ACTIVE" /\ row.unit = n
  BY <1>3, <1>4 DEF l
<1>5. CASE ~(row.status = "ACTIVE" /\ row.unit = n)
  BY <1>3, <1>5 DEF l
<1> QED
  BY <1>4, <1>5

LEMMA OccupancyStep ==
  ASSUME Inv, OneActivePerUnit, [Next]_vars
  PROVE  [UO!Next]_Occupants
<1>1. CASE UNCHANGED lease
  BY <1>1 DEF Occupants, ActiveLeases
<1>2. ASSUME NEW w \in Workers, NEW row, Stores(w, row), Occupants' # Occupants
      PROVE  UO!Next
  <2> DEFINE l == req[w].id
             active == row.status = "ACTIVE"
             m == row.unit
  <2>1. l \in Leases /\ m \in Units
    BY <1>2 DEF Stores, LeaseRow
  <2>2. \A n \in Units : ActiveLeases(n)' =
           (ActiveLeases(n) \ {l}) \cup (IF active /\ m = n THEN {l} ELSE {})
    BY <1>2, OccupantsAfter
  <2>3. active => ActiveLeases(m) \subseteq {l}
    BY <1>2 DEF Stores, IndexAccepts
  <2>4. \A n, k \in Units : l \in ActiveLeases(n) /\ l \in ActiveLeases(k) => n = k
    BY DEF ActiveLeases
  <2>5. \A n \in Units : l \in ActiveLeases(n) => ActiveLeases(n) = {l}
    BY DEF ActiveLeases, OneActivePerUnit
  <2>6. Occupants' = [n \in Units |-> ActiveLeases(n)']
    BY DEF Occupants
  <2> HIDE DEF l, active, m
  <2>7. CASE \A n \in Units : l \notin ActiveLeases(n)
    <3>1. CASE active
      <4>1. UO!Occupy(l, m)
        <5>1. ~UO!Resident(l)
          BY <2>7 DEF UO!Resident
        <5>2. ActiveLeases(m) = {}
          BY <2>1, <2>3, <2>7, <3>1
        <5>3. Occupants' = [Occupants EXCEPT ![m] = {l}]
          <6>1. \A k \in Units : ActiveLeases(k)' = IF k = m THEN {l} ELSE ActiveLeases(k)
            BY <2>2, <2>7, <3>1, <5>2
          <6> QED
            BY <2>1, <2>6, <6>1 DEF Occupants
        <5> QED
          BY <2>1, <5>1, <5>2, <5>3 DEF UO!Occupy, Occupants
      <4> QED
        BY <1>2, <2>1, <4>1 DEF UO!Next, Occupants
    <3>2. CASE ~active
      BY <1>2, <2>2, <2>6, <2>7, <3>2 DEF Occupants
    <3> QED
      BY <3>1, <3>2
  <2>8. ASSUME NEW n \in Units, l \in ActiveLeases(n)
        PROVE  UO!Next
    <3>1. ActiveLeases(n) = {l} /\ \A k \in Units \ {n} : l \notin ActiveLeases(k)
      BY <2>4, <2>5, <2>8
    <3>2. CASE ~active
      <4>1. UO!Vacate(l, n)
        <5>1. Occupants' = [Occupants EXCEPT ![n] = {}]
          <6>1. \A k \in Units : ActiveLeases(k)' = IF k = n THEN {} ELSE ActiveLeases(k)
            BY <2>2, <3>1, <3>2
          <6> QED
            BY <2>6, <6>1 DEF Occupants
        <5> QED
          BY <3>1, <5>1 DEF UO!Vacate, Occupants
      <4> QED
        BY <1>2, <2>1, <4>1 DEF UO!Next, Occupants
    <3>3. CASE active /\ m = n
      BY <1>2, <2>2, <2>6, <3>1, <3>3 DEF Occupants
    <3>4. CASE active /\ m # n
      <4>1. ActiveLeases(m) = {}
        BY <2>1, <2>3, <3>1, <3>4
      <4>2. UO!Relocate(l, n, m)
        <5>1. Occupants' = [Occupants EXCEPT ![n] = {}, ![m] = {l}]
          <6>1. \A k \in Units : ActiveLeases(k)' =
                  IF k = m THEN {l} ELSE IF k = n THEN {} ELSE ActiveLeases(k)
            BY <2>2, <3>1, <3>4, <4>1
          <6> QED
            BY <2>1, <2>6, <3>4, <6>1 DEF Occupants
        <5> QED
          BY <2>1, <3>1, <4>1, <5>1 DEF UO!Relocate, Occupants
      <4> QED
        BY <1>2, <2>1, <4>2 DEF UO!Next, Occupants
    <3> QED
      BY <3>2, <3>3, <3>4
  <2> QED
    BY <2>7, <2>8
<1> QED
  BY <1>1, <1>2, LeaseChange

\* Units are occupied as UnitOccupancy says: a lease comes to a unit only when
\* the unit is vacant.
THEOREM OccupancyImplemented == Spec => ImplementsUnitOccupancy
<1>1. Spec => UO!Init
  BY OccupancyInit DEF Spec
<1>2. Inv /\ OneActivePerUnit /\ [Next]_vars => [UO!Next]_[n \in Units |-> ActiveLeases(n)]
  BY OccupancyStep DEF Occupants
<1> QED
  BY <1>1, <1>2, SpecInv, SingleOccupancy, PTL DEF Spec, UO!Spec, ImplementsUnitOccupancy
=============================================================================
