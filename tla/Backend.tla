------------------------------- MODULE Backend -------------------------------
(***************************************************************************)
(* The lease and portfolio services over one database, serving requests    *)
(* concurrently, and what that system promises about leases.               *)
(***************************************************************************)
EXTENDS LeaseService, PortfolioService

\* createAuditLog, a statement of its own after the mutation committed.
WriteAudit(w) ==
  /\ pc[w] = "audit"
  /\ audit' = IF req[w].op \in AuditedOperations
                THEN [op |-> req[w].op, id |-> req[w].id,
                      before |-> req[w].before, after |-> req[w].status]
                ELSE audit
  /\ Finish(w)
  /\ UNCHANGED <<lease, home, archived>>

\* The next statement fails before it has an effect: connection lost, pool
\* exhausted, transaction timed out, process restarted.  What the handler has
\* already committed stays, and no audit row will follow it.
Fail(w) ==
  /\ pc[w] # "idle"
  /\ Finish(w)
  /\ UNCHANGED tables

ReceiveRequest(w) ==
  /\ pc[w] = "idle"
  /\ ReceiveLeaseRequest(w) \/ ReceivePortfolioRequest(w)

Step(w) == LeaseStep(w) \/ PortfolioStep(w) \/ WriteAudit(w)

Next == \E w \in Workers : ReceiveRequest(w) \/ Step(w) \/ Fail(w)

Spec == Init /\ [][Next]_vars

-----------------------------------------------------------------------------
(* Properties.                                                              *)

\* Every variable stays in its type: rows are complete once inserted.
TypeOK ==
  /\ \E ids \in SUBSET Leases : lease \in [ids -> LeaseRow]
  /\ home \in [Units -> Properties]
  /\ archived \subseteq Archivable
  /\ audit \in AuditRow \cup {None}
  /\ pc \in [Workers -> Steps]
  /\ req \in [Workers -> Request]

\* At most one ACTIVE lease per unit, however creates, updates, activations
\* and restores interleave between their conflict query and their write.
OneActivePerUnit ==
  \A l, k \in DOMAIN lease :
    /\ lease[l].status = "ACTIVE"
    /\ lease[k].status = "ACTIVE"
    /\ lease[l].unit = lease[k].unit
    => l = k

\* A lease never ties together rows of two landlords: its property, the
\* property its unit is in now, and its tenant all belong to one user, although
\* units move and updates write relationships they read some statements ago.
OneLandlordPerLease ==
  \A l \in DOMAIN lease :
    /\ PropertyOwner[home[lease[l].unit]] = PropertyOwner[lease[l].property]
    /\ TenantOwner[lease[l].tenant] = PropertyOwner[lease[l].property]

\* A lease always ends after it starts, although two concurrent updates may
\* each send one date and compare it with a row the other is about to change:
\* each writes the pair it compared.
DatesOrdered == \A l \in DOMAIN lease : lease[l].start < lease[l].end

\* No step, however stale its view, takes a lease back to PENDING.
NeverPendingAgain ==
  [][\A l \in DOMAIN lease : lease'[l].status = "PENDING" => lease[l].status = "PENDING"]_lease

\* Only a creation leaves a TERMINATED lease without the date it was
\* terminated: no step, and no interleaving of terminate, restore and update
\* on one lease, brings an existing lease into that state.
TerminatedIsStamped ==
  [][\A l \in DOMAIN lease :
       lease'[l].status = "TERMINATED" /\ ~lease'[l].terminatedAt
       => lease[l].status = "TERMINATED" /\ ~lease[l].terminatedAt]_lease

-----------------------------------------------------------------------------
(* Abstract specifications.                                                 *)

StatusOf(l) == IF l \in DOMAIN lease THEN lease[l].status ELSE None

LSM == INSTANCE LeaseStateMachine WITH status <- [l \in Leases |-> StatusOf(l)]

UO == INSTANCE UnitOccupancy WITH occupants <- [n \in Units |-> ActiveLeases(n)]

\* Whatever the interleaving, the ACTIVE leases occupy units as UnitOccupancy
\* says: a lease gets a unit only after the previous one has left it.
ImplementsUnitOccupancy == UO!Spec

\* Leases follow the documented state machine when requests do not overlap.
ImplementsLeaseStateMachine == LSM!Spec

-----------------------------------------------------------------------------
(* Properties of requests served one at a time, and of concurrent ones only *)
(* where a run says so.                                                     *)

\* "Unit archive -> reject when an active lease exists": a unit that becomes
\* archived has no ACTIVE lease.
UnitArchiveRejectsActive ==
  [][\A n \in Units : n \in archived' \ archived => ActiveLeases(n)' = {}]_vars

\* "Tenant archive -> reject when an active lease exists".
TenantArchiveRejectsActive ==
  [][\A t \in Tenants, l \in DOMAIN lease' :
       t \in archived' \ archived /\ lease'[l].tenant = t
       => lease'[l].status # "ACTIVE"]_vars

\* An ENDED lease is final: "it cannot currently be reopened".
EndedIsFinal ==
  [][\A l \in DOMAIN lease : lease[l].status = "ENDED" => lease'[l].status = "ENDED"]_lease

\* The audit row of a lifecycle operation names the transition its endpoint is
\* documented to make.
AuditNamesTransition ==
  audit # None /\ audit.op \in LifecycleOperations =>
    <<audit.op, audit.before, audit.after>> \in
      {<<"activate", "PENDING", "ACTIVE">>, <<"end", "ACTIVE", "ENDED">>,
       <<"terminate", "ACTIVE", "TERMINATED">>, <<"restore", "TERMINATED", "ACTIVE">>}

\* An ACTIVE lease carries no termination date.
ActiveIsUnstamped ==
  \A l \in DOMAIN lease : lease[l].status = "ACTIVE" => ~lease[l].terminatedAt
=============================================================================
