-------------------------- MODULE PortfolioService --------------------------
(***************************************************************************)
(* The endpoints that change what leases hang on: moving, archiving and    *)
(* restoring units, archiving and restoring tenants and properties.  None  *)
(* of them runs in a transaction.                                          *)
(*                                                                         *)
(* The controllers' own getUnitById, getTenantById and getPropertyById     *)
(* before the service is called are left out: they let through whatever    *)
(* the service's own read, which comes next, lets through.                 *)
(***************************************************************************)
EXTENDS Tables

ReceiveMove(w) ==
  \E u \in Users, n \in Units, p \in Properties :
    Receive(w, Body("moveUnit", u, n, p, None, None, None, None, None), "load")

ArchivalOperations(i) ==
  IF i \in Units THEN {"archiveUnit", "restoreUnit"}
  ELSE IF i \in Tenants THEN {"archiveTenant", "restoreTenant"}
  ELSE {"archiveProperty", "restoreProperty"}

ReceiveArchival(w) ==
  \E u \in Users, i \in Archivable :
    \E op \in ArchivalOperations(i) :
      Receive(w, Body(op, u, i, None, None, None, None, None, None), "load")

-----------------------------------------------------------------------------
(* Units.                                                                   *)

LoadUnit(w) ==
  LET u == req[w].user
      n == req[w].id
  IN /\ pc[w] = "load"
     /\ \/ /\ req[w].op = "moveUnit"
           /\ Check(w, OpenUnitOf(u, home[n], n), "property")
        \/ /\ req[w].op = "archiveUnit"
           /\ Check(w, OpenUnitOf(u, home[n], n), "conflict")
        \/ /\ req[w].op = "restoreUnit"
           /\ Check(w, n \in archived /\ OpenProperty(u, home[n]), "write")

\* Mutant: the destination may be anybody's property.
CheckDestinationAnyOwner(w) ==
  /\ pc[w] = "property"
  /\ req[w].op = "moveUnit"
  /\ Check(w, req[w].property \notin archived, "write")

\* The destination of a move is an open property of the same user.
CheckDestination(w) ==
  /\ pc[w] = "property"
  /\ req[w].op = "moveUnit"
  /\ Check(w, OpenProperty(req[w].user, req[w].property), "write")

\* Mutant: leases are not looked at.
CheckUnitLeasesNever(w) ==
  /\ pc[w] = "conflict"
  /\ req[w].op = "archiveUnit"
  /\ Check(w, TRUE, "write")

\* A unit with an ACTIVE lease is not archived.
CheckUnitLeases(w) ==
  /\ pc[w] = "conflict"
  /\ req[w].op = "archiveUnit"
  /\ Check(w, ActiveLeases(req[w].id) = {}, "write")

\* Leases are left alone: one on this unit keeps the property it names.
MoveUnit(w) ==
  /\ pc[w] = "write"
  /\ req[w].op = "moveUnit"
  /\ home' = [home EXCEPT ![req[w].id] = req[w].property]
  /\ Goto(w, "audit")
  /\ UNCHANGED <<lease, archived, audit, req>>

-----------------------------------------------------------------------------
(* Tenants.                                                                 *)

LoadTenant(w) ==
  LET u == req[w].user
      t == req[w].id
  IN /\ pc[w] = "load"
     /\ \/ /\ req[w].op = "archiveTenant"
           /\ Check(w, OpenTenant(u, t), "conflict")
        \/ /\ req[w].op = "restoreTenant"
           /\ Check(w, TenantOwner[t] = u /\ t \in archived, "write")

\* Mutant: only the tenant's PENDING leases are looked at.
CheckTenantLeasesPending(w) ==
  /\ pc[w] = "conflict"
  /\ req[w].op = "archiveTenant"
  /\ Check(w, \A l \in DOMAIN lease :
                ~(lease[l].tenant = req[w].id /\ lease[l].status = "PENDING"), "write")

\* A tenant with an ACTIVE lease is not archived.
CheckTenantLeases(w) ==
  /\ pc[w] = "conflict"
  /\ req[w].op = "archiveTenant"
  /\ Check(w, \A l \in DOMAIN lease :
                ~(lease[l].tenant = req[w].id /\ lease[l].status = "ACTIVE"), "write")

-----------------------------------------------------------------------------
(* Properties: archived whatever their units and leases.                    *)

LoadProperty(w) ==
  LET u == req[w].user
      p == req[w].id
  IN /\ pc[w] = "load"
     /\ \/ /\ req[w].op = "archiveProperty"
           /\ Check(w, OpenProperty(u, p), "write")
        \/ /\ req[w].op = "restoreProperty"
           /\ Check(w, PropertyOwner[p] = u /\ p \in archived, "write")

-----------------------------------------------------------------------------
(* The write of an archive or restore, on the row's id alone.               *)

ArchiveRow(w) ==
  /\ pc[w] = "write"
  /\ req[w].op \in {"archiveUnit", "archiveTenant", "archiveProperty"}
  /\ archived' = archived \cup {req[w].id}
  /\ Goto(w, "audit")
  /\ UNCHANGED <<lease, home, audit, req>>

RestoreRow(w) ==
  /\ pc[w] = "write"
  /\ req[w].op \in {"restoreUnit", "restoreTenant", "restoreProperty"}
  /\ archived' = archived \ {req[w].id}
  /\ Goto(w, "audit")
  /\ UNCHANGED <<lease, home, audit, req>>

PortfolioStep(w) ==
  \/ LoadUnit(w) \/ CheckDestination(w) \/ CheckUnitLeases(w) \/ MoveUnit(w)
  \/ LoadTenant(w) \/ CheckTenantLeases(w) \/ LoadProperty(w)
  \/ ArchiveRow(w) \/ RestoreRow(w)

ReceivePortfolioRequest(w) == ReceiveMove(w) \/ ReceiveArchival(w)
=============================================================================
