------------------------------ MODULE ListPages ------------------------------
(***************************************************************************)
(* The pages with actions on rows: tenants, the units of a property, and   *)
(* leases.  An action sends its request and, once that is acknowledged,    *)
(* reads the list again with the filter its function was made under.       *)
(***************************************************************************)
EXTENDS Tab

listUnchanged == UNCHANGED <<db, expired, issued, strays, going, visits>>

\* A new call; it and the other actions on rows are no longer alone.
Act(op, row) ==
  LET call == [Sending(op, row, view.filter, token) EXCEPT !.alone = RowCalls = {} /\ strays = {}]
      Joined(c) == IF c.op \in RowOperations THEN [c EXCEPT !.alone = FALSE] ELSE c
  IN /\ calls' = Append([i \in DOMAIN calls |-> Joined(calls[i])], call)
     /\ listUnchanged
     /\ UNCHANGED <<token, gets, unloading>>

\* handleArchive and handleRestore of the tenants page, up to the first await.
HandleTenant(op, t) ==
  Act(op, t) /\ view' = [view EXCEPT !.acting = {t}, !.error = FALSE]

\* handleArchive and handleRestore of the units page.
HandleUnit(op, n) ==
  Act(op, n) /\ view' = [view EXCEPT !.acting = {n}]

\* Mutant: the row's ref is not looked at.
RowIdleAlways(l) == TRUE

\* Leases: every row remembers whether its own action runs (actionInFlight).
RowIdle(l) == l \notin view.acting

\* handleAction of a lease row, up to the first await.
HandleAction(op, l) ==
  /\ RowIdle(l)
  /\ Act(op, l)
  /\ view' = [view EXCEPT !.acting = @ \cup {l}, !.asking = None, !.banner = FALSE]

\* setConfirmEndLease, of the row of lease l or of the row that asks.
ConfirmEndLease(l) ==
  /\ view' = [view EXCEPT !.asking = l]
  /\ listUnchanged
  /\ UNCHANGED <<calls, token, gets, unloading>>

\* A row offers Activate, or End Lease, which opens a dialog; a row that is busy
\* disables its button.
LeaseRow(r) ==
  \/ r[2] = "PENDING" /\ HandleAction("activate", r[1])
  \/ r[2] = "ACTIVE" /\ RowIdle(r[1]) /\ ConfirmEndLease(r[1])

\* The dialog is modal: it is confirmed, or cancelled, whatever the status of the
\* row has become, before another control of the page can be used.
EndLeaseDialog ==
  \/ HandleAction("end", view.asking)
  \/ ConfirmEndLease(None)

-----------------------------------------------------------------------------
(* Active or archived rows.                                                 *)

OtherFilter == IF view.filter = "active" THEN "archived" ELSE "active"

\* setError(null).
ClearError(timer) ==
  /\ view' = [view EXCEPT !.error = FALSE, !.timer = timer]
  /\ listUnchanged /\ UNCHANGED <<calls, token, gets, unloading>>

\* The GETs of loadTenants and loadUnits under a filter.
ListUrls(page, filter) ==
  {Url(page, filter)} \cup (IF page = "units" THEN {Url("property", "")} ELSE {})

\* Mutant: the effect does not depend on the filter.
ToggleReloadsNever(filter) == /\ view' = [view EXCEPT !.filter = filter, !.error = FALSE]
                              /\ UNCHANGED <<calls, gets>>

\* The effect that runs because loadTenants, or loadUnits, is another function.
ToggleReloads(filter) ==
  LET urls == ListUrls(view.page, filter)
  IN /\ view' = [view EXCEPT !.filter = filter, !.loading = TRUE, !.error = FALSE,
                             !.rushed = @ \/ \E i \in DOMAIN calls : calls[i].here]
     /\ calls' = Append(calls, Reading("load", None, filter, urls))
     /\ gets' = Fetch(urls)

-----------------------------------------------------------------------------
(* What the user finds on the pages.                                        *)

\* Below the early returns: the rows that are not the busy one, the button that
\* switches between active and archived, the banner that can be dismissed.
TenantsShown == view.page = "tenants" /\ ~view.loading /\ (view.error => view.rows # {})

RowOperation == IF view.filter = "active" THEN "archive" ELSE "restore"

TenantsControls ==
  /\ TenantsShown
  /\ \/ /\ UserMayAct
        /\ \E r \in view.rows : view.acting # {r[1]} /\ HandleTenant(RowOperation, r[1])
     \/ UserMayAct /\ ToggleReloads(OtherFilter) /\ listUnchanged /\ UNCHANGED <<token, unloading>>
     \/ view.error /\ ClearError(view.timer)

\* Five seconds after an action failed the error goes, whatever it is by then;
\* `timer` says that such a timeout is pending, and others may be.
ErrorTimer == view.timer /\ \E others \in BOOLEAN : ClearError(others)

UnitsShown == view.page = "units" /\ ~view.loading /\ ~view.error /\ view.rows # None

UnitsControls ==
  /\ UserMayAct /\ UnitsShown
  /\ \/ \E r \in view.rows : view.acting # {r[1]} /\ HandleUnit(RowOperation, r[1])
     \/ ToggleReloads(OtherFilter) /\ listUnchanged /\ UNCHANGED <<token, unloading>>

LeasesControls ==
  /\ UserMayAct /\ view.page = "leases"
  /\ \/ view.asking = None /\ \E r \in view.rows : LeaseRow(r)
     \/ view.asking # None /\ EndLeaseDialog

-----------------------------------------------------------------------------
(* After the request of an action.                                          *)

\* The page an action was started on.
PageOf(row) ==
  IF row \in Tenants THEN "tenants" ELSE IF row \in Units THEN "units" ELSE "leases"

\* The reads an action makes when it is acknowledged, mounted or not.
ReloadUrls(c) ==
  IF c.arg \in Leases THEN {Url("leases", "")} ELSE ListUrls(PageOf(c.arg), c.filter)

\* Only loadTenants and loadUnits show that they run.
ActionAcknowledged(i) ==
  LET c == calls[i]
      urls == ReloadUrls(c)
      rest == RemoveAt(calls, i)
      reading == [c EXCEPT !.send = None, !.waits = urls, !.own = ~Shared(urls)]
  IN /\ c.op \in RowOperations /\ c.send # None /\ c.send.state = "ok"
     /\ gets' = Fetch(urls)
     /\ calls' = IF c.here THEN Append(rest, reading) ELSE rest
     /\ view' = IF c.here /\ c.arg \notin Leases
                  THEN [view EXCEPT !.loading = TRUE, !.error = FALSE]
                  ELSE view
     /\ listUnchanged /\ UNCHANGED <<token, unloading>>

\* Mutant: no finally.
AfterFailureBusy(c) == [view EXCEPT !.error = view.page = "tenants"]

\* catch and finally of the action; the units page alerts, the leases page shows
\* the message in a banner.
AfterFailure(c) ==
  [view EXCEPT !.acting = IF view.page = "leases" THEN @ \ {c.arg} ELSE {},
               !.error = @ \/ view.page = "tenants",
               !.timer = @ \/ view.page = "tenants",
               !.banner = @ \/ view.page = "leases"]

ActionRejected(i) ==
  LET c == calls[i]
  IN /\ c.op \in RowOperations /\ c.send # None
     /\ \E answer \in Answers(c.send) \ {"ok"} :
          /\ Settle(c.send, answer)
          /\ IF answer = "failed" THEN LeaveStray(c) ELSE UNCHANGED strays
     /\ calls' = RemoveAt(calls, i)
     /\ view' = IF c.here THEN AfterFailure(c) ELSE view
     /\ UNCHANGED <<db, expired, issued, gets, going, visits>>
=============================================================================
