------------------------------- MODULE Browser -------------------------------
(***************************************************************************)
(* A tab of the application from its first page on: the user, the pages,   *)
(* the API client, the network and the server, interleaved step by step.   *)
(***************************************************************************)
EXTENDS ListPages, FormPages

vars == <<apiVars, tabVars>>

Init ==
  /\ ApiInit
  /\ \E p \in FirstPages :
       /\ view = Blank(p) /\ calls = EntryCalls(p)
       /\ gets = [u \in EntryUrls(p) |-> Sent(token)]
  /\ going = None /\ unloading = FALSE /\ visits = 0

User ==
  \/ \E p \in Pages : Follow(p)
  \/ SignOut
  \/ Refresh
  \/ TenantsControls \/ UnitsControls \/ LeasesControls
  \/ LeaseForm \/ PaymentForm \/ TenantForm \/ PropertyForm \/ UnitForm
  \/ ArchiveButton \/ LoginForm \/ RegisterForm

Functions ==
  \/ \E u \in DOMAIN gets, ok \in BOOLEAN : DeliverGet(u, ok)
  \/ \E i \in DOMAIN calls :
       ActionAcknowledged(i) \/ ActionRejected(i) \/ Saved(i) \/ NotSaved(i)
  \/ ErrorTimer
  \/ Arrive
  \/ Unload

Server ==
  \/ /\ \/ \E u \in DOMAIN gets : ServeGet(u)
        \/ ServeStray
        \/ Expire
     /\ UNCHANGED tabVars
  \/ \E i \in DOMAIN calls : ServeSend(i)

Next == User \/ Functions \/ Server

Spec == Init /\ [][Next]_vars

-----------------------------------------------------------------------------
\* Every variable has its type, and a call waits for one request or for GETs
\* that are in flight.
TypeOK ==
  /\ DOMAIN db = Rows
  /\ expired \subseteq 1..issued /\ issued \in 1..MaxSessions /\ token \in 0..issued
  /\ view.page \in Pages /\ going \in Pages \cup {None} /\ unloading \in BOOLEAN
  /\ \A u \in DOMAIN gets : gets[u].state \in {"sent", "ok", "unauthorized"}
  /\ \A i \in DOMAIN calls :
       /\ calls[i].waits \subseteq DOMAIN gets
       /\ calls[i].send = None <=> calls[i].waits # {}

\* Busy controls have a reason: a spinner is shown only while a read of this
\* page is under way, a row is busy only while an action of this page is, and a
\* form is disabled only while it is being saved or left.  (But the finance page
\* spins on after a failure, and the form of a property stays disabled.)
SpinnersHaveCalls ==
  /\ view.loading /\ ~Page[view.page].spins => Here({"load", "archive", "restore"}) # {}
  /\ view.acting # {} /\ view.page # "leases" => Here({"archive", "restore"}) # {}
  /\ view.page = "leases" => view.acting = {calls[i].arg : i \in Here({"activate", "end"})}
  /\ view.submitting /\ ~Page[view.page].swallows =>
       Here({view.page}) # {} \/ (view.saved /\ going # None)

\* A lease row has at most one action under way, from the click to the reload.
OneActionPerLease ==
  \A i, j \in Here({"activate", "end"}) : calls[i].arg = calls[j].arg => i = j

\* The units page lists rows of the status its heading names, unless the user
\* switched while something was still under way.
UnitsUnderHeading ==
  UnitsShown /\ ~view.rushed => \A r \in view.rows : r[2] = view.filter

\* When nothing is being read, the lease form offers the units of the property
\* selected or none, unless two properties were selected in quick succession
\* (answers out of order leave the units of the former one).
LeaseFormSettles ==
  view.page \in LeaseForms /\ ~view.rushed /\ Here({"units", "load"}) = {} =>
    view.options \in {None, view.property}

\* Call i is a reload about to end that read the list itself (did not join a read
\* older than the action), and no other action interfered.
ReloadEndsWell(i) ==
  LET c == calls[i]
  IN /\ c.op \in RowOperations /\ c.here /\ c.own /\ c.alone /\ ~view.rushed
     /\ \E u \in DOMAIN gets :
          c.waits = {u} /\ gets[u].state = "ok" /\ u \notin DOMAIN gets'
     /\ view'.page = view.page /\ ~view'.loading /\ ~view'.error /\ ~view'.banner

\* The reload that ends an action shows what the action did, unless it joined a
\* read sent before it or another action interfered: an archived or restored row
\* has left the list, an activated or ended lease has its new status.
ReloadShowsAction ==
  [][\A i \in DOMAIN calls : ReloadEndsWell(i) =>
       LET c == calls[i]
       IN IF c.arg \in Leases THEN <<c.arg, Transition(c.op)[2]>> \in view'.rows
                              ELSE \A r \in view'.rows : r[1] # c.arg]_vars

\* A form that was saved is not submitted again while the tab is on its way to
\* the list, except the forms whose button is enabled too early.
SavedOnce ==
  [][\A i \in DOMAIN calls' :
       i \notin DOMAIN calls /\ view.saved /\ calls'[i].op = view.page
         => Page[view.page].early]_vars

\* A session that is valid is forgotten only when the user signs out, or when a
\* GET sent under an older session is refused late; the delayed refusal of a
\* mutating request never ends it.
ValidSessionKept ==
  [][Valid(token) /\ token' = 0 =>
       \/ view.page = "home" /\ view'.page = "login"
       \/ \E u \in DOMAIN gets : gets[u].state = "unauthorized" /\ gets[u].token # token]_vars
=============================================================================
