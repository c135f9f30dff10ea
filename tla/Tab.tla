--------------------------------- MODULE Tab ---------------------------------
(***************************************************************************)
(* One browser tab: the page shown, the state its components keep, and the *)
(* asynchronous functions of present and former pages that still await an  *)
(* answer.                                                                 *)
(*                                                                         *)
(* A function call runs from one await to the next without interruption,   *)
(* so a step either starts calls (a click, an effect) or hands one answer  *)
(* to the calls that await it.  Unmounting a page does not stop its calls: *)
(* what they still set is lost, what they still send is sent.              *)
(***************************************************************************)
EXTENDS ApiClient

CONSTANTS
  Pages,       \* pages this instance visits
  FirstPages,  \* pages the tab may be opened at
  Homes,       \* properties the lease form offers
  MaxRequests, \* requests the user lets pile up (a bound)
  MaxVisits    \* pages the user opens (a bound)

VARIABLES
  view,      \* state of the page shown
  calls,     \* the calls awaiting an answer, in the order they were made
  going,     \* the page router.push or router.replace is on its way to, or None
  unloading, \* window.location.href was assigned
  visits     \* pages the user opened or reloaded

tabVars == <<view, calls, going, unloading, visits>>

-----------------------------------------------------------------------------
(* The pages.  Each is a component that reads some urls when it is mounted, *)
(* and may save something with one request and leave for another page.      *)

\* A page with early returns for "loading", "error" and "nothing loaded".
Showing(urls) ==
  [reads |-> urls, options |-> {}, leaves |-> None,
   early |-> FALSE, swallows |-> FALSE, spins |-> FALSE]

\* A page that saves: its form is enabled again when that fails.
Saving(urls, target) == [Showing(urls) EXCEPT !.leaves = target]

HomePage == Showing({Url("dashboard", "")})
\* Its failure is logged; the spinner stays.
FinancePage == [Showing({Url("dashboard", "")}) EXCEPT !.spins = TRUE]
PropertiesPage == Showing({Url("properties", "")})
PaymentsPage == Showing({Url("payments", "")})
TenantPage == Showing({Url("tenant", "")})
\* Archiving is its save; `early`: a finally enables the button before the
\* navigation has taken place.
PropertyPage == [Saving({Url("property", "")}, "properties") EXCEPT !.early = TRUE]

TenantsPage == Showing({Url("tenants", "active")})
UnitsPage == Showing({Url("property", ""), Url("units", "active")})
LeasesPage == Showing({Url("leases", "")})

\* What the selects of the forms offer: loadOptions, loadLeases and loadUnits.
LeaseOptions == {Url("properties", ""), Url("tenants", "")}
PaymentOptions == {Url("leases", "")}
UnitUrls(home) == {Url("units of", home)}

NewLeasePage == [Saving({}, "leases") EXCEPT !.options = LeaseOptions]
EditLeasePage == [Saving({Url("lease", "")}, "leases") EXCEPT !.options = LeaseOptions]
EditPaymentPage == [Saving({Url("payment", "")}, "payments") EXCEPT !.options = PaymentOptions]
NewTenantPage == Saving({}, "tenants")
EditTenantPage == Saving({Url("tenant", "")}, "tenants")
NewPropertyPage == Saving({}, "properties")
\* Its own catch keeps the failure from the form, which stays disabled.
EditPropertyPage == [Saving({Url("property", "")}, "properties") EXCEPT !.swallows = TRUE]
NewUnitPage == [Saving({}, "units") EXCEPT !.early = TRUE]
EditUnitPage == [Saving({Url("unit", "")}, "units") EXCEPT !.early = TRUE]
LoginPage == Saving({}, "home")
RegisterPage == [Saving({}, "home") EXCEPT !.early = TRUE]

Page ==
  [home |-> HomePage, finance |-> FinancePage, properties |-> PropertiesPage,
   payments |-> PaymentsPage, tenant |-> TenantPage, property |-> PropertyPage,
   tenants |-> TenantsPage, units |-> UnitsPage, leases |-> LeasesPage,
   newLease |-> NewLeasePage, editLease |-> EditLeasePage,
   editPayment |-> EditPaymentPage, newTenant |-> NewTenantPage,
   editTenant |-> EditTenantPage, newProperty |-> NewPropertyPage,
   editProperty |-> EditPropertyPage, newUnit |-> NewUnitPage,
   editUnit |-> EditUnitPage, login |-> LoginPage, register |-> RegisterPage]

AllPages == DOMAIN Page
SavingPages == {p \in AllPages : Page[p].leaves # None}
AuthPages == {"login", "register"}
LeaseForms == {"newLease", "editLease"}

\* A mutating request, sent under a session, and what became of it.
Requests == [token : Nat, state : {"sent", "ok", "unauthorized"}]

ASSUME PagesAssumption ==
  /\ {"home", "login"} \subseteq Pages /\ Pages \subseteq AllPages
  /\ \A p \in Pages : Page[p].leaves \in Pages \cup {None}
ASSUME FirstAssumption == FirstPages \subseteq Pages \ AuthPages
\* A lease that is edited is a lease of some property.
ASSUME HomesAssumption == Homes # {}
ASSUME NoneAssumption == None \notin AllPages \cup Requests
ASSUME BoundAssumption == {MaxRequests, MaxVisits} \subseteq Nat

\* A call that awaits GETs, and one that awaits a mutating request first.
\* `own`: an action's GETs were not in flight before it; `alone`: no other action
\* on a row overlaps it.
Reading(op, arg, filter, urls) ==
  [op |-> op, arg |-> arg, filter |-> filter, here |-> TRUE, waits |-> urls,
   got |-> {}, send |-> None, own |-> TRUE, alone |-> TRUE]

Sending(op, arg, filter, session) ==
  [op |-> op, arg |-> arg, filter |-> filter, here |-> TRUE, waits |-> {},
   got |-> {}, send |-> [token |-> session, state |-> "sent"], own |-> TRUE, alone |-> TRUE]

Here(ops) == {i \in DOMAIN calls : calls[i].here /\ calls[i].op \in ops}
RowCalls == {i \in DOMAIN calls : calls[i].op \in RowOperations}

\* Requests in flight, the server's own included.
InFlight ==
  Cardinality(DOMAIN gets) + Cardinality(strays)
    + Cardinality({i \in DOMAIN calls : calls[i].send # None})

\* A bound: the user acts only while few requests, and few calls, are under way.
UserMayAct == ~unloading /\ InFlight < MaxRequests /\ Len(calls) < MaxRequests

-----------------------------------------------------------------------------
(* Mounting and unmounting.                                                 *)

\* The effects of a page that is mounted; the select boxes of a form read their
\* options when it is rendered, at once unless it waits for its record.
Loads(p) == Page[p].reads # {}
EntryUrls(p) == IF Loads(p) THEN Page[p].reads ELSE Page[p].options
EntryCalls(p) ==
  IF EntryUrls(p) = {} THEN <<>>
  ELSE <<Reading(IF Loads(p) THEN "load" ELSE "options", None, "active", EntryUrls(p))>>

\* Initial values of useState; rows is the list or the record loaded.
Blank(p) ==
  [page |-> p, filter |-> "active", loading |-> Loads(p), error |-> FALSE,
   rows |-> IF p \in {"tenants", "leases", "properties", "payments"} THEN {} ELSE None,
   acting |-> {}, asking |-> None, banner |-> FALSE, timer |-> FALSE, rushed |-> FALSE,
   choices |-> FALSE, property |-> None, unit |-> None, options |-> None,
   submitting |-> FALSE, saved |-> FALSE]

\* The positions in S, in their order, and the elements of a sequence at these.
InOrder(S) ==
  CHOOSE f \in [1..Cardinality(S) -> S] : \A j, k \in DOMAIN f : j < k => f[j] < f[k]
Only(cs, S) == [k \in 1..Cardinality(S) |-> cs[InOrder(S)[k]]]

\* The calls of the page that go on: a GET's answer would set nothing any more.
Unmounted(cs) ==
  Only([i \in DOMAIN cs |-> [cs[i] EXCEPT !.here = FALSE]],
       {i \in DOMAIN cs : cs[i].send # None})

\* Client-side navigation: the former page is unmounted, p is mounted.
Mount(p) ==
  /\ p \in Pages
  /\ view' = Blank(p)
  /\ calls' = Unmounted(calls) \o EntryCalls(p)
  /\ gets' = Fetch(EntryUrls(p))
  /\ going' = None

\* A fresh document: nothing of the former one is left but what it has sent.
FreshDocument(p) ==
  /\ view' = Blank(p)
  /\ calls' = EntryCalls(p)
  /\ gets' = [u \in EntryUrls(p) |-> Sent(token)]
  /\ strays' = strays \cup
       {<<calls[i].op, calls[i].arg>> : i \in {i \in RowCalls :
          calls[i].send # None /\ calls[i].send.state = "sent"}}
  /\ going' = None
  /\ unloading' = FALSE
  /\ UNCHANGED <<db, expired, issued, token>>

-----------------------------------------------------------------------------
(* Navigation.                                                              *)

\* A link, or the history of the browser; the layout shows the pages of the
\* application to a user who is signed in, and the others link to each other.
Follow(p) ==
  /\ UserMayAct
  /\ p # view.page
  /\ p \in AuthPages <=> view.page \in AuthPages
  /\ visits < MaxVisits /\ visits' = visits + 1
  /\ Mount(p)
  /\ UNCHANGED <<db, expired, issued, token, strays, unloading>>

\* The navigation a function asked for takes place; a page that is shown already
\* keeps its state.
Arrive ==
  /\ going # None
  /\ IF going = view.page THEN going' = None /\ UNCHANGED <<view, calls, gets>>
                           ELSE Mount(going)
  /\ UNCHANGED <<db, expired, issued, token, strays, unloading, visits>>

\* logout: the token is removed, the layout renders nothing, then the login page.
SignOut ==
  /\ UserMayAct
  /\ view.page = "home" /\ view.rows # None /\ ~view.loading /\ ~view.error
  /\ RemoveToken
  /\ Mount("login")
  /\ UNCHANGED <<db, expired, issued, strays, unloading, visits>>

\* The document assigned by a 401 replaces this one.
Unload == unloading /\ FreshDocument("login") /\ UNCHANGED visits

\* The user reloads the page; without a user record the layout redirects.
Refresh ==
  /\ UserMayAct
  /\ visits < MaxVisits /\ visits' = visits + 1
  /\ FreshDocument(IF token = 0 /\ view.page \notin AuthPages THEN "login" ELSE view.page)

-----------------------------------------------------------------------------
(* Mutating requests.                                                       *)

WithSend(i, state) == [calls EXCEPT ![i].send.state = state]

\* The server executes the request, or refuses its token.  A sign-in carries
\* none, and is answered with a new one.
ServeSend(i) ==
  LET c == calls[i]
  IN /\ c.send # None /\ c.send.state = "sent"
     /\ \/ /\ c.op \in AuthPages
           /\ issued < MaxSessions
           /\ issued' = issued + 1
           /\ calls' = [calls EXCEPT ![i].send = [token |-> issued + 1, state |-> "ok"]]
           /\ UNCHANGED db
        \/ /\ c.op \notin AuthPages
           /\ Valid(c.send.token)
           /\ Accepts(c.op, c.arg)
           /\ Execute(c.op, c.arg)
           /\ calls' = WithSend(i, "ok")
           /\ UNCHANGED issued
        \/ /\ c.op \notin AuthPages
           /\ ~Valid(c.send.token)
           /\ calls' = WithSend(i, "unauthorized")
           /\ UNCHANGED <<db, issued>>
     /\ UNCHANGED <<expired, token, gets, strays, view, going, unloading, visits>>

\* The answers a mutating request may get: its acknowledgement, the refusal of
\* its token, or a failure - an error status, a broken connection, the ten seconds
\* a sign-in waits being over - whether it is executed or not.
Answers(send) == {"failed"} \cup ({send.state} \ {"sent"})

\* After a failure without an answer the server may still execute it.
LeaveStray(c) ==
  \/ UNCHANGED strays
  \/ /\ c.send.state = "sent"
     /\ c.op \in RowOperations
     /\ strays' = strays \cup {<<c.op, c.arg>>}

\* request() after the await of fetch: a 401 ends the session and the document.
Settle(send, answer) ==
  IF answer = "unauthorized" /\ SendEndsSession(send.token)
    THEN RemoveToken /\ unloading' = TRUE
    ELSE UNCHANGED <<token, unloading>>

-----------------------------------------------------------------------------
(* Answers to GETs.                                                         *)

\* The record an edit form is opened with: the first property.
Preset == CHOOSE h \in Homes : TRUE

\* The positions of the calls that await u, and of those its answer ends: a call
\* with another read to wait for goes on, unless this one failed.
Awaiting(u) == {i \in DOMAIN calls : u \in calls[i].waits}
Ending(u, ok) == {i \in Awaiting(u) : ok => calls[i].waits = {u}}

Told(u) ==
  [i \in DOMAIN calls |->
     IF i \in Awaiting(u)
       THEN [calls[i] EXCEPT !.waits = @ \ {u}, !.got = @ \cup gets[u].body]
       ELSE calls[i]]

\* In the operators below, `ended` holds the calls that end, at their positions;
\* what two of them set is what the later one sets.
Of(ended, ops) == {i \in DOMAIN ended : ended[i].op \in ops}
Later(ended, ops) == ended[Max(Of(ended, ops))]

\* try / catch / finally around the reads of a page.
LoadEnds(v, ended, ok) ==
  LET loads == {"load", "archive", "restore"}
      filled == ok /\ v.page = "editLease"
  IN IF Of(ended, loads) = {} \/ (~ok /\ Page[v.page].spins) THEN v
     ELSE [v EXCEPT !.loading = FALSE, !.error = @ \/ ~ok,
                    !.rows = IF ok THEN Later(ended, loads).got ELSE @,
                    !.property = IF filled THEN Preset ELSE @,
                    !.unit = IF filled THEN Preset ELSE @]

\* The finally of handleArchive and handleRestore.
ArchivalEnds(v, ended) ==
  IF Of(ended, {"archive", "restore"}) = {} THEN v ELSE [v EXCEPT !.acting = {}]

\* Mutant: the rows an action reads afterwards are not set.
ReloadEndsIgnored(v, ended, ok) ==
  LET reloads == Of(ended, {"activate", "end"})
  IN IF reloads = {} THEN v
     ELSE [v EXCEPT !.acting = @ \ {ended[i].arg : i \in reloads}, !.banner = @ \/ ~ok]

\* reloadLeases, and the finally of handleAction.
ReloadEnds(v, ended, ok) ==
  LET reloads == Of(ended, {"activate", "end"})
  IN IF reloads = {} THEN v
     ELSE [v EXCEPT !.rows = IF ok THEN Later(ended, {"activate", "end"}).got ELSE @,
                    !.acting = @ \ {ended[i].arg : i \in reloads},
                    !.banner = @ \/ ~ok]

\* Mutant: loadUnits keeps the old units when the new ones cannot be had.
UnitsEndKept(v, ended, ok) ==
  IF Of(ended, {"units"}) = {} \/ ~ok THEN v
  ELSE [v EXCEPT !.options = Later(ended, {"units"}).arg]

UnitsEnd(v, ended, ok) ==
  IF Of(ended, {"units"}) = {} THEN v
  ELSE [v EXCEPT !.options = IF ok THEN Later(ended, {"units"}).arg ELSE None]

OptionsEnd(v, ended, ok) ==
  [v EXCEPT !.choices = @ \/ (ok /\ Of(ended, {"options"}) # {})]

\* The view after these calls have what they awaited, or one read of theirs failed.
Resume(v, ended, ok) ==
  UnitsEnd(OptionsEnd(
    ReloadEnds(ArchivalEnds(LoadEnds(v, ended, ok), ended), ended, ok), ended, ok), ended, ok)

\* The effects of a form rendered when its record is loaded.
FormReads(ended, ok) ==
  IF ~ok \/ Of(ended, {"load"}) = {} THEN <<>>
  ELSE (IF Page[view.page].options = {} THEN <<>>
        ELSE <<Reading("options", None, "active", Page[view.page].options)>>)
       \o (IF view.page = "editLease"
             THEN <<Reading("units", Preset, "active", UnitUrls(Preset))>> ELSE <<>>)

\* Every call that awaits u learns its outcome.  A GET may fail at any time, with
\* an error status or without an answer.
DeliverGet(u, ok) ==
  LET ending == Ending(u, ok)
      ended == [i \in ending |-> Told(u)[i]]
      started == FormReads(ended, ok)
      asked == UNION {started[i].waits : i \in DOMAIN started}
  IN /\ ok => gets[u].state = "ok"
     /\ view' = Resume(view, ended, ok)
     /\ calls' = Only(Told(u), DOMAIN calls \ ending) \o started
     /\ gets' = [w \in (DOMAIN gets \ {u}) \cup asked |->
                   IF w \in DOMAIN gets \ {u} THEN gets[w] ELSE Sent(token)]
     /\ IF gets[u].state = "unauthorized" THEN RemoveToken /\ unloading' = TRUE
                                          ELSE UNCHANGED <<token, unloading>>
     /\ UNCHANGED <<db, expired, issued, strays, going, visits>>
=============================================================================
