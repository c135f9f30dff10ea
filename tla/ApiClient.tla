------------------------------ MODULE ApiClient ------------------------------
(***************************************************************************)
(* services/api.ts and lib/auth.ts in one browser tab, and the backend as  *)
(* this tab sees it.                                                       *)
(*                                                                         *)
(* A GET of a url that is already in flight shares its promise, so at most *)
(* one fetch per url exists and `gets` is inFlightRequests.  Every other   *)
(* request belongs to the one function call that awaits it (module Tab).   *)
(* The answers arrive in any order, or not at all, with or without the     *)
(* request having been executed.                                           *)
(***************************************************************************)
EXTENDS Integers, FiniteSets, Sequences, SequencesExt

CONSTANTS
  Tenants, Units, Leases,  \* rows the pages list: tenants and units of one property
  FirstStatus,             \* what every lease is when the tab opens
  MaxSessions,             \* sessions the account opens in this tab (a bound)
  None                     \* null

Rows == Tenants \cup Units \cup Leases

ASSUME RowsAssumption ==
  Tenants \cap Units = {} /\ Tenants \cap Leases = {} /\ Units \cap Leases = {}
ASSUME SessionsAssumption == MaxSessions \in Nat \ {0}
ASSUME FirstStatusAssumption == FirstStatus \in {"PENDING", "ACTIVE"}

VARIABLES
  db,       \* status of every row in the database
  expired,  \* sessions whose token the server refuses
  issued,   \* sessions opened so far; the tokens are their numbers
  token,    \* localStorage: number of the session, 0 when signed out
  gets,     \* inFlightRequests: a function on the urls being fetched
  strays    \* requests the tab no longer waits for and the server may execute

apiVars == <<db, expired, issued, token, gets, strays>>

\* A url is a pair: the path and the status asked for.
Url(path, status) == <<path, status>>

\* The rows the list endpoints select, with their status.
TenantRows(status) == {<<t, db[t]>> : t \in {t \in Tenants : db[t] = status}}
UnitRows(status) == {<<n, db[n]>> : n \in {n \in Units : db[n] = status}}
LeaseRows == {<<l, db[l]>> : l \in Leases}

\* Other bodies are opaque.
Body(u) ==
  CASE u[1] = "tenants" -> TenantRows(u[2])
    [] u[1] = "units" -> UnitRows(u[2])
    [] u[1] = "leases" -> LeaseRows
    [] OTHER -> {}

Valid(session) == session > 0 /\ session \notin expired

Sent(session) == [token |-> session, state |-> "sent", body |-> {}]

\* Mutant: the promise of any request in flight is returned.
FetchNothingElse(urls) == IF gets = [u \in {} |-> None] THEN [u \in urls |-> Sent(token)] ELSE gets

\* request() for GETs: with the current token, unless one is in flight.
Fetch(urls) ==
  [u \in DOMAIN gets \cup urls |-> IF u \in DOMAIN gets THEN gets[u] ELSE Sent(token)]

Shared(urls) == urls \cap DOMAIN gets # {}

-----------------------------------------------------------------------------
(* The server and the network.                                              *)

ServeGet(u) ==
  /\ gets[u].state = "sent"
  /\ gets' = [gets EXCEPT ![u] =
       IF Valid(@.token) THEN [@ EXCEPT !.state = "ok", !.body = Body(u)]
                         ELSE [@ EXCEPT !.state = "unauthorized"]]
  /\ UNCHANGED <<db, expired, issued, token, strays>>

\* The row a mutating request is about must be in the first status, and is in
\* the second one afterwards.
Transition(op) ==
  CASE op = "archive" -> <<"active", "archived">>
    [] op = "restore" -> <<"archived", "active">>
    [] op = "activate" -> <<"PENDING", "ACTIVE">>
    [] op = "end" -> <<"ACTIVE", "ENDED">>

RowOperations == {"archive", "restore", "activate", "end"}

Accepts(op, row) == op \in RowOperations => db[row] = Transition(op)[1]

Execute(op, row) ==
  db' = IF op \in RowOperations THEN [db EXCEPT ![row] = Transition(op)[2]] ELSE db

\* A request nobody waits for any more is executed late, or never.
ServeStray ==
  \E r \in strays :
    /\ strays' = strays \ {r}
    /\ \/ Accepts(r[1], r[2]) /\ Execute(r[1], r[2])
       \/ UNCHANGED db
    /\ UNCHANGED <<expired, issued, token, gets>>

\* A token reaches its end of life.
Expire ==
  \E s \in (1..issued) \ expired :
    /\ expired' = expired \cup {s}
    /\ UNCHANGED <<db, issued, token, gets, strays>>

-----------------------------------------------------------------------------
(* Answers with status 401.                                                 *)

\* Mutant: any 401 ends the session, as for a GET.
SendEndsSessionAlways(session) == TRUE

\* A mutating request ends the session only if it was sent under it: "an old
\* account's delayed failure must not sign out a newly active account".
SendEndsSession(session) == session > 0 /\ session = token

\* The session is forgotten.
RemoveToken == token' = 0

ApiInit ==
  /\ db = [r \in Rows |-> IF r \in Leases THEN FirstStatus ELSE "active"]
  /\ expired = {} /\ issued = 1 /\ token = 1
  /\ strays = {}
=============================================================================
