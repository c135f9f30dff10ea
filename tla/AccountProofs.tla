---------------------------- MODULE AccountProofs ----------------------------
(***************************************************************************)
(* Proofs about AccountService, for any number of accounts, tenants,       *)
(* e-mails, passwords and concurrent requests.                             *)
(*                                                                         *)
(* The invariant adds to the unique keys what each handler relies on while *)
(* it hashes or compares a password and others run: the id it will insert  *)
(* is still its own, and the rows it has read are still there.             *)
(***************************************************************************)
EXTENDS AccountService, TLAPS

-----------------------------------------------------------------------------
(* The inductive invariant.                                                 *)

\* The types of TypeOK, with the ids that are in use named.
DataTyped ==
  /\ DOMAIN user \subseteq Accounts
  /\ user \in [DOMAIN user -> UserRow]
  /\ DOMAIN tenant \subseteq Tenants
  /\ tenant \in [DOMAIN tenant -> [user: DOMAIN user, email: Emails]]
  /\ archived \subseteq DOMAIN tenant
  /\ tokens \subseteq Token

ControlTyped ==
  /\ pc \in [Workers -> Steps]
  /\ req \in [Workers -> Request]

\* @@unique([userId, email]).
TenantsUnique ==
  \A s, t \in DOMAIN tenant :
    tenant[s].user = tenant[t].user /\ tenant[s].email = tenant[t].email => s = t

DataOK == DataTyped /\ AccountsUnique /\ TokensNameTheirAccount /\ TenantsUnique

\* Handlers that hold an id they have not inserted yet.
Inserting(w) ==
  \/ req[w].op = "register" /\ pc[w] \in {"lookup", "write"}
  \/ req[w].op = "createTenant" /\ pc[w] = "write"

\* What a registration or a login relies on at each statement.
SignInOK(w) ==
  LET r == req[w]
  IN /\ r.op \in {"register", "login"} /\ pc[w] # "idle"
          => r.email \in Emails /\ r.password \in Passwords
     /\ r.op = "register" /\ pc[w] \in {"lookup", "write"} => r.id \in Accounts \ DOMAIN user
     /\ r.op = "register" /\ pc[w] = "answer"
          => /\ r.account \in DOMAIN user
             /\ user[r.account].email = r.email
             /\ user[r.account].password = r.password
     /\ r.op = "login" /\ pc[w] = "compare"
          => r.account \in DOMAIN user /\ user[r.account].email = r.email

\* What a tenant endpoint relies on.
TenantHandlerOK(w) ==
  LET r == req[w]
  IN /\ r.op = "createTenant" /\ pc[w] = "write"
          => /\ r.account \in DOMAIN user
             /\ r.id \in Tenants \ DOMAIN tenant
             /\ r.email \in Emails
     /\ r.op = "updateTenant" /\ pc[w] = "write"
          => OwnsTenant(r.account, r.id)

HandlerOK(w) == SignInOK(w) /\ TenantHandlerOK(w)

\* No handler holds the id another is about to insert.
FreshIds ==
  \A w, v \in Workers : Inserting(w) /\ Inserting(v) /\ req[w].id = req[v].id => w = v

Inv ==
  /\ ControlTyped
  /\ DataOK
  /\ \A w \in Workers : HandlerOK(w)
  /\ FreshIds

-----------------------------------------------------------------------------
(* Frames.                                                                  *)

\* Rows are never deleted, a user row never changes, and a tenant stays with
\* its landlord; what is new is the row worker w inserts.
RowsKept(w) ==
  /\ DOMAIN user \subseteq DOMAIN user'
  /\ \A i \in DOMAIN user : user'[i] = user[i]
  /\ DOMAIN tenant \subseteq DOMAIN tenant'
  /\ \A t \in DOMAIN tenant : tenant'[t].user = tenant[t].user
  /\ \A i \in DOMAIN user' \ DOMAIN user : Inserting(w) /\ i = req[w].id
  /\ \A t \in DOMAIN tenant' \ DOMAIN tenant : Inserting(w) /\ t = req[w].id

\* A step of w disturbs what no other handler relies on.
LEMMA OthersKept ==
  ASSUME Inv, NEW w \in Workers, NEW v \in Workers, v # w, RowsKept(w),
         pc'[v] = pc[v], req'[v] = req[v]
  PROVE  HandlerOK(v)'
<1>1. HandlerOK(v)
  BY DEF Inv
<1>2. Inserting(v) => ~(Inserting(w) /\ req[w].id = req[v].id)
  BY DEF Inv, FreshIds
<1>3. SignInOK(v)'
  BY <1>1, <1>2 DEF HandlerOK, SignInOK, RowsKept, Inserting
<1>4. TenantHandlerOK(v)'
  BY <1>1, <1>2 DEF HandlerOK, TenantHandlerOK, RowsKept, Inserting, OwnsTenant
<1> QED
  BY <1>3, <1>4 DEF HandlerOK

\* A step of worker w to a given statement with given local variables.
LEMMA WorkerStep ==
  ASSUME Inv, NEW w \in Workers, NEW step \in Steps, NEW r \in Request,
         pc' = [pc EXCEPT ![w] = step], req' = [req EXCEPT ![w] = r],
         RowsKept(w), DataOK', HandlerOK(w)',
         Inserting(w)' => \/ Inserting(w) /\ r.id = req[w].id
                          \/ \A v \in Workers : r.id # req[v].id
  PROVE  Inv'
<1>1. ControlTyped
  BY DEF Inv
<1>2. ControlTyped'
  BY <1>1 DEF ControlTyped
<1>3. \A v \in Workers \ {w} : pc'[v] = pc[v] /\ req'[v] = req[v]
  BY <1>1 DEF ControlTyped
<1>4. req'[w] = r
  BY <1>1 DEF ControlTyped
<1>5. \A v \in Workers : HandlerOK(v)'
  BY <1>3, OthersKept
<1>6. FreshIds'
  <2> SUFFICES ASSUME NEW v \in Workers, NEW z \in Workers, v # z,
                      Inserting(v)', Inserting(z)', req'[v].id = req'[z].id
               PROVE  FALSE
    BY DEF FreshIds
  <2>1. CASE v # w /\ z # w
    BY <1>3, <2>1 DEF Inserting, Inv, FreshIds
  <2>2. CASE v = w
    BY <1>3, <1>4, <2>2 DEF Inserting, Inv, FreshIds
  <2>3. CASE z = w
    BY <1>3, <1>4, <2>3 DEF Inserting, Inv, FreshIds
  <2> QED
    BY <2>1, <2>2, <2>3
<1> QED
  BY <1>2, <1>5, <1>6 DEF Inv

\* The tables alone decide DataOK.
LEMMA SameData ==
  ASSUME Inv, UNCHANGED <<tables, tokens>>, NEW w \in Workers
  PROVE  DataOK' /\ RowsKept(w)
<1>1. user' = user /\ tenant' = tenant /\ archived' = archived /\ tokens' = tokens
  BY DEF tables
<1>2. DataOK'
  BY <1>1 DEF Inv, DataOK, DataTyped, AccountsUnique, TokensNameTheirAccount, Registered,
              TenantsUnique
<1>3. RowsKept(w)
  BY <1>1 DEF RowsKept
<1> QED
  BY <1>2, <1>3

LEMMA NoRequestType == NoRequest \in Request
  BY DEF NoRequest, Body, Request

\* Answering a request keeps the invariant when the data allow it.
LEMMA FinishStep ==
  ASSUME Inv, NEW w \in Workers, Finish(w), DataOK', RowsKept(w)
  PROVE  Inv'
<1>1. pc' = [pc EXCEPT ![w] = "idle"] /\ req' = [req EXCEPT ![w] = NoRequest]
  BY DEF Finish, Goto
<1>2. pc'[w] = "idle"
  BY <1>1 DEF Inv, ControlTyped
<1>3. HandlerOK(w)' /\ ~Inserting(w)'
  BY <1>2 DEF HandlerOK, SignInOK, TenantHandlerOK, Inserting
<1> QED
  BY <1>1, <1>3, WorkerStep, NoRequestType DEF Steps

LEMMA RefuseStep ==
  ASSUME Inv, NEW w \in Workers, Refuse(w)
  PROVE  Inv'
  BY SameData, FinishStep DEF Refuse

\* A read after which worker w goes on to the statement `step`.
LEMMA ReadStep ==
  ASSUME Inv, NEW w \in Workers, NEW step \in Steps, Goto(w, step),
         UNCHANGED <<tables, tokens, req>>, HandlerOK(w)', Inserting(w)' => Inserting(w)
  PROVE  Inv'
<1>1. req[w] \in Request /\ req' = [req EXCEPT ![w] = req[w]]
  BY DEF Inv, ControlTyped
<1>2. DataOK' /\ RowsKept(w)
  BY SameData
<1>3. pc' = [pc EXCEPT ![w] = step]
  BY DEF Goto
<1> QED
  BY <1>1, <1>2, <1>3, WorkerStep

-----------------------------------------------------------------------------
(* Requests arrive.                                                         *)

\* A request is received without touching the data.
LEMMA ReceiveStep ==
  ASSUME Inv, NEW w \in Workers, NEW step \in Steps, NEW r \in Request, Receive(w, r, step),
         (pc'[w] = step /\ req'[w] = r) => HandlerOK(w)',
         (pc'[w] = step /\ req'[w] = r) => (Inserting(w)' => \A v \in Workers : r.id # req[v].id)
  PROVE  Inv'
<1>1. pc' = [pc EXCEPT ![w] = step] /\ req' = [req EXCEPT ![w] = r]
  BY DEF Receive, Goto
<1>2. pc'[w] = step /\ req'[w] = r
  BY <1>1 DEF Inv, ControlTyped
<1>3. DataOK' /\ RowsKept(w)
  BY SameData DEF Receive
<1> QED
  BY <1>1, <1>2, <1>3, WorkerStep

LEMMA ReceiveRegisterStep ==
  ASSUME Inv, NEW w \in Workers, ReceiveRegister(w)
  PROVE  Inv'
<1>1. PICK i \in FreeIds(Accounts, user), e \in Emails, p \in Passwords :
        Receive(w, Body("register", None, i, e, p), "lookup")
  BY DEF ReceiveRegister
<1> DEFINE r == Body("register", None, i, e, p)
<1>2. i \in Accounts \ DOMAIN user /\ \A v \in Workers : i # req[v].id
  BY DEF FreeIds
<1>3. r \in Request /\ r.op = "register" /\ r.id = i /\ r.email = e /\ r.password = p
  BY <1>2 DEF Body, Request, Operations
<1>4. Receive(w, r, "lookup") /\ user' = user
  BY <1>1 DEF Receive, tables
<1> HIDE DEF r
<1>5. ASSUME pc'[w] = "lookup", req'[w] = r PROVE HandlerOK(w)'
  BY <1>2, <1>3, <1>4, <1>5 DEF HandlerOK, SignInOK, TenantHandlerOK
<1> QED
  BY <1>2, <1>3, <1>4, <1>5, ReceiveStep DEF Steps

LEMMA ReceiveLoginStep ==
  ASSUME Inv, NEW w \in Workers, ReceiveLogin(w)
  PROVE  Inv'
<1>1. PICK e \in Emails, p \in Passwords : Receive(w, Body("login", None, None, e, p), "lookup")
  BY DEF ReceiveLogin
<1> DEFINE r == Body("login", None, None, e, p)
<1>2. r \in Request /\ r.op = "login" /\ r.email = e /\ r.password = p
  BY DEF Body, Request, Operations
<1>3. Receive(w, r, "lookup")
  BY <1>1
<1> HIDE DEF r
<1>4. ASSUME pc'[w] = "lookup", req'[w] = r PROVE HandlerOK(w)' /\ ~Inserting(w)'
  BY <1>2, <1>4 DEF HandlerOK, SignInOK, TenantHandlerOK, Inserting
<1> QED
  BY <1>2, <1>3, <1>4, ReceiveStep DEF Steps

\* A token names a row of users, so the tenants' foreign key holds.
LEMMA CallersExist ==
  ASSUME DataOK, NEW a \in Accounts, Authenticated(a)
  PROVE  a \in DOMAIN user
  BY DEF DataOK, TokensNameTheirAccount, Registered, Authenticated

LEMMA ReceiveCreateTenantStep ==
  ASSUME Inv, NEW w \in Workers, ReceiveCreateTenant(w)
  PROVE  Inv'
<1>1. PICK a \in Accounts, t \in FreeIds(Tenants, tenant), e \in Emails :
        Authenticated(a) /\ Receive(w, Body("createTenant", a, t, e, None), "write")
  BY DEF ReceiveCreateTenant
<1> DEFINE r == Body("createTenant", a, t, e, None)
<1>2. t \in Tenants \ DOMAIN tenant /\ \A v \in Workers : t # req[v].id
  BY DEF FreeIds
<1>3. r \in Request /\ r.op = "createTenant" /\ r.account = a /\ r.id = t /\ r.email = e
  BY <1>2 DEF Body, Request, Operations
<1>4. Receive(w, r, "write") /\ user' = user /\ tenant' = tenant
  BY <1>1 DEF Receive, tables
<1>5. a \in DOMAIN user
  BY <1>1, CallersExist DEF Inv
<1> HIDE DEF r
<1>6. ASSUME pc'[w] = "write", req'[w] = r PROVE HandlerOK(w)'
  BY <1>2, <1>3, <1>4, <1>5, <1>6 DEF HandlerOK, SignInOK, TenantHandlerOK
<1> QED
  BY <1>2, <1>3, <1>4, <1>6, ReceiveStep DEF Steps

LEMMA ReceiveUpdateTenantStep ==
  ASSUME Inv, NEW w \in Workers, ReceiveUpdateTenant(w)
  PROVE  Inv'
<1>1. PICK a \in Accounts, t \in Tenants, e \in Emails \cup {None} :
        Receive(w, Body("updateTenant", a, t, e, None), "lookup")
  BY DEF ReceiveUpdateTenant
<1> DEFINE r == Body("updateTenant", a, t, e, None)
<1>2. r \in Request /\ r.op = "updateTenant"
  BY DEF Body, Request, Operations
<1>3. Receive(w, r, "lookup")
  BY <1>1
<1> HIDE DEF r
<1>4. ASSUME pc'[w] = "lookup", req'[w] = r PROVE HandlerOK(w)' /\ ~Inserting(w)'
  BY <1>2, <1>4 DEF HandlerOK, SignInOK, TenantHandlerOK, Inserting
<1> QED
  BY <1>2, <1>3, <1>4, ReceiveStep DEF Steps

-----------------------------------------------------------------------------
(* Registration and login.                                                  *)

LEMMA LookupEmailStep ==
  ASSUME Inv, NEW w \in Workers, LookupEmail(w)
  PROVE  Inv'
<1>1. CASE Refuse(w)
  BY <1>1, RefuseStep
<1>2. CASE Goto(w, "write") /\ UNCHANGED <<tables, tokens, req>>
  <2>1. pc'[w] = "write" /\ req' = req /\ user' = user /\ tenant' = tenant
    BY <1>2 DEF Goto, tables, Inv, ControlTyped
  <2>2. pc[w] = "lookup" /\ req[w].op = "register" /\ HandlerOK(w)
    BY DEF LookupEmail, At, Inv
  <2>3. HandlerOK(w)' /\ Inserting(w)
    BY <2>1, <2>2 DEF HandlerOK, SignInOK, TenantHandlerOK, Inserting
  <2> QED
    BY <1>2, <2>3, ReadStep DEF Steps
<1> QED
  BY <1>1, <1>2 DEF LookupEmail

\* The key of users makes the insert of a registration safe: no token names
\* the e-mail before.
LEMMA RegisterStep ==
  ASSUME Inv, NEW w \in Workers, Register(w)
  PROVE  Inv'
<1>1. CASE Refuse(w)
  BY <1>1, RefuseStep
<1>2. CASE EmailFree(req[w].email) /\ Stores(w, req[w].id)
  <2> DEFINE i == req[w].id
             row == [email |-> req[w].email, password |-> req[w].password]
             r == [req[w] EXCEPT !.account = i]
  <2>1. pc[w] = "write" /\ req[w].op = "register" /\ HandlerOK(w)
    BY DEF Register, At, Inv
  <2>2. i \in Accounts \ DOMAIN user /\ row \in UserRow
    BY <2>1 DEF HandlerOK, SignInOK, UserRow
  <2>3. /\ DOMAIN user' = DOMAIN user \cup {i}
        /\ user'[i] = row
        /\ \A j \in DOMAIN user : user'[j] = user[j]
        /\ user' = [j \in DOMAIN user \cup {i} |-> user'[j]]
    BY <1>2, <2>2 DEF Stores, Stored
  <2>4. tenant' = tenant /\ archived' = archived /\ tokens' = tokens
    BY <1>2 DEF Stores
  <2>5. /\ r \in Request
        /\ r.op = "register" /\ r.account = i /\ r.id = i
        /\ r.email = req[w].email /\ r.password = req[w].password
    BY <2>1, <2>2 DEF Inv, ControlTyped, Request
  <2>6. pc' = [pc EXCEPT ![w] = "answer"] /\ req' = [req EXCEPT ![w] = r]
    BY <1>2 DEF Stores, Goto
  <2>7. pc'[w] = "answer" /\ req'[w] = r
    BY <2>6 DEF Inv, ControlTyped
  <2>8. \A j \in DOMAIN user : user[j].email # row.email
    BY <1>2 DEF EmailFree, Registered
  <2>9. Inserting(w)
    BY <2>1 DEF Inserting
  <2>10. row.email = r.email /\ row.password = r.password
    BY <2>5
  <2>11. i = req[w].id
    OBVIOUS
  <2> HIDE DEF i, row, r
  <2>12. DataOK'
    <3>1. DataTyped'
      BY <2>2, <2>3, <2>4 DEF Inv, DataOK, DataTyped
    <3>2. AccountsUnique'
      BY <2>3, <2>8 DEF Inv, DataOK, AccountsUnique
    <3>3. TokensNameTheirAccount'
      <4> SUFFICES ASSUME NEW t \in tokens
                   PROVE  /\ Registered(t.email)' = {t.account}
                          /\ user'[t.account].password = t.password
        BY <2>4 DEF TokensNameTheirAccount, Registered
      <4>1. Registered(t.email) = {t.account} /\ user[t.account].password = t.password
        BY DEF Inv, DataOK, TokensNameTheirAccount
      <4>2. t.account \in DOMAIN user /\ user[t.account].email = t.email
        BY <4>1 DEF Registered
      <4>3. t.email # row.email
        BY <2>8, <4>2
      <4> QED
        BY <2>3, <4>1, <4>2, <4>3 DEF Registered
    <3>4. TenantsUnique'
      BY <2>4 DEF Inv, DataOK, TenantsUnique
    <3> QED
      BY <3>1, <3>2, <3>3, <3>4 DEF DataOK
  <2>13. RowsKept(w)
    BY <2>3, <2>4, <2>9, <2>11 DEF RowsKept
  <2>14. HandlerOK(w)' /\ ~Inserting(w)'
    BY <2>2, <2>3, <2>5, <2>7, <2>10, <2>1
       DEF HandlerOK, SignInOK, TenantHandlerOK, Inserting
  <2> QED
    BY <2>5, <2>6, <2>12, <2>13, <2>14, WorkerStep DEF Steps
<1> QED
  BY <1>1, <1>2 DEF Register

\* A token may be issued for the credentials that are in the row.
LEMMA GrantStep ==
  ASSUME Inv, NEW w \in Workers, NEW i \in DOMAIN user, Grant(w, i), UNCHANGED tables,
         req[w].email = user[i].email, req[w].password = user[i].password
  PROVE  Inv'
<1> DEFINE token == [account |-> i, email |-> req[w].email, password |-> req[w].password]
<1>1. user' = user /\ tenant' = tenant /\ archived' = archived /\ tokens' = tokens \cup {token}
  BY DEF Grant, tables
<1>2. user[i] \in UserRow /\ i \in Accounts
  BY DEF Inv, DataOK, DataTyped
<1>3. token \in Token
  BY <1>2 DEF Token, UserRow
<1>4. Registered(token.email) = {i}
  BY DEF Registered, Inv, DataOK, AccountsUnique
<1>5. token.account = i /\ token.password = user[i].password
  OBVIOUS
<1> HIDE DEF token
<1>6. DataTyped'
  BY <1>1, <1>3 DEF Inv, DataOK, DataTyped
<1>7. TokensNameTheirAccount'
  BY <1>1, <1>4, <1>5 DEF Inv, DataOK, TokensNameTheirAccount, Registered
<1>8. AccountsUnique' /\ TenantsUnique'
  BY <1>1 DEF Inv, DataOK, AccountsUnique, TenantsUnique
<1>9. RowsKept(w)
  BY <1>1 DEF RowsKept
<1> QED
  BY <1>6, <1>7, <1>8, <1>9, FinishStep DEF Grant, DataOK

LEMMA AnswerRegistrationStep ==
  ASSUME Inv, NEW w \in Workers, AnswerRegistration(w)
  PROVE  Inv'
<1>1. /\ req[w].account \in DOMAIN user
      /\ user[req[w].account].email = req[w].email
      /\ user[req[w].account].password = req[w].password
  BY DEF AnswerRegistration, At, Inv, HandlerOK, SignInOK
<1> QED
  BY <1>1, GrantStep DEF AnswerRegistration

LEMMA LookupAccountStep ==
  ASSUME Inv, NEW w \in Workers, LookupAccount(w)
  PROVE  Inv'
<1>1. CASE Refuse(w)
  BY <1>1, RefuseStep
<1>2. ASSUME NEW i \in Registered(req[w].email),
             req' = [req EXCEPT ![w].account = i], Goto(w, "compare"),
             UNCHANGED <<tables, tokens>>
      PROVE  Inv'
  <2> DEFINE r == [req[w] EXCEPT !.account = i]
  <2>1. i \in DOMAIN user /\ user[i].email = req[w].email /\ i \in Accounts
    BY DEF Registered, Inv, DataOK, DataTyped
  <2>2. /\ r \in Request
        /\ r.op = req[w].op /\ r.account = i /\ r.email = req[w].email
        /\ r.password = req[w].password
    BY <2>1 DEF Inv, ControlTyped, Request
  <2>3. req' = [req EXCEPT ![w] = r] /\ pc' = [pc EXCEPT ![w] = "compare"]
    BY <1>2 DEF Goto
  <2>4. req'[w] = r /\ pc'[w] = "compare" /\ user' = user
    BY <1>2, <2>3 DEF Inv, ControlTyped, tables
  <2>5. pc[w] = "lookup" /\ req[w].op = "login" /\ HandlerOK(w)
    BY DEF LookupAccount, At, Inv
  <2> HIDE DEF r
  <2>6. HandlerOK(w)' /\ ~Inserting(w)'
    BY <2>1, <2>2, <2>4, <2>5 DEF HandlerOK, SignInOK, TenantHandlerOK, Inserting
  <2>7. DataOK' /\ RowsKept(w)
    BY <1>2, SameData
  <2> QED
    BY <2>2, <2>3, <2>6, <2>7, WorkerStep DEF Steps
<1> QED
  BY <1>1, <1>2 DEF LookupAccount

LEMMA ComparePasswordStep ==
  ASSUME Inv, NEW w \in Workers, ComparePassword(w)
  PROVE  Inv'
<1>1. CASE Refuse(w)
  BY <1>1, RefuseStep
<1>2. CASE /\ user[req[w].account].password = req[w].password
           /\ Grant(w, req[w].account) /\ UNCHANGED tables
  <2>1. req[w].account \in DOMAIN user /\ user[req[w].account].email = req[w].email
    BY DEF ComparePassword, At, Inv, HandlerOK, SignInOK
  <2> QED
    BY <1>2, <2>1, GrantStep
<1> QED
  BY <1>1, <1>2 DEF ComparePassword

-----------------------------------------------------------------------------
(* Tenants.                                                                 *)

LEMMA LookupTenantStep ==
  ASSUME Inv, NEW w \in Workers, LookupTenant(w)
  PROVE  Inv'
<1>1. CASE Refuse(w)
  BY <1>1, RefuseStep
<1>2. CASE OwnsTenant(req[w].account, req[w].id) /\ Goto(w, "write")
           /\ UNCHANGED <<tables, tokens, req>>
  <2>1. pc'[w] = "write" /\ req' = req /\ user' = user /\ tenant' = tenant
    BY <1>2 DEF Goto, tables, Inv, ControlTyped
  <2>2. req[w].op = "updateTenant"
    BY DEF LookupTenant, At
  <2>3. HandlerOK(w)' /\ ~Inserting(w)'
    BY <1>2, <2>1, <2>2 DEF HandlerOK, SignInOK, TenantHandlerOK, Inserting, OwnsTenant
  <2> QED
    BY <1>2, <2>3, ReadStep DEF Steps
<1> QED
  BY <1>1, <1>2 DEF LookupTenant

\* A row that is new, or that keeps its landlord.
Writable(w, row) ==
  /\ req[w].id \in Tenants
  /\ row \in [user: DOMAIN user, email: Emails]
  /\ \/ req[w].id \notin DOMAIN tenant /\ Inserting(w)
     \/ req[w].id \in DOMAIN tenant /\ row.user = tenant[req[w].id].user

\* What WriteTenant does to the table when the key accepts the row.
LEMMA WrittenTable ==
  ASSUME NEW t, NEW row, tenant' = Stored(tenant, t, row)
  PROVE  /\ DOMAIN tenant' = DOMAIN tenant \cup {t}
         /\ tenant'[t] = row
         /\ \A s \in DOMAIN tenant \ {t} : tenant'[s] = tenant[s]
         /\ tenant' = [s \in DOMAIN tenant \cup {t} |-> tenant'[s]]
  BY DEF Stored

LEMMA WriteTenantStep ==
  ASSUME Inv, NEW w \in Workers, NEW row, WriteTenant(w, row), Writable(w, row),
         pc[w] = "write", req[w].op \in {"createTenant", "updateTenant"}
  PROVE  Inv'
<1>1. CASE Refuse(w)
  BY <1>1, RefuseStep
<1>2. CASE /\ KeyAccepts(req[w].id, row)
           /\ tenant' = Stored(tenant, req[w].id, row)
           /\ Goto(w, "audit")
           /\ UNCHANGED <<user, archived, tokens, req>>
  <2> DEFINE t == req[w].id
  <2>1. t \in Tenants /\ t = req[w].id
    BY DEF Writable
  <2>2. /\ DOMAIN tenant' = DOMAIN tenant \cup {t}
        /\ tenant'[t] = row
        /\ \A s \in DOMAIN tenant \ {t} : tenant'[s] = tenant[s]
        /\ tenant' = [s \in DOMAIN tenant \cup {t} |-> tenant'[s]]
    BY <1>2, WrittenTable
  <2>3. user' = user /\ archived' = archived /\ tokens' = tokens
    BY <1>2
  <2>4. \A s \in DOMAIN tenant \ {t} :
          ~(tenant[s].user = row.user /\ tenant[s].email = row.email)
    BY <1>2 DEF KeyAccepts, Listed
  <2>5. row \in [user: DOMAIN user, email: Emails]
    BY DEF Writable
  <2> HIDE DEF t
  <2>6. DataOK'
    <3>1. DataTyped'
      BY <2>1, <2>2, <2>3, <2>5 DEF Inv, DataOK, DataTyped
    <3>2. TenantsUnique'
      BY <2>2, <2>4 DEF Inv, DataOK, TenantsUnique
    <3>3. AccountsUnique' /\ TokensNameTheirAccount'
      BY <2>3 DEF Inv, DataOK, AccountsUnique, TokensNameTheirAccount, Registered
    <3> QED
      BY <3>1, <3>2, <3>3 DEF DataOK
  <2>7. RowsKept(w)
    BY <2>1, <2>2, <2>3 DEF RowsKept, Writable
  <2>8. pc' = [pc EXCEPT ![w] = "audit"] /\ req' = [req EXCEPT ![w] = req[w]]
        /\ req[w] \in Request
    BY <1>2 DEF Goto, Inv, ControlTyped
  <2>9. pc'[w] = "audit" /\ req'[w] = req[w]
    BY <2>8 DEF Inv, ControlTyped
  <2>10. HandlerOK(w)' /\ ~Inserting(w)'
    BY <2>9 DEF HandlerOK, SignInOK, TenantHandlerOK, Inserting
  <2> QED
    BY <2>6, <2>7, <2>8, <2>10, WorkerStep DEF Steps
<1> QED
  BY <1>1, <1>2 DEF WriteTenant

LEMMA CreatedRow ==
  ASSUME Inv, NEW w \in Workers, CreateTenant(w)
  PROVE  Writable(w, [user |-> req[w].account, email |-> req[w].email])
  BY DEF CreateTenant, At, Inv, HandlerOK, TenantHandlerOK, Writable, Inserting

\* An edit replaces the e-mail only when the request has one.
LEMMA EditedRow ==
  ASSUME Inv, NEW w \in Workers, UpdateTenant(w)
  PROVE  Writable(w, EditedTenant(tenant[req[w].id], req[w]))
<1>1. req[w].id \in DOMAIN tenant
  BY DEF UpdateTenant, At, Inv, HandlerOK, TenantHandlerOK, OwnsTenant
<1>2. tenant[req[w].id] \in [user: DOMAIN user, email: Emails] /\ req[w].id \in Tenants
  BY <1>1 DEF Inv, DataOK, DataTyped
<1>3. req[w].email \in Emails \cup {None}
  BY DEF Inv, ControlTyped, Request
<1> QED
  BY <1>1, <1>2, <1>3 DEF Writable, EditedTenant

LEMMA ArchivalStep ==
  ASSUME Inv, NEW t \in Tenants, ArchiveTenant(t) \/ RestoreTenant(t)
  PROVE  Inv'
<1>1. /\ user' = user /\ tenant' = tenant /\ tokens' = tokens /\ pc' = pc /\ req' = req
      /\ archived' \subseteq DOMAIN tenant
  BY DEF ArchiveTenant, RestoreTenant, Inv, DataOK, DataTyped
<1>2. DataOK'
  BY <1>1 DEF Inv, DataOK, DataTyped, AccountsUnique, TokensNameTheirAccount, Registered,
              TenantsUnique
<1>3. \A w \in Workers : HandlerOK(w)'
  BY <1>1 DEF Inv, HandlerOK, SignInOK, TenantHandlerOK, OwnsTenant
<1>4. ControlTyped' /\ FreshIds'
  BY <1>1 DEF Inv, ControlTyped, FreshIds, Inserting
<1> QED
  BY <1>2, <1>3, <1>4 DEF Inv

-----------------------------------------------------------------------------
(* The invariant holds of every behaviour.                                  *)

LEMMA InitInv == Init => Inv
<1> SUFFICES ASSUME Init PROVE Inv
  OBVIOUS
<1>1. ControlTyped /\ \A w \in Workers : pc[w] = "idle"
  BY NoRequestType DEF Init, ControlTyped, Steps
<1>2. DataOK
  BY DEF Init, DataOK, DataTyped, AccountsUnique, TokensNameTheirAccount, TenantsUnique
<1>3. \A w \in Workers : HandlerOK(w) /\ ~Inserting(w)
  BY <1>1 DEF HandlerOK, SignInOK, TenantHandlerOK, Inserting
<1> QED
  BY <1>1, <1>2, <1>3 DEF Inv, FreshIds

LEMMA WorkersInv ==
  ASSUME Inv, NEW w \in Workers, ReceiveRequest(w) \/ Step(w) \/ Fail(w)
  PROVE  Inv'
<1>1. CASE ReceiveRequest(w)
  BY <1>1, ReceiveRegisterStep, ReceiveLoginStep, ReceiveCreateTenantStep,
     ReceiveUpdateTenantStep DEF ReceiveRequest
<1>2. CASE LookupEmail(w) \/ Register(w) \/ AnswerRegistration(w)
  BY <1>2, LookupEmailStep, RegisterStep, AnswerRegistrationStep
<1>3. CASE LookupAccount(w) \/ ComparePassword(w)
  BY <1>3, LookupAccountStep, ComparePasswordStep
<1>4. CASE CreateTenant(w)
  BY <1>4, CreatedRow, WriteTenantStep DEF CreateTenant, At
<1>5. CASE UpdateTenant(w)
  BY <1>5, EditedRow, WriteTenantStep DEF UpdateTenant, At
<1>6. CASE LookupTenant(w)
  BY <1>6, LookupTenantStep
<1>7. CASE WriteAudit(w) \/ Fail(w)
  BY <1>7, RefuseStep DEF WriteAudit, Fail
<1> QED
  BY <1>1, <1>2, <1>3, <1>4, <1>5, <1>6, <1>7 DEF Step

LEMMA NextInv == Inv /\ [Next]_vars => Inv'
<1> SUFFICES ASSUME Inv, [Next]_vars PROVE Inv'
  OBVIOUS
<1>1. CASE UNCHANGED vars
  <2>1. user' = user /\ tenant' = tenant /\ archived' = archived /\ tokens' = tokens
        /\ pc' = pc /\ req' = req
    BY <1>1 DEF vars
  <2>2. DataOK' /\ ControlTyped'
    BY <2>1 DEF Inv, DataOK, DataTyped, AccountsUnique, TokensNameTheirAccount, Registered,
                TenantsUnique, ControlTyped
  <2>3. \A w \in Workers : HandlerOK(w)'
    BY <2>1 DEF Inv, HandlerOK, SignInOK, TenantHandlerOK, OwnsTenant
  <2>4. FreshIds'
    BY <2>1 DEF Inv, FreshIds, Inserting
  <2> QED
    BY <2>2, <2>3, <2>4 DEF Inv
<1>2. ASSUME NEW w \in Workers, ReceiveRequest(w) \/ Step(w) \/ Fail(w) PROVE Inv'
  BY <1>2, WorkersInv
<1>3. ASSUME NEW t \in Tenants, ArchiveTenant(t) \/ RestoreTenant(t) PROVE Inv'
  BY <1>3, ArchivalStep
<1> QED
  BY <1>1, <1>2, <1>3 DEF Next

LEMMA SpecInv == Spec => []Inv
  BY InitInv, NextInv, PTL DEF Spec

LEMMA InvTyped == Inv => TypeOK
<1> SUFFICES ASSUME Inv PROVE TypeOK
  OBVIOUS
<1>1. DOMAIN user \in SUBSET Accounts /\ user \in [DOMAIN user -> UserRow]
  BY DEF Inv, DataOK, DataTyped
<1>2. /\ DOMAIN tenant \in SUBSET Tenants
      /\ tenant \in [DOMAIN tenant -> [user: DOMAIN user, email: Emails]]
  BY DEF Inv, DataOK, DataTyped
<1>3. archived \subseteq DOMAIN tenant /\ tokens \subseteq Token
  BY DEF Inv, DataOK, DataTyped
<1>4. pc \in [Workers -> Steps] /\ req \in [Workers -> Request]
  BY DEF Inv, ControlTyped
<1>5. \E ids \in SUBSET Accounts : user \in [ids -> UserRow]
  BY <1>1
<1>6. \E ids \in SUBSET Tenants : tenant \in [ids -> [user: DOMAIN user, email: Emails]]
  BY <1>2
<1> QED
  BY <1>3, <1>4, <1>5, <1>6 DEF TypeOK

\* The tables of accounts and tenants keep their types, and a tenant always
\* names a registered landlord: a token that is accepted names a row.
THEOREM TypeCorrect == Spec => []TypeOK
  BY SpecInv, InvTyped, PTL

\* However many registrations of one e-mail pass findUnique and hash their
\* passwords together, one row of users is stored.
THEOREM AccountsStayUnique == Spec => []AccountsUnique
<1>1. Inv => AccountsUnique
  BY DEF Inv, DataOK
<1> QED
  BY SpecInv, <1>1, PTL

\* A token registration or login has issued names the one account whose
\* e-mail and password were given, for ever.
THEOREM TokensTrue == Spec => []TokensNameTheirAccount
<1>1. Inv => TokensNameTheirAccount
  BY DEF Inv, DataOK
<1> QED
  BY SpecInv, <1>1, PTL

-----------------------------------------------------------------------------
(* The tenants' e-mails as a registry of names.                             *)

LEMMA RegistryInit == Init => Registry!Init
  BY DEF Init, Registry!Init, Listed

\* What a step does to the holders of every name.
NamesChange ==
  \A a \in Accounts, e \in Emails :
    \/ Listed(a, e) = {} /\ \E t \in Tenants : Listed(a, e)' = {t}
    \/ Listed(a, e)' = {}
    \/ Listed(a, e)' = Listed(a, e)

LEMMA SameNames == tenant' = tenant => NamesChange
  BY DEF NamesChange, Listed

\* A write claims a name nobody holds and gives up the name of the row.
LEMMA WriteChangesNames ==
  ASSUME Inv, NEW w \in Workers, NEW row, WriteTenant(w, row), Writable(w, row)
  PROVE  NamesChange
<1>1. CASE Refuse(w)
  BY <1>1, SameNames DEF Refuse, tables
<1>2. CASE KeyAccepts(req[w].id, row) /\ tenant' = Stored(tenant, req[w].id, row)
  <2> DEFINE t == req[w].id
  <2>1. t \in Tenants
    BY DEF Writable
  <2>2. /\ DOMAIN tenant' = DOMAIN tenant \cup {t}
        /\ tenant'[t] = row
        /\ \A s \in DOMAIN tenant \ {t} : tenant'[s] = tenant[s]
    BY <1>2, WrittenTable
  <2>3. Listed(row.user, row.email) \subseteq {t}
    BY <1>2 DEF KeyAccepts
  <2> HIDE DEF t
  <2> SUFFICES ASSUME NEW a \in Accounts, NEW e \in Emails
               PROVE  \/ Listed(a, e) = {} /\ Listed(a, e)' = {t}
                      \/ Listed(a, e)' = {}
                      \/ Listed(a, e)' = Listed(a, e)
    BY <2>1 DEF NamesChange
  <2>4. CASE a = row.user /\ e = row.email
    <3>1. Listed(a, e)' = {t}
      BY <2>2, <2>3, <2>4 DEF Listed
    <3> QED
      BY <2>3, <2>4, <3>1
  <2>5. CASE ~(a = row.user /\ e = row.email)
    <3>1. Listed(a, e)' = Listed(a, e) \ {t}
      BY <2>2, <2>5 DEF Listed
    <3>2. t \in Listed(a, e) => Listed(a, e) = {t}
      BY DEF Inv, DataOK, TenantsUnique, Listed
    <3> QED
      BY <3>1, <3>2
  <2> QED
    BY <2>4, <2>5
<1> QED
  BY <1>1, <1>2 DEF WriteTenant

LEMMA StepChangesNames ==
  ASSUME Inv, [Next]_vars
  PROVE  NamesChange
<1>1. CASE UNCHANGED vars
  BY <1>1, SameNames DEF vars
<1>2. ASSUME NEW w \in Workers, ReceiveRequest(w) PROVE NamesChange
  BY <1>2, SameNames
     DEF ReceiveRequest, ReceiveRegister, ReceiveLogin, ReceiveCreateTenant,
         ReceiveUpdateTenant, Receive, tables
<1>3. ASSUME NEW w \in Workers, CreateTenant(w) PROVE NamesChange
  BY <1>3, CreatedRow, WriteChangesNames DEF CreateTenant
<1>4. ASSUME NEW w \in Workers, UpdateTenant(w) PROVE NamesChange
  BY <1>4, EditedRow, WriteChangesNames DEF UpdateTenant
<1>5. ASSUME NEW w \in Workers,
             \/ LookupEmail(w) \/ Register(w) \/ AnswerRegistration(w)
             \/ LookupAccount(w) \/ ComparePassword(w) \/ LookupTenant(w)
             \/ WriteAudit(w) \/ Fail(w)
      PROVE  NamesChange
  BY <1>5, SameNames
     DEF LookupEmail, Register, AnswerRegistration, LookupAccount, ComparePassword,
         LookupTenant, WriteAudit, Fail, Stores, Refuse, tables
<1>6. ASSUME NEW t \in Tenants, ArchiveTenant(t) \/ RestoreTenant(t) PROVE NamesChange
  BY <1>6, SameNames DEF ArchiveTenant, RestoreTenant
<1> QED
  BY <1>1, <1>2, <1>3, <1>4, <1>5, <1>6 DEF Next, Step

LEMMA RegistryStep ==
  ASSUME Inv, [Next]_vars
  PROVE  [Registry!Next]_[name \in Accounts \X Emails |-> Listed(name[1], name[2])]
<1> DEFINE holders == [name \in Accounts \X Emails |-> Listed(name[1], name[2])]
<1>1. NamesChange
  BY StepChangesNames
<1>2. \A name \in Accounts \X Emails :
        \/ holders[name] = {} /\ \E t \in Tenants : holders'[name] = {t}
        \/ holders'[name] = {}
        \/ holders'[name] = holders[name]
  BY <1>1 DEF NamesChange
<1>3. Registry!Next
  BY <1>2 DEF Registry!Next, Registry!Claimed, Registry!Released
<1> QED
  BY <1>3

\* A tenant's e-mail is claimed only when no tenant of the landlord holds it,
\* archived ones included, and never passes from one tenant to another.
THEOREM TenantEmailsRegistered == Spec => ImplementsNameRegistry
<1>1. Inv /\ [Next]_vars
        => [Registry!Next]_[name \in Accounts \X Emails |-> Listed(name[1], name[2])]
  BY RegistryStep
<1> QED
  BY <1>1, RegistryInit, SpecInv, PTL DEF Spec, Registry!Spec, ImplementsNameRegistry
=============================================================================
