--------------------------- MODULE AccountService ---------------------------
(***************************************************************************)
(* Accounts and tenants: auth.controller.ts and tenant.controller.ts with  *)
(* the services they call, one action per database statement.  Hashing and *)
(* comparing a password are awaits between statements: other requests run  *)
(* meanwhile.                                                              *)
(*                                                                         *)
(* An account keeps its e-mail and its password, a tenant its landlord and *)
(* its e-mail.  A token is what a client holds afterwards: it names the    *)
(* account and is accepted for every request of that landlord.  Audit rows *)
(* are statements that may fail; their table is Backend's.  Tenants are    *)
(* archived and restored at any moment, as Backend details.                *)
(***************************************************************************)
EXTENDS FiniteSets

CONSTANTS
  Accounts,   \* ids cuid() may give to rows of users (a bound)
  Tenants,    \* ids cuid() may give to rows of tenants (a bound)
  Emails,     \* e-mail addresses
  Passwords,  \* passwords
  Workers,    \* requests being served at the same time (a bound)
  None        \* nothing

ASSUME AccountAssumption ==
  /\ Accounts \cap Tenants = {}
  /\ None \notin Accounts \cup Tenants \cup Emails \cup Passwords

Steps == {"idle", "lookup", "compare", "write", "answer", "audit"}

Operations == {"register", "login", "createTenant", "updateTenant"}

UserRow == [email: Emails, password: Passwords]
TenantRow == [user: Accounts, email: Emails]

\* The local variables of a handler; `account` is the caller of a tenant
\* endpoint, the row a login has read, or the one a registration has stored.
Request ==
  [op: Operations \cup {None}, account: Accounts \cup {None},
   id: Accounts \cup Tenants \cup {None},
   email: Emails \cup {None}, password: Passwords \cup {None}]

\* A token with the credentials it was issued for.
Token == [account: Accounts, email: Emails, password: Passwords]

VARIABLES
  user,      \* the table users: a function on the ids inserted so far
  tenant,    \* the table tenants
  archived,  \* the tenants whose deletedAt is set
  tokens,    \* every token issued so far
  pc,        \* the statement each worker runs next
  req        \* the local variables of each worker

tables == <<user, tenant, archived>>
vars == <<user, tenant, archived, tokens, pc, req>>

Body(op, account, id, email, password) ==
  [op |-> op, account |-> account, id |-> id, email |-> email, password |-> password]

NoRequest == Body(None, None, None, None, None)

Init ==
  /\ user = [i \in {} |-> None]
  /\ tenant = [i \in {} |-> None]
  /\ archived = {}
  /\ tokens = {}
  /\ pc = [w \in Workers |-> "idle"]
  /\ req = [w \in Workers |-> NoRequest]

-----------------------------------------------------------------------------
(* Queries and unique keys.                                                 *)

\* The account registered under an e-mail: at most one, as the key allows.
Registered(email) == {i \in DOMAIN user : user[i].email = email}

\* The tenants of a landlord with an e-mail, archived or not.
Listed(account, email) ==
  {t \in DOMAIN tenant : tenant[t].user = account /\ tenant[t].email = email}

OwnsTenant(account, t) == t \in DOMAIN tenant /\ tenant[t].user = account

\* Mutant: only the look-up before the insert keeps e-mails apart.
EmailFreeAlways(email) == TRUE

\* @unique on users.email.
EmailFree(email) == Registered(email) = {}

\* Mutant: archived tenants do not keep their e-mail.
KeyAcceptsArchived(t, row) == Listed(row.user, row.email) \subseteq {t} \cup archived

\* Mutant: an edited row is not checked.
KeyAcceptsEdits(t, row) == t \notin DOMAIN tenant => Listed(row.user, row.email) = {}

\* @@unique([userId, email]) accepts tenant t with this row.
KeyAccepts(t, row) == Listed(row.user, row.email) \subseteq {t}

FreeIds(ids, table) == ids \ (DOMAIN table \cup {req[w].id : w \in Workers})

Stored(table, id, row) == [i \in DOMAIN table \cup {id} |-> IF i = id THEN row ELSE table[i]]

-----------------------------------------------------------------------------
(* Control of a handler.                                                    *)

Goto(w, step) == pc' = [pc EXCEPT ![w] = step]

Finish(w) ==
  /\ Goto(w, "idle")
  /\ req' = [req EXCEPT ![w] = NoRequest]

Receive(w, request, step) ==
  /\ pc[w] = "idle"
  /\ req' = [req EXCEPT ![w] = request]
  /\ Goto(w, step)
  /\ UNCHANGED <<tables, tokens>>

At(w, op, step) == pc[w] = step /\ req[w].op = op

\* The answer carries a token for account i.
Grant(w, i) ==
  /\ tokens' = tokens \cup
       {[account |-> i, email |-> req[w].email, password |-> req[w].password]}
  /\ Finish(w)

\* The answer is an error.
Refuse(w) == Finish(w) /\ UNCHANGED <<tables, tokens>>

\* authMiddleware lets a request through for the account its token names.
Authenticated(account) == \E t \in tokens : t.account = account

-----------------------------------------------------------------------------
(* Registration and login.                                                  *)

ReceiveRegister(w) ==
  \E i \in FreeIds(Accounts, user), e \in Emails, p \in Passwords :
    Receive(w, Body("register", None, i, e, p), "lookup")

\* findUnique, then 409 or the hashing of the password.
LookupEmail(w) ==
  /\ At(w, "register", "lookup")
  /\ \/ /\ Registered(req[w].email) = {}
        /\ Goto(w, "write")
        /\ UNCHANGED <<tables, tokens, req>>
     \/ /\ Registered(req[w].email) # {}
        /\ Refuse(w)

\* The row is stored, and its account will be answered.
Stores(w, i) ==
  /\ user' = Stored(user, i, [email |-> req[w].email, password |-> req[w].password])
  /\ req' = [req EXCEPT ![w].account = i]
  /\ Goto(w, "answer")
  /\ UNCHANGED <<tenant, archived, tokens>>

\* Mutant: the loser of a race is signed in to the account that is there.
RegisterOrSignIn(w) ==
  /\ At(w, "register", "write")
  /\ \/ EmailFree(req[w].email) /\ Stores(w, req[w].id)
     \/ \E i \in Registered(req[w].email) : Grant(w, i) /\ UNCHANGED tables

\* The insert after the hashing; a P2002 is answered 500 "Registration failed".
Register(w) ==
  /\ At(w, "register", "write")
  /\ \/ EmailFree(req[w].email) /\ Stores(w, req[w].id)
     \/ ~EmailFree(req[w].email) /\ Refuse(w)

\* 201 with the token, unless the answer is lost.
AnswerRegistration(w) ==
  /\ At(w, "register", "answer")
  /\ Grant(w, req[w].account)
  /\ UNCHANGED tables

ReceiveLogin(w) ==
  \E e \in Emails, p \in Passwords :
    Receive(w, Body("login", None, None, e, p), "lookup")

\* findUnique: 401, or the row whose hash is compared next.
LookupAccount(w) ==
  /\ At(w, "login", "lookup")
  /\ \/ \E i \in Registered(req[w].email) :
          /\ req' = [req EXCEPT ![w].account = i]
          /\ Goto(w, "compare")
          /\ UNCHANGED <<tables, tokens>>
     \/ /\ Registered(req[w].email) = {}
        /\ Refuse(w)

\* bcrypt.compare with the row read; no request changes a password.
ComparePassword(w) ==
  LET r == req[w]
  IN /\ At(w, "login", "compare")
     /\ \/ /\ user[r.account].password = r.password
           /\ Grant(w, r.account)
           /\ UNCHANGED tables
        \/ /\ user[r.account].password # r.password
           /\ Refuse(w)

-----------------------------------------------------------------------------
(* Tenants.                                                                 *)

ReceiveCreateTenant(w) ==
  \E a \in Accounts, t \in FreeIds(Tenants, tenant), e \in Emails :
    /\ Authenticated(a)
    /\ Receive(w, Body("createTenant", a, t, e, None), "write")

\* Every field of an update is optional.
ReceiveUpdateTenant(w) ==
  \E a \in Accounts, t \in Tenants, e \in Emails \cup {None} :
    /\ Authenticated(a)
    /\ Receive(w, Body("updateTenant", a, t, e, None), "lookup")

\* The tenant may be archived.
LookupTenant(w) ==
  /\ At(w, "updateTenant", "lookup")
  /\ \/ /\ OwnsTenant(req[w].account, req[w].id)
        /\ Goto(w, "write")
        /\ UNCHANGED <<tables, tokens, req>>
     \/ /\ ~OwnsTenant(req[w].account, req[w].id)
        /\ Refuse(w)

\* The write of a tenant: the key decides, and P2002 is answered 409.
WriteTenant(w, row) ==
  \/ /\ KeyAccepts(req[w].id, row)
     /\ tenant' = Stored(tenant, req[w].id, row)
     /\ Goto(w, "audit")
     /\ UNCHANGED <<user, archived, tokens, req>>
  \/ /\ ~KeyAccepts(req[w].id, row)
     /\ Refuse(w)

CreateTenant(w) ==
  /\ At(w, "createTenant", "write")
  /\ WriteTenant(w, [user |-> req[w].account, email |-> req[w].email])

\* Mutant: an absent e-mail is written as well.
EditedTenantAlways(row, r) == [row EXCEPT !.email = r.email]

EditedTenant(row, r) == IF r.email = None THEN row ELSE [row EXCEPT !.email = r.email]

UpdateTenant(w) ==
  /\ At(w, "updateTenant", "write")
  /\ WriteTenant(w, EditedTenant(tenant[req[w].id], req[w]))

-----------------------------------------------------------------------------
\* createAuditLog.
WriteAudit(w) == pc[w] = "audit" /\ Refuse(w)

\* A statement fails, or the process restarts before the answer; what was
\* committed stays.
Fail(w) == pc[w] # "idle" /\ Refuse(w)

ArchiveTenant(t) ==
  /\ t \in DOMAIN tenant \ archived
  /\ archived' = archived \cup {t}
  /\ UNCHANGED <<user, tenant, tokens, pc, req>>

RestoreTenant(t) ==
  /\ t \in archived
  /\ archived' = archived \ {t}
  /\ UNCHANGED <<user, tenant, tokens, pc, req>>

ReceiveRequest(w) ==
  \/ ReceiveRegister(w) \/ ReceiveLogin(w)
  \/ ReceiveCreateTenant(w) \/ ReceiveUpdateTenant(w)

Step(w) ==
  \/ LookupEmail(w) \/ Register(w) \/ AnswerRegistration(w)
  \/ LookupAccount(w) \/ ComparePassword(w)
  \/ CreateTenant(w) \/ LookupTenant(w) \/ UpdateTenant(w)
  \/ WriteAudit(w)

Next ==
  \/ \E w \in Workers : ReceiveRequest(w) \/ Step(w) \/ Fail(w)
  \/ \E t \in Tenants : ArchiveTenant(t) \/ RestoreTenant(t)

Spec == Init /\ [][Next]_vars

-----------------------------------------------------------------------------
(* Properties.                                                              *)

\* Every variable stays in its type, and a tenant names a registered landlord.
TypeOK ==
  /\ \E ids \in SUBSET Accounts : user \in [ids -> UserRow]
  /\ \E ids \in SUBSET Tenants : tenant \in [ids -> [user: DOMAIN user, email: Emails]]
  /\ archived \subseteq DOMAIN tenant
  /\ tokens \subseteq Token
  /\ pc \in [Workers -> Steps]
  /\ req \in [Workers -> Request]

\* "User emails are globally unique": of registrations that pass the look-up
\* together, one is stored.
AccountsUnique ==
  \A i, j \in DOMAIN user : user[i].email = user[j].email => i = j

\* A token names the one account with the e-mail and password it was asked
\* for, now and ever after: nobody enters an account with another password,
\* and nobody is locked out of the account that credentials once opened.
TokensNameTheirAccount ==
  \A t \in tokens :
    /\ Registered(t.email) = {t.account}
    /\ user[t.account].password = t.password

\* "Tenant emails are unique per User": claimed when free and never taken from
\* another tenant, archived ones included.
Registry ==
  INSTANCE NameRegistry WITH
    Names <- Accounts \X Emails, Rows <- Tenants,
    holders <- [name \in Accounts \X Emails |-> Listed(name[1], name[2])]

ImplementsNameRegistry == Registry!Spec
=============================================================================
