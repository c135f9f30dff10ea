# PropManager Pro: a formal model

PropManager Pro lets landlords keep properties, units, tenants, leases and
payments. A Next.js front end calls an Express API, whose services talk to one
PostgreSQL database through Prisma. This directory models the parts of it that
can go wrong in ways a test hardly reaches: requests that overlap, statements
that fail half-way, answers that are lost, tabs that are closed.

Paths below are relative to the repository; `src/` is its root.

## 1. Inventory

| Component | State | Operations | Works with | What is hard | What makes it correct |
|---|---|---|---|---|---|
| Lease lifecycle (`backend/src/services/lease.service.ts`, its controller and validator) | `leases` rows, the partial unique index on ACTIVE leases | create, update, activate, terminate, restore, end | reads properties, units, tenants; writes audit rows | checks and writes are separate statements; lifecycle operations run outside transactions; writes select by id alone | one ACTIVE lease per unit; rows of one landlord; ordered dates; the documented state machine; a truthful termination stamp |
| Archival and unit moves (unit, tenant, property services) | `deletedAt`, `units.propertyId` | archive, restore, move | query active leases | check-then-write against lease operations | an archived unit or tenant has no active lease; a unit stays with its landlord |
| Payment creation (`payment.controller.ts`, `payment.service.ts`, `paymentRequest.service.ts`) | `payments`, `payment_create_requests`, `audit_logs` | claim, check, insert, audit, complete, commit, replay | lease and tenant rows, which change meanwhile | requests with one key race; lock waits and timeouts; lost answers; retries after edits | exactly one payment per request identity, confirmed only with its own snapshot; payment, audit row and claim commit together |
| Payment updates | `payments`, `audit_logs` | read, check, update, audit, commit | archival of the property | the audit row's previous state is read before the transaction | history is kept: completed payments never change, none disappears |
| Browser payment recovery (`frontend/src/lib/paymentRecovery.ts`) | `localStorage` (attempt, marker, block), a Web Lock per user, the session | start, retry, reconcile | the payment API; sign-in in any tab | several tabs; closed tabs; storage failures; account changes; unknown outcomes | one open attempt; a recorded payment leaves evidence; markers tell the truth |
| Audit log (`audit.service.ts`) | `audit_logs` | insert, query | every mutation | separate statement for all but payments | rows name the change made |
| Property and unit creation and fields (property and unit services) | `properties`, `units` with a unique number per property | create a property with its units, create, rename and move units | archival | several rows in one transaction; races to a number; archived units come back | a number has one unit, a property is never seen without its units |
| Tenant creation and fields (`tenant.service.ts`) | `tenants` with a unique e-mail per landlord | create, update | archival | races to an e-mail | an e-mail has one tenant per landlord |
| Accounts (`auth.service.ts`, `auth.middleware.ts`) | `users`, JWTs | register, login, verify | every request | look-up, hashing and insert are apart; lost answers | one account per e-mail; a token names the account of its credentials |
| Dashboard (`financeAnalytics.service.ts`) | none | metrics, revenue, outstanding rent | all tables | four concurrent reads; month boundaries | never more occupied units than units; figures that agree when nothing changes |
| API client (`frontend/src/services/api.ts`, `lib/auth.ts`) | the map of GETs in flight, the session | request | all pages | shared GETs; answers in any order or none; late 401s of an older session | a 401 ends the session it is about |
| List pages (tenants, units, leases) | rows, filter, busy row, error | load, switch, archive, restore, activate, end | API client | several functions at work on one page, and on pages already left | rows are what the heading says; an action's effect is shown; controls are busy only while something runs |
| Forms and detail pages | record, options, submitting | load, select, save and leave | API client, router | answers out of order; a second submit before the navigation | options of the selected property; saved once |
| Session and navigation (`AuthContext.tsx`, `(app)/layout.tsx`, login, register) | token, user | sign in, sign out, navigate, reload | all pages | requests of former pages and sessions still on their way | a valid session is kept |
| Middleware, routes, server, health, caches, static pages, scripts | - | - | - | wiring and rendering | - |

Requests meet only in the database: handlers are `async` functions on one event
loop (and maybe several processes), so between any two awaited statements of one
handler any number of statements of others may run. That is the unit of
interleaving of every backend module. In the browser the unit is the same, from one
`await` to the next: a page's function gives way whenever it waits for an answer, and
goes on even if the page has been left.

## 2. Modules

| Module | Models | Part |
|---|---|---|
| `Tables` | the tables the lease and portfolio services share, the shared `where` clauses, the unique index, the control of a handler | Backend |
| `LeaseService` | the six mutating lease endpoints, one action per statement | Backend |
| `PortfolioService` | archive, restore and unit moves, one action per statement | Backend |
| `Backend` | both services, audit rows and failures over one database; the properties | Backend |
| `UnitOccupancy` | abstract: a unit is occupied by at most one lease at a time | Backend |
| `LeaseStateMachine` | abstract: PENDING, ACTIVE, ENDED, TERMINATED and the documented transitions | Backend |
| `BackendProofs` | theorems about `Backend` | Backend |
| `SerialProofs` | theorems about `Backend` when requests do not overlap | Backend |
| `PaymentService` | `createPaymentHandler` and `updatePaymentHandler`, one action per statement | Payments |
| `Payments` | the handlers with failures, archival and tenant changes; the properties | Payments |
| `ExactlyOncePayment` | abstract: an identity is paid at most once and told only what was recorded | Payments |
| `PaymentProofs` | theorems about `Payments` | Payments |
| `PaymentRecovery` | the tabs of one browser, their storage, locks and requests | Browser |
| `RecoveryProofs` | theorems about `PaymentRecovery` | Browser |
| `HoldingService` | creation and editing of properties and units, one action per statement | Holdings |
| `HoldingProofs` | theorems about `HoldingService` | Holdings |
| `AccountService` | registration, login, and creation and editing of tenants | Accounts |
| `AccountProofs` | theorems about `AccountService` | Accounts |
| `NameRegistry` | abstract: a name has one holder and is claimed only when free | Holdings, Accounts |
| `Dashboard` | the queries of `GET /api/finance/dashboard` over the tables of `Backend` | Backend |
| `DashboardProofs` | theorems about `Dashboard` | Backend |
| `ApiClient` | `services/api.ts` in one tab: shared GETs, answers, 401s; the server as the tab sees it | Browser |
| `Tab` | the pages, what each reads and saves, mounting, navigation, the calls that await an answer | Browser |
| `ListPages` | tenants, units of a property, leases: actions on rows, reloads, active and archived rows | Browser |
| `FormPages` | the forms, the archive button of a property, sign-in and registration | Browser |
| `Browser` | a whole tab; the properties | Browser |
| `BrowserProofs` | theorems about `Browser` | Browser |
| `MCBackend`, `MCDashboard`, `MCPayments`, `MCRecovery`, `MCHolding`, `MCAccounts`, `MCBrowser` | small instances for TLC | - |

Backend and Payments are separate compositions because payments read a lease's
property and tenant and write neither; in `Payments` the lease side is the two
environment actions `SetArchived` and `ReassignLease`. `PaymentRecovery` assumes
of the server what `Payments` is proved to give: under one key a payment is
recorded at most once, so there `recorded` is a set of keys. `HoldingService` and
`AccountService` are compositions of their own: rows are created there that the
other modules take as given, and archiving and restoring, whose rules `Backend`
checks, happen at any moment. `Browser` composes the API client, the pages and a server
reduced to the status of the rows the pages list and the validity of sessions; how the
server decides is in the backend modules.

### How state and actions correspond

* **A handler** is a worker: `pc[w]` names its next database statement, `req[w]`
  is the record of its local variables. `Receive...` accepts a request in any
  shape the zod schema accepts; every following action is one awaited statement
  with the code up to the next one. An early return or a thrown error is the
  disjunct that ends in `Finish` or `Leave`: the handler answers and is idle.
* **Tables** are functions from ids to rows. A row carries the columns that rules
  read: status, relationships, dates, `deletedAt` (the set `archived`), whether
  `terminatedAt` is set. Amounts, names, notes, methods are left out; of a payment,
  the lease, tenant, status and date are kept, and the date stands for all fields
  that may be omitted on creation or edited later.
* **Transactions.** `createLease` and `updateLease` run in an interactive
  transaction at the default isolation (read committed) whose only write is the
  last statement, so each of their reads sees what is committed by then and a
  failure has nothing to undo: they are modelled without a separate commit step.
  Payment creation writes several rows: its effects stay in `req[w]` until `Commit`
  puts them all in the tables, and another transaction feels them only as a lock
  (`ClaimedByOther`, `LockedByOther`).
* **Unique keys.** `IndexAccepts` refuses an insert or update that would give a unit a
  second ACTIVE lease (the 409 of `translateActiveLeaseConflict`). `KeyAccepts` and
  `EmailFree` are the unique keys on unit numbers and e-mails, which count archived rows. `Claim` waits
  while another open transaction holds the key, then inserts, or gets error 23505 and
  turns to the replay; `ClaimTimeout` is error 55P03 and the 503.
* **Failures.** `Fail` ends a handler before any of its statements: a lost
  connection, an exhausted pool, a timed-out transaction, a restart. In Backend the rows
  already committed stay and the audit row never follows; in Payments the open
  transaction is rolled back, and after the commit only the answer is lost.
* **The browser.** `tab[t].stage` is the next access to storage or network of
  `startPayment`, `submitSavedPayment` or `reconcilePaymentAttempt`. The Web
  Lock of a user is held by the tab whose action is for that user, so it needs
  no variable; closing the tab releases it while its request lives on in
  `orphans`. Token and user record are two entries of storage, as in `lib/auth.ts`,
  and `SignIn` and `StoreUser` write them one after the other.
* **A page** is a record of `Page`: the urls it reads when it is mounted, what its selects
  offer, where it goes once it has saved. `view` is the `useState` of the page shown; a
  page unmounted loses it.
* **An asynchronous function** of a page is a record in `calls`: what it waits for, the rows
  it has got, the filter its closure was made under, and whether the page it belongs to
  is still here. `DeliverGet` resolves one promise of `inFlightRequests` and resumes all
  who share it, in the order they asked; `ActionAcknowledged`, `ActionRejected`, `Saved` and
  `NotSaved` are the code after the `await` of a mutating request.
* **Navigation** is `going` (asked for by `router.push` or `replace`, taken by `Arrive`) or
  `unloading` (`window.location.href` was assigned, `Unload` replaces the document). In
  between, functions go on and the user may still click, except while the document is
  being replaced.
* **The server seen from a tab** serves a request or refuses its token at any time after it was
  sent; the answer may be lost before or after (`Answers`, `LeaveStray`), and a request
  nobody waits for any more may be executed late (`ServeStray`).

## 3. Runs

| Run | Instance | Checks |
|---|---|---|
| `Races` | 2 requests, 2 leases, 2 units, 3 days, one landlord; create (PENDING, ACTIVE, TERMINATED), update of the unit, of the start or of the end, activate, terminate, restore | `TypeOK`, `OneActivePerUnit`, `DatesOrdered`, `TerminatedIsStamped`, `NeverPendingAgain`, `ImplementsUnitOccupancy` |
| `Landlords` | 2 requests, 2 landlords, 3 properties, 2 units, 2 tenants, 2 leases; creates, updates of every relationship, ends, unit moves, and a dashboard in the place of one request | `OneLandlordPerLease`, `OccupiedWithinTotal`, `QuietDashboardAgrees` |
| `Serial` | 1 request at a time, every operation, 2 leases, 2 units | `ActiveIsUnstamped`, `AuditNamesTransition`, `ImplementsLeaseStateMachine`, `UnitArchiveRejectsActive`, `TenantArchiveRejectsActive` |
| `OneKey` | 2 requests, 1 key, 2 payments, edits, archiving; fair | `ConfirmationsMatchDetails`, `PaymentHistoryKept`, `ImplementsExactlyOnce`, `EveryRequestAnswered` |
| `Keys` | 2 requests, 2 landlords with 2 keys each, a lease that changes tenant | `TypeOK`, `PaymentsAccounted`, `ReplayFindsRecord` |
| `Tabs` | 2 tabs, 2 accounts, 2 attempts, closed tabs, full storage, lost answers, account changes | `TypeOK`, `OneOpenAttempt`, `PaymentsLeaveEvidence`, `ResolutionIsTrue` |
| `Numbers` | 2 requests, 1 landlord, 2 properties, 2 units, 2 unit numbers, archiving | `NumbersUnique`, `PropertyAppearsWhole`, `ImplementsNameRegistry` |
| `Accounts` | 2 requests, 2 accounts, 2 tenants, 2 e-mails, 2 passwords, archiving, lost answers | `TypeOK`, `AccountsUnique`, `TokensNameTheirAccount`, `ImplementsNameRegistry` |
| `Pages` | one tab, all 20 pages, 2 tenants, 1 unit, 1 lease, 2 properties to choose from, 2 sessions | `TypeOK`, `SpinnersHaveCalls`, `OneActionPerLease`, `UnitsUnderHeading`, `LeaseFormSettles`, `ReloadShowsAction`, `SavedOnce`, `ValidSessionKept` |
| `ReopenedLease` | 2 requests, 1 lease | refutes `EndedIsFinal` |
| `ArchivedOccupiedUnit` | 2 requests, 1 lease | refutes `UnitArchiveRejectsActive` |
| `TornSignIn` | 2 tabs, 2 accounts, 1 attempt | refutes `SentByOwner` |

**Bounds.** Two workers are enough for every race the runs look for, since each
is between a reader and one writer that overtakes it; a third could only repeat
one of the two. Two leases and two units let a lease take the other's unit. With three
days, two overlapping updates of `Races` can each move one end of a term past the other's;
`UpdateFields` says which fields an update brings together, `CreateStatuses` which statuses a
creation asks for. `Races` leaves out `end`, whose write differs from `terminate`'s by the stamp
only; it is in `Serial`, `Landlords` and `ReopenedLease`. The instances of the other backend runs
have one term, since no property of theirs compares dates. Two payment ids
leave room for the duplicate that must not happen. Two attempts let two tabs
prepare one each. Two ids, two numbers or e-mails and two requests let one take
the name the other wants, release it, or bring it back from the archive;
`MaxCount` stands for the 10000 units a property may be created with. For the properties
proved in section 5 the bounds do not matter.
`AuditedOperations` bounds which audit rows are kept, since only those of
lifecycle operations carry a status; the last row is enough because the
invariant looks at each as it is written.
In `Pages` the user starts something only while fewer than `MaxRequests` = 2 requests are under
way, which is enough for one to overtake, be shared by or outlive the other; functions
start what they want. `MaxVisits` = 1 bounds the pages the user opens by a link or a reload, not those the
code navigates to; `FirstPages` are the pages the tab may be opened at, so that an
instance starts in a list, goes to any page, and a form or a sign-in takes it on. With
`MaxSessions` = 2 a request of the first session can be refused in the second. Each detail
page has one record. The End Lease dialog (`asking`) may stay open while reloads change its
row; the `confirm()` of the tenants, units and property pages stops the page's script until it is
answered, so it is merged with the click. Of several pending timeouts of the tenants page `timer`
says only that there is one: each that fires may leave others behind.
Symmetry is used in runs without liveness properties, over sets whose members
the instance does not tell apart.

**Fairness** is weak fairness of the steps of each worker of `Payments` (`FairSpec`): the event
loop resumes a handler whose statement has returned, and the database answers each
statement, or ends its wait for a lock by `lock_timeout` or the transaction's
timeout. Requests arriving, failures, archival and tenant changes are not fair.
A worker's failure is not needed for it to finish.

## 4. What the runs show

Holding under every interleaving and failure of the instance:

* a unit never has two ACTIVE leases. The service's conflict query alone would not
  do, as two requests can pass it together; the unique index decides, and the handlers
  implement `UnitOccupancy`;
* a lease never joins rows of two landlords, although `updateLease` writes back
  relationships it read several statements before and units move meanwhile.
  It needs `updateUnit` to keep a unit with its landlord;
* dates stay ordered although an update with one date validates it against a
  row that another one changes in between: the write stores both dates it has compared
  (with `CompletedButDates`, which stores only the one that was sent, `Races` ends in a lease
  that ends before it starts);
* a lease that is terminated has its date, and keeps it as long as it is TERMINATED, whatever
  overtakes what. Only `POST /api/leases` leaves a TERMINATED lease without one: its schema
  admits the status, and `createLease` writes no date;
* the dashboard counts units, active leases and occupied units at different moments, yet
  never shows a negative number of vacant units: units neither disappear nor change landlord, so that
  any two moments agree about which there are; and when nothing changes meanwhile, it shows
  as many active leases as occupied units. It counts archived units among the vacant ones;
* one payment per request identity, told to everyone with the details they sent
  (`ImplementsExactlyOnce`), an audit row and a completed claim with it
  (`PaymentsAccounted`), also when the lease changes tenant between the
  check and the insert: the finalization then answers 500 and rolls back;
* a payment is never removed or moved, and once completed never changes;
* unit numbers and tenants' e-mails are claimed only when free, and archived rows keep
  theirs, so that nothing stands in the way of a restore;
* of registrations that pass the look-up together one is stored; the others are
  answered 500 and get no token, and a token always names the account of the
  credentials it was asked with, which stay valid;
* browser evidence survives closed tabs, full storage and account changes, and a
  resolution marker stays true because `sendSavedPayment` looks at it under
  the lock.

Holding in a browser tab (`Pages`):

* a spinner, a busy row or a disabled form always has a call of the page shown behind it,
  whatever fails, with the two exceptions below;
* a lease row never has two actions under way, although its button is enabled by a
  state and guarded by a ref, and rows come and go with reloads;
* the units page shows no rows of the other status, the lease form no units of another
  property, and a reload shows what its action did, when the calls did not overtake each
  other. That they can is in the model (`rushed`, `own`, `alone` mark it): switching during a
  reload leaves rows of the wrong status, choosing two properties quickly leaves
  the units of the first, and a reload that joins a GET already in flight shows the
  rows from before the action;
* a form that has been saved is not submitted again before the navigation. Units, the archive
  button of a property and registration are exceptions, since a `finally` enables their button
  at once;
* the delayed refusal of a mutating request never ends a newer session. That of a GET does
  (`api.ts:48` does not compare tokens as line 101 does): `ValidSessionKept` names it.

Two controls stay busy for good after a failure: the finance page, which only logs it, and the
form of an existing property, whose page catches the error the form waits for. The form
of a lease or payment whose options cannot be read offers none until it is opened again. The
page that edits a payment passes neither `isEdit` nor `currentStatus` to its form, so a completed
payment is offered for editing; the server refuses (`PaymentHistoryKept`).

Holding only of requests that do not overlap (`Serial`): the documented state
machine, the audit rows' transitions, and that archives refuse active leases.

Where the code and what is written about it differ:

1. **An ended lease can be reopened** (`ReopenedLease`). Lifecycle operations read the
   status and write by id in two statements. An activation that read PENDING, then
   is overtaken by another activation and an end, writes ACTIVE over ENDED.
   `frontend/src/components/LeaseRowActions.tsx` says an ended lease "cannot currently
   be reopened".
2. **A unit can be archived with an active lease** (`ArchivedOccupiedUnit`), when the
   lease is activated between the archive's query and its write.
   `DECISION_LOG.md`: "Unit archive → reject when an active lease exists." Tenants
   have the same two statements.
3. **A saved payment can be sent under another account** (`TornSignIn`). Signing in
   stores the token and the user record one after the other; a tab in another process
   that sees only the first takes the new token for the account of the old record.
   The server refuses, because the lease is not the new account's, but the saved
   details have been sent under it. `DOCS/PAYMENT_IDEMPOTENCY.md`: "never expose
   them to another account".

## 5. What is proved

Eight modules hold proofs. Each holds for any number of landlords, accounts, rows, keys, tabs,
requests, sessions and dates, under the named assumptions of the module it is about: `Tables`
(`OwnersAssumption`, `InputsAssumption`, `IdsAssumption`), `Dashboard` (`RowsAssumption`),
`PaymentService` (`PortfolioAssumption`, `SubmissionsAssumption`, `NullAssumption`),
`AccountService` (`AccountAssumption`), `HoldingService` (`HoldingAssumption`),
`PaymentRecovery` (`NoneAssumption`), `ApiClient` (`RowsAssumption`, `SessionsAssumption`,
`FirstStatusAssumption`) and `Tab` (`PagesAssumption`, `FirstAssumption`, `HomesAssumption`,
`NoneAssumption`, `BoundAssumption`). They say that owners are rows of the right table, inputs are
what the schemas admit, ids of different tables and NULL are distinct, that there are
finitely many units, and, of a tab, that its bounds are numbers, that a lease to be edited has a
property, and that no form leads to a page the instance leaves out.

**BackendProofs.** `TypeCorrect`, `LandlordsSeparate`, `DatesStayOrdered`,
`SingleOccupancy`, `PendingIsLeftForGood`, `StampKeptWithStatus`,
`OccupancyImplemented`. The properties are not inductive by themselves: what a
worker is about to write comes from `req[w]`, so the invariant `Inv` adds what
each handler knows by the time it reaches a statement (the merged dates are ordered;
the property, unit and tenant checked so far belong to the user; a lease found
once is still there; two creates in flight insert different rows). These facts survive other requests because owners
never change, rows are never deleted and a unit moves only within one landlord.
`LeaseChange` reduces every step that touches the table to storing one row, and
each property is then a fact about that row.

**PaymentProofs.** `TypeCorrect`, `AlwaysAccounted`, `ConfirmationsMatch`,
`ReplaysFindRecord`, `HistoryKept`, `ExactlyOnce`. `Inv` says
that two open transactions hold different keys and different new payments
(`Exclusive`); what a handler has prepared for its next statement (`LocalOK`),
in particular that a committing record is complete and matches the request's
fingerprint, and that an edited row differs from the stored one in its date only;
that every committed claim is complete (`RowOK`); and that every confirmation given
repeats its claim (`AnswersOK`). `Commit` is the only step of the
abstract `Record`, `Respond` and `Replay` are `Tell`, all others stutter.

**SerialProofs.** `SerialAuditTruthful`, `SerialActiveUnstamped`, `SerialUnitArchival`,
`SerialTenantArchival`, `SerialEndedFinal`, `SerialStateMachine`: what the code guarantees under
the further assumption `OneAtATime`, that there is one request in flight. These are the
documented rules that the violation runs refute for overlapping requests, so the
assumption cannot be dropped. `SerialInv` adds to `Inv` that the status a lifecycle handler
has read is the status in the table (`LifecycleOK`), and that a unit or tenant whose leases
have been queried still has no active one (`ArchivalOK`). Together they show where the fault lies:
every rule is checked, and each breaks only between a check and its write.

**DashboardProofs.** `VacancyNeverNegative`, `QuietCountsAgree`. Queries of one dashboard see
different moments. A unit moves within one landlord (`UnitsStay`), so his units are the
same set at all of them and a count of it bounds every later or earlier count of
occupied ones. With one active lease per unit, leases and the units they occupy are in bijection.

**AccountProofs.** `TypeCorrect`, `AccountsStayUnique`, `TokensTrue`, `TenantEmailsRegistered`.
While a password is hashed or compared anything may happen to the tables, so `Inv` says what
cannot: the id a handler will insert is its own and new, the account it found still has
the e-mail it was found by, and a registration about to answer holds the credentials of its row.

**HoldingProofs.** `TypeCorrect`, `NumbersStayUnique`, `PropertiesAppearWhole`,
`UnitNumbersRegistered`. The units of an open transaction are in `req[w]`, one for each
number from 1 to `unitCount` (`RowsNumbered`); ids reserved by two handlers are disjoint
(`FreshIds`). `Commit` therefore makes exactly the promised units visible, and nobody can
have given the property a unit before, since nobody sees it.

**RecoveryProofs.** `TypeCorrect`, `OneAttemptAtATime`, `EvidenceKept`, `ResolutionsTrue`. `Inv` says what
a tab has established at each stage of its action (`TabOK`) and what holds of storage and
server between any two steps (`StoreOK`). `LocksExclude` lets the first survive: the tabs at
work are for different accounts and a key never changes owner, so a step of one tab
keeps `Within` the keys of its account and disturbs no other. It is the Web Lock that
makes looking for an open attempt and writing a new one, two storage accesses, one.

**BrowserProofs.** `Invariance`, `TypeCorrect`, `BusyControls`, `LeaseActionsExclude`,
`HeadingTrue`, `LeaseFormConsistent`, `SavedForms`, `SessionKept`, `ReloadsShow`: every
property of the run `Pages`, for any rows and properties, any number of requests piled up, of
visits and of sessions. What a page shows was set by functions that were started earlier, perhaps
under another filter or on another page, so no property is inductive alone. `IInv` adds

* what a GET in flight can bring: `GetOK` ties the body of an answered read to the rows and the
  status in its url, and a refused one to a session that has ended;
* what a call is about, whatever page is shown (`CallOK`, `SendOK`, `WaitsOK`), and, while its
  page is here, that it belongs to this page and reads what this page lists (`PlaceOK`). A call of
  a page already left may end at any time, and all that is needed is that it is not `here`;
* what calls the page shown may have: its first load is alone, without a row to click
  or an open dialog on the leases page (`LoadsAlone`), the calls of an unhurried units page have
  its filter, so that whatever is answered last is of the right status (`UnitsFiltered`), and those for the units of a lease form its property (`UnitsOffered`);
* for each busy control, the call that will release it (`LoadingOK`, `ActingOK`, `SubmittingOK`).
  On the leases page this is an equation, which makes the guard of `handleAction` exclude a second
  action on the row;
* for an action without company (`alone`), that the row has the status it was given from the
  moment the server executed it, and that every read it sent itself and that has been served
  shows so (`AloneOK`). No other action and no stray request is there to change it back.

Most steps only remove, keep or append calls, and leave the page. `RemovedInv`, `ReadsKept`,
`ActingKept` and `SubmittingKept` show once what survives that, for a map from the positions of
the calls after the step to those before (`Moved`), and each action cites them. `DeliverGet` is
the hard step: it ends any set of calls at once and passes the view through five functions; its
lemmas follow the view through them one at a time. The three action properties
follow from `IInv` in the state before the step: `QuietOrLoud` separates the few actions that could
break them from those that could not.

The proofs made two demands on the model. `DeliverGet` tells, ends and starts calls by
functions over their positions, which SMT can expand, where a fold over them could not be reasoned about; and
`RowsAssumption`, `HomesAssumption` and `NoneAssumption` became explicit, since without them a
tenant could also be a unit, or a form could be filled with a property that does not exist.

**Only model-checked.** Liveness: `EveryRequestAnswered` and its fairness, since the prover has no
rules for ENABLED. Every invariant and every action property of a passing run is a theorem; the
properties of `Serial` are proved of one request at a time, as they are checked. The
violation runs need no proof: their counterexamples are behaviours.

## 6. Not modelled

* The dashboard's payment sum, the revenue per property and the outstanding rent: one query each,
  then sums of amounts, which no module keeps; month boundaries depend on the server's zone.
* Descriptive columns (names, addresses, rooms, rents, phone numbers): no rule reads them.
* Password hashing (bcrypt compares the first 72 bytes only, and `registerSchema` sets no maximum
  length; the model compares whole passwords), JWT signatures, fingerprint hashing (equality of details
  stands for equality of hashes), rate limits: library code.
* What is typed into forms and what is only drawn; the static page `more`; abort signals, which no
  page passes; several tabs at once except for payments (`PaymentRecovery`).
* Routes, start-up, health; migrations; the three cache modules of the front end, which
  nothing imports; scripts and tests.
* `fingerprintVersion`, which is 1 in every row at this commit, so that its check cannot fail.
* What the user knows when he resolves an unknown outcome: `Reconcile` assumes that what he
  confirms is true when he clicks (`Truthful`); `ResolutionIsTrue` then says that it stays so.
* Storage cleared by hand and corrupt entries of `localStorage`: the code refuses to go on,
  and nothing in the model would follow.
* A removal of token and user record is one step (`SignOut`, `Unauthorized`): a tab that
  sees one removal only is signed out either way.

## 7. Plan

Order of work: what loses money or history first.

1. Lease lifecycle, archival, their proofs. *Done.*
2. Payment creation and updates, exactly-once refinement, proofs. *Done.*
3. Browser recovery and its proof. *Done.*
4. Property, unit and tenant creation, accounts, their proofs and the refinements of
   `NameRegistry`. *Done.*
5. `Dashboard` and its proof. *Done;* its payment sums need amounts first.
6. `ApiClient`, the pages and the proof of their properties. *Done;* next two tabs that share
   the session.
7. The state machine of a lease under one request at a time, proved. *Done.*
