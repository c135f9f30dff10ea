--------------------------- MODULE PaymentRecovery ---------------------------
(***************************************************************************)
(* The tabs of one browser recording payments: paymentRecovery.ts over     *)
(* localStorage, Web Locks and a server that records a request identity at *)
(* most once (ExactlyOncePayment, which Payments implements).              *)
(*                                                                         *)
(* Tabs run in parallel, so each storage access is a step; the Web Lock of *)
(* a user is held from Begin, Retry or Reconcile until the tab is idle.    *)
(* Closing a tab releases its lock, while the request it sent goes on.     *)
(***************************************************************************)
EXTENDS FiniteSets

CONSTANTS
  Users,  \* accounts used in this browser
  Tabs,   \* tabs with the payment page open
  Keys,   \* request keys crypto.randomUUID() may generate (a bound)
  None    \* nobody, no key, no entry

Outcomes == {"confirmed", "already-recorded", "not-recorded"}

Stages == {"idle", "prepare", "save", "send", "wait", "block", "mark", "erase"}

Action ==
  [stage: Stages, user: Users \cup {None}, key: Keys \cup {None},
   token: Users \cup {None}, outcome: Outcomes \cup {None}]

ASSUME NoneAssumption == None \notin Users \cup Keys \cup Outcomes

VARIABLES
  owner,     \* the account in the storage name of each key generated so far
  saved,     \* the keys whose attempt is in localStorage
  resolved,  \* the outcome in the `:resolved` marker of each key, or None
  blocked,   \* the keys with a `:blocked` entry
  token,     \* the account whose JWT is in localStorage, or None
  user,      \* the account whose user record is in localStorage, or None
  signing,   \* the accounts being signed in: token stored, user not yet
  tab,       \* the payment action each tab is executing
  orphans,   \* the keys with a request on its way whose tab was closed
  recorded   \* the keys the server has recorded a payment for

store == <<owner, saved, resolved, blocked>>
session == <<token, user, signing>>
server == <<orphans, recorded>>
vars == <<owner, saved, resolved, blocked, token, user, signing, tab, orphans, recorded>>

Idle == [stage |-> "idle", user |-> None, key |-> None, token |-> None, outcome |-> None]

Init ==
  /\ owner = [k \in Keys |-> None]
  /\ saved = {}
  /\ resolved = [k \in Keys |-> None]
  /\ blocked = {}
  /\ token = None
  /\ user = None
  /\ signing = {}
  /\ tab = [t \in Tabs |-> Idle]
  /\ orphans = {}
  /\ recorded = {}

Become(t, action) == tab' = [tab EXCEPT ![t] = action]

At(stage, u, k, outcome) ==
  [stage |-> stage, user |-> u, key |-> k, token |-> None, outcome |-> outcome]

\* Mutant: tabs do not exclude each other.
LockUnused(u) == TRUE

\* navigator.locks.request with ifAvailable; a tab that does not get the lock
\* shows an error and does nothing.
LockFree(u) == \A t \in Tabs : tab[t].user # u

\* assertOwner reads the token, then the user record.
SignedIn(u) == token # None /\ user = u

\* listPaymentAttempts: saved and not resolved, of user u.
OpenAttempts(u) == {k \in saved : owner[k] = u /\ resolved[k] = None}

-----------------------------------------------------------------------------
(* A new payment.                                                           *)

\* Mutant: nothing is prepared before the request is sent.
BeginUnprepared(t) ==
  /\ tab[t] = Idle
  /\ \E u \in Users :
       /\ SignedIn(u)
       /\ LockFree(u)
       /\ Become(t, At("send", u, None, None))
  /\ UNCHANGED <<store, session, server>>

\* startPayment for the account the page shows, which must be the session's.
Begin(t) ==
  /\ tab[t] = Idle
  /\ \E u \in Users :
       /\ SignedIn(u)
       /\ LockFree(u)
       /\ Become(t, At("prepare", u, None, None))
  /\ UNCHANGED <<store, session, server>>

\* preparePaymentAttempt: an unresolved attempt stands in the way.
Prepare(t) ==
  /\ tab[t].stage = "prepare"
  /\ Become(t, IF SignedIn(tab[t].user) /\ OpenAttempts(tab[t].user) = {}
                 THEN At("save", tab[t].user, None, None)
                 ELSE Idle)
  /\ UNCHANGED <<store, session, server>>

\* preparePaymentAttempt: the attempt is stored under a new key.
Save(t) ==
  /\ tab[t].stage = "save"
  /\ \E k \in Keys :
       /\ owner[k] = None
       /\ owner' = [owner EXCEPT ![k] = tab[t].user]
       /\ saved' = saved \cup {k}
       /\ Become(t, At("send", tab[t].user, k, None))
  /\ UNCHANGED <<resolved, blocked, session, server>>

\* submitSavedPayment, from a page that may have listed the attempt long ago.
Retry(t) ==
  /\ tab[t] = Idle
  /\ \E k \in Keys :
       /\ owner[k] # None
       /\ SignedIn(owner[k])
       /\ LockFree(owner[k])
       /\ Become(t, At("send", owner[k], k, None))
  /\ UNCHANGED <<store, session, server>>

\* Mutant: only the presence of the saved details is checked.
SendResolved(t) ==
  LET a == tab[t] IN
  /\ a.stage = "send"
  /\ Become(t, IF SignedIn(a.user) /\ a.key \in saved
                 THEN [a EXCEPT !.stage = "wait", !.token = token]
                 ELSE Idle)
  /\ UNCHANGED <<store, session, server>>

\* sendSavedPayment up to the fetch, which carries the token read here.
Send(t) ==
  LET a == tab[t] IN
  /\ a.stage = "send"
  /\ Become(t, IF SignedIn(a.user) /\ resolved[a.key] = None /\ a.key \in saved
                    /\ a.key \notin blocked
                 THEN [a EXCEPT !.stage = "wait", !.token = token]
                 ELSE Idle)
  /\ UNCHANGED <<store, session, server>>

-----------------------------------------------------------------------------
(* The server answers the request of a waiting tab.                         *)

\* 201 with the payment recorded now or before, which only the owner of the
\* lease can get.
Confirm(t) ==
  /\ tab[t].stage = "wait"
  /\ tab[t].token = tab[t].user
  /\ recorded' = recorded \cup {tab[t].key}
  /\ Become(t, At("mark", tab[t].user, tab[t].key, "confirmed"))
  /\ UNCHANGED <<store, session, orphans>>

\* The payment is recorded, but the answer is lost or unreadable.
LoseConfirmation(t) ==
  /\ tab[t].stage = "wait"
  /\ tab[t].token = tab[t].user
  /\ recorded' = recorded \cup {tab[t].key}
  /\ Become(t, Idle)
  /\ UNCHANGED <<store, session, orphans>>

\* 400, or 500 IDEMPOTENCY_RECORD_INCOMPLETE from the finalization: rolled back.
Reject(t) ==
  /\ tab[t].stage = "wait"
  /\ tab[t].key \notin recorded
  /\ Become(t, At("block", tab[t].user, tab[t].key, None))
  /\ UNCHANGED <<store, session, server>>

\* Any other error, before or after an earlier attempt was recorded.
Refuse(t) ==
  /\ tab[t].stage = "wait"
  /\ Become(t, Idle)
  /\ UNCHANGED <<store, session, server>>

\* 401: the session ends, if it is still the one the request was sent under.
Unauthorized(t) ==
  /\ tab[t].stage = "wait"
  /\ IF token = tab[t].token THEN token' = None /\ user' = None ELSE UNCHANGED <<token, user>>
  /\ Become(t, Idle)
  /\ UNCHANGED <<store, signing, server>>

\* The request of a closed tab reaches the server, or never does.
ServeOrphan(k) ==
  /\ k \in orphans
  /\ orphans' = orphans \ {k}
  /\ recorded' \in {recorded, recorded \cup {k}}
  /\ UNCHANGED <<store, session, tab>>

-----------------------------------------------------------------------------
(* The tab records what it was told, or what the user found out.            *)

\* sendSavedPayment after a rejection: a review is required.
Block(t) ==
  LET k == tab[t].key IN
  /\ tab[t].stage = "block"
  /\ blocked' = IF k \in saved /\ resolved[k] = None THEN blocked \cup {k} ELSE blocked
  /\ Become(t, Idle)
  /\ UNCHANGED <<owner, saved, resolved, session, server>>

\* Mutant: the details are removed although the marker was not stored.
MarkUnverified(t) ==
  LET a == tab[t] IN
  /\ a.stage = "mark"
  /\ resolved' \in {resolved, [resolved EXCEPT ![a.key] = a.outcome]}
  /\ Become(t, [a EXCEPT !.stage = "erase"])
  /\ UNCHANGED <<owner, saved, blocked, session, server>>

\* finishAttempt: the marker is written and read back; when the storage is
\* full the attempt stays as it was.
Mark(t) ==
  LET a == tab[t] IN
  /\ a.stage = "mark"
  /\ \/ /\ resolved' = [resolved EXCEPT ![a.key] = a.outcome]
        /\ Become(t, [a EXCEPT !.stage = "erase"])
     \/ Become(t, Idle) /\ UNCHANGED resolved
  /\ UNCHANGED <<owner, saved, blocked, session, server>>

\* finishAttempt: the details and the review entry are removed.
Erase(t) ==
  LET k == tab[t].key IN
  /\ tab[t].stage = "erase"
  /\ saved' = saved \ {k}
  /\ blocked' = blocked \ {k}
  /\ Become(t, Idle)
  /\ UNCHANGED <<owner, resolved, session, server>>

\* What the user confirms in the recovery card: the payment records were
\* checked and no request is still processing.
Truthful(k, outcome) ==
  \/ outcome = "already-recorded" /\ k \in recorded
  \/ outcome = "not-recorded" /\ k \notin recorded \cup orphans

\* reconcilePaymentAttempt, on a truthful confirmation.
Reconcile(t) ==
  /\ tab[t] = Idle
  /\ \E k \in saved, outcome \in Outcomes :
       /\ SignedIn(owner[k])
       /\ LockFree(owner[k])
       /\ Truthful(k, outcome)
       /\ Become(t, At("mark", owner[k], k, outcome))
  /\ UNCHANGED <<store, session, server>>

\* The tab is closed or crashes between any two steps.
Close(t) ==
  /\ tab[t] # Idle
  /\ orphans' = IF tab[t].stage = "wait" /\ tab[t].token = tab[t].user
                  THEN orphans \cup {tab[t].key}
                  ELSE orphans
  /\ Become(t, Idle)
  /\ UNCHANGED <<store, session, recorded>>

\* login and register, in any tab: setToken, then setUser, which a tab in
\* another process may see apart.
SignIn(u) ==
  /\ token' = u
  /\ signing' = signing \cup {u}
  /\ UNCHANGED <<store, user, tab, server>>

StoreUser(u) ==
  /\ u \in signing
  /\ user' = u
  /\ signing' = signing \ {u}
  /\ UNCHANGED <<store, token, tab, server>>

\* logout. Its two removals are one step: without a token no tab is signed in.
SignOut ==
  /\ token' = None
  /\ user' = None
  /\ UNCHANGED <<store, signing, tab, server>>

Next ==
  \/ \E t \in Tabs :
       \/ Begin(t) \/ Prepare(t) \/ Save(t) \/ Retry(t) \/ Send(t)
       \/ Confirm(t) \/ LoseConfirmation(t) \/ Reject(t) \/ Refuse(t) \/ Unauthorized(t)
       \/ Block(t) \/ Mark(t) \/ Erase(t) \/ Reconcile(t) \/ Close(t)
  \/ \E k \in Keys : ServeOrphan(k)
  \/ \E u \in Users : SignIn(u) \/ StoreUser(u)
  \/ SignOut

Spec == Init /\ [][Next]_vars

-----------------------------------------------------------------------------
(* Properties.                                                              *)

\* Every variable stays in its type.
TypeOK ==
  /\ owner \in [Keys -> Users \cup {None}]
  /\ saved \subseteq Keys
  /\ resolved \in [Keys -> Outcomes \cup {None}]
  /\ blocked \subseteq Keys
  /\ {token, user} \subseteq Users \cup {None}
  /\ signing \subseteq Users
  /\ tab \in [Tabs -> Action]
  /\ orphans \subseteq Keys
  /\ recorded \subseteq Keys
  /\ \A t \in Tabs : tab[t].stage \in {"send", "wait", "block", "mark", "erase"} => tab[t].key \in Keys

\* A user has at most one unresolved attempt in the browser, whichever tabs
\* start payments at the same time.
OneOpenAttempt ==
  \A k, j \in saved :
    /\ resolved[k] = None
    /\ resolved[j] = None
    /\ owner[k] = owner[j]
    => k = j

\* What the server recorded, or may still record, is known to this browser:
\* its details are saved, or a marker says how it was resolved.
PaymentsLeaveEvidence ==
  \A k \in Keys :
    \/ k \in recorded \cup orphans
    \/ \E t \in Tabs : tab[t].stage = "wait" /\ tab[t].key = k
    => k \in saved \/ resolved[k] # None

\* A resolution marker tells the truth and stays true: a payment resolved as
\* not recorded is never recorded by a stale tab, one confirmed is on record.
ResolutionIsTrue ==
  \A k \in Keys :
    /\ resolved[k] = "not-recorded" => k \notin recorded \cup orphans
    /\ resolved[k] \in {"confirmed", "already-recorded"} => k \in recorded

\* A request is sent under the account its attempt belongs to, although the
\* account may change in another tab at any time.
SentByOwner ==
  \A t \in Tabs : tab[t].stage = "wait" => tab[t].token = owner[tab[t].key]
=============================================================================
