---------------------------- MODULE RecoveryProofs ----------------------------
(***************************************************************************)
(* Proofs about PaymentRecovery, for any number of accounts, tabs and      *)
(* request keys.                                                           *)
(*                                                                         *)
(* Tabs share localStorage and the server, and each storage access is a    *)
(* step.  What keeps them apart is the Web Lock of an account: whatever a  *)
(* tab has read about its own keys stays so until it is idle, because      *)
(* other tabs act for other accounts and keys do not change owner.         *)
(***************************************************************************)
EXTENDS PaymentRecovery, TLAPS

-----------------------------------------------------------------------------
(* The inductive invariant.                                                 *)

KeyStages == {"send", "wait", "block", "mark", "erase"}

\* A key that may be on record, now or later.
Underway(k) == k \in recorded \cup orphans

\* The storage and the server, whatever the tabs are doing.
StoreOK ==
  /\ \A k \in Keys : owner[k] = None => k \notin saved /\ resolved[k] = None /\ ~Underway(k)
  /\ \A k \in Keys : Underway(k) => k \in saved \/ resolved[k] # None
  /\ ResolutionIsTrue
  /\ OneOpenAttempt

\* What a tab has established at each stage of its action.
TabOK(t) ==
  LET a == tab[t]
  IN /\ a.stage = "idle" => a = Idle
     /\ a.stage # "idle" => a.user \in Users
     /\ a.stage \in KeyStages => a.key \in Keys /\ owner[a.key] = a.user
     /\ a.stage = "save" => OpenAttempts(a.user) = {}
     /\ a.stage = "wait" => a.key \in saved /\ resolved[a.key] = None
     /\ a.stage = "mark" =>
          /\ a.outcome \in Outcomes
          /\ a.outcome = "not-recorded" => ~Underway(a.key)
          /\ a.outcome # "not-recorded" => a.key \in recorded
     /\ a.stage = "erase" => resolved[a.key] # None

\* The Web Lock of an account has one holder.
LocksExclude ==
  \A t, s \in Tabs : t # s /\ tab[t].user = tab[s].user => tab[t].user = None

Inv ==
  /\ TypeOK
  /\ StoreOK
  /\ \A t \in Tabs : TabOK(t)
  /\ LocksExclude

-----------------------------------------------------------------------------
(* Frames.                                                                  *)

\* Only keys of account u, or new ones it takes, may change.
Within(u) ==
  /\ \A k \in Keys : owner[k] # None => owner'[k] = owner[k]
  /\ \A k \in Keys : owner[k] = None => owner'[k] \in {None, u}
  /\ \A k \in Keys : owner[k] \notin {None, u} =>
       /\ k \in saved' <=> k \in saved
       /\ resolved'[k] = resolved[k]
       /\ Underway(k)' => Underway(k)
  /\ recorded \subseteq recorded'

\* Tabs of other accounts are not disturbed.
LEMMA OthersKept ==
  ASSUME Inv, NEW u, Within(u), NEW s \in Tabs, tab'[s] = tab[s],
         tab[s].user # u \/ tab[s].stage = "idle", TypeOK'
  PROVE  TabOK(s)'
<1>1. TabOK(s) /\ tab[s] \in Action
  BY DEF Inv, TypeOK
<1>2. tab[s].stage \in KeyStages =>
        /\ owner[tab[s].key] = tab[s].user
        /\ tab[s].key \in Keys
        /\ owner[tab[s].key] \notin {None, u}
  BY <1>1, NoneAssumption DEF TabOK, KeyStages
<1>3. ASSUME tab[s].stage = "save" PROVE OpenAttempts(tab[s].user)' = {}
  <2>1. tab[s].user \in Users /\ OpenAttempts(tab[s].user) = {} /\ tab[s].user # u
    BY <1>1, <1>3 DEF TabOK
  <2> SUFFICES ASSUME NEW k \in saved', owner'[k] = tab[s].user, resolved'[k] = None
               PROVE  FALSE
    BY <1>3 DEF OpenAttempts
  <2>2. k \in Keys
    BY DEF TypeOK
  <2>3. owner[k] = tab[s].user /\ owner[k] \notin {None, u}
    BY <2>1, <2>2, NoneAssumption DEF Within
  <2>4. k \in saved /\ resolved[k] = None
    BY <2>2, <2>3 DEF Within
  <2> QED
    BY <2>1, <2>3, <2>4 DEF OpenAttempts
<1>4. tab[s].stage \in KeyStages =>
        /\ owner'[tab[s].key] = owner[tab[s].key]
        /\ tab[s].key \in saved' <=> tab[s].key \in saved
        /\ resolved'[tab[s].key] = resolved[tab[s].key]
        /\ Underway(tab[s].key)' => Underway(tab[s].key)
        /\ tab[s].key \in recorded => tab[s].key \in recorded'
  BY <1>2 DEF Within
<1> QED
  BY <1>1, <1>3, <1>4 DEF TabOK, KeyStages, Underway

\* A step of tab t, to a given action.
LEMMA TabStep ==
  ASSUME Inv, NEW t \in Tabs, NEW a \in Action, Become(t, a), Within(tab[t].user),
         TypeOK', StoreOK', TabOK(t)',
         \/ a.user \in {tab[t].user, None}
         \/ a.user \in Users /\ LockFree(a.user)
  PROVE  Inv'
<1>1. tab'[t] = a /\ \A s \in Tabs \ {t} : tab'[s] = tab[s]
  BY DEF Become, Inv, TypeOK
<1>2. ASSUME NEW s \in Tabs \ {t} PROVE TabOK(s)'
  <2>1. tab[s].user # tab[t].user \/ tab[s].stage = "idle"
    BY NoneAssumption DEF Inv, LocksExclude, TabOK
  <2> QED
    BY <1>1, <2>1, OthersKept
<1>3. LocksExclude'
  BY <1>1 DEF Inv, LocksExclude, LockFree
<1> QED
  BY <1>2, <1>3 DEF Inv

LEMMA IdleType == Idle \in Action /\ Idle.stage = "idle" /\ Idle.user = None
  BY DEF Idle, Action, Stages

LEMMA AtType ==
  ASSUME NEW stage \in Stages, NEW u \in Users, NEW k \in Keys \cup {None},
         NEW outcome \in Outcomes \cup {None}
  PROVE  /\ At(stage, u, k, outcome) \in Action
         /\ At(stage, u, k, outcome).stage = stage
         /\ At(stage, u, k, outcome).user = u
         /\ At(stage, u, k, outcome).key = k
         /\ At(stage, u, k, outcome).outcome = outcome
  BY DEF At, Action

\* A step of tab t that leaves the storage and the server alone.
LEMMA QuietStep ==
  ASSUME Inv, NEW t \in Tabs, NEW a \in Action, Become(t, a),
         UNCHANGED <<store, server, token, user, signing>>,
         a.stage \in KeyStages => a.key \in Keys,
         tab'[t] = a => TabOK(t)',
         \/ a.user \in {tab[t].user, None}
         \/ a.user \in Users /\ LockFree(a.user)
  PROVE  Inv'
<1>1. /\ owner' = owner /\ saved' = saved /\ resolved' = resolved /\ blocked' = blocked
      /\ orphans' = orphans /\ recorded' = recorded
      /\ token' = token /\ user' = user /\ signing' = signing
  BY DEF store, server
<1>2. tab'[t] = a /\ \A s \in Tabs \ {t} : tab'[s] = tab[s]
  BY DEF Become, Inv, TypeOK
<1>3. tab' \in [Tabs -> Action]
  BY DEF Become, Inv, TypeOK
<1>4. TypeOK'
  BY <1>1, <1>2, <1>3 DEF Inv, TypeOK, KeyStages
<1>5. StoreOK'
  BY <1>1 DEF Inv, StoreOK, Underway, ResolutionIsTrue, OneOpenAttempt
<1>6. Within(tab[t].user)
  BY <1>1 DEF Within, Underway
<1> QED
  BY <1>2, <1>4, <1>5, <1>6, TabStep

LEMMA GiveUp ==
  ASSUME Inv, NEW t \in Tabs, Become(t, Idle), UNCHANGED <<store, server, token, user, signing>>
  PROVE  Inv'
<1>1. tab'[t] = Idle => TabOK(t)'
  BY IdleType DEF TabOK, KeyStages
<1> QED
  BY <1>1, IdleType, QuietStep DEF KeyStages

-----------------------------------------------------------------------------
(* A payment is begun, or taken up again.                                   *)

LEMMA BeginStep ==
  ASSUME Inv, NEW t \in Tabs, Begin(t)
  PROVE  Inv'
<1>1. PICK u \in Users : LockFree(u) /\ Become(t, At("prepare", u, None, None))
  BY DEF Begin
<1> DEFINE a == At("prepare", u, None, None)
<1>2. a \in Action /\ a.stage = "prepare" /\ a.user = u
  BY AtType DEF Stages
<1>3. Become(t, a)
  BY <1>1
<1> HIDE DEF a
<1>4. tab'[t] = a => TabOK(t)'
  BY <1>2 DEF TabOK, KeyStages
<1> QED
  BY <1>1, <1>2, <1>3, <1>4, QuietStep DEF Begin, session, KeyStages

LEMMA PrepareStep ==
  ASSUME Inv, NEW t \in Tabs, Prepare(t)
  PROVE  Inv'
<1> DEFINE u == tab[t].user
           a == At("save", u, None, None)
<1>1. u \in Users
  BY DEF Prepare, Inv, TabOK
<1>2. CASE Become(t, Idle)
  BY <1>2, GiveUp DEF Prepare, session
<1>3. CASE OpenAttempts(u) = {} /\ Become(t, a)
  <2>1. a \in Action /\ a.stage = "save" /\ a.user = u
    BY <1>1, AtType DEF Stages
  <2>2. saved' = saved /\ owner' = owner /\ resolved' = resolved
    BY DEF Prepare, store
  <2> HIDE DEF a, u
  <2>3. tab'[t] = a => TabOK(t)'
    BY <1>1, <1>3, <2>1, <2>2 DEF TabOK, KeyStages, OpenAttempts
  <2>4. a.user \in {tab[t].user, None}
    BY <2>1 DEF u
  <2> QED
    BY <1>3, <2>1, <2>3, <2>4, QuietStep DEF Prepare, session, KeyStages
<1> QED
  BY <1>2, <1>3 DEF Prepare

\* A new attempt is the account's only open one: its lock has been held since
\* the storage was looked through.
LEMMA SaveStep ==
  ASSUME Inv, NEW t \in Tabs, Save(t)
  PROVE  Inv'
<1> DEFINE u == tab[t].user
<1>1. PICK k \in Keys :
        /\ owner[k] = None
        /\ owner' = [owner EXCEPT ![k] = u]
        /\ saved' = saved \cup {k}
        /\ Become(t, At("send", u, k, None))
  BY DEF Save
<1> DEFINE a == At("send", u, k, None)
<1>2. u \in Users /\ OpenAttempts(u) = {} /\ u = tab[t].user
  BY DEF Save, Inv, TabOK
<1>3. a \in Action /\ a.stage = "send" /\ a.user = u /\ a.key = k
  BY <1>2, AtType DEF Stages
<1>4. /\ resolved' = resolved /\ blocked' = blocked /\ orphans' = orphans
      /\ recorded' = recorded /\ token' = token /\ user' = user /\ signing' = signing
  BY DEF Save, session, server
<1>5. k \notin saved /\ resolved[k] = None /\ ~Underway(k)
  BY <1>1 DEF Inv, StoreOK
<1>6. Become(t, a)
  BY <1>1
<1> HIDE DEF a, u
<1>7. tab'[t] = a /\ tab' \in [Tabs -> Action] /\ \A s \in Tabs \ {t} : tab'[s] = tab[s]
  BY <1>3, <1>6 DEF Become, Inv, TypeOK
<1>8. \A j \in Keys : owner'[j] = IF j = k THEN u ELSE owner[j]
  BY <1>1 DEF Inv, TypeOK
<1>9. TypeOK'
  BY <1>1, <1>2, <1>3, <1>4, <1>7 DEF Inv, TypeOK
<1>10. Within(u)
  BY <1>1, <1>4, <1>8 DEF Within, Underway
<1>11. StoreOK'
  <2>1. ResolutionIsTrue'
    BY <1>4 DEF Inv, StoreOK, ResolutionIsTrue
  <2>2. OneOpenAttempt'
    <3>1. \A j \in saved : resolved[j] = None => owner[j] # u
      BY <1>2 DEF OpenAttempts
    <3>2. saved \subseteq Keys
      BY DEF Inv, TypeOK
    <3> QED
      BY <1>1, <1>4, <1>5, <1>8, <3>1, <3>2 DEF Inv, StoreOK, OneOpenAttempt
  <2>3. \A j \in Keys : owner'[j] = None => j \notin saved' /\ resolved'[j] = None /\ ~Underway(j)'
    BY <1>1, <1>2, <1>4, <1>8, NoneAssumption DEF Inv, StoreOK, Underway
  <2>4. \A j \in Keys : Underway(j)' => j \in saved' \/ resolved'[j] # None
    BY <1>1, <1>4 DEF Inv, StoreOK, Underway
  <2> QED
    BY <2>1, <2>2, <2>3, <2>4 DEF StoreOK
<1>12. TabOK(t)'
  BY <1>2, <1>3, <1>7, <1>8 DEF TabOK, KeyStages
<1> QED
  BY <1>2, <1>3, <1>6, <1>9, <1>10, <1>11, <1>12, TabStep

LEMMA RetryStep ==
  ASSUME Inv, NEW t \in Tabs, Retry(t)
  PROVE  Inv'
<1>1. PICK k \in Keys :
        owner[k] # None /\ LockFree(owner[k]) /\ Become(t, At("send", owner[k], k, None))
  BY DEF Retry
<1> DEFINE u == owner[k]
           a == At("send", u, k, None)
<1>2. u \in Users /\ u = owner[k]
  BY <1>1 DEF Inv, TypeOK
<1>3. a \in Action /\ a.stage = "send" /\ a.user = u /\ a.key = k
  BY <1>2, AtType DEF Stages
<1>4. owner' = owner /\ Become(t, a) /\ LockFree(u)
  BY <1>1 DEF Retry, store
<1> HIDE DEF a, u
<1>5. tab'[t] = a => TabOK(t)'
  BY <1>2, <1>3, <1>4 DEF TabOK, KeyStages
<1> QED
  BY <1>2, <1>3, <1>4, <1>5, QuietStep DEF Retry, session

LEMMA SendStep ==
  ASSUME Inv, NEW t \in Tabs, Send(t)
  PROVE  Inv'
<1> DEFINE old == tab[t]
           a == [old EXCEPT !.stage = "wait", !.token = token]
<1>1. old \in Action /\ old.stage = "send" /\ TabOK(t) /\ old = tab[t]
  BY DEF Send, Inv, TypeOK
<1>2. CASE Become(t, Idle)
  BY <1>2, GiveUp DEF Send, session
<1>3. CASE /\ SignedIn(old.user) /\ resolved[old.key] = None /\ old.key \in saved
           /\ Become(t, a)
  <2>1. token \in Users
    BY <1>3 DEF SignedIn, Inv, TypeOK
  <2>2. a \in Action /\ a.stage = "wait" /\ a.user = old.user /\ a.key = old.key
    BY <1>1, <2>1 DEF Action, Stages
  <2>3. owner' = owner /\ saved' = saved /\ resolved' = resolved
    BY DEF Send, store
  <2>4. old.user \in Users /\ old.key \in Keys /\ owner[old.key] = old.user
    BY <1>1 DEF TabOK, KeyStages
  <2> HIDE DEF a, old
  <2>5. tab'[t] = a => TabOK(t)'
    BY <1>3, <2>2, <2>3, <2>4 DEF TabOK, KeyStages
  <2>6. a.user \in {tab[t].user, None}
    BY <1>1, <2>2
  <2> QED
    BY <1>3, <2>2, <2>4, <2>5, <2>6, QuietStep DEF Send, session
<1> QED
  BY <1>2, <1>3 DEF Send

LEMMA ReconcileStep ==
  ASSUME Inv, NEW t \in Tabs, Reconcile(t)
  PROVE  Inv'
<1>1. PICK k \in saved, outcome \in Outcomes :
        /\ LockFree(owner[k]) /\ Truthful(k, outcome)
        /\ Become(t, At("mark", owner[k], k, outcome))
  BY DEF Reconcile
<1> DEFINE u == owner[k]
           a == At("mark", u, k, outcome)
<1>2. k \in Keys /\ u \in Users /\ u = owner[k]
  BY DEF Inv, TypeOK, StoreOK
<1>3. /\ a \in Action
      /\ a.stage = "mark" /\ a.user = u /\ a.key = k /\ a.outcome = outcome
  BY <1>2, AtType DEF Stages
<1>4. owner' = owner /\ recorded' = recorded /\ orphans' = orphans /\ Become(t, a) /\ LockFree(u)
  BY <1>1 DEF Reconcile, store, server
<1> HIDE DEF a, u
<1>5. tab'[t] = a => TabOK(t)'
  BY <1>1, <1>2, <1>3, <1>4 DEF TabOK, KeyStages, Truthful, Underway
<1> QED
  BY <1>2, <1>3, <1>4, <1>5, QuietStep DEF Reconcile, session

-----------------------------------------------------------------------------
(* The server answers.                                                      *)

\* A waiting tab's key is on record afterwards: its details are still saved
\* and nobody has resolved it, whatever the tab makes of the answer.
LEMMA RecordStep ==
  ASSUME Inv, NEW t \in Tabs, tab[t].stage = "wait",
         recorded' = recorded \cup {tab[t].key},
         UNCHANGED <<store, token, user, signing, orphans>>,
         NEW a \in Action, Become(t, a), a.user \in {tab[t].user, None},
         \/ a = Idle
         \/ /\ a.stage = "mark" /\ a.user = tab[t].user /\ a.key = tab[t].key
            /\ a.outcome = "confirmed"
  PROVE  Inv'
<1> DEFINE k == tab[t].key
           u == tab[t].user
<1>1. /\ k \in Keys /\ u \in Users /\ owner[k] = u
      /\ k \in saved /\ resolved[k] = None
  BY DEF Inv, TabOK, KeyStages
<1>2. /\ owner' = owner /\ saved' = saved /\ resolved' = resolved /\ blocked' = blocked
      /\ orphans' = orphans /\ recorded' = recorded \cup {k}
      /\ token' = token /\ user' = user /\ signing' = signing
  BY DEF store
<1>3. tab'[t] = a /\ tab' \in [Tabs -> Action] /\ \A s \in Tabs \ {t} : tab'[s] = tab[s]
  BY DEF Become, Inv, TypeOK
<1>4. /\ a = Idle \/ (a.stage = "mark" /\ a.user = u /\ a.key = k /\ a.outcome = "confirmed")
      /\ u = tab[t].user
  OBVIOUS
<1> HIDE DEF k, u
<1>5. TypeOK'
  BY <1>1, <1>2, <1>3, <1>4, IdleType DEF Inv, TypeOK
<1>6. StoreOK'
  <2>1. ResolutionIsTrue'
    BY <1>1, <1>2, NoneAssumption DEF Inv, StoreOK, ResolutionIsTrue, Outcomes
  <2>2. OneOpenAttempt'
    BY <1>2 DEF Inv, StoreOK, OneOpenAttempt
  <2>3. \A j \in Keys : owner'[j] = None => j \notin saved' /\ resolved'[j] = None /\ ~Underway(j)'
    BY <1>1, <1>2, NoneAssumption DEF Inv, StoreOK, Underway
  <2>4. \A j \in Keys : Underway(j)' => j \in saved' \/ resolved'[j] # None
    BY <1>1, <1>2 DEF Inv, StoreOK, Underway
  <2> QED
    BY <2>1, <2>2, <2>3, <2>4 DEF StoreOK
<1>7. Within(u)
  BY <1>1, <1>2 DEF Within, Underway
<1>8. TabOK(t)'
  BY <1>1, <1>2, <1>3, <1>4, IdleType DEF TabOK, KeyStages, Outcomes
<1> QED
  BY <1>4, <1>5, <1>6, <1>7, <1>8, TabStep

LEMMA ConfirmStep ==
  ASSUME Inv, NEW t \in Tabs, Confirm(t)
  PROVE  Inv'
<1> DEFINE a == At("mark", tab[t].user, tab[t].key, "confirmed")
<1>1. tab[t].user \in Users /\ tab[t].key \in Keys
  BY DEF Confirm, Inv, TabOK, KeyStages
<1>2. /\ a \in Action
      /\ a.stage = "mark" /\ a.user = tab[t].user /\ a.key = tab[t].key
      /\ a.outcome = "confirmed"
  BY <1>1, AtType DEF Stages, Outcomes
<1>3. Become(t, a)
  BY DEF Confirm
<1> HIDE DEF a
<1> QED
  BY <1>2, <1>3, RecordStep DEF Confirm, session

LEMMA LoseConfirmationStep ==
  ASSUME Inv, NEW t \in Tabs, LoseConfirmation(t)
  PROVE  Inv'
  BY IdleType, RecordStep DEF LoseConfirmation, session

LEMMA RejectStep ==
  ASSUME Inv, NEW t \in Tabs, Reject(t)
  PROVE  Inv'
<1> DEFINE a == At("block", tab[t].user, tab[t].key, None)
<1>1. tab[t].user \in Users /\ tab[t].key \in Keys /\ owner[tab[t].key] = tab[t].user
  BY DEF Reject, Inv, TabOK, KeyStages
<1>2. /\ a \in Action
      /\ a.stage = "block" /\ a.user = tab[t].user /\ a.key = tab[t].key
  BY <1>1, AtType DEF Stages
<1>3. Become(t, a) /\ owner' = owner
  BY DEF Reject, store
<1> HIDE DEF a
<1>4. tab'[t] = a => TabOK(t)'
  BY <1>1, <1>2, <1>3 DEF TabOK, KeyStages
<1> QED
  BY <1>1, <1>2, <1>3, <1>4, QuietStep DEF Reject, session

\* Whatever becomes of the session, tabs and keys do not depend on it.
LEMMA SessionStep ==
  ASSUME Inv, UNCHANGED <<store, server>>, TypeOK', NEW t \in Tabs,
         Become(t, Idle) \/ tab' = tab
  PROVE  Inv'
<1>1. /\ owner' = owner /\ saved' = saved /\ resolved' = resolved
      /\ orphans' = orphans /\ recorded' = recorded
  BY DEF store, server
<1>2. StoreOK'
  BY <1>1 DEF Inv, StoreOK, Underway, ResolutionIsTrue, OneOpenAttempt
<1>3. \A s \in Tabs : tab'[s] = tab[s] \/ tab'[s] = Idle
  BY DEF Become, Inv, TypeOK
<1>4. \A s \in Tabs : TabOK(s)'
  <2> SUFFICES ASSUME NEW s \in Tabs PROVE TabOK(s)'
    OBVIOUS
  <2>1. CASE tab'[s] = tab[s]
    BY <1>1, <2>1 DEF Inv, TabOK, OpenAttempts, Underway
  <2>2. CASE tab'[s] = Idle
    BY <2>2, IdleType DEF TabOK, KeyStages
  <2> QED
    BY <1>3, <2>1, <2>2
<1>5. LocksExclude'
  BY <1>3, IdleType DEF Inv, LocksExclude
<1> QED
  BY <1>2, <1>4, <1>5 DEF Inv

LEMMA RefuseStep ==
  ASSUME Inv, NEW t \in Tabs, Refuse(t)
  PROVE  Inv'
  BY GiveUp DEF Refuse, session

LEMMA UnauthorizedStep ==
  ASSUME Inv, NEW t \in Tabs, Unauthorized(t)
  PROVE  Inv'
<1>1. /\ owner' = owner /\ saved' = saved /\ resolved' = resolved /\ blocked' = blocked
      /\ orphans' = orphans /\ recorded' = recorded /\ signing' = signing
      /\ {token', user'} \subseteq {token, user, None}
  BY DEF Unauthorized, store, server
<1>2. tab' \in [Tabs -> Action] /\ \A s \in Tabs : tab'[s] = tab[s] \/ tab'[s] = Idle
  BY IdleType DEF Unauthorized, Become, Inv, TypeOK
<1>3. TypeOK'
  BY <1>1, <1>2, IdleType DEF Inv, TypeOK
<1> QED
  BY <1>3, SessionStep DEF Unauthorized

\* The request of a closed tab is about a key whose attempt is unresolved.
LEMMA ServeOrphanStep ==
  ASSUME Inv, NEW k \in Keys, ServeOrphan(k)
  PROVE  Inv'
<1>1. /\ owner' = owner /\ saved' = saved /\ resolved' = resolved /\ blocked' = blocked
      /\ token' = token /\ user' = user /\ signing' = signing /\ tab' = tab
      /\ orphans' = orphans \ {k} /\ recorded' \in {recorded, recorded \cup {k}}
      /\ k \in orphans
  BY DEF ServeOrphan, store, session
<1>2. TypeOK'
  BY <1>1 DEF Inv, TypeOK
<1>3. \A j : Underway(j)' => Underway(j)
  BY <1>1 DEF Underway
<1>4. StoreOK'
  <2>1. ResolutionIsTrue'
    BY <1>1 DEF Inv, StoreOK, ResolutionIsTrue
  <2>2. OneOpenAttempt'
    BY <1>1 DEF Inv, StoreOK, OneOpenAttempt
  <2> QED
    BY <1>1, <1>3, <2>1, <2>2 DEF Inv, StoreOK
<1>5. \A s \in Tabs : TabOK(s)'
  BY <1>1, <1>3 DEF Inv, TabOK, OpenAttempts
<1>6. LocksExclude'
  BY <1>1 DEF Inv, LocksExclude
<1> QED
  BY <1>2, <1>4, <1>5, <1>6 DEF Inv

-----------------------------------------------------------------------------
(* The tab records the outcome.                                             *)

LEMMA BlockStep ==
  ASSUME Inv, NEW t \in Tabs, Block(t)
  PROVE  Inv'
<1>1. /\ owner' = owner /\ saved' = saved /\ resolved' = resolved
      /\ orphans' = orphans /\ recorded' = recorded
      /\ token' = token /\ user' = user /\ signing' = signing
      /\ blocked' \subseteq blocked \cup saved /\ Become(t, Idle)
  BY DEF Block, session, server
<1>2. /\ tab' \in [Tabs -> Action] /\ tab'[t] = Idle
      /\ \A s \in Tabs \ {t} : tab'[s] = tab[s]
  BY <1>1, IdleType DEF Become, Inv, TypeOK
<1>3. TypeOK'
  BY <1>1, <1>2, IdleType DEF Inv, TypeOK
<1>4. StoreOK'
  BY <1>1 DEF Inv, StoreOK, Underway, ResolutionIsTrue, OneOpenAttempt
<1>5. Within(tab[t].user)
  BY <1>1 DEF Within, Underway
<1>6. TabOK(t)'
  BY <1>2, IdleType DEF TabOK, KeyStages
<1> QED
  BY <1>1, <1>3, <1>4, <1>5, <1>6, IdleType, TabStep

\* A marker is written only when what it says is so.
LEMMA MarkStep ==
  ASSUME Inv, NEW t \in Tabs, Mark(t)
  PROVE  Inv'
<1>1. CASE Become(t, Idle) /\ UNCHANGED resolved
  BY <1>1, GiveUp DEF Mark, store, session
<1> DEFINE old == tab[t]
           k == old.key
           u == old.user
           a == [old EXCEPT !.stage = "erase"]
<1>2. CASE resolved' = [resolved EXCEPT ![k] = old.outcome] /\ Become(t, a)
  <2>1. /\ k \in Keys /\ u \in Users /\ owner[k] = u /\ old.outcome \in Outcomes
        /\ old.outcome = "not-recorded" => ~Underway(k)
        /\ old.outcome # "not-recorded" => k \in recorded
        /\ old \in Action /\ u = tab[t].user
    BY DEF Mark, Inv, TabOK, KeyStages, TypeOK
  <2>2. a \in Action /\ a.stage = "erase" /\ a.user = u /\ a.key = k
    BY <2>1 DEF Action, Stages
  <2>3. /\ owner' = owner /\ saved' = saved /\ blocked' = blocked
        /\ orphans' = orphans /\ recorded' = recorded
        /\ token' = token /\ user' = user /\ signing' = signing
    BY DEF Mark, session, server
  <2>4. \A j \in Keys : resolved'[j] = IF j = k THEN old.outcome ELSE resolved[j]
    BY <1>2 DEF Inv, TypeOK
  <2>5. Become(t, a)
    BY <1>2
  <2> DEFINE outcome == old.outcome
  <2>6. outcome = old.outcome
    OBVIOUS
  <2>7. resolved' = [resolved EXCEPT ![k] = outcome]
    BY <1>2
  <2> HIDE DEF a, k, u, old, outcome
  <2>8. /\ tab'[t] = a /\ tab' \in [Tabs -> Action]
        /\ \A s \in Tabs \ {t} : tab'[s] = tab[s]
    BY <2>2, <2>5 DEF Become, Inv, TypeOK
  <2>9. TypeOK'
    BY <2>1, <2>2, <2>3, <2>6, <2>7, <2>8 DEF Inv, TypeOK
  <2>10. StoreOK'
    <3>1. ResolutionIsTrue'
      BY <2>1, <2>3, <2>4, NoneAssumption
         DEF Inv, StoreOK, ResolutionIsTrue, Underway, Outcomes
    <3>2. OneOpenAttempt'
      BY <2>1, <2>3, <2>4, NoneAssumption DEF Inv, StoreOK, OneOpenAttempt, TypeOK
    <3>3. \A j \in Keys :
            owner'[j] = None => j \notin saved' /\ resolved'[j] = None /\ ~Underway(j)'
      BY <2>1, <2>3, <2>4, NoneAssumption DEF Inv, StoreOK, Underway
    <3>4. \A j \in Keys : Underway(j)' => j \in saved' \/ resolved'[j] # None
      BY <2>1, <2>3, <2>4, NoneAssumption DEF Inv, StoreOK, Underway
    <3> QED
      BY <3>1, <3>2, <3>3, <3>4 DEF StoreOK
  <2>11. Within(u)
    BY <2>1, <2>3, <2>4 DEF Within, Underway
  <2>12. TabOK(t)'
    BY <2>1, <2>2, <2>3, <2>4, <2>8, NoneAssumption DEF TabOK, KeyStages
  <2> QED
    BY <2>1, <2>2, <2>5, <2>9, <2>10, <2>11, <2>12, TabStep
<1> QED
  BY <1>1, <1>2 DEF Mark

\* The details go once the marker is there.
LEMMA EraseStep ==
  ASSUME Inv, NEW t \in Tabs, Erase(t)
  PROVE  Inv'
<1> DEFINE k == tab[t].key
           u == tab[t].user
<1>1. /\ k \in Keys /\ u \in Users /\ owner[k] = u /\ resolved[k] # None
      /\ u = tab[t].user
  BY DEF Erase, Inv, TabOK, KeyStages
<1>2. /\ owner' = owner /\ saved' = saved \ {k} /\ resolved' = resolved
      /\ blocked' = blocked \ {k} /\ orphans' = orphans /\ recorded' = recorded
      /\ token' = token /\ user' = user /\ signing' = signing /\ Become(t, Idle)
  BY DEF Erase, session, server
<1> HIDE DEF k, u
<1>3. /\ tab' \in [Tabs -> Action] /\ tab'[t] = Idle
      /\ \A s \in Tabs \ {t} : tab'[s] = tab[s]
  BY <1>2, IdleType DEF Become, Inv, TypeOK
<1>4. TypeOK'
  BY <1>2, <1>3, IdleType DEF Inv, TypeOK
<1>5. StoreOK'
  BY <1>1, <1>2 DEF Inv, StoreOK, Underway, ResolutionIsTrue, OneOpenAttempt
<1>6. Within(u)
  BY <1>1, <1>2 DEF Within, Underway
<1>7. TabOK(t)'
  BY <1>3, IdleType DEF TabOK, KeyStages
<1> QED
  BY <1>1, <1>2, <1>4, <1>5, <1>6, <1>7, IdleType, TabStep

\* A closed tab leaves its request behind, and the details with it.
LEMMA CloseStep ==
  ASSUME Inv, NEW t \in Tabs, Close(t)
  PROVE  Inv'
<1>1. CASE orphans' = orphans
  BY <1>1, GiveUp DEF Close, server, session
<1> DEFINE k == tab[t].key
           u == tab[t].user
<1>2. CASE tab[t].stage = "wait" /\ orphans' = orphans \cup {k}
  <2>1. /\ k \in Keys /\ u \in Users /\ owner[k] = u /\ u = tab[t].user
        /\ k \in saved /\ resolved[k] = None
    BY <1>2 DEF Inv, TabOK, KeyStages
  <2>2. /\ owner' = owner /\ saved' = saved /\ resolved' = resolved /\ blocked' = blocked
        /\ recorded' = recorded /\ orphans' = orphans \cup {k}
        /\ token' = token /\ user' = user /\ signing' = signing /\ Become(t, Idle)
    BY <1>2 DEF Close, store, session
  <2> HIDE DEF k, u
  <2>3. /\ tab' \in [Tabs -> Action] /\ tab'[t] = Idle
        /\ \A s \in Tabs \ {t} : tab'[s] = tab[s]
    BY <2>2, IdleType DEF Become, Inv, TypeOK
  <2>4. TypeOK'
    BY <2>1, <2>2, <2>3, IdleType DEF Inv, TypeOK
  <2>5. StoreOK'
    <3>1. ResolutionIsTrue'
      BY <2>1, <2>2, NoneAssumption DEF Inv, StoreOK, ResolutionIsTrue, Outcomes
    <3>2. OneOpenAttempt'
      BY <2>2 DEF Inv, StoreOK, OneOpenAttempt
    <3>3. \A j \in Keys :
            owner'[j] = None => j \notin saved' /\ resolved'[j] = None /\ ~Underway(j)'
      BY <2>1, <2>2, NoneAssumption DEF Inv, StoreOK, Underway
    <3>4. \A j \in Keys : Underway(j)' => j \in saved' \/ resolved'[j] # None
      BY <2>1, <2>2 DEF Inv, StoreOK, Underway
    <3> QED
      BY <3>1, <3>2, <3>3, <3>4 DEF StoreOK
  <2>6. Within(u)
    BY <2>1, <2>2 DEF Within, Underway
  <2>7. TabOK(t)'
    BY <2>3, IdleType DEF TabOK, KeyStages
  <2> QED
    BY <2>1, <2>2, <2>4, <2>5, <2>6, <2>7, IdleType, TabStep
<1> QED
  BY <1>1, <1>2 DEF Close

-----------------------------------------------------------------------------
(* The session of the browser.                                              *)

\* Signing in or out touches neither storage, server nor tabs.
LEMMA AccountStep ==
  ASSUME Inv, UNCHANGED <<store, server, tab>>,
         {token', user'} \subseteq Users \cup {None}, signing' \subseteq Users
  PROVE  Inv'
<1>1. /\ owner' = owner /\ saved' = saved /\ resolved' = resolved /\ blocked' = blocked
      /\ orphans' = orphans /\ recorded' = recorded /\ tab' = tab
  BY DEF store, server
<1>2. TypeOK'
  BY <1>1 DEF Inv, TypeOK
<1>3. StoreOK'
  BY <1>1 DEF Inv, StoreOK, Underway, ResolutionIsTrue, OneOpenAttempt
<1>4. \A s \in Tabs : TabOK(s)'
  BY <1>1 DEF Inv, TabOK, OpenAttempts, Underway
<1>5. LocksExclude'
  BY <1>1 DEF Inv, LocksExclude
<1> QED
  BY <1>2, <1>3, <1>4, <1>5 DEF Inv

LEMMA SignInStep ==
  ASSUME Inv, NEW u \in Users, SignIn(u) \/ StoreUser(u)
  PROVE  Inv'
<1>1. {token', user'} \subseteq Users \cup {None} /\ signing' \subseteq Users
  BY DEF SignIn, StoreUser, Inv, TypeOK
<1> QED
  BY <1>1, AccountStep DEF SignIn, StoreUser

LEMMA SignOutStep ==
  ASSUME Inv, SignOut
  PROVE  Inv'
<1>1. {token', user'} \subseteq Users \cup {None} /\ signing' \subseteq Users
  BY DEF SignOut, Inv, TypeOK
<1> QED
  BY <1>1, AccountStep DEF SignOut

LEMMA StutterStep ==
  ASSUME Inv, UNCHANGED vars
  PROVE  Inv'
<1>1. {token', user'} \subseteq Users \cup {None} /\ signing' \subseteq Users
  BY DEF vars, Inv, TypeOK
<1> QED
  BY <1>1, AccountStep DEF vars, store, server

-----------------------------------------------------------------------------
(* The invariant holds.                                                     *)

LEMMA InitInv == Init => Inv
<1> SUFFICES ASSUME Init PROVE Inv
  OBVIOUS
<1>1. TypeOK
  BY IdleType DEF Init, TypeOK
<1>2. StoreOK
  BY NoneAssumption DEF Init, StoreOK, Underway, ResolutionIsTrue, OneOpenAttempt, Outcomes
<1>3. \A t \in Tabs : TabOK(t)
  BY IdleType DEF Init, TabOK, KeyStages
<1>4. LocksExclude
  BY IdleType DEF Init, LocksExclude
<1> QED
  BY <1>1, <1>2, <1>3, <1>4 DEF Inv

LEMMA NextInv == Inv /\ [Next]_vars => Inv'
<1> SUFFICES ASSUME Inv, [Next]_vars PROVE Inv'
  OBVIOUS
<1>1. ASSUME NEW t \in Tabs, Begin(t) PROVE Inv'
  BY <1>1, BeginStep
<1>2. ASSUME NEW t \in Tabs, Prepare(t) PROVE Inv'
  BY <1>2, PrepareStep
<1>3. ASSUME NEW t \in Tabs, Save(t) PROVE Inv'
  BY <1>3, SaveStep
<1>4. ASSUME NEW t \in Tabs, Retry(t) PROVE Inv'
  BY <1>4, RetryStep
<1>5. ASSUME NEW t \in Tabs, Send(t) PROVE Inv'
  BY <1>5, SendStep
<1>6. ASSUME NEW t \in Tabs, Confirm(t) PROVE Inv'
  BY <1>6, ConfirmStep
<1>7. ASSUME NEW t \in Tabs, LoseConfirmation(t) PROVE Inv'
  BY <1>7, LoseConfirmationStep
<1>8. ASSUME NEW t \in Tabs, Reject(t) PROVE Inv'
  BY <1>8, RejectStep
<1>9. ASSUME NEW t \in Tabs, Refuse(t) PROVE Inv'
  BY <1>9, RefuseStep
<1>10. ASSUME NEW t \in Tabs, Unauthorized(t) PROVE Inv'
  BY <1>10, UnauthorizedStep
<1>11. ASSUME NEW t \in Tabs, Block(t) PROVE Inv'
  BY <1>11, BlockStep
<1>12. ASSUME NEW t \in Tabs, Mark(t) PROVE Inv'
  BY <1>12, MarkStep
<1>13. ASSUME NEW t \in Tabs, Erase(t) PROVE Inv'
  BY <1>13, EraseStep
<1>14. ASSUME NEW t \in Tabs, Reconcile(t) PROVE Inv'
  BY <1>14, ReconcileStep
<1>15. ASSUME NEW t \in Tabs, Close(t) PROVE Inv'
  BY <1>15, CloseStep
<1>16. ASSUME NEW k \in Keys, ServeOrphan(k) PROVE Inv'
  BY <1>16, ServeOrphanStep
<1>17. ASSUME NEW u \in Users, SignIn(u) \/ StoreUser(u) PROVE Inv'
  BY <1>17, SignInStep
<1>18. CASE SignOut
  BY <1>18, SignOutStep
<1>19. CASE UNCHANGED vars
  BY <1>19, StutterStep
<1> QED
  BY <1>1, <1>2, <1>3, <1>4, <1>5, <1>6, <1>7, <1>8, <1>9, <1>10, <1>11, <1>12, <1>13,
     <1>14, <1>15, <1>16, <1>17, <1>18, <1>19 DEF Next

LEMMA SpecInv == Spec => []Inv
  BY InitInv, NextInv, PTL DEF Spec

-----------------------------------------------------------------------------
(* The results.                                                             *)

\* Every variable keeps its type; a tab that has a request to send, to wait
\* for or to write down knows the key it is about.
THEOREM TypeCorrect == Spec => []TypeOK
<1>1. Inv => TypeOK
  BY DEF Inv
<1> QED
  BY <1>1, SpecInv, PTL

\* However many tabs start, retry, close and are signed over to another
\* account, preparePaymentAttempt never stores a second unresolved attempt of
\* one account: its Web Lock covers both the look and the write.
THEOREM OneAttemptAtATime == Spec => []OneOpenAttempt
<1>1. Inv => OneOpenAttempt
  BY DEF Inv, StoreOK
<1> QED
  BY <1>1, SpecInv, PTL

\* A payment the server has recorded or may still record is never without
\* trace in the browser: sendSavedPayment sends what is saved only, and
\* finishAttempt erases the details after the marker.
THEOREM EvidenceKept == Spec => []PaymentsLeaveEvidence
<1>1. Inv => PaymentsLeaveEvidence
  BY DEF Inv, StoreOK, TabOK, Underway, PaymentsLeaveEvidence
<1> QED
  BY <1>1, SpecInv, PTL

\* A resolution marker stays true: no tab, open or closed, has a request left
\* for a payment resolved as not recorded, on a truthful confirmation.
THEOREM ResolutionsTrue == Spec => []ResolutionIsTrue
<1>1. Inv => ResolutionIsTrue
  BY DEF Inv, StoreOK
<1> QED
  BY <1>1, SpecInv, PTL
=============================================================================
