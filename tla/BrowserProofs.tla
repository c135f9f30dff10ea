---------------------------- MODULE BrowserProofs ----------------------------
(***************************************************************************)
(* Proofs about Browser, for any rows, properties, sessions and requests,  *)
(* and any choice of pages that is closed under navigation.                *)
(***************************************************************************)
EXTENDS Browser, FiniteSetTheorems, FunctionTheorems, WellFoundedInduction,
        SequenceTheorems, TLAPS

-----------------------------------------------------------------------------
(* The types.                                                               *)

Statuses == {"active", "archived", "PENDING", "ACTIVE", "ENDED"}
Filters == {"active", "archived"}
Listed == Rows \X Statuses
Paths ==
  {"dashboard", "properties", "property", "payments", "payment", "tenants", "tenant",
   "units", "unit", "leases", "lease"}
Urls == (Paths \X {"", "active", "archived"}) \cup ({"units of"} \X Homes)

Fetched == [token : Nat, state : {"sent", "ok", "unauthorized"}, body : SUBSET Listed]

PageReads == {"load", "options", "units"}
ListReads == {"load", "archive", "restore"}
Archivals == {"archive", "restore"}
LeaseActions == {"activate", "end"}

Call ==
  [op : RowOperations \cup PageReads \cup (SavingPages \cap Pages),
   arg : Rows \cup Homes \cup {None},
   filter : Filters, here : BOOLEAN, waits : SUBSET Urls, got : SUBSET Listed,
   send : Requests \cup {None}, own : BOOLEAN, alone : BOOLEAN]

View ==
  [page : Pages, filter : Filters, loading : BOOLEAN, error : BOOLEAN,
   rows : (SUBSET Listed) \cup {None}, acting : SUBSET Rows, asking : Leases \cup {None},
   banner : BOOLEAN, timer : BOOLEAN, rushed : BOOLEAN, choices : BOOLEAN, property : Homes \cup {None},
   unit : Homes \cup {None}, options : Homes \cup {None}, submitting : BOOLEAN,
   saved : BOOLEAN]

\* The pages a form leaves for; none of them saves anything itself.
Targets == {"home", "properties", "payments", "tenants", "units", "leases"}

Types ==
  /\ db \in [Rows -> Statuses]
  /\ issued \in 1..MaxSessions /\ expired \subseteq 1..issued /\ token \in 0..issued
  /\ strays \subseteq RowOperations \X Rows
  /\ DOMAIN gets \subseteq Urls /\ gets \in [DOMAIN gets -> Fetched]
  /\ calls \in Seq(Call)
  /\ view \in View
  /\ going \in (Targets \cap Pages) \cup {None} /\ unloading \in BOOLEAN

-----------------------------------------------------------------------------
(* What is known of every request and of every call.                        *)

\* The rows a list page shows, and the urls they are read from, under a filter.
ListPageNames == {"tenants", "units", "leases"}
RowsOn(page) ==
  IF page = "tenants" THEN Tenants ELSE IF page = "units" THEN Units ELSE Leases
PageRows(page, filter) ==
  {r \in Listed : r[1] \in RowsOn(page) /\ (page # "leases" => r[2] = filter)}
PageUrls(page, filter) ==
  IF page = "leases" THEN {Url("leases", "")} ELSE ListUrls(page, filter)

GetOK(u) ==
  /\ gets[u].state = "unauthorized" => ~Valid(gets[u].token)
  /\ IF u[1] \in ListPageNames THEN gets[u].body \subseteq PageRows(u[1], u[2])
                               ELSE gets[u].body = {}

\* What a call is about, whatever the page.
CallOK(i) ==
  LET c == calls[i]
  IN /\ c.op \in Archivals => c.arg \in Tenants \cup Units /\ c.filter = Transition(c.op)[1]
     /\ c.op \in LeaseActions => c.arg \in Leases
     /\ c.op = "units" => c.arg \in Homes
     /\ c.op \in PageReads => c.send = None
     /\ c.op \in SavingPages => c.send # None
     /\ c.send # None => c.got = {}

\* The session of the request it awaits.
SendOK(i) ==
  LET send == calls[i].send
  IN send # None =>
       /\ send.token <= issued
       /\ send.state = "unauthorized" => ~Valid(send.token)
       /\ calls[i].op \in AuthPages /\ send.state = "ok" => send.token > 0

WaitsOK(i) ==
  /\ calls[i].waits \subseteq DOMAIN gets
  /\ calls[i].send = None <=> calls[i].waits # {}
  /\ calls[i].waits # {} => calls[i].here

\* A call of the page shown belongs to that page, and reads what it shows.
PlaceOK(i) ==
  LET c == calls[i]
  IN c.here =>
       /\ c.op \in Archivals => view.page \in {"tenants", "units"} /\ c.arg \in RowsOn(view.page)
       /\ c.op \in LeaseActions => view.page = "leases"
       /\ c.op \in SavingPages => c.op = view.page
       /\ c.op = "units" => view.page \in LeaseForms
       /\ c.op = "options" => Page[view.page].options # {}
       /\ c.op = "load" => Loads(view.page)
       /\ view.page \in ListPageNames =>
            c.waits \subseteq PageUrls(view.page, c.filter)
              /\ c.got \subseteq PageRows(view.page, c.filter)

CallsOK ==
  \A i \in DOMAIN calls :
    CallOK(i) /\ SendOK(i) /\ WaitsOK(i) /\ PlaceOK(i)

GetsOK == \A u \in DOMAIN gets : GetOK(u)

-----------------------------------------------------------------------------
(* What the pages keep.                                                     *)

RowsOK ==
  /\ view.page \in ListPageNames =>
       \/ view.page = "units" /\ view.rows = None
       \/ view.rows \in SUBSET Listed /\ \A r \in view.rows : r[1] \in RowsOn(view.page)
  /\ view.timer => view.page = "tenants"

\* A list is loaded by one call, before anything else is done with it, unless the
\* user is in a rush; so is the record of a lease form.
LoadsAlone ==
  \A i \in Here({"load"}) :
    /\ view.page \in {"tenants", "units"} /\ ~view.rushed =>
         view.loading /\ \A j \in DOMAIN calls : calls[j].here => j = i
    /\ view.page = "leases" =>
         view.rows = {} /\ view.asking = None /\ \A j \in DOMAIN calls : calls[j].here => j = i
    /\ view.page \in LeaseForms => ~view.choices /\ \A j \in Here(PageReads) : j = i

\* The units page reads and lists what its heading names.
UnitsFiltered ==
  view.page = "units" /\ ~view.rushed =>
    /\ \A i \in DOMAIN calls : calls[i].here => calls[i].filter = view.filter
    /\ ~view.loading /\ ~view.error /\ view.rows # None =>
         \A r \in view.rows : r[2] = view.filter

UnitsOffered ==
  view.page \in LeaseForms /\ ~view.rushed =>
    /\ \A i \in Here({"units"}) : calls[i].arg = view.property
    /\ Here({"units"}) = {} => view.options \in {None, view.property}

-----------------------------------------------------------------------------
(* Busy controls.                                                           *)

LoadingOK ==
  view.loading /\ ~Page[view.page].spins => \E i \in Here(ListReads) : calls[i].waits # {}

ActingOK ==
  /\ view.acting # {} /\ view.page # "leases" => Here(Archivals) # {}
  /\ view.page = "leases" => view.acting = {calls[i].arg : i \in Here(LeaseActions)}
  /\ OneActionPerLease

SubmittingOK ==
  /\ view.submitting => view.page \in SavingPages
  /\ view.submitting /\ ~Page[view.page].swallows =>
       Here({view.page}) # {} \/ (view.saved /\ going # None)
  /\ view.page \in SavingPages /\ ~Page[view.page].early =>
       /\ view.saved => view.submitting
       /\ \A i, j \in Here({view.page}) : i = j /\ view.submitting /\ ~view.saved

-----------------------------------------------------------------------------
(* What an action on a row did, and its reload shows.                       *)

Done(i) == db[calls[i].arg] = Transition(calls[i].op)[2]

Shows(c, rows) ==
  IF c.arg \in Leases THEN <<c.arg, Transition(c.op)[2]>> \in rows
                      ELSE \A r \in rows : r[1] # c.arg

AloneOK(i) ==
  /\ RowCalls = {i} /\ strays = {}
  /\ calls[i].send = None \/ calls[i].send.state = "ok" => Done(i)
  /\ calls[i].send = None /\ calls[i].own =>
       /\ \A u \in calls[i].waits : gets[u].state = "ok" => Shows(calls[i], gets[u].body)
       /\ calls[i].arg \notin Leases => Shows(calls[i], calls[i].got)

ActionsOK == \A i \in RowCalls : calls[i].alone => AloneOK(i)

IInv ==
  /\ Types /\ CallsOK /\ GetsOK /\ RowsOK
  /\ LoadsAlone /\ UnitsFiltered /\ UnitsOffered
  /\ LoadingOK /\ ActingOK /\ SubmittingOK /\ ActionsOK
-----------------------------------------------------------------------------
(* Selecting some of the calls.                                             *)

\* r consists of the elements of s at the positions in T, each of them once.
Selects(f, s, T, r) ==
  /\ f \in [DOMAIN r -> T]
  /\ \A j, k \in DOMAIN r : f[j] = f[k] => j = k
  /\ \A i \in T : \E k \in DOMAIN r : f[k] = i
  /\ \A k \in DOMAIN r : r[k] = s[f[k]]

Increasing(f) == \A j, k \in DOMAIN f : j < k => f[j] < f[k]

Orders(S) == {f \in [1..Cardinality(S) -> S] : Increasing(f)}

LEMMA LeastOf ==
  ASSUME NEW T \in SUBSET Nat, T # {}
  PROVE  \E x \in T : \A y \in T : x <= y
<1> DEFINE Less == {ss \in Nat \X Nat : ss[1] < ss[2]}
<1>1. IsWellFoundedOn(Less, Nat)
  BY NatLessThanWellFounded DEF OpToRel
<1>2. PICK x \in T : \A y \in T : ~ (<<y, x>> \in Less)
  <2> HIDE DEF Less
  <2> QED
    BY <1>1, WFMin
<1> SUFFICES ASSUME NEW y \in T PROVE x <= y
  BY <1>2
<1>3. <<y, x>> \notin Less /\ x \in Nat /\ y \in Nat
  BY <1>2
<1> QED
  BY <1>3

\* Positions can be listed in their order: by induction on their number, the least
\* one first.
LEMMA OrderExists ==
  ASSUME NEW S \in SUBSET Nat, IsFiniteSet(S)
  PROVE  Orders(S) # {}
<1> DEFINE Bad == {n \in Nat : \E T \in SUBSET Nat :
                     IsFiniteSet(T) /\ Cardinality(T) = n /\ Orders(T) = {}}
<1>1. SUFFICES ASSUME Bad # {} PROVE FALSE
  BY FS_CardinalityType
<1>2. PICK n \in Bad : \A y \in Bad : n <= y
  <2>1. Bad \in SUBSET Nat
    OBVIOUS
  <2> QED
    BY <1>1, <2>1, LeastOf
<1>3. PICK T \in SUBSET Nat : IsFiniteSet(T) /\ Cardinality(T) = n /\ Orders(T) = {}
  BY <1>2
<1>4. n \in Nat
  BY <1>2
<1>5. CASE T = {}
  <2>1. n = 0
    BY <1>3, <1>5, FS_EmptySet
  <2> DEFINE f == [k \in 1..0 |-> 0]
  <2>2. f \in [1..Cardinality(T) -> T]
    BY <1>3, <2>1
  <2>3. Increasing(f)
    BY DEF Increasing
  <2> QED
    BY <1>3, <2>2, <2>3 DEF Orders
<1>6. CASE T # {}
  <2>1. PICK m \in T : \A y \in T : m <= y
    BY <1>6, LeastOf
  <2> DEFINE Rest == T \ {m}
  <2>2. IsFiniteSet(Rest) /\ Cardinality(Rest) = n - 1 /\ Rest \in SUBSET Nat
    BY <1>3, <2>1, FS_RemoveElement
  <2>3. n - 1 \in Nat
    BY <2>2, FS_CardinalityType
  <2>4. n - 1 \notin Bad
    BY <1>2, <1>4
  <2>5. Orders(Rest) # {}
    BY <2>2, <2>3, <2>4
  <2>6. PICK g : g \in [1..(n-1) -> Rest] /\ Increasing(g)
    BY <2>2, <2>5 DEF Orders
  <2> DEFINE f == [k \in 1..n |-> IF k = 1 THEN m ELSE g[k-1]]
  <2>7. \A k \in 1..n : k # 1 => k - 1 \in 1..(n-1) /\ g[k-1] \in T /\ m < g[k-1]
    <3> SUFFICES ASSUME NEW k \in 1..n, k # 1
                 PROVE  k - 1 \in 1..(n-1) /\ g[k-1] \in T /\ m < g[k-1]
      OBVIOUS
    <3>1. k - 1 \in 1..(n-1)
      BY <1>4
    <3>2. g[k-1] \in Rest
      BY <3>1, <2>6
    <3>3. g[k-1] \in T /\ g[k-1] # m /\ g[k-1] \in Nat /\ m \in Nat
      BY <3>2
    <3>4. m <= g[k-1]
      BY <3>3, <2>1
    <3> QED
      BY <3>1, <3>3, <3>4
  <2>8. f \in [1..n -> T]
    BY <2>7
  <2>9. Increasing(f)
    <3> SUFFICES ASSUME NEW j \in 1..n, NEW k \in 1..n, j < k
                 PROVE  f[j] < f[k]
      BY DEF Increasing
    <3>1. k # 1 /\ k - 1 \in 1..(n-1) /\ f[k] = g[k-1] /\ m < g[k-1]
      BY <2>7, <1>4
    <3>2. CASE j = 1
      BY <3>1, <3>2
    <3>3. CASE j # 1
      <4>1. j - 1 \in 1..(n-1) /\ f[j] = g[j-1] /\ j - 1 < k - 1
        BY <3>3, <2>7, <1>4
      <4> QED
        BY <3>1, <4>1, <2>6 DEF Increasing
    <3> QED
      BY <3>2, <3>3
  <2> QED
    BY <1>3, <2>8, <2>9 DEF Orders
<1> QED
  BY <1>5, <1>6

LEMMA InOrderFacts ==
  ASSUME NEW S \in SUBSET Nat, IsFiniteSet(S)
  PROVE  /\ InOrder(S) \in [1..Cardinality(S) -> S]
         /\ \A j, k \in 1..Cardinality(S) : InOrder(S)[j] = InOrder(S)[k] => j = k
         /\ \A i \in S : \E k \in 1..Cardinality(S) : InOrder(S)[k] = i
<1> DEFINE n == Cardinality(S)
           f == InOrder(S)
<1>1. n \in Nat
  BY FS_CardinalityType
<1>2. f \in [1..n -> S] /\ \A j, k \in DOMAIN f : j < k => f[j] < f[k]
  BY OrderExists DEF InOrder, Orders, Increasing
<1> HIDE DEF f
<1>3. \A j, k \in 1..n : f[j] = f[k] => j = k
  <2> SUFFICES ASSUME NEW j \in 1..n, NEW k \in 1..n, f[j] = f[k], j # k PROVE FALSE
    OBVIOUS
  <2>1. f[j] \in S /\ f[k] \in S
    BY <1>2
  <2>2. f[j] \in Nat /\ f[k] \in Nat
    BY <2>1
  <2>3. j < k \/ k < j
    BY <1>1
  <2>4. j \in DOMAIN f /\ k \in DOMAIN f
    BY <1>2
  <2> QED
    BY <1>2, <2>2, <2>3, <2>4
<1>4. f \in Injection(1..n, S)
  BY <1>2, <1>3 DEF Injection, IsInjective
<1>5. IsFiniteSet(1..n) /\ Cardinality(1..n) = n
  BY <1>1, FS_Interval
<1>6. f \in Surjection(1..n, S)
  BY <1>4, <1>5, FS_Injection
<1>7. \A i \in S : \E k \in 1..n : f[k] = i
  BY <1>6 DEF Surjection
<1> QED
  BY <1>2, <1>3, <1>7 DEF f

LEMMA OnlySelects ==
  ASSUME NEW C, NEW cs \in Seq(C), NEW T \in SUBSET DOMAIN cs
  PROVE  /\ Only(cs, T) \in Seq(C) /\ Len(Only(cs, T)) <= Len(cs)
         /\ \E f : Selects(f, cs, T, Only(cs, T))
<1> DEFINE n == Cardinality(T)
           f == InOrder(T)
<1>1. Len(cs) \in Nat /\ DOMAIN cs = 1..Len(cs) /\ \A i \in 1..Len(cs) : cs[i] \in C
  BY LenProperties
<1>2. IsFiniteSet(1..Len(cs)) /\ Cardinality(1..Len(cs)) = Len(cs)
  <2>1. /\ IsFiniteSet(1..Len(cs))
        /\ Cardinality(1..Len(cs)) = IF 1 > Len(cs) THEN 0 ELSE Len(cs) - 1 + 1
    <3>1. 1 \in Int /\ Len(cs) \in Int
      BY <1>1
    <3> QED
      BY <3>1, FS_Interval
  <2> QED
    BY <1>1, <2>1
<1>3. IsFiniteSet(T) /\ n <= Len(cs) /\ T \in SUBSET Nat
  <2>1. T \in SUBSET (1..Len(cs))
    BY <1>1
  <2>2. IsFiniteSet(T) /\ Cardinality(T) <= Cardinality(1..Len(cs))
    BY <1>2, <2>1, FS_Subset
  <2>3. T \in SUBSET Nat
    BY <1>1, <2>1
  <2> QED
    BY <1>2, <2>2, <2>3
<1>4. n \in Nat
  BY <1>3, FS_CardinalityType
<1>5. /\ f \in [1..n -> T]
      /\ \A j, k \in 1..n : f[j] = f[k] => j = k
      /\ \A i \in T : \E k \in 1..n : f[k] = i
  BY <1>3, InOrderFacts
<1> HIDE DEF f
<1>6. Only(cs, T) = [k \in 1..n |-> cs[f[k]]]
  BY DEF Only, f
<1>7. \A k \in 1..n : cs[f[k]] \in C
  BY <1>1, <1>5
<1>8. Only(cs, T) \in Seq(C)
  BY <1>4, <1>6, <1>7
<1>9. DOMAIN Only(cs, T) = 1..n /\ Len(Only(cs, T)) = n
  BY <1>4, <1>6
<1>10. Selects(f, cs, T, Only(cs, T))
  BY <1>5, <1>6, <1>9 DEF Selects
<1> QED
  BY <1>3, <1>8, <1>9, <1>10

LEMMA RemoveAtSelects ==
  ASSUME NEW C, NEW cs \in Seq(C), NEW i \in DOMAIN cs
  PROVE  /\ RemoveAt(cs, i) \in Seq(C) /\ Len(RemoveAt(cs, i)) = Len(cs) - 1
         /\ \E f : Selects(f, cs, DOMAIN cs \ {i}, RemoveAt(cs, i))
<1> DEFINE n == Len(cs)
           r == RemoveAt(cs, i)
           a == SubSeq(cs, 1, i-1)
           b == SubSeq(cs, i+1, n)
           f == [k \in 1..(n-1) |-> IF k < i THEN k ELSE k + 1]
<1>1. n \in Nat /\ i \in 1..n /\ DOMAIN cs = 1..n /\ \A j \in 1..n : cs[j] \in C
  BY LenProperties
<1>2. a \in Seq(C) /\ Len(a) = i-1 /\ \A k \in 1..(i-1) : a[k] = cs[k]
  <2>1. \A k \in 1..(i-1) : cs[k] \in C
    BY <1>1
  <2>2. i-1 \in Int /\ (1 <= i-1 \/ i-1 = 0) /\ (i-1) - 1 + 1 = i-1
    BY <1>1
  <2> QED
    BY <2>1, <2>2, SubSeqProperties
<1>3. b \in Seq(C) /\ Len(b) = n-i /\ \A k \in 1..(n-i) : b[k] = cs[k+i]
  <2>1. \A k \in (i+1)..n : cs[k] \in C
    BY <1>1
  <2>2. i+1 \in Int /\ n \in Int /\ (i+1 <= n \/ n-i = 0) /\ n - (i+1) + 1 = n-i
    BY <1>1
  <2>3. \A k \in 1..(n-i) : (i+1)+k-1 = k+i
    BY <1>1
  <2> QED
    BY <2>1, <2>2, <2>3, SubSeqProperties
<1>4. r = a \o b
  BY DEF RemoveAt
<1> HIDE DEF r, a, b
<1>5. /\ r \in Seq(C) /\ Len(r) = n-1
      /\ \A k \in 1..(n-1) : r[k] = IF k <= i-1 THEN a[k] ELSE b[k-(i-1)]
  <2>1. /\ a \o b \in Seq(C) /\ Len(a \o b) = Len(a) + Len(b)
        /\ \A k \in 1..(Len(a) + Len(b)) :
             (a \o b)[k] = IF k <= Len(a) THEN a[k] ELSE b[k - Len(a)]
    BY <1>2, <1>3, ConcatProperties
  <2>2. Len(a) + Len(b) = n-1
    BY <1>1, <1>2, <1>3
  <2> QED
    BY <1>2, <1>4, <2>1, <2>2
<1>6. DOMAIN r = 1..(n-1)
  BY <1>5, LenProperties
<1>7. \A k \in 1..(n-1) : r[k] = cs[f[k]]
  <2> SUFFICES ASSUME NEW k \in 1..(n-1) PROVE r[k] = cs[f[k]]
    OBVIOUS
  <2>1. CASE k < i
    <3>1. k <= i-1 /\ k \in 1..(i-1)
      BY <1>1, <2>1
    <3> QED
      BY <1>2, <1>5, <2>1, <3>1
  <2>2. CASE ~(k < i)
    <3>1. k-(i-1) \in 1..(n-i) /\ k-(i-1)+i = k+1 /\ ~(k <= i-1)
      BY <1>1, <2>2
    <3>2. b[k-(i-1)] = cs[k+1]
      BY <1>3, <3>1
    <3> QED
      BY <1>5, <2>2, <3>1, <3>2
  <2> QED
    BY <2>1, <2>2
<1>8. \A k \in 1..(n-1) : f[k] \in 1..n /\ f[k] # i
  BY <1>1
<1>9. \A j, k \in 1..(n-1) : f[j] = f[k] => j = k
  BY <1>1
<1>10. \A j \in (1..n) \ {i} : \E k \in 1..(n-1) : f[k] = j
  <2> SUFFICES ASSUME NEW j \in (1..n) \ {i} PROVE \E k \in 1..(n-1) : f[k] = j
    OBVIOUS
  <2>1. CASE j < i
    BY <1>1, <2>1
  <2>2. CASE j > i
    <3>1. j-1 \in 1..(n-1) /\ f[j-1] = j
      BY <1>1, <2>2
    <3> QED
      BY <3>1
  <2> QED
    BY <1>1, <2>1, <2>2
<1>11. Selects(f, cs, DOMAIN cs \ {i}, r)
  BY <1>1, <1>6, <1>7, <1>8, <1>9, <1>10 DEF Selects
<1> QED
  BY <1>5, <1>11 DEF r

-----------------------------------------------------------------------------
(* The table of pages.                                                      *)

PageTypes ==
  [reads : SUBSET Urls, options : SUBSET Urls, leaves : Targets \cup {None},
   early : BOOLEAN, swallows : BOOLEAN, spins : BOOLEAN]

LEMMA PageNames ==
  AllPages = {"home", "finance", "properties", "payments", "tenant", "property",
    "tenants", "units", "leases", "newLease", "editLease", "editPayment", "newTenant",
    "editTenant", "newProperty", "editProperty", "newUnit", "editUnit", "login", "register"}
  BY DEF AllPages, Page

LEMMA PageRecords ==
  /\ Page["home"] = HomePage /\ Page["finance"] = FinancePage
  /\ Page["properties"] = PropertiesPage /\ Page["payments"] = PaymentsPage
  /\ Page["tenant"] = TenantPage /\ Page["property"] = PropertyPage
  /\ Page["tenants"] = TenantsPage /\ Page["units"] = UnitsPage
  /\ Page["leases"] = LeasesPage /\ Page["newLease"] = NewLeasePage
  /\ Page["editLease"] = EditLeasePage /\ Page["editPayment"] = EditPaymentPage
  /\ Page["newTenant"] = NewTenantPage /\ Page["editTenant"] = EditTenantPage
  /\ Page["newProperty"] = NewPropertyPage /\ Page["editProperty"] = EditPropertyPage
  /\ Page["newUnit"] = NewUnitPage /\ Page["editUnit"] = EditUnitPage
  /\ Page["login"] = LoginPage /\ Page["register"] = RegisterPage
  BY DEF Page

LEMMA UrlFacts ==
  /\ \A x \in Paths, f \in {"", "active", "archived"} : Url(x, f) \in Urls
  /\ \A h \in Homes : UnitUrls(h) \subseteq Urls /\ UnitUrls(h) # {}
  /\ LeaseOptions \in SUBSET Urls /\ PaymentOptions \in SUBSET Urls
  /\ LeaseOptions # {} /\ PaymentOptions # {}
  /\ Preset \in Homes
<1>1. Preset \in Homes
  BY HomesAssumption DEF Preset
<1>2. \A x \in Paths, f \in {"", "active", "archived"} : Url(x, f) \in Urls
  BY DEF Url, Urls
<1>3. ASSUME NEW h \in Homes PROVE UnitUrls(h) \subseteq Urls /\ UnitUrls(h) # {}
  <2>1. <<"units of", h>> \in {"units of"} \X Homes
    OBVIOUS
  <2> QED
    BY <2>1 DEF Url, Urls, UnitUrls
<1>4. "properties" \in Paths /\ "tenants" \in Paths /\ "leases" \in Paths
  BY DEF Paths
<1>5. LeaseOptions \in SUBSET Urls /\ PaymentOptions \in SUBSET Urls
  BY <1>2, <1>4 DEF LeaseOptions, PaymentOptions
<1> QED
  BY <1>1, <1>2, <1>3, <1>5 DEF LeaseOptions, PaymentOptions

\* What is used of the table: the types of its columns, and the rows that matter.
Plain(page) == ~page.spins /\ page.options = {} /\ page.leaves = None

Leaving(page) == ~page.spins /\ page.leaves \in Targets

LEMMA PlainPages ==
  ASSUME NEW page \in {HomePage, PropertiesPage, PaymentsPage, TenantPage, TenantsPage,
                       UnitsPage, LeasesPage}
  PROVE  page \in PageTypes /\ Plain(page)
<1>1. \A urls \in SUBSET Urls : Showing(urls) \in PageTypes /\ Plain(Showing(urls))
  BY DEF Showing, PageTypes, Plain
<1>2. /\ "dashboard" \in Paths /\ "properties" \in Paths /\ "payments" \in Paths
      /\ "tenant" \in Paths /\ "tenants" \in Paths /\ "property" \in Paths
      /\ "units" \in Paths /\ "leases" \in Paths
  BY DEF Paths
<1>3. /\ {Url("dashboard", "")} \in SUBSET Urls /\ {Url("properties", "")} \in SUBSET Urls
      /\ {Url("payments", "")} \in SUBSET Urls /\ {Url("tenant", "")} \in SUBSET Urls
      /\ {Url("tenants", "active")} \in SUBSET Urls
      /\ {Url("property", ""), Url("units", "active")} \in SUBSET Urls
      /\ {Url("leases", "")} \in SUBSET Urls
  BY <1>2, UrlFacts
<1> QED
  BY <1>1, <1>3 DEF HomePage, PropertiesPage, PaymentsPage, TenantPage, TenantsPage,
     UnitsPage, LeasesPage

LEMMA FinanceFacts ==
  FinancePage \in PageTypes /\ FinancePage.options = {} /\ FinancePage.leaves = None
<1>1. {Url("dashboard", "")} \in SUBSET Urls
  BY UrlFacts DEF Paths
<1> QED
  BY <1>1 DEF FinancePage, Showing, PageTypes

LEMMA SavingFacts ==
  ASSUME NEW urls \in SUBSET Urls, NEW target \in Targets
  PROVE  /\ Saving(urls, target) \in PageTypes /\ Leaving(Saving(urls, target))
         /\ Saving(urls, target).options = {}
  BY DEF Saving, Showing, PageTypes, Leaving

LEMMA LeavingPages ==
  /\ \A page \in {PropertyPage, NewTenantPage, EditTenantPage, NewPropertyPage,
                  EditPropertyPage, NewUnitPage, EditUnitPage, LoginPage, RegisterPage} :
       page \in PageTypes /\ Leaving(page) /\ page.options = {}
  /\ \A page \in {NewLeasePage, EditLeasePage, EditPaymentPage} :
       page \in PageTypes /\ Leaving(page)
  /\ NewLeasePage.reads = {}
<1>1. /\ "property" \in Paths /\ "tenant" \in Paths /\ "unit" \in Paths
      /\ "lease" \in Paths /\ "payment" \in Paths
  BY DEF Paths
<1>2. /\ {Url("property", "")} \in SUBSET Urls /\ {Url("tenant", "")} \in SUBSET Urls
      /\ {Url("unit", "")} \in SUBSET Urls /\ {Url("lease", "")} \in SUBSET Urls
      /\ {Url("payment", "")} \in SUBSET Urls /\ {} \in SUBSET Urls
  BY <1>1, UrlFacts
<1>3. /\ "properties" \in Targets /\ "leases" \in Targets /\ "payments" \in Targets
      /\ "tenants" \in Targets /\ "units" \in Targets /\ "home" \in Targets
  BY DEF Targets
<1> HIDE DEF Targets
<1>4. \A page \in {NewTenantPage, EditTenantPage, NewPropertyPage, LoginPage} :
       page \in PageTypes /\ Leaving(page) /\ page.options = {}
  <2>1. NewTenantPage \in PageTypes /\ Leaving(NewTenantPage) /\ NewTenantPage.options = {}
    BY <1>2, <1>3, SavingFacts DEF NewTenantPage
  <2>2. EditTenantPage \in PageTypes /\ Leaving(EditTenantPage) /\ EditTenantPage.options = {}
    BY <1>2, <1>3, SavingFacts DEF EditTenantPage
  <2>3. NewPropertyPage \in PageTypes /\ Leaving(NewPropertyPage) /\ NewPropertyPage.options = {}
    BY <1>2, <1>3, SavingFacts DEF NewPropertyPage
  <2>4. LoginPage \in PageTypes /\ Leaving(LoginPage) /\ LoginPage.options = {}
    BY <1>2, <1>3, SavingFacts DEF LoginPage
  <2> QED
    BY <2>1, <2>2, <2>3, <2>4
<1>5. PropertyPage \in PageTypes /\ Leaving(PropertyPage) /\ PropertyPage.options = {}
  BY <1>2, <1>3 DEF PropertyPage, Saving, Showing, PageTypes, Leaving
<1>6. EditPropertyPage \in PageTypes /\ Leaving(EditPropertyPage) /\ EditPropertyPage.options = {}
  BY <1>2, <1>3 DEF EditPropertyPage, Saving, Showing, PageTypes, Leaving
<1>7. NewUnitPage \in PageTypes /\ Leaving(NewUnitPage) /\ NewUnitPage.options = {}
  BY <1>2, <1>3 DEF NewUnitPage, Saving, Showing, PageTypes, Leaving
<1>8. EditUnitPage \in PageTypes /\ Leaving(EditUnitPage) /\ EditUnitPage.options = {}
  BY <1>2, <1>3 DEF EditUnitPage, Saving, Showing, PageTypes, Leaving
<1>9. RegisterPage \in PageTypes /\ Leaving(RegisterPage) /\ RegisterPage.options = {}
  BY <1>2, <1>3 DEF RegisterPage, Saving, Showing, PageTypes, Leaving
<1>10. NewLeasePage \in PageTypes /\ Leaving(NewLeasePage) /\ NewLeasePage.reads = {}
  BY <1>2, <1>3, UrlFacts DEF NewLeasePage, Saving, Showing, PageTypes, Leaving
<1>11. EditLeasePage \in PageTypes /\ Leaving(EditLeasePage)
  BY <1>2, <1>3, UrlFacts DEF EditLeasePage, Saving, Showing, PageTypes, Leaving
<1>12. EditPaymentPage \in PageTypes /\ Leaving(EditPaymentPage)
  BY <1>2, <1>3, UrlFacts DEF EditPaymentPage, Saving, Showing, PageTypes, Leaving
<1> QED
  BY <1>4, <1>5, <1>6, <1>7, <1>8, <1>9, <1>10, <1>11, <1>12

LEMMA PageFacts ==
  /\ \A p \in AllPages : Page[p] \in PageTypes
  /\ \A p \in AllPages \ {"finance"} : ~Page[p].spins
  /\ \A p \in AllPages : Page[p].options # {} => p \in {"newLease", "editLease", "editPayment"}
  /\ Page["newLease"].reads = {}
  /\ Page["tenants"].reads = {Url("tenants", "active")}
  /\ Page["units"].reads = {Url("property", ""), Url("units", "active")}
  /\ Page["leases"].reads = {Url("leases", "")}
<1>1. \A p \in AllPages : Page[p] \in PageTypes
  BY PageNames, PageRecords, PlainPages, FinanceFacts, LeavingPages
<1>2. \A p \in AllPages \ {"finance"} : ~Page[p].spins
  BY PageNames, PageRecords, PlainPages, LeavingPages DEF Plain, Leaving
<1>3. \A p \in AllPages : Page[p].options # {} => p \in {"newLease", "editLease", "editPayment"}
  BY PageNames, PageRecords, PlainPages, FinanceFacts, LeavingPages DEF Plain
<1>4. /\ Page["tenants"].reads = {Url("tenants", "active")}
      /\ Page["units"].reads = {Url("property", ""), Url("units", "active")}
      /\ Page["leases"].reads = {Url("leases", "")}
  <2>1. Page["tenants"] = TenantsPage /\ Page["units"] = UnitsPage /\ Page["leases"] = LeasesPage
    BY PageRecords
  <2>2. \A urls : Showing(urls).reads = urls
    BY DEF Showing
  <2> QED
    BY <2>1, <2>2 DEF TenantsPage, UnitsPage, LeasesPage
<1> QED
  BY <1>1, <1>2, <1>3, <1>4, PageRecords, LeavingPages

LEMMA SavingNames ==
  /\ SavingPages = {"property", "newLease", "editLease", "editPayment", "newTenant",
       "editTenant", "newProperty", "editProperty", "newUnit", "editUnit", "login", "register"}
  /\ \A p \in SavingPages : Page[p].leaves \in Targets
<1>1. None \notin Targets
  BY NoneAssumption, PageNames DEF Targets
<1>2. \A p \in {"property", "newLease", "editLease", "editPayment", "newTenant",
       "editTenant", "newProperty", "editProperty", "newUnit", "editUnit", "login", "register"} :
         Page[p].leaves \in Targets
  BY PageRecords, LeavingPages DEF Leaving
<1>3. \A p \in {"home", "finance", "properties", "payments", "tenant", "tenants", "units",
       "leases"} : Page[p].leaves = None
  BY PageRecords, PlainPages, FinanceFacts DEF Plain
<1> QED
  BY <1>1, <1>2, <1>3, PageNames DEF SavingPages

-----------------------------------------------------------------------------
(* A page that is mounted.                                                  *)

EntryCall(p) ==
  Reading(IF Loads(p) THEN "load" ELSE "options", None, "active", EntryUrls(p))

LEMMA EntryFacts ==
  ASSUME NEW p \in Pages
  PROVE  /\ p \in AllPages /\ EntryUrls(p) \in SUBSET Urls
         /\ EntryUrls(p) # {} => EntryCalls(p) = <<EntryCall(p)>>
         /\ EntryUrls(p) = {} => EntryCalls(p) = <<>>
         /\ EntryCall(p) \in Call /\ EntryCalls(p) \in Seq(Call)
<1>1. p \in AllPages
  BY PagesAssumption
<1>2. Page[p].reads \in SUBSET Urls /\ Page[p].options \in SUBSET Urls
  BY <1>1, PageFacts DEF PageTypes
<1>3. EntryUrls(p) \in SUBSET Urls
  BY <1>2 DEF EntryUrls
<1>4. EntryCall(p) \in Call
  BY <1>3 DEF EntryCall, Reading, Call, PageReads, Filters
<1>5. /\ EntryUrls(p) # {} => EntryCalls(p) = <<EntryCall(p)>>
      /\ EntryUrls(p) = {} => EntryCalls(p) = <<>>
  BY DEF EntryCalls, EntryCall
<1>6. EntryCalls(p) \in Seq(Call)
  <2> HIDE DEF EntryCall, Call
  <2>1. <<EntryCall(p)>> \in Seq(Call) /\ <<>> \in Seq(Call)
    BY <1>4
  <2> QED
    BY <1>5, <2>1
<1> QED
  BY <1>1, <1>3, <1>4, <1>5, <1>6

LEMMA BlankFacts ==
  ASSUME NEW p \in Pages
  PROVE  Blank(p) \in View
<1> DEFINE r == IF p \in {"tenants", "leases", "properties", "payments"} THEN {} ELSE None
<1>1. Loads(p) \in BOOLEAN
  BY DEF Loads
<1>2. r \in (SUBSET Listed) \cup {None} /\ {} \in SUBSET Rows
  OBVIOUS
<1>3. Blank(p) = [page |-> p, filter |-> "active", loading |-> Loads(p), error |-> FALSE,
   rows |-> r, acting |-> {}, asking |-> None, banner |-> FALSE, timer |-> FALSE,
   rushed |-> FALSE, choices |-> FALSE, property |-> None, unit |-> None, options |-> None,
   submitting |-> FALSE, saved |-> FALSE]
  BY DEF Blank
<1> HIDE DEF r
<1> QED
  BY <1>1, <1>2, <1>3 DEF View, Filters

\* Of the calls none but the entry of p belongs to the page shown.
OnlyEntryHere(p) ==
  LET n == Len(calls)
  IN /\ EntryUrls(p) # {} => n \in DOMAIN calls /\ calls[n] = EntryCall(p)
     /\ \A k \in DOMAIN calls : calls[k].here => EntryUrls(p) # {} /\ k = n

PageParts ==
  /\ RowsOK /\ LoadsAlone /\ UnitsFiltered /\ UnitsOffered
  /\ LoadingOK /\ ActingOK /\ SubmittingOK

LEMMA BlankPage ==
  ASSUME NEW p \in Pages, view = Blank(p), OnlyEntryHere(p)
  PROVE  /\ RowsOK /\ LoadsAlone /\ UnitsFiltered /\ UnitsOffered
         /\ LoadingOK /\ ActingOK /\ SubmittingOK
<1> DEFINE n == Len(calls)
<1>1. /\ EntryUrls(p) # {} => n \in DOMAIN calls /\ calls[n] = EntryCall(p)
      /\ \A k \in DOMAIN calls : calls[k].here => EntryUrls(p) # {} /\ k = n
  BY DEF OnlyEntryHere
<1>2. p \in AllPages
  BY PagesAssumption
<1>3. /\ EntryCall(p).here /\ EntryCall(p).op = IF Loads(p) THEN "load" ELSE "options"
      /\ EntryCall(p).filter = "active"
  BY DEF EntryCall, Reading
<1>4. /\ view.page = p /\ view.filter = "active" /\ view.loading = Loads(p)
      /\ view.rows = (IF p \in {"tenants", "leases", "properties", "payments"} THEN {} ELSE None)
      /\ view.acting = {} /\ ~view.timer /\ ~view.choices /\ view.options = None
      /\ ~view.submitting /\ ~view.saved /\ ~view.rushed /\ view.asking = None
  BY DEF Blank
<1> HIDE DEF n
<1>5. \A k \in DOMAIN calls : calls[k].here =>
        /\ calls[k].op \in {"load", "options"} /\ calls[k].filter = "active"
        /\ calls[k].op = "load" => Loads(p)
  BY <1>1, <1>3
<1>6. RowsOK
  BY <1>4 DEF RowsOK, ListPageNames
<1>7. LoadsAlone
  BY <1>1, <1>4, <1>5 DEF LoadsAlone, Here, PageReads
<1>8. UnitsFiltered
  BY <1>4, <1>5 DEF UnitsFiltered
<1>9. UnitsOffered
  BY <1>4, <1>5 DEF UnitsOffered, Here
<1>10. LoadingOK
  <2>1. Loads(p) => EntryUrls(p) # {} /\ EntryCall(p).waits # {}
    BY DEF Loads, EntryUrls, EntryCall, Reading
  <2> QED
    BY <1>1, <1>3, <1>4, <2>1 DEF LoadingOK, Here, ListReads
<1>11. ActingOK
  BY <1>4, <1>5 DEF ActingOK, OneActionPerLease, Here, LeaseActions, Archivals
<1>12. SubmittingOK
  <2>1. view.page \in SavingPages => view.page \notin {"load", "options"}
    BY SavingNames
  <2> QED
    BY <1>4, <1>5, <2>1 DEF SubmittingOK, Here
<1> QED
  BY <1>6, <1>7, <1>8, <1>9, <1>10, <1>11, <1>12

LEMMA BlankPageNext ==
  ASSUME NEW p \in Pages
  PROVE  (view = Blank(p) /\ OnlyEntryHere(p) => PageParts)'
<1>1. view = Blank(p) /\ OnlyEntryHere(p) => PageParts
  BY BlankPage DEF PageParts
<1> QED
  BY <1>1, PTL

LEMMA FreshPage ==
  ASSUME NEW p \in Pages, view' = Blank(p), OnlyEntryHere(p)'
  PROVE  /\ RowsOK' /\ LoadsAlone' /\ UnitsFiltered' /\ UnitsOffered'
         /\ LoadingOK' /\ ActingOK' /\ SubmittingOK'
<1>1. (view = Blank(p) /\ OnlyEntryHere(p) => PageParts)'
  BY BlankPageNext
<1>2. view' = Blank(p)'
  BY DEF Blank, Loads
<1> QED
  BY <1>1, <1>2 DEF PageParts

-----------------------------------------------------------------------------
(* GETs that are asked for, or stay in flight.                              *)

SessionsGoOn ==
  /\ expired \subseteq expired' /\ issued <= issued'
  /\ issued \in Nat /\ issued' \in Nat

LEMMA GetKept ==
  ASSUME NEW u, GetOK(u), gets'[u] = gets[u], expired \subseteq expired'
  PROVE  GetOK(u)'
  BY DEF GetOK, Valid

LEMMA GetSent ==
  ASSUME NEW u, gets'[u] = Sent(token)
  PROVE  GetOK(u)'
  BY DEF GetOK, Sent

LEMMA SentType ==
  ASSUME Types
  PROVE  Sent(token) \in Fetched
  BY DEF Types, Fetched, Sent

\* Any of the GETs may have been answered meanwhile, and others be asked for.
LEMMA AskedFacts ==
  ASSUME Types, GetsOK, NEW left \in SUBSET DOMAIN gets, NEW urls \in SUBSET Urls,
         expired \subseteq expired',
         gets' = [u \in left \cup urls |-> IF u \in left THEN gets[u] ELSE Sent(token)]
  PROVE  /\ DOMAIN gets' = left \cup urls
         /\ DOMAIN gets' \subseteq Urls /\ gets' \in [DOMAIN gets' -> Fetched]
         /\ GetsOK'
<1>1. \A u \in DOMAIN gets : gets[u] \in Fetched /\ u \in Urls
  BY DEF Types
<1>2. DOMAIN gets' = left \cup urls
  OBVIOUS
<1>3. ASSUME NEW u \in DOMAIN gets' PROVE gets'[u] \in Fetched /\ u \in Urls /\ GetOK(u)'
  <2>1. CASE u \in left
    <3>1. u \in DOMAIN gets /\ gets'[u] = gets[u]
      BY <1>2, <2>1
    <3> QED
      BY <1>1, <3>1, GetKept DEF GetsOK
  <2>2. CASE u \notin left
    <3>1. gets'[u] = Sent(token) /\ u \in Urls
      BY <1>2, <1>3, <2>2
    <3> QED
      BY <3>1, SentType, GetSent
  <2> QED
    BY <2>1, <2>2
<1>4. gets' = [u \in DOMAIN gets' |-> gets'[u]]
  BY <1>2
<1> QED
  BY <1>2, <1>3, <1>4 DEF GetsOK

LEMMA FetchFacts ==
  ASSUME Types, GetsOK, NEW urls \in SUBSET Urls, expired \subseteq expired',
         gets' = Fetch(urls)
  PROVE  /\ DOMAIN gets' = DOMAIN gets \cup urls
         /\ \A u \in DOMAIN gets : gets'[u] = gets[u]
         /\ \A u \in urls \ DOMAIN gets : gets'[u] = Sent(token)
         /\ DOMAIN gets' \subseteq Urls /\ gets' \in [DOMAIN gets' -> Fetched]
         /\ GetsOK'
<1>1. gets' = [u \in DOMAIN gets \cup urls |-> IF u \in DOMAIN gets THEN gets[u] ELSE Sent(token)]
  BY DEF Fetch
<1> QED
  BY <1>1, AskedFacts

-----------------------------------------------------------------------------
(* Calls that go on as they were, but for what is noted about them.         *)

SameCall(c, d) ==
  /\ c.op = d.op /\ c.arg = d.arg /\ c.filter = d.filter /\ c.here = d.here
  /\ c.waits = d.waits /\ c.got = d.got /\ c.send = d.send

LEMMA CallKept ==
  ASSUME NEW i, NEW k, CallOK(i), SendOK(i), WaitsOK(i), PlaceOK(i),
         SameCall(calls'[k], calls[i]), SessionsGoOn,
         calls[i].send # None => calls[i].send.token \in Nat,
         calls[i].waits \subseteq DOMAIN gets', view'.page = view.page
  PROVE  CallOK(k)' /\ SendOK(k)' /\ WaitsOK(k)' /\ PlaceOK(k)'
<1>1. CallOK(k)'
  BY DEF CallOK, SameCall
<1>2. SendOK(k)'
  BY DEF SendOK, SameCall, SessionsGoOn, Valid
<1>3. WaitsOK(k)'
  BY DEF WaitsOK, SameCall
<1>4. PlaceOK(k)'
  BY DEF PlaceOK, SameCall
<1> QED
  BY <1>1, <1>2, <1>3, <1>4

\* What a page's calls are once it is unmounted.
LEMMA CallLeft ==
  ASSUME NEW i, NEW k, CallOK(i), SendOK(i), WaitsOK(i), calls[i].send # None,
         calls[i] \in Call, calls'[k] = [calls[i] EXCEPT !.here = FALSE], SessionsGoOn
  PROVE  CallOK(k)' /\ SendOK(k)' /\ WaitsOK(k)' /\ PlaceOK(k)'
<1>1. /\ calls'[k].op = calls[i].op /\ calls'[k].arg = calls[i].arg
      /\ calls'[k].filter = calls[i].filter /\ calls'[k].here = FALSE
      /\ calls'[k].waits = calls[i].waits /\ calls'[k].got = calls[i].got
      /\ calls'[k].send = calls[i].send
  BY DEF Call
<1>2. calls[i].send.token \in Nat
  BY DEF Call, Requests
<1>3. CallOK(k)'
  BY <1>1 DEF CallOK
<1>4. SendOK(k)'
  BY <1>1, <1>2 DEF SendOK, SessionsGoOn, Valid
<1>5. WaitsOK(k)'
  BY <1>1 DEF WaitsOK
<1>6. PlaceOK(k)'
  BY <1>1 DEF PlaceOK
<1> QED
  BY <1>3, <1>4, <1>5, <1>6

LEMMA EntryCallFits ==
  ASSUME NEW p \in Pages, NEW k, calls[k] = EntryCall(p), view = Blank(p),
         EntryUrls(p) # {}, EntryUrls(p) \subseteq DOMAIN gets
  PROVE  CallOK(k) /\ SendOK(k) /\ WaitsOK(k) /\ PlaceOK(k)
<1>1. /\ calls[k].op = (IF Loads(p) THEN "load" ELSE "options")
      /\ calls[k].filter = "active" /\ calls[k].here
      /\ calls[k].waits = EntryUrls(p) /\ calls[k].got = {} /\ calls[k].send = None
  BY DEF EntryCall, Reading
<1>2. view.page = p
  BY DEF Blank
<1>3. p \in AllPages
  BY PagesAssumption
<1>4. calls[k].op \notin SavingPages /\ calls[k].op \notin LeaseActions
        /\ calls[k].op \notin Archivals /\ calls[k].op # "units"
  BY <1>1, SavingNames DEF LeaseActions, Archivals
<1>5. CallOK(k)
  BY <1>1, <1>4 DEF CallOK
<1>6. SendOK(k)
  BY <1>1 DEF SendOK
<1>7. WaitsOK(k)
  BY <1>1 DEF WaitsOK
<1>8. p \in ListPageNames => EntryUrls(p) = PageUrls(p, "active")
  BY PageFacts DEF ListPageNames, EntryUrls, PageUrls, ListUrls, Loads
<1>9. PlaceOK(k)
  BY <1>1, <1>2, <1>4, <1>8 DEF PlaceOK, EntryUrls
<1> QED
  BY <1>5, <1>6, <1>7, <1>9

LEMMA EntryCallNext ==
  ASSUME NEW p \in Pages, NEW k
  PROVE  (/\ calls[k] = EntryCall(p) /\ view = Blank(p)
          /\ EntryUrls(p) # {} /\ EntryUrls(p) \subseteq DOMAIN gets
          => CallOK(k) /\ SendOK(k) /\ WaitsOK(k) /\ PlaceOK(k))'
<1>1. /\ calls[k] = EntryCall(p) /\ view = Blank(p)
      /\ EntryUrls(p) # {} /\ EntryUrls(p) \subseteq DOMAIN gets
      => CallOK(k) /\ SendOK(k) /\ WaitsOK(k) /\ PlaceOK(k)
  BY EntryCallFits
<1> QED
  BY <1>1, PTL

LEMMA EntryCallOK ==
  ASSUME NEW p \in Pages, NEW k, calls'[k] = EntryCall(p), view' = Blank(p),
         EntryUrls(p) # {}, EntryUrls(p) \subseteq DOMAIN gets'
  PROVE  CallOK(k)' /\ SendOK(k)' /\ WaitsOK(k)' /\ PlaceOK(k)'
<1>1. (/\ calls[k] = EntryCall(p) /\ view = Blank(p)
       /\ EntryUrls(p) # {} /\ EntryUrls(p) \subseteq DOMAIN gets
       => CallOK(k) /\ SendOK(k) /\ WaitsOK(k) /\ PlaceOK(k))'
  BY EntryCallNext
<1>2. view' = Blank(p)' /\ EntryUrls(p)' = EntryUrls(p) /\ EntryCall(p)' = EntryCall(p)
  BY DEF Blank, Loads, EntryUrls, EntryCall
<1> QED
  BY <1>1, <1>2

-----------------------------------------------------------------------------
(* Entering a page: the calls afterwards are the entry of the new page and, *)
(* at a position f maps to their former one, calls of pages left.           *)

Left(k, i) ==
  /\ i \in DOMAIN calls /\ calls[i].send # None
  /\ calls'[k] = [calls[i] EXCEPT !.here = FALSE]

Entry(p, k) == k = Len(calls') /\ EntryUrls(p) # {} /\ calls'[k] = EntryCall(p)

Entered(p, f) ==
  /\ calls' \in Seq(Call)
  /\ EntryUrls(p) # {} => Len(calls') \in DOMAIN calls' /\ Entry(p, Len(calls'))
  /\ \A k \in DOMAIN calls' : Entry(p, k) \/ (Left(k, f[k]) /\ k \in DOMAIN calls)
  /\ \A j, k \in DOMAIN calls' : ~Entry(p, j) /\ ~Entry(p, k) /\ f[j] = f[k] => j = k

LEMMA EnteredInv ==
  ASSUME IInv, NEW p \in Pages, NEW f, Entered(p, f), view' = Blank(p),
         UNCHANGED <<db, expired, issued>>, going' = None,
         token' \in 0..issued, unloading' \in BOOLEAN,
         DOMAIN gets' \subseteq Urls, gets' \in [DOMAIN gets' -> Fetched], GetsOK',
         EntryUrls(p) \subseteq DOMAIN gets',
         strays' \subseteq RowOperations \X Rows,
         strays' = strays \/ RowCalls' = {}
  PROVE  IInv'
<1> USE DEF IInv
<1>1. calls \in Seq(Call) /\ (\A i \in DOMAIN calls : calls[i] \in Call) /\ SessionsGoOn
  <2>1. calls \in Seq(Call)
    BY DEF Types
  <2>2. \A i \in DOMAIN calls : calls[i] \in Call
    BY <2>1
  <2>3. issued \in Nat
    BY SessionsAssumption DEF Types
  <2> QED
    BY <2>1, <2>2, <2>3 DEF SessionsGoOn
<1>2. view' \in View
  BY BlankFacts
<1>3. Types'
  BY <1>2 DEF Types, Entered
<1>4. ASSUME NEW k \in DOMAIN calls'
      PROVE  CallOK(k)' /\ SendOK(k)' /\ WaitsOK(k)' /\ PlaceOK(k)'
  <2>1. CASE Entry(p, k)
    BY <2>1, EntryCallOK DEF Entry
  <2>2. CASE Left(k, f[k])
    <3>1. f[k] \in DOMAIN calls
      BY <2>2 DEF Left
    <3> DEFINE i == f[k]
    <3>2. CallOK(i) /\ SendOK(i) /\ WaitsOK(i)
      BY <3>1 DEF CallsOK
    <3>3. calls[i].send # None /\ calls[i] \in Call /\ calls'[k] = [calls[i] EXCEPT !.here = FALSE]
      BY <1>1, <2>2 DEF Left
    <3> HIDE DEF i
    <3> QED
      BY <1>1, <3>2, <3>3, CallLeft
  <2> QED
    BY <2>1, <2>2 DEF Entered
<1>5. CallsOK'
  BY <1>4 DEF CallsOK
<1>6. OnlyEntryHere(p)'
  <2>1. \A k \in DOMAIN calls' : calls'[k].here => Entry(p, k)
    <3> SUFFICES ASSUME NEW k \in DOMAIN calls', calls'[k].here, Left(k, f[k]) PROVE FALSE
      BY DEF Entered
    <3> QED
      BY <1>1 DEF Left, Call
  <2> QED
    BY <2>1 DEF Entered, Entry, OnlyEntryHere
<1>7. /\ RowsOK' /\ LoadsAlone' /\ UnitsFiltered' /\ UnitsOffered'
      /\ LoadingOK' /\ ActingOK' /\ SubmittingOK'
  BY <1>6, FreshPage
<1>8. ActionsOK'
  <2> SUFFICES ASSUME NEW k \in RowCalls', calls'[k].alone
               PROVE  AloneOK(k)'
    BY DEF ActionsOK
  <2>1. \A j \in RowCalls' : j \in DOMAIN calls' /\ Left(j, f[j]) /\ ~Entry(p, j)
    <3> SUFFICES ASSUME NEW j \in RowCalls' PROVE j \in DOMAIN calls' /\ ~Entry(p, j)
      BY DEF Entered
    <3>1. j \in DOMAIN calls' /\ calls'[j].op \in RowOperations
      BY DEF RowCalls
    <3>2. EntryCall(p).op \notin RowOperations
      BY DEF EntryCall, Reading, RowOperations
    <3> QED
      BY <3>1, <3>2 DEF Entry
  <2>2. \A j \in RowCalls' : f[j] \in RowCalls /\ calls'[j].op = calls[f[j]].op
          /\ calls'[j].arg = calls[f[j]].arg /\ calls'[j].send = calls[f[j]].send
          /\ calls'[j].alone = calls[f[j]].alone /\ calls'[j].send # None
    <3> SUFFICES ASSUME NEW j \in RowCalls'
                 PROVE  f[j] \in RowCalls /\ calls'[j].op = calls[f[j]].op
                   /\ calls'[j].arg = calls[f[j]].arg /\ calls'[j].send = calls[f[j]].send
                   /\ calls'[j].alone = calls[f[j]].alone /\ calls'[j].send # None
      OBVIOUS
    <3>1. f[j] \in DOMAIN calls /\ calls[f[j]].send # None /\ calls[f[j]] \in Call
            /\ calls'[j] = [calls[f[j]] EXCEPT !.here = FALSE]
      BY <1>1, <2>1 DEF Left
    <3>2. calls'[j].op = calls[f[j]].op /\ calls'[j].arg = calls[f[j]].arg
            /\ calls'[j].send = calls[f[j]].send /\ calls'[j].alone = calls[f[j]].alone
      BY <3>1 DEF Call
    <3>3. calls'[j].op \in RowOperations
      BY DEF RowCalls
    <3> QED
      BY <3>1, <3>2, <3>3 DEF RowCalls
  <2>3. AloneOK(f[k])
    BY <2>2 DEF ActionsOK
  <2>4. RowCalls = {f[k]} /\ strays = {}
    BY <2>3 DEF AloneOK
  <2>5. RowCalls' = {k}
    <3>1. \A j \in RowCalls' : f[j] = f[k]
      BY <2>2, <2>4
    <3> QED
      BY <2>1, <3>1 DEF Entered
  <2>6. strays' = {}
    BY <2>4, <2>5
  <2>7. calls'[k].send.state = "ok" => Done(k)'
    BY <2>2, <2>3 DEF AloneOK, Done
  <2> QED
    BY <2>2, <2>5, <2>6, <2>7 DEF AloneOK
<1> QED
  BY <1>3, <1>5, <1>7, <1>8

LEMMA MountEntered ==
  ASSUME Types, NEW p \in Pages, calls' = Unmounted(calls) \o EntryCalls(p)
  PROVE  \E f : Entered(p, f)
<1> DEFINE n == Len(calls)
           cs == [i \in DOMAIN calls |-> [calls[i] EXCEPT !.here = FALSE]]
           T == {i \in DOMAIN calls : calls[i].send # None}
           r == Only(cs, T)
           e == EntryCalls(p)
<1>1. n \in Nat /\ DOMAIN calls = 1..n /\ \A i \in 1..n : calls[i] \in Call
  <2>1. calls \in Seq(Call)
    BY DEF Types
  <2> QED
    BY <2>1, LenProperties
<1>2. \A i \in 1..n : cs[i] = [calls[i] EXCEPT !.here = FALSE] /\ cs[i] \in Call
  BY <1>1 DEF Call
<1>3. cs \in Seq(Call) /\ DOMAIN cs = 1..n /\ Len(cs) = n
  <2>1. cs = [i \in 1..n |-> cs[i]]
    BY <1>1
  <2> HIDE DEF cs
  <2> QED
    BY <1>1, <1>2, <2>1
<1>4. T \in SUBSET (1..n) /\ \A i \in T : i \in DOMAIN calls /\ calls[i].send # None
  BY <1>1
<1>5. calls' = r \o e
  <2>1. T = {i \in DOMAIN calls : calls[i].send # None}
    OBVIOUS
  <2> QED
    BY DEF Unmounted
<1> HIDE DEF n, cs, T, r
<1>6. r \in Seq(Call) /\ Len(r) <= n /\ \E f : Selects(f, cs, T, r)
  BY <1>3, <1>4, OnlySelects DEF r
<1>7. PICK f : Selects(f, cs, T, r)
  BY <1>6
<1>8. /\ e \in Seq(Call)
      /\ EntryUrls(p) # {} => e = <<EntryCall(p)>>
      /\ EntryUrls(p) = {} => e = <<>>
  BY EntryFacts
<1> DEFINE m == Len(r)
<1>9. m \in Nat /\ DOMAIN r = 1..m
  BY <1>6, LenProperties
<1> HIDE DEF m, e
<1>10. /\ calls' \in Seq(Call) /\ Len(calls') = m + Len(e)
       /\ DOMAIN calls' = 1..(m + Len(e))
       /\ \A k \in 1..(m + Len(e)) : calls'[k] = IF k <= m THEN r[k] ELSE e[k - m]
  <2>1. r \o e \in Seq(Call) /\ Len(r \o e) = m + Len(e)
        /\ \A k \in 1..(m + Len(e)) : (r \o e)[k] = IF k <= m THEN r[k] ELSE e[k - m]
    BY <1>6, <1>8, ConcatProperties DEF m
  <2>2. DOMAIN (r \o e) = 1..Len(r \o e)
    BY <2>1, LenProperties
  <2> QED
    BY <1>5, <2>1, <2>2
<1>11. \A k \in 1..m : Left(k, f[k]) /\ k \in DOMAIN calls
  <2> SUFFICES ASSUME NEW k \in 1..m PROVE Left(k, f[k]) /\ k \in DOMAIN calls
    OBVIOUS
  <2>1. f[k] \in T /\ r[k] = cs[f[k]]
    BY <1>7, <1>9 DEF Selects
  <2>2. Len(e) \in Nat
    BY <1>8, LenProperties
  <2>3. k \in 1..(m + Len(e)) /\ k <= m /\ k \in 1..n
    BY <1>1, <1>6, <1>9, <2>2 DEF m
  <2>4. calls'[k] = cs[f[k]]
    BY <1>10, <2>1, <2>3
  <2> QED
    BY <1>1, <1>2, <1>4, <2>1, <2>3, <2>4 DEF Left
<1>12. CASE EntryUrls(p) = {}
  <2>1. Len(e) = 0
    BY <1>8, <1>12
  <2>2. DOMAIN calls' = 1..m
    BY <1>9, <1>10, <2>1
  <2> QED
    <3>1. calls' \in Seq(Call)
      BY <1>10
    <3>2. \A k \in DOMAIN calls' : Left(k, f[k]) /\ k \in DOMAIN calls
      BY <1>11, <2>2
    <3>3. \A j, k \in DOMAIN calls' : f[j] = f[k] => j = k
      BY <1>7, <1>9, <2>2 DEF Selects
    <3> QED
      BY <1>12, <3>1, <3>2, <3>3 DEF Entered
<1>13. CASE EntryUrls(p) # {}
  <2>1. Len(e) = 1 /\ e[1] = EntryCall(p)
    BY <1>8, <1>13
  <2>2. Len(calls') = m + 1 /\ DOMAIN calls' = 1..(m+1) /\ calls'[m+1] = EntryCall(p)
    BY <1>9, <1>10, <2>1
  <2>3. Entry(p, m+1)
    BY <1>13, <2>2 DEF Entry
  <2>4. \A k \in 1..m : ~Entry(p, k)
    BY <1>9, <2>2 DEF Entry
  <2>5. \A k \in 1..(m+1) : k = m+1 \/ k \in 1..m
    BY <1>9
  <2>6. m+1 \in 1..(m+1)
    BY <1>9
  <2>7. \A k \in DOMAIN calls' : Entry(p, k) \/ (Left(k, f[k]) /\ k \in DOMAIN calls)
    BY <1>11, <2>2, <2>3, <2>5
  <2>8. \A j, k \in DOMAIN calls' : ~Entry(p, j) /\ ~Entry(p, k) /\ f[j] = f[k] => j = k
    BY <1>7, <1>9, <2>2, <2>3, <2>5 DEF Selects
  <2> QED
    <3>1. calls' \in Seq(Call)
      BY <1>10
    <3>2. Len(calls') \in DOMAIN calls' /\ Entry(p, Len(calls'))
      BY <2>2, <2>3, <2>6
    <3> QED
      BY <2>7, <2>8, <3>1, <3>2 DEF Entered
<1> QED
  BY <1>12, <1>13

LEMMA DocumentEntered ==
  ASSUME NEW p \in Pages, calls' = EntryCalls(p)
  PROVE  /\ \E f : Entered(p, f)
         /\ \A k \in DOMAIN calls' : Entry(p, k) /\ calls'[k].op \in {"load", "options"}
         /\ RowCalls' = {}
<1>1. /\ EntryUrls(p) # {} => calls' = <<EntryCall(p)>>
      /\ EntryUrls(p) = {} => calls' = <<>>
      /\ calls' \in Seq(Call)
  BY EntryFacts
<1>2. EntryUrls(p) # {} => Len(calls') = 1 /\ DOMAIN calls' = {1} /\ calls'[1] = EntryCall(p)
  BY <1>1
<1>3. EntryUrls(p) = {} => DOMAIN calls' = {}
  BY <1>1
<1>4. /\ EntryUrls(p) # {} => Len(calls') \in DOMAIN calls' /\ Entry(p, Len(calls'))
      /\ \A k \in DOMAIN calls' : Entry(p, k)
  BY <1>2, <1>3 DEF Entry
<1>5. \A k \in DOMAIN calls' : calls'[k].op \in {"load", "options"}
  BY <1>4 DEF Entry, EntryCall, Reading
<1>6. RowCalls' = {}
  BY <1>5 DEF RowCalls, RowOperations
<1>7. Entered(p, 0)
  BY <1>1, <1>4 DEF Entered
<1> QED
  BY <1>4, <1>5, <1>6, <1>7

LEMMA MountInv ==
  ASSUME IInv, NEW p, Mount(p), UNCHANGED <<db, expired, issued, strays>>,
         token' \in {0, token}, unloading' \in BOOLEAN
  PROVE  IInv'
<1>1. p \in Pages /\ view' = Blank(p) /\ going' = None
      /\ calls' = Unmounted(calls) \o EntryCalls(p) /\ gets' = Fetch(EntryUrls(p))
  BY DEF Mount
<1>2. EntryUrls(p) \in SUBSET Urls
  BY <1>1, EntryFacts
<1>3. Types /\ GetsOK
  BY DEF IInv
<1>4. /\ DOMAIN gets' = DOMAIN gets \cup EntryUrls(p)
      /\ DOMAIN gets' \subseteq Urls /\ gets' \in [DOMAIN gets' -> Fetched] /\ GetsOK'
  BY <1>1, <1>2, <1>3, FetchFacts
<1>5. PICK f : Entered(p, f)
  BY <1>1, <1>3, MountEntered
<1>6. token' \in 0..issued /\ strays' \subseteq RowOperations \X Rows
  BY <1>3, SessionsAssumption DEF Types
<1> QED
  BY <1>1, <1>4, <1>5, <1>6, EnteredInv

LEMMA FreshDocumentInv ==
  ASSUME IInv, NEW p \in Pages, FreshDocument(p)
  PROVE  IInv'
<1>1. /\ view' = Blank(p) /\ going' = None /\ calls' = EntryCalls(p)
      /\ gets' = [u \in EntryUrls(p) |-> Sent(token)] /\ unloading' = FALSE
      /\ UNCHANGED <<db, expired, issued, token>>
  BY DEF FreshDocument
<1>2. EntryUrls(p) \in SUBSET Urls
  BY EntryFacts
<1>3. Types /\ GetsOK
  BY DEF IInv
<1>4. /\ DOMAIN gets' = EntryUrls(p)
      /\ DOMAIN gets' \subseteq Urls /\ gets' \in [DOMAIN gets' -> Fetched] /\ GetsOK'
  <2>1. gets' = [u \in {} \cup EntryUrls(p) |-> IF u \in {} THEN gets[u] ELSE Sent(token)]
    BY <1>1
  <2> QED
    BY <1>1, <1>2, <1>3, <2>1, AskedFacts
<1>5. PICK f : Entered(p, f)
  BY <1>1, DocumentEntered
<1>6. RowCalls' = {}
  BY <1>1, DocumentEntered
<1>7. token' \in 0..issued
  BY <1>1, <1>3 DEF Types
<1>8. strays' \subseteq RowOperations \X Rows
  <2>1. \A i \in RowCalls : calls[i].op \in RowOperations /\ calls[i].arg \in Rows
    BY DEF IInv, CallsOK, CallOK, RowCalls, RowOperations, Archivals, LeaseActions, Rows
  <2>2. strays \subseteq RowOperations \X Rows
    BY <1>3 DEF Types
  <2>3. strays' \subseteq strays \cup {<<calls[i].op, calls[i].arg>> : i \in RowCalls}
    BY DEF FreshDocument
  <2> QED
    BY <2>1, <2>2, <2>3
<1> QED
  BY <1>1, <1>4, <1>5, <1>6, <1>7, <1>8, EnteredInv

-----------------------------------------------------------------------------
(* The server and the network.                                              *)

LEMMA PagePartsSame ==
  ASSUME PageParts, UNCHANGED <<view, calls, going>>
  PROVE  PageParts'
<1> USE DEF PageParts
<1>1. RowsOK' /\ LoadingOK' /\ UnitsFiltered'
  BY DEF RowsOK, LoadingOK, UnitsFiltered, Here
<1>2. LoadsAlone' /\ UnitsOffered'
  BY DEF LoadsAlone, UnitsOffered, Here
<1>3. ActingOK' /\ SubmittingOK'
  BY DEF ActingOK, SubmittingOK, OneActionPerLease, Here
<1> QED
  BY <1>1, <1>2, <1>3

LEMMA TypesFacts ==
  ASSUME Types
  PROVE  /\ calls \in Seq(Call) /\ Len(calls) \in Nat /\ DOMAIN calls = 1..Len(calls)
         /\ \A i \in DOMAIN calls :
              calls[i] \in Call /\ (calls[i].send # None => calls[i].send \in Requests)
         /\ \A u \in DOMAIN gets : gets[u] \in Fetched
         /\ view \in View /\ view.page \in AllPages /\ issued \in Nat
<1>1. calls \in Seq(Call) /\ view \in View
  BY DEF Types
<1>2. \A i \in DOMAIN calls : calls[i] \in Call
  BY <1>1
<1>3. \A i \in DOMAIN calls : calls[i].send # None => calls[i].send \in Requests
  BY <1>2 DEF Call
<1>4. view.page \in AllPages /\ issued \in Nat
  BY <1>1, PagesAssumption, SessionsAssumption DEF View, Types
<1> QED
  BY <1>1, <1>2, <1>3, <1>4, LenProperties DEF Types

LEMMA CallsSame ==
  ASSUME Types, CallsOK, calls' = calls, view'.page = view.page, SessionsGoOn,
         DOMAIN gets \subseteq DOMAIN gets'
  PROVE  CallsOK'
<1> SUFFICES ASSUME NEW i \in DOMAIN calls'
             PROVE  CallOK(i)' /\ SendOK(i)' /\ WaitsOK(i)' /\ PlaceOK(i)'
  BY DEF CallsOK
<1>1. CallOK(i) /\ SendOK(i) /\ WaitsOK(i) /\ PlaceOK(i)
  BY DEF CallsOK
<1>2. SameCall(calls'[i], calls[i])
  BY DEF SameCall
<1>3. calls[i].send # None => calls[i].send.token \in Nat
  BY TypesFacts DEF Requests
<1>4. calls[i].waits \subseteq DOMAIN gets'
  BY <1>1 DEF WaitsOK
<1> QED
  BY <1>1, <1>2, <1>3, <1>4, CallKept

LEMMA ActionsSame ==
  ASSUME ActionsOK, CallsOK, UNCHANGED <<calls, db>>, strays' \subseteq strays,
         \A u \in DOMAIN gets : gets'[u] = gets[u]
  PROVE  ActionsOK'
<1> SUFFICES ASSUME NEW i \in RowCalls', calls'[i].alone PROVE AloneOK(i)'
  BY DEF ActionsOK
<1>1. i \in RowCalls /\ calls[i].alone /\ i \in DOMAIN calls /\ RowCalls' = RowCalls
  BY DEF RowCalls
<1>2. AloneOK(i) /\ WaitsOK(i)
  BY <1>1 DEF ActionsOK, CallsOK
<1>3. \A u \in calls[i].waits : gets'[u] = gets[u]
  BY <1>2 DEF WaitsOK
<1>4. strays' = {}
  BY <1>2 DEF AloneOK
<1> QED
  BY <1>1, <1>2, <1>3, <1>4 DEF AloneOK, Done

LEMMA ExecuteType ==
  ASSUME db \in [Rows -> Statuses], NEW op, NEW row, Execute(op, row)
  PROVE  db' \in [Rows -> Statuses]
<1>1. op \in RowOperations => Transition(op)[2] \in Statuses
  BY DEF RowOperations, Transition, Statuses
<1> QED
  BY <1>1 DEF Execute

LEMMA BodyFacts ==
  ASSUME Types, NEW u
  PROVE  /\ Body(u) \in SUBSET Listed
         /\ IF u[1] \in ListPageNames THEN Body(u) \subseteq PageRows(u[1], u[2])
                                      ELSE Body(u) = {}
<1>1. \A r \in Rows : <<r, db[r]>> \in Listed
  BY DEF Types, Listed
<1>2. TenantRows(u[2]) \subseteq PageRows("tenants", u[2])
  BY <1>1 DEF TenantRows, PageRows, RowsOn, Rows
<1>3. UnitRows(u[2]) \subseteq PageRows("units", u[2])
  BY <1>1 DEF UnitRows, PageRows, RowsOn, Rows
<1>4. LeaseRows \subseteq PageRows("leases", u[2])
  BY <1>1 DEF LeaseRows, PageRows, RowsOn, Rows
<1>5. \A p, f : PageRows(p, f) \subseteq Listed
  BY DEF PageRows
<1> QED
  BY <1>2, <1>3, <1>4, <1>5 DEF Body, ListPageNames

\* What the server returns after an action shows what the action did.
LEMMA BodyShows ==
  ASSUME Types, NEW i \in RowCalls, CallOK(i), PlaceOK(i), calls[i].here, Done(i),
         NEW u \in calls[i].waits
  PROVE  Shows(calls[i], Body(u))
<1> DEFINE c == calls[i]
<1>1. c.op \in RowOperations
  BY DEF RowCalls
<1>2. CASE c.op \in LeaseActions
  <2>1. view.page = "leases" /\ c.arg \in Leases
    BY <1>2 DEF CallOK, PlaceOK
  <2>2. u = Url("leases", "")
    BY <2>1 DEF PlaceOK, PageUrls, ListPageNames
  <2>3. Body(u) = LeaseRows
    BY <2>2 DEF Body, Url
  <2>4. <<c.arg, Transition(c.op)[2]>> \in LeaseRows
    BY <2>1 DEF LeaseRows, Done
  <2> QED
    BY <2>1, <2>3, <2>4 DEF Shows
<1>3. CASE c.op \in Archivals
  <2>1. /\ view.page \in {"tenants", "units"} /\ c.arg \in RowsOn(view.page)
        /\ c.filter = Transition(c.op)[1] /\ Transition(c.op)[2] # Transition(c.op)[1]
    BY <1>3 DEF CallOK, PlaceOK, Archivals, Transition
  <2>2. c.arg \notin Leases
    BY <2>1, RowsAssumption DEF RowsOn
  <2>3. u \in ListUrls(view.page, c.filter)
    BY <2>1 DEF PlaceOK, PageUrls, ListPageNames
  <2>4. db[c.arg] # c.filter
    BY <2>1 DEF Done
  <2>5. \A r \in TenantRows(c.filter) \cup UnitRows(c.filter) : db[r[1]] = c.filter
    BY DEF TenantRows, UnitRows
  <2>6. Body(u) \subseteq TenantRows(c.filter) \cup UnitRows(c.filter)
    <3>1. \/ u = <<"tenants", c.filter>> \/ u = <<"units", c.filter>> \/ u = <<"property", "">>
      BY <2>1, <2>3 DEF ListUrls, Url
    <3>2. u = <<"tenants", c.filter>> => Body(u) = TenantRows(c.filter)
      BY DEF Body
    <3>3. u = <<"units", c.filter>> => Body(u) = UnitRows(c.filter)
      BY DEF Body
    <3>4. u = <<"property", "">> => Body(u) = {}
      BY BodyFacts DEF ListPageNames
    <3> QED
      BY <3>1, <3>2, <3>3, <3>4
  <2> QED
    BY <2>2, <2>4, <2>5, <2>6 DEF Shows
<1> QED
  BY <1>1, <1>2, <1>3 DEF RowOperations, LeaseActions, Archivals

LEMMA ServeGetInv ==
  ASSUME IInv, NEW u \in DOMAIN gets, ServeGet(u), UNCHANGED tabVars
  PROVE  IInv'
<1> USE DEF IInv
<1>1. UNCHANGED <<db, expired, issued, token, strays, view, calls, going, unloading>>
  BY DEF ServeGet, tabVars
<1>2. gets[u] \in Fetched /\ gets[u].state = "sent"
  BY TypesFacts DEF ServeGet
<1>3. /\ DOMAIN gets' = DOMAIN gets
      /\ \A w \in DOMAIN gets : w # u => gets'[w] = gets[w]
  BY DEF ServeGet
<1>4. \/ /\ Valid(gets[u].token)
         /\ gets'[u] = [token |-> gets[u].token, state |-> "ok", body |-> Body(u)]
      \/ /\ ~Valid(gets[u].token)
         /\ gets'[u] = [token |-> gets[u].token, state |-> "unauthorized", body |-> gets[u].body]
  BY <1>2 DEF ServeGet, Fetched
<1>5. gets'[u] \in Fetched
  BY <1>2, <1>4, BodyFacts DEF Fetched
<1>6. Types'
  <2>1. gets' \in [DOMAIN gets -> Fetched]
    BY <1>3, <1>5, TypesFacts DEF ServeGet
  <2> QED
    BY <1>1, <1>3, <2>1 DEF Types
<1>7. GetsOK'
  <2> SUFFICES ASSUME NEW w \in DOMAIN gets PROVE GetOK(w)'
    BY <1>3 DEF GetsOK
  <2>1. CASE w # u
    BY <1>1, <1>3, <2>1, GetKept DEF GetsOK
  <2>2. CASE w = u
    BY <1>1, <1>4, <2>2, BodyFacts DEF GetOK, GetsOK, Valid
  <2> QED
    BY <2>1, <2>2
<1>8. CallsOK'
  <2>1. SessionsGoOn
    BY <1>1, TypesFacts DEF SessionsGoOn
  <2> QED
    BY <1>1, <1>3, <2>1, CallsSame
<1>9. PageParts'
  BY <1>1, PagePartsSame DEF PageParts
<1>10. ActionsOK'
  <2> SUFFICES ASSUME NEW i \in RowCalls', calls'[i].alone PROVE AloneOK(i)'
    BY DEF ActionsOK
  <2>1. i \in RowCalls /\ calls[i].alone /\ i \in DOMAIN calls /\ RowCalls' = RowCalls
    BY <1>1 DEF RowCalls
  <2>2. AloneOK(i) /\ CallOK(i) /\ PlaceOK(i) /\ WaitsOK(i)
    BY <2>1 DEF ActionsOK, CallsOK
  <2>3. ASSUME calls[i].send = None, calls[i].own, NEW w \in calls[i].waits,
               gets'[w].state = "ok"
        PROVE  Shows(calls[i], gets'[w].body)
    <3>1. Done(i) /\ calls[i].here /\ w \in DOMAIN gets
      BY <2>2, <2>3 DEF AloneOK, WaitsOK
    <3>2. CASE w = u
      BY <1>4, <2>1, <2>2, <2>3, <3>1, <3>2, BodyShows
    <3>3. CASE w # u
      BY <1>3, <2>2, <2>3, <3>1, <3>3 DEF AloneOK
    <3> QED
      BY <3>2, <3>3
  <2> QED
    BY <1>1, <2>1, <2>2, <2>3 DEF AloneOK, Done
<1> QED
  BY <1>6, <1>7, <1>8, <1>9, <1>10 DEF PageParts

LEMMA ServeStrayInv ==
  ASSUME IInv, ServeStray, UNCHANGED tabVars
  PROVE  IInv'
<1> USE DEF IInv
<1>1. UNCHANGED <<expired, issued, token, gets, view, calls, going, unloading>>
  BY DEF ServeStray, tabVars
<1>2. strays # {} /\ strays' \subseteq strays
  BY DEF ServeStray
<1>3. db' \in [Rows -> Statuses]
  BY ExecuteType DEF ServeStray, Types
<1>4. Types'
  BY <1>1, <1>2, <1>3 DEF Types
<1>5. SessionsGoOn
  BY <1>1, TypesFacts DEF SessionsGoOn
<1>6. CallsOK'
  BY <1>1, <1>5, CallsSame
<1>7. GetsOK'
  BY <1>1, GetKept DEF GetsOK
<1>8. PageParts'
  BY <1>1, PagePartsSame DEF PageParts
<1>9. ActionsOK'
  BY <1>1, <1>2 DEF ActionsOK, AloneOK, RowCalls
<1> QED
  BY <1>4, <1>6, <1>7, <1>8, <1>9 DEF PageParts

LEMMA ExpireInv ==
  ASSUME IInv, Expire, UNCHANGED tabVars
  PROVE  IInv'
<1> USE DEF IInv
<1>1. UNCHANGED <<db, issued, token, gets, strays, view, calls, going, unloading>>
  BY DEF Expire, tabVars
<1>2. expired \subseteq expired' /\ expired' \subseteq 1..issued
  BY DEF Expire, Types
<1>3. Types'
  BY <1>1, <1>2 DEF Types
<1>4. SessionsGoOn
  BY <1>1, <1>2, TypesFacts DEF SessionsGoOn
<1>5. CallsOK'
  BY <1>1, <1>4, CallsSame
<1>6. GetsOK'
  BY <1>1, <1>2, GetKept DEF GetsOK
<1>7. PageParts'
  BY <1>1, PagePartsSame DEF PageParts
<1>8. ActionsOK'
  BY <1>1, ActionsSame
<1> QED
  BY <1>3, <1>5, <1>6, <1>7, <1>8 DEF PageParts

-----------------------------------------------------------------------------
(* The calls at the positions T go on, at the positions F of the calls      *)
(* afterwards; f tells where each of these was before.                      *)

Moved(f, T, F) ==
  /\ F \subseteq DOMAIN calls' /\ T \subseteq DOMAIN calls
  /\ \A k \in F : /\ f[k] \in T /\ SameCall(calls'[k], calls[f[k]])
                  /\ calls'[k].own = calls[f[k]].own
                  /\ calls'[k].alone => calls[f[k]].alone
  /\ \A j, k \in F : f[j] = f[k] => j = k
  /\ \A i \in T : \E k \in F : f[k] = i

\* The same, but what they have read and wait for may have changed.
Followed(f, T, F) ==
  /\ F \subseteq DOMAIN calls' /\ T \subseteq DOMAIN calls
  /\ \A k \in F : /\ f[k] \in T
                  /\ calls'[k].op = calls[f[k]].op /\ calls'[k].arg = calls[f[k]].arg
                  /\ calls'[k].filter = calls[f[k]].filter
                  /\ calls'[k].here = calls[f[k]].here
  /\ \A j, k \in F : f[j] = f[k] => j = k
  /\ \A i \in T : \E k \in F : f[k] = i

LEMMA MovedFollowed ==
  ASSUME NEW f, NEW T, NEW F, Moved(f, T, F)
  PROVE  Followed(f, T, F)
  BY DEF Moved, Followed, SameCall

LEMMA RemovedMoved ==
  ASSUME Types, NEW i \in DOMAIN calls, calls' = RemoveAt(calls, i)
  PROVE  /\ calls' \in Seq(Call) /\ Len(calls') = Len(calls) - 1
         /\ \E f : Moved(f, DOMAIN calls \ {i}, DOMAIN calls')
<1>1. calls \in Seq(Call)
  BY TypesFacts
<1>2. PICK f : Selects(f, calls, DOMAIN calls \ {i}, calls')
  BY <1>1, RemoveAtSelects
<1>3. Moved(f, DOMAIN calls \ {i}, DOMAIN calls')
  BY <1>2 DEF Selects, Moved, SameCall
<1> QED
  BY <1>1, <1>3, RemoveAtSelects

\* The elements of old are the calls at T, each of them once.
Continues(f, old, T) ==
  /\ T \subseteq DOMAIN calls
  /\ \A k \in DOMAIN old : /\ f[k] \in T /\ SameCall(old[k], calls[f[k]])
                           /\ old[k].own = calls[f[k]].own
                           /\ old[k].alone => calls[f[k]].alone
  /\ \A j, k \in DOMAIN old : f[j] = f[k] => j = k
  /\ \A i \in T : \E k \in DOMAIN old : f[k] = i

LEMMA AppendedMoved ==
  ASSUME NEW old, old \in Seq(Call), NEW c \in Call, NEW f, NEW T, Continues(f, old, T),
         calls' = Append(old, c)
  PROVE  /\ calls' \in Seq(Call) /\ Len(calls') = Len(old) + 1
         /\ Len(calls') \in DOMAIN calls' /\ calls'[Len(calls')] = c
         /\ Moved(f, T, DOMAIN calls' \ {Len(calls')})
         /\ \A k \in DOMAIN old : calls'[k] = old[k]
<1> DEFINE n == Len(old)
<1>1. n \in Nat /\ DOMAIN old = 1..n
  BY LenProperties
<1>2. /\ calls' \in Seq(Call) /\ Len(calls') = n + 1
      /\ \A k \in 1..n : calls'[k] = old[k]
      /\ calls'[n+1] = c
  BY AppendProperties
<1>3. DOMAIN calls' = 1..(n+1)
  BY <1>2, LenProperties
<1>4. DOMAIN calls' \ {n+1} = 1..n
  BY <1>1, <1>3
<1>5. n+1 \in DOMAIN calls'
  BY <1>1, <1>3
<1> HIDE DEF n
<1>6. Moved(f, T, DOMAIN calls' \ {n+1})
  BY <1>1, <1>2, <1>4, <1>5 DEF Moved, Continues
<1>7. \A k \in DOMAIN old : calls'[k] = old[k]
  BY <1>1, <1>2
<1> QED
  BY <1>2, <1>5, <1>6, <1>7 DEF n

LEMMA Identity ==
  \E f : Continues(f, calls, DOMAIN calls)
<1> DEFINE f == [k \in DOMAIN calls |-> k]
<1>1. Continues(f, calls, DOMAIN calls)
  BY DEF Continues, SameCall
<1> HIDE DEF f
<1> QED
  BY <1>1

\* The new call comes last, the others go on where they are.
LEMMA AddedMoved ==
  ASSUME Types, NEW c \in Call, calls' = Append(calls, c)
  PROVE  /\ calls' \in Seq(Call) /\ Len(calls') = Len(calls) + 1
         /\ Len(calls') \in DOMAIN calls' /\ calls'[Len(calls')] = c
         /\ \E f : Moved(f, DOMAIN calls, DOMAIN calls' \ {Len(calls')})
<1>1. PICK f : Continues(f, calls, DOMAIN calls)
  BY Identity
<1>2. calls \in Seq(Call)
  BY TypesFacts
<1> QED
  BY <1>1, <1>2, AppendedMoved

LEMMA MovedCalls ==
  ASSUME Types, CallsOK, NEW f, NEW T, NEW F, Moved(f, T, F), SessionsGoOn,
         view'.page = view.page, DOMAIN gets \subseteq DOMAIN gets'
  PROVE  \A k \in F : CallOK(k)' /\ SendOK(k)' /\ WaitsOK(k)' /\ PlaceOK(k)'
<1> SUFFICES ASSUME NEW k \in F
             PROVE  CallOK(k)' /\ SendOK(k)' /\ WaitsOK(k)' /\ PlaceOK(k)'
  OBVIOUS
<1> DEFINE i == f[k]
<1>1. i \in DOMAIN calls /\ SameCall(calls'[k], calls[i])
  BY DEF Moved
<1> HIDE DEF i
<1>2. CallOK(i) /\ SendOK(i) /\ WaitsOK(i) /\ PlaceOK(i)
  BY <1>1 DEF CallsOK
<1>3. calls[i].send # None => calls[i].send.token \in Nat
  BY <1>1, TypesFacts DEF Requests
<1>4. calls[i].waits \subseteq DOMAIN gets'
  BY <1>2 DEF WaitsOK
<1> QED
  BY <1>1, <1>2, <1>3, <1>4, CallKept

\* An action that was alone still is, if no action begins or gets lost.
LEMMA MovedActions ==
  ASSUME CallsOK, ActionsOK, NEW f, NEW T, NEW F, Moved(f, T, F), db' = db,
         \A u \in DOMAIN gets : gets'[u] = gets[u],
         RowCalls' \subseteq F,
         strays' = strays \/ RowCalls \ T # {},
         NEW k \in RowCalls', calls'[k].alone
  PROVE  AloneOK(k)'
<1> DEFINE i == f[k]
<1>1. k \in F /\ i \in T /\ i \in DOMAIN calls /\ SameCall(calls'[k], calls[i])
        /\ calls'[k].own = calls[i].own /\ calls[i].alone
  BY DEF Moved
<1>2. i \in RowCalls
  BY <1>1 DEF RowCalls, SameCall
<1> HIDE DEF i
<1>3. AloneOK(i) /\ WaitsOK(i)
  BY <1>1, <1>2 DEF ActionsOK, CallsOK
<1>4. RowCalls = {i} /\ strays = {}
  BY <1>3 DEF AloneOK
<1>5. RowCalls' = {k}
  <2> SUFFICES ASSUME NEW j \in RowCalls' PROVE j = k
    OBVIOUS
  <2>1. j \in F /\ f[j] \in DOMAIN calls /\ SameCall(calls'[j], calls[f[j]])
    BY DEF Moved
  <2>2. f[j] \in RowCalls
    BY <2>1 DEF RowCalls, SameCall
  <2> QED
    BY <1>1, <1>4, <2>1, <2>2 DEF Moved, i
<1>6. strays' = {}
  BY <1>1, <1>4
<1>7. \A u \in calls[i].waits : gets'[u] = gets[u]
  BY <1>3 DEF WaitsOK
<1> QED
  BY <1>1, <1>3, <1>5, <1>6, <1>7 DEF AloneOK, Done, SameCall, Shows

\* No call that reads is gone.
LEMMA LoadingKept ==
  ASSUME CallsOK, LoadingOK, view'.page = view.page, view'.loading => view.loading,
         NEW f, NEW T, NEW F, Moved(f, T, F),
         \A i \in DOMAIN calls \ T : calls[i].send # None
  PROVE  LoadingOK'
<1> SUFFICES ASSUME view'.loading, ~Page[view.page].spins
             PROVE  \E k \in Here(ListReads)' : calls'[k].waits # {}
  BY DEF LoadingOK
<1>1. PICK i \in Here(ListReads) : calls[i].waits # {}
  BY DEF LoadingOK
<1>2. i \in DOMAIN calls /\ calls[i].send = None /\ calls[i].here /\ calls[i].op \in ListReads
  BY <1>1 DEF Here, CallsOK, WaitsOK
<1>3. PICK k \in F : k \in DOMAIN calls' /\ f[k] = i
  BY <1>2 DEF Moved
<1>4. SameCall(calls'[k], calls[i])
  BY <1>3 DEF Moved
<1> QED
  BY <1>1, <1>2, <1>3, <1>4 DEF Here, SameCall

\* What the lists and the lease form have read is not touched.
ReadSame ==
  /\ view'.page = view.page /\ view'.filter = view.filter /\ view'.loading = view.loading
  /\ view'.rows = view.rows /\ view'.rushed = view.rushed /\ view'.choices = view.choices
  /\ view'.property = view.property /\ view'.options = view.options
  /\ view'.asking = view.asking
  /\ view.error => view'.error

LEMMA ReadsKept ==
  ASSUME CallsOK, LoadsAlone, UnitsFiltered, UnitsOffered, LoadingOK, ReadSame,
         NEW f, NEW T, NEW F, Moved(f, T, F),
         \A i \in DOMAIN calls \ T : calls[i].send # None,
         \A k \in DOMAIN calls' \ F : view.page \in SavingPages /\ calls'[k].op \notin PageReads
  PROVE  LoadsAlone' /\ UnitsFiltered' /\ UnitsOffered' /\ LoadingOK'
<1> USE DEF ReadSame
<1>1. \A k \in F : /\ f[k] \in DOMAIN calls /\ calls'[k].op = calls[f[k]].op
                   /\ calls'[k].arg = calls[f[k]].arg /\ calls'[k].filter = calls[f[k]].filter
                   /\ calls'[k].here = calls[f[k]].here /\ calls'[k].waits = calls[f[k]].waits
  BY DEF Moved, SameCall
<1>2. \A i \in DOMAIN calls : calls[i].send = None => \E k \in F : k \in DOMAIN calls' /\ f[k] = i
  BY DEF Moved
<1>3. view.page \in {"tenants", "units", "leases"} => DOMAIN calls' = F
  <2>1. view.page \in {"tenants", "units", "leases"} => view.page \notin SavingPages
    BY SavingNames
  <2> QED
    BY <2>1 DEF Moved
<1>4. \A k \in DOMAIN calls' : calls'[k].op \in PageReads => k \in F
  OBVIOUS
<1>5. \A j, k \in F : f[j] = f[k] => j = k
  BY DEF Moved
<1>6. LoadsAlone'
  <2> SUFFICES ASSUME NEW k \in Here({"load"})'
               PROVE  /\ view.page \in {"tenants", "units"} /\ ~view.rushed =>
                           view.loading /\ \A j \in DOMAIN calls' : calls'[j].here => j = k
                      /\ view.page = "leases" =>
                           /\ view.rows = {} /\ view.asking = None
                           /\ \A j \in DOMAIN calls' : calls'[j].here => j = k
                      /\ view.page \in LeaseForms =>
                           ~view.choices /\ \A j \in Here(PageReads)' : j = k
    BY DEF LoadsAlone
  <2>1. k \in F /\ f[k] \in Here({"load"})
    BY <1>1, <1>4 DEF Here, PageReads
  <2>2. \A j \in F : calls'[j].here => f[j] \in DOMAIN calls /\ calls[f[j]].here
    BY <1>1
  <2>3. \A j \in Here(PageReads)' : j \in F /\ f[j] \in Here(PageReads)
    BY <1>1, <1>4 DEF Here
  <2> QED
    BY <1>3, <1>5, <2>1, <2>2, <2>3 DEF LoadsAlone
<1>7. UnitsFiltered'
  BY <1>1, <1>3 DEF UnitsFiltered
<1>8. UnitsOffered'
  <2>1. \A k \in Here({"units"})' : k \in F /\ f[k] \in Here({"units"})
    BY <1>1, <1>4 DEF Here, PageReads
  <2>2. \A i \in Here({"units"}) : calls[i].send = None
    BY DEF Here, CallsOK, CallOK, PageReads
  <2>3. \A i \in Here({"units"}) : \E k \in Here({"units"})' : TRUE
    BY <1>1, <1>2, <2>2 DEF Here
  <2> QED
    BY <1>1, <2>1, <2>3 DEF UnitsOffered
<1>9. LoadingOK'
  BY LoadingKept
<1> QED
  BY <1>6, <1>7, <1>8, <1>9

\* No action on a row of the page shown begins or ends.
LEMMA ActingKept ==
  ASSUME ActingOK, NEW f, NEW T, NEW F, Moved(f, T, F),
         view'.page = view.page, view'.acting = view.acting,
         \A i \in DOMAIN calls \ T : calls[i].here => calls[i].op \notin RowOperations,
         \A k \in DOMAIN calls' \ F : calls'[k].op \notin RowOperations
  PROVE  ActingOK'
<1>1. \A k \in F : /\ f[k] \in DOMAIN calls /\ calls'[k].op = calls[f[k]].op
                   /\ calls'[k].arg = calls[f[k]].arg /\ calls'[k].here = calls[f[k]].here
  BY DEF Moved, SameCall
<1>2. \A j, k \in F : f[j] = f[k] => j = k
  BY DEF Moved
<1>3. ASSUME NEW ops \in SUBSET RowOperations
      PROVE  /\ \A k \in Here(ops)' : k \in F /\ f[k] \in Here(ops)
             /\ \A i \in Here(ops) : \E k \in Here(ops)' : k \in F /\ f[k] = i
  <2>1. \A k \in Here(ops)' : k \in F /\ f[k] \in Here(ops)
    BY <1>1 DEF Here
  <2>2. ASSUME NEW i \in Here(ops) PROVE \E k \in Here(ops)' : k \in F /\ f[k] = i
    <3>1. i \in T
      BY DEF Here
    <3>2. PICK k \in F : k \in DOMAIN calls' /\ f[k] = i
      BY <3>1 DEF Moved
    <3> QED
      BY <1>1, <3>2 DEF Here
  <2> QED
    BY <2>1, <2>2
<1>4. Archivals \in SUBSET RowOperations /\ LeaseActions \in SUBSET RowOperations
  BY DEF Archivals, LeaseActions, RowOperations
<1>5. view'.acting # {} /\ view'.page # "leases" => Here(Archivals)' # {}
  BY <1>3, <1>4 DEF ActingOK
<1>6. view'.page = "leases" => view'.acting = {calls'[k].arg : k \in Here(LeaseActions)'}
  BY <1>1, <1>3, <1>4 DEF ActingOK
<1>7. OneActionPerLease'
  BY <1>1, <1>2, <1>3, <1>4 DEF ActingOK, OneActionPerLease, LeaseActions
<1> QED
  BY <1>5, <1>6, <1>7 DEF ActingOK

\* Nothing is saved from the page shown, nor has been.
LEMMA SubmittingFollowed ==
  ASSUME SubmittingOK, NEW f, NEW T, NEW F, Followed(f, T, F),
         view'.page = view.page, view'.submitting = view.submitting, view'.saved = view.saved,
         going # None => going' # None,
         \A i \in DOMAIN calls \ T : calls[i].here => calls[i].op # view.page,
         \A k \in DOMAIN calls' \ F : view.page \in SavingPages => calls'[k].op # view.page
  PROVE  SubmittingOK'
<1>1. \A k \in F : /\ f[k] \in DOMAIN calls /\ calls'[k].op = calls[f[k]].op
                   /\ calls'[k].here = calls[f[k]].here
  BY DEF Followed
<1>2. \A j, k \in F : f[j] = f[k] => j = k
  BY DEF Followed
<1>3. ASSUME view.page \in SavingPages
      PROVE  /\ \A k \in Here({view.page})' : k \in F /\ f[k] \in Here({view.page})
             /\ Here({view.page}) # {} => Here({view.page})' # {}
  <2>1. \A k \in Here({view.page})' : k \in F /\ f[k] \in Here({view.page})
    BY <1>1, <1>3 DEF Here
  <2>2. ASSUME NEW i \in Here({view.page}) PROVE \E k \in Here({view.page})' : TRUE
    <3>1. i \in T
      BY DEF Here
    <3>2. PICK k \in F : k \in DOMAIN calls' /\ f[k] = i
      BY <3>1 DEF Followed
    <3> QED
      BY <1>1, <3>2 DEF Here
  <2> QED
    BY <2>1, <2>2
<1> QED
  BY <1>2, <1>3 DEF SubmittingOK

LEMMA SubmittingKept ==
  ASSUME SubmittingOK, NEW f, NEW T, NEW F, Moved(f, T, F),
         view'.page = view.page, view'.submitting = view.submitting, view'.saved = view.saved,
         going # None => going' # None,
         \A i \in DOMAIN calls \ T : calls[i].here => calls[i].op # view.page,
         \A k \in DOMAIN calls' \ F : view.page \in SavingPages => calls'[k].op # view.page
  PROVE  SubmittingOK'
<1>1. Followed(f, T, F)
  BY MovedFollowed
<1> QED
  BY <1>1, SubmittingFollowed

-----------------------------------------------------------------------------
(* Steps that start, end and answer no call of the page shown.              *)

LEMMA ViewOnlyInv ==
  ASSUME IInv, UNCHANGED <<db, expired, issued, token, gets, strays, calls, unloading>>,
         going' \in {None, going}, view' \in View, view'.page = view.page, PageParts'
  PROVE  IInv'
<1> USE DEF IInv
<1>1. Types'
  BY DEF Types
<1>2. SessionsGoOn
  BY TypesFacts DEF SessionsGoOn
<1>3. CallsOK'
  BY <1>2, CallsSame
<1>4. GetsOK'
  BY GetKept DEF GetsOK
<1>5. ActionsOK'
  BY ActionsSame
<1> QED
  BY <1>1, <1>3, <1>4, <1>5 DEF PageParts

\* All of the view but its error, timer and unit, and the dialog of a lease.
ViewSame ==
  /\ view'.page = view.page /\ view'.filter = view.filter /\ view'.loading = view.loading
  /\ view'.rows = view.rows /\ view'.acting = view.acting /\ view'.rushed = view.rushed
  /\ view'.choices = view.choices /\ view'.property = view.property
  /\ view'.options = view.options /\ view'.submitting = view.submitting
  /\ view'.saved = view.saved

LEMMA ViewSameParts ==
  ASSUME PageParts, calls' = calls, going' = going, ViewSame,
         view'.timer => view'.page = "tenants",
         view.page = "units" => view'.error = view.error,
         view.page = "leases" => view.rows # {} \/ view'.asking \in {None, view.asking}
  PROVE  PageParts'
<1> USE DEF PageParts, ViewSame
<1>1. RowsOK' /\ LoadingOK' /\ UnitsFiltered'
  BY DEF RowsOK, LoadingOK, UnitsFiltered, Here
<1>2. LoadsAlone' /\ UnitsOffered'
  BY DEF LoadsAlone, UnitsOffered, Here
<1>3. ActingOK' /\ SubmittingOK'
  BY DEF ActingOK, SubmittingOK, OneActionPerLease, Here
<1> QED
  BY <1>1, <1>2, <1>3

LEMMA ClearErrorInv ==
  ASSUME IInv, NEW timer \in BOOLEAN, view.page = "tenants", ClearError(timer)
  PROVE  IInv'
<1>1. view \in View /\ PageParts
  BY DEF IInv, Types, PageParts
<1>2. view' = [view EXCEPT !.error = FALSE, !.timer = timer]
      /\ UNCHANGED <<db, expired, issued, token, gets, strays, calls, unloading, going>>
  BY DEF ClearError, listUnchanged
<1>3. view' \in View /\ ViewSame
  BY <1>1, <1>2 DEF View, ViewSame
<1>4. view'.page = "tenants"
  BY <1>3 DEF ViewSame
<1>5. PageParts'
  BY <1>1, <1>2, <1>3, <1>4, ViewSameParts
<1> QED
  BY <1>2, <1>3, <1>4, <1>5, ViewOnlyInv

LEMMA ErrorTimerInv ==
  ASSUME IInv, ErrorTimer
  PROVE  IInv'
<1>1. view.timer /\ view.page = "tenants"
  BY DEF ErrorTimer, IInv, RowsOK
<1> QED
  <2>1. PICK others \in BOOLEAN : ClearError(others)
    BY DEF ErrorTimer
  <2> QED
    BY <1>1, <2>1, ClearErrorInv

LEMMA ChooseUnitInv ==
  ASSUME IInv, ChooseUnit
  PROVE  IInv'
<1>1. view \in View /\ PageParts
  BY DEF IInv, Types, PageParts
<1>2. view' = [view EXCEPT !.unit = view.options]
      /\ UNCHANGED <<db, expired, issued, token, gets, strays, calls, unloading, going>>
  BY DEF ChooseUnit, formUnchanged
<1>3. view' \in View /\ ViewSame /\ view'.timer = view.timer /\ view'.error = view.error
  BY <1>1, <1>2 DEF View, ViewSame
<1>4. view'.timer => view'.page = "tenants"
  BY <1>1, <1>3 DEF ViewSame, PageParts, RowsOK
<1>5. PageParts'
  BY <1>1, <1>2, <1>3, <1>4, ViewSameParts
<1> QED
  BY <1>2, <1>3, <1>5, ViewOnlyInv DEF ViewSame

\* No property is selected any more.
LEMMA ChooseNoneInv ==
  ASSUME IInv, view.page \in LeaseForms, ChooseProperty(None)
  PROVE  IInv'
<1>1. view \in View /\ PageParts
  BY DEF IInv, Types, PageParts
<1> DEFINE asking == Here({"units"}) # {}
<1>2. /\ view' = [view EXCEPT !.property = None, !.options = None, !.rushed = @ \/ asking]
      /\ UNCHANGED <<db, expired, issued, token, gets, strays, calls, unloading, going>>
      /\ view.choices
  BY DEF ChooseProperty, formUnchanged
<1>5. asking \in BOOLEAN
  OBVIOUS
<1> HIDE DEF asking
<1>3. /\ view' \in View
      /\ view'.page = view.page /\ view'.filter = view.filter /\ view'.loading = view.loading
      /\ view'.rows = view.rows /\ view'.acting = view.acting
      /\ view'.rushed = (view.rushed \/ asking) /\ view'.timer = view.timer
      /\ view'.choices = view.choices /\ view'.options = None
      /\ view'.submitting = view.submitting /\ view'.saved = view.saved
      /\ view'.error = view.error
  <2> DEFINE rushed == view.rushed \/ asking
  <2>1. rushed \in BOOLEAN /\ None \in Homes \cup {None}
    OBVIOUS
  <2>2. view' = [view EXCEPT !.property = None, !.options = None, !.rushed = rushed]
    BY <1>2
  <2>3. rushed = (view.rushed \/ asking)
    OBVIOUS
  <2> HIDE DEF rushed
  <2> QED
    BY <1>1, <2>1, <2>2, <2>3, ZenonT(60) DEF View
<1> USE DEF asking
<1>4. PageParts'
  <2> USE <1>2, <1>3 DEF PageParts
  <2>1. RowsOK' /\ LoadingOK'
    BY <1>1 DEF RowsOK, LoadingOK, Here
  <2>2. LoadsAlone'
    BY <1>1 DEF LoadsAlone, Here
  <2>3. UnitsFiltered'
    BY DEF UnitsFiltered, LeaseForms
  <2>4. UnitsOffered'
    BY DEF UnitsOffered, Here
  <2>5. ActingOK' /\ SubmittingOK'
    BY <1>1 DEF ActingOK, SubmittingOK, OneActionPerLease, Here
  <2> QED
    BY <2>1, <2>2, <2>3, <2>4, <2>5
<1> QED
  BY <1>2, <1>3, <1>4, ViewOnlyInv

-----------------------------------------------------------------------------
(* Navigation.                                                              *)

LEMMA FollowInv ==
  ASSUME IInv, NEW p \in Pages, Follow(p)
  PROVE  IInv'
<1>1. Mount(p) /\ UNCHANGED <<db, expired, issued, token, strays, unloading>>
  BY DEF Follow
<1>2. unloading' \in BOOLEAN /\ token' \in {0, token}
  BY <1>1 DEF IInv, Types
<1> QED
  BY <1>1, <1>2, MountInv

LEMMA ArriveInv ==
  ASSUME IInv, Arrive
  PROVE  IInv'
<1>1. going # None /\ UNCHANGED <<db, expired, issued, token, strays, unloading>>
  BY DEF Arrive
<1>2. CASE going = view.page
  <2>1. going' = None /\ UNCHANGED <<view, calls, gets>>
    BY <1>2 DEF Arrive
  <2>2. view.page \in Targets /\ view \in View
    BY <1>1, <1>2 DEF IInv, Types
  <2>3. view.page \notin SavingPages
    BY <2>2, SavingNames DEF Targets
  <2>4. ~view.submitting
    BY <2>3 DEF IInv, SubmittingOK
  <2>5. PageParts'
    <3> USE <2>1 DEF IInv
    <3>1. RowsOK' /\ LoadingOK' /\ UnitsFiltered'
      BY DEF RowsOK, LoadingOK, UnitsFiltered, Here
    <3>2. LoadsAlone' /\ UnitsOffered'
      BY DEF LoadsAlone, UnitsOffered, Here
    <3>3. ActingOK'
      BY DEF ActingOK, OneActionPerLease, Here
    <3>4. SubmittingOK'
      BY <2>3, <2>4 DEF SubmittingOK, Here
    <3> QED
      BY <3>1, <3>2, <3>3, <3>4 DEF PageParts
  <2> QED
    BY <1>1, <2>1, <2>2, <2>5, ViewOnlyInv
<1>3. CASE going # view.page
  <2>1. Mount(going)
    BY <1>3 DEF Arrive
  <2>2. unloading' \in BOOLEAN /\ token' \in {0, token}
    BY <1>1 DEF IInv, Types
  <2> QED
    BY <1>1, <2>1, <2>2, MountInv
<1> QED
  BY <1>2, <1>3

LEMMA SignOutInv ==
  ASSUME IInv, SignOut
  PROVE  IInv'
<1>1. Mount("login") /\ token' = 0 /\ UNCHANGED <<db, expired, issued, strays, unloading>>
  BY DEF SignOut, RemoveToken
<1>2. unloading' \in BOOLEAN /\ token' \in {0, token}
  BY <1>1 DEF IInv, Types
<1> QED
  BY <1>1, <1>2, MountInv

LEMMA UnloadInv ==
  ASSUME IInv, Unload
  PROVE  IInv'
  BY FreshDocumentInv, PagesAssumption DEF Unload

LEMMA RefreshInv ==
  ASSUME IInv, Refresh
  PROVE  IInv'
<1> DEFINE p == IF token = 0 /\ view.page \notin AuthPages THEN "login" ELSE view.page
<1>1. p \in Pages
  BY PagesAssumption DEF IInv, Types, View
<1>2. FreshDocument(p)
  BY DEF Refresh
<1> HIDE DEF p
<1> QED
  BY <1>1, <1>2, FreshDocumentInv

-----------------------------------------------------------------------------
(* The server executes the request of a call, or refuses it.                *)

\* The requests aside, the calls are what they were.
RequestsAside ==
  /\ DOMAIN calls' = DOMAIN calls
  /\ \A k \in DOMAIN calls :
       /\ calls'[k].op = calls[k].op /\ calls'[k].arg = calls[k].arg
       /\ calls'[k].filter = calls[k].filter /\ calls'[k].here = calls[k].here
       /\ calls'[k].waits = calls[k].waits

LEMMA RequestsAsideParts ==
  ASSUME PageParts, UNCHANGED <<view, going>>, RequestsAside
  PROVE  PageParts'
<1> USE DEF PageParts
<1>1. \A ops : Here(ops)' = Here(ops)
  BY DEF Here, RequestsAside
<1>2. \A ops : Here(ops) \subseteq DOMAIN calls
  BY DEF Here
<1>3. RowsOK' /\ LoadingOK' /\ UnitsFiltered'
  BY <1>1, <1>2 DEF RowsOK, LoadingOK, UnitsFiltered, RequestsAside
<1>4. LoadsAlone' /\ UnitsOffered'
  BY <1>1, <1>2 DEF LoadsAlone, UnitsOffered, RequestsAside
<1>5. ActingOK'
  <2>1. {calls'[i].arg : i \in Here(LeaseActions)} = {calls[i].arg : i \in Here(LeaseActions)}
    BY <1>2 DEF RequestsAside
  <2>2. OneActionPerLease'
    BY <1>1, <1>2 DEF ActingOK, OneActionPerLease, RequestsAside
  <2> QED
    BY <1>1, <2>1, <2>2 DEF ActingOK
<1>6. SubmittingOK'
  BY <1>1 DEF SubmittingOK
<1> QED
  BY <1>3, <1>4, <1>5, <1>6

LEMMA ServeSendInv ==
  ASSUME IInv, NEW i \in DOMAIN calls, ServeSend(i)
  PROVE  IInv'
<1> USE DEF IInv
<1> DEFINE c == calls[i]
           send == calls'[i].send
<1>1. /\ UNCHANGED <<expired, token, gets, strays, view, going, unloading>>
      /\ c.send # None /\ c.send.state = "sent"
  BY DEF ServeSend
<1>2. c \in Call /\ c.send \in Requests
  BY <1>1, TypesFacts
<1>3. /\ DOMAIN calls' = DOMAIN calls
      /\ \A k \in DOMAIN calls : k # i => calls'[k] = calls[k]
  BY DEF ServeSend, WithSend
<1>4. \/ /\ c.op \in AuthPages /\ issued < MaxSessions /\ issued' = issued + 1 /\ db' = db
         /\ calls'[i] = [c EXCEPT !.send = [token |-> issued + 1, state |-> "ok"]]
      \/ /\ c.op \notin AuthPages /\ Valid(c.send.token) /\ issued' = issued
         /\ Execute(c.op, c.arg)
         /\ calls'[i] = [c EXCEPT !.send.state = "ok"]
      \/ /\ c.op \notin AuthPages /\ ~Valid(c.send.token) /\ issued' = issued /\ db' = db
         /\ calls'[i] = [c EXCEPT !.send.state = "unauthorized"]
  BY DEF ServeSend, WithSend
<1>5. /\ calls'[i] = [c EXCEPT !.send = send] /\ send \in Requests
      /\ \/ /\ c.op \in AuthPages /\ issued < MaxSessions /\ issued' = issued + 1 /\ db' = db
            /\ send.token = issued + 1 /\ send.state = "ok"
         \/ /\ c.op \notin AuthPages /\ Valid(c.send.token) /\ issued' = issued
            /\ Execute(c.op, c.arg)
            /\ send.token = c.send.token /\ send.state = "ok"
         \/ /\ c.op \notin AuthPages /\ ~Valid(c.send.token) /\ issued' = issued /\ db' = db
            /\ send.token = c.send.token /\ send.state = "unauthorized"
  <2> HIDE DEF c
  <2>1. \A state : [c EXCEPT !.send.state = state]
                    = [c EXCEPT !.send = [token |-> c.send.token, state |-> state]]
    BY <1>2 DEF Call, Requests
  <2>2. ASSUME NEW s \in Requests, calls'[i] = [c EXCEPT !.send = s]
        PROVE  send = s
    BY <1>2, <2>2 DEF Call
  <2>3. issued + 1 \in Nat /\ c.send.token \in Nat
    BY <1>2, TypesFacts DEF Requests
  <2>4. /\ [token |-> issued + 1, state |-> "ok"] \in Requests
        /\ [token |-> c.send.token, state |-> "ok"] \in Requests
        /\ [token |-> c.send.token, state |-> "unauthorized"] \in Requests
    BY <2>3 DEF Requests
  <2> HIDE DEF send
  <2>5. CASE /\ c.op \in AuthPages /\ issued < MaxSessions /\ issued' = issued + 1 /\ db' = db
             /\ calls'[i] = [c EXCEPT !.send = [token |-> issued + 1, state |-> "ok"]]
    <3>1. send = [token |-> issued + 1, state |-> "ok"]
      <4>1. [token |-> issued + 1, state |-> "ok"] \in Requests
        BY <2>4
      <4>2. calls'[i] = [c EXCEPT !.send = [token |-> issued + 1, state |-> "ok"]]
        BY <2>5
      <4> QED
        BY <2>2, <4>1, <4>2
    <3> QED
      BY <2>4, <2>5, <3>1
  <2>6. CASE /\ c.op \notin AuthPages /\ Valid(c.send.token) /\ issued' = issued
             /\ Execute(c.op, c.arg)
             /\ calls'[i] = [c EXCEPT !.send.state = "ok"]
    <3>1. calls'[i] = [c EXCEPT !.send = [token |-> c.send.token, state |-> "ok"]]
      BY <2>1, <2>6
    <3>2. send = [token |-> c.send.token, state |-> "ok"]
      BY <2>2, <2>4, <3>1
    <3>3. send.token = c.send.token /\ send.state = "ok" /\ send \in Requests
      BY <2>4, <3>2
    <3> QED
      BY <2>6, <3>1, <3>2, <3>3
  <2>7. CASE /\ c.op \notin AuthPages /\ ~Valid(c.send.token) /\ issued' = issued /\ db' = db
             /\ calls'[i] = [c EXCEPT !.send.state = "unauthorized"]
    <3>1. calls'[i] = [c EXCEPT !.send = [token |-> c.send.token, state |-> "unauthorized"]]
      BY <2>1, <2>7
    <3>2. send = [token |-> c.send.token, state |-> "unauthorized"]
      BY <2>2, <2>4, <3>1
    <3> QED
      BY <2>1, <2>4, <2>7, <3>2
  <2>8. c = calls[i]
    BY DEF c
  <2> QED
    BY <1>4, <2>5, <2>6, <2>7, <2>8
<1>6. /\ calls'[i].op = c.op /\ calls'[i].arg = c.arg /\ calls'[i].filter = c.filter
      /\ calls'[i].here = c.here /\ calls'[i].waits = c.waits /\ calls'[i].got = c.got
      /\ calls'[i].own = c.own /\ calls'[i].alone = c.alone /\ calls'[i] \in Call
  BY <1>2, <1>5 DEF Call
<1>7. RequestsAside
  BY <1>3, <1>6 DEF RequestsAside
<1>8. send # None
  BY <1>5, NoneAssumption
<1> HIDE DEF send
<1>9. SessionsGoOn
  BY <1>1, <1>5, TypesFacts DEF SessionsGoOn
<1>10. Types'
  <2>1. calls' \in Seq(Call)
    <3>1. \A k \in DOMAIN calls : calls'[k] \in Call
      BY <1>3, <1>6, TypesFacts
    <3>2. calls' = [k \in DOMAIN calls |-> calls'[k]]
      BY <1>3 DEF ServeSend, WithSend
    <3> QED
      BY <3>1, <3>2, TypesFacts
  <2>2. db' \in [Rows -> Statuses]
    BY <1>5, ExecuteType DEF Types
  <2>3. issued' \in 1..MaxSessions /\ issued <= issued'
    BY <1>5, SessionsAssumption DEF Types
  <2>4. expired' \subseteq 1..issued' /\ token' \in 0..issued'
    BY <1>1, <1>9, <2>3 DEF Types, SessionsGoOn
  <2> QED
    BY <1>1, <2>1, <2>2, <2>3, <2>4 DEF Types
<1>11. CallsOK'
  <2> SUFFICES ASSUME NEW k \in DOMAIN calls'
               PROVE  CallOK(k)' /\ SendOK(k)' /\ WaitsOK(k)' /\ PlaceOK(k)'
    BY DEF CallsOK
  <2>1. k \in DOMAIN calls /\ CallOK(k) /\ SendOK(k) /\ WaitsOK(k) /\ PlaceOK(k)
    BY <1>3 DEF CallsOK
  <2>2. CASE k # i
    <3>1. SameCall(calls'[k], calls[k])
      BY <1>3, <2>1, <2>2 DEF SameCall
    <3>2. calls[k].send # None => calls[k].send.token \in Nat
      BY <2>1, TypesFacts DEF Requests
    <3>3. calls[k].waits \subseteq DOMAIN gets'
      BY <1>1, <2>1 DEF WaitsOK
    <3> QED
      BY <1>1, <1>9, <2>1, <3>1, <3>2, <3>3, CallKept
  <2>3. CASE k = i
    <3>1. CallOK(i)'
      BY <1>1, <1>6, <1>8, <2>1, <2>3 DEF CallOK, send
    <3>2. SendOK(i)'
      <4>1. send.token <= issued'
        BY <1>1, <1>5, <2>1, <2>3, TypesFacts DEF SendOK, Requests
      <4>2. c.op \in AuthPages => send.token > 0
        BY <1>5, TypesFacts
      <4> QED
        BY <1>1, <1>5, <1>6, <4>1, <4>2 DEF SendOK, send, Valid
    <3>3. WaitsOK(i)'
      BY <1>1, <1>6, <1>8, <2>1, <2>3 DEF WaitsOK, send
    <3>4. PlaceOK(i)'
      BY <1>1, <1>6, <2>1, <2>3 DEF PlaceOK
    <3> QED
      BY <2>3, <3>1, <3>2, <3>3, <3>4
  <2> QED
    BY <2>2, <2>3
<1>12. GetsOK'
  BY <1>1, GetKept DEF GetsOK
<1>13. PageParts'
  BY <1>1, <1>7, RequestsAsideParts DEF PageParts
<1>14. ActionsOK'
  <2> SUFFICES ASSUME NEW k \in RowCalls', calls'[k].alone PROVE AloneOK(k)'
    BY DEF ActionsOK
  <2>1. /\ RowCalls' = RowCalls /\ k \in RowCalls /\ k \in DOMAIN calls /\ calls[k].alone
        /\ calls'[k].op = calls[k].op /\ calls'[k].arg = calls[k].arg
    BY <1>3, <1>6 DEF RowCalls
  <2>2. AloneOK(k) /\ CallOK(k)
    BY <2>1 DEF ActionsOK, CallsOK
  <2>3. CASE k = i
    <3>1. c.op \in RowOperations /\ c.op \notin AuthPages
      BY <2>1, <2>3 DEF RowCalls, RowOperations, AuthPages
    <3>2. c.arg \in Rows
      BY <2>2, <2>3, <3>1 DEF CallOK, RowOperations, Archivals, LeaseActions, Rows
    <3>3. send.state = "ok" => Done(k)'
      BY <1>5, <2>1, <2>3, <3>1, <3>2 DEF Execute, Done, Types
    <3> QED
      BY <1>1, <1>8, <2>1, <2>2, <2>3, <3>3 DEF AloneOK, send
  <2>4. CASE k # i
    <3>1. c.op \notin RowOperations
      BY <2>1, <2>2, <2>4 DEF AloneOK, RowCalls
    <3>2. db' = db
      BY <1>5, <3>1 DEF Execute
    <3>3. calls'[k] = calls[k]
      BY <1>3, <2>1, <2>4
    <3> QED
      BY <1>1, <2>1, <2>2, <3>2, <3>3 DEF AloneOK, Done
  <2> QED
    BY <2>3, <2>4
<1> QED
  BY <1>10, <1>11, <1>12, <1>13, <1>14 DEF PageParts

-----------------------------------------------------------------------------
(* The user starts a call: it is the last one, at n.                        *)

Grown(f, c, n) ==
  /\ calls' \in Seq(Call) /\ n \in DOMAIN calls' /\ calls'[n] = c
  /\ Moved(f, DOMAIN calls, DOMAIN calls' \ {n})

GetsGrow ==
  /\ DOMAIN gets \subseteq DOMAIN gets' /\ DOMAIN gets' \subseteq Urls
  /\ gets' \in [DOMAIN gets' -> Fetched]
  /\ \A u \in DOMAIN gets : gets'[u] = gets[u]
  /\ GetsOK'

LEMMA GetsStay ==
  ASSUME IInv, gets' = gets, expired' = expired
  PROVE  GetsGrow
<1>1. GetsOK'
  BY GetKept DEF IInv, GetsOK
<1> QED
  BY <1>1 DEF IInv, Types, GetsGrow

LEMMA GrownInv ==
  ASSUME IInv, NEW c \in Call, NEW f, NEW n, Grown(f, c, n), GetsGrow,
         UNCHANGED <<db, expired, issued, token, strays, going, unloading>>,
         view' \in View, view'.page = view.page,
         CallOK(n)', SendOK(n)', WaitsOK(n)', PlaceOK(n)'
  PROVE  /\ Types' /\ CallsOK'
         /\ c.op \notin RowOperations => ActionsOK'
<1> USE DEF IInv
<1>1. Types'
  BY DEF Types, Grown, GetsGrow
<1>2. SessionsGoOn
  BY TypesFacts DEF SessionsGoOn
<1> DEFINE F == DOMAIN calls' \ {n}
<1>3. Moved(f, DOMAIN calls, F) /\ DOMAIN gets \subseteq DOMAIN gets'
  BY DEF Grown, GetsGrow
<1> HIDE DEF F
<1>4. \A k \in F : CallOK(k)' /\ SendOK(k)' /\ WaitsOK(k)' /\ PlaceOK(k)'
  BY <1>2, <1>3, MovedCalls
<1>5. CallsOK'
  BY <1>4 DEF CallsOK, F
<1>6. ASSUME c.op \notin RowOperations PROVE ActionsOK'
  <2>1. RowCalls' \subseteq F
    BY <1>6 DEF RowCalls, Grown, F
  <2>2. \A u \in DOMAIN gets : gets'[u] = gets[u]
    BY DEF GetsGrow
  <2>3. ASSUME NEW k \in RowCalls', calls'[k].alone PROVE AloneOK(k)'
    BY <1>3, <2>1, <2>2, <2>3, MovedActions
  <2> QED
    BY <2>3 DEF ActionsOK
<1> QED
  BY <1>1, <1>5, <1>6

LEMMA AppendGrown ==
  ASSUME Types, NEW c \in Call, calls' = Append(calls, c)
  PROVE  \E f, n : Grown(f, c, n)
  BY AddedMoved DEF Grown

\* handleSubmit of any form.
LEMMA HandleSubmitInv ==
  ASSUME IInv, HandleSubmit
  PROVE  IInv'
<1> USE DEF IInv
<1> DEFINE session == IF view.page \in AuthPages THEN 0 ELSE token
           c == Sending(view.page, None, "active", session)
<1>1. /\ UNCHANGED <<db, expired, issued, token, strays, going, unloading, gets>>
      /\ view.page \in SavingPages /\ ~view.submitting
      /\ view' = [view EXCEPT !.submitting = TRUE] /\ calls' = Append(calls, c)
  BY DEF HandleSubmit, formUnchanged, FormShown
<1>2. session \in Nat /\ session <= issued
  BY TypesFacts DEF Types
<1> HIDE DEF session
<1>3. [token |-> session, state |-> "sent"] \in Requests
  BY <1>2 DEF Requests
<1>4. [token |-> session, state |-> "sent"] # None
  BY <1>3, NoneAssumption
<1>5. /\ c.op = view.page /\ c.filter = "active" /\ c.here /\ c.waits = {} /\ c.got = {}
      /\ c.send = [token |-> session, state |-> "sent"]
  BY DEF Sending
<1>6. c \in Call
  <2>1. view.page \in Pages
    BY TypesFacts DEF View
  <2> QED
    BY <1>1, <1>3, <2>1 DEF Sending, Call, Filters
<1> HIDE DEF c
<1>7. PICK f, n : Grown(f, c, n)
  BY <1>1, <1>6, AppendGrown
<1>8. /\ view' \in View /\ ReadSame /\ view'.page = view.page /\ view'.acting = view.acting
      /\ view'.submitting /\ view'.saved = view.saved /\ view'.timer = view.timer
  BY <1>1, TypesFacts DEF View, ReadSame
<1>9. /\ view.page \notin RowOperations /\ view.page \notin PageReads
      /\ view.page \notin ListPageNames /\ view.page # "tenants"
  BY <1>1, SavingNames DEF RowOperations, PageReads, ListPageNames
<1>10. /\ view.page \notin Archivals /\ view.page \notin LeaseActions /\ view.page # "units"
       /\ view.page # "options" /\ view.page # "load"
  BY <1>9 DEF RowOperations, PageReads, Archivals, LeaseActions
<1>11. calls'[n] = c /\ n \in DOMAIN calls' /\ Moved(f, DOMAIN calls, DOMAIN calls' \ {n})
  BY <1>7 DEF Grown
<1>12. CallOK(n)' /\ SendOK(n)' /\ WaitsOK(n)' /\ PlaceOK(n)'
  <2>1. CallOK(n)'
    BY <1>4, <1>5, <1>9, <1>10, <1>11 DEF CallOK
  <2>2. SendOK(n)'
    BY <1>1, <1>2, <1>5, <1>11 DEF SendOK
  <2>3. WaitsOK(n)'
    BY <1>4, <1>5, <1>11 DEF WaitsOK
  <2>4. PlaceOK(n)'
    BY <1>5, <1>8, <1>9, <1>10, <1>11 DEF PlaceOK
  <2> QED
    BY <2>1, <2>2, <2>3, <2>4
<1>13. GetsGrow
  BY <1>1, GetsStay
<1>14. Types' /\ CallsOK' /\ ActionsOK'
  BY <1>1, <1>5, <1>6, <1>7, <1>8, <1>9, <1>12, <1>13, GrownInv
<1> DEFINE F == DOMAIN calls' \ {n}
<1>15. /\ Moved(f, DOMAIN calls, F) /\ \A k \in DOMAIN calls' \ F : k = n
       /\ \A i \in DOMAIN calls \ DOMAIN calls : FALSE
  BY <1>11
<1> HIDE DEF F
<1>16. LoadsAlone' /\ UnitsFiltered' /\ UnitsOffered' /\ LoadingOK'
  BY <1>1, <1>5, <1>8, <1>9, <1>11, <1>15, ReadsKept
<1>17. ActingOK'
  BY <1>5, <1>8, <1>9, <1>11, <1>15, ActingKept
<1>18. SubmittingOK'
  <2>1. n \in Here({view.page})'
    BY <1>5, <1>8, <1>11 DEF Here
  <2>2. ASSUME ~Page[view.page].early PROVE ~view.saved /\ Here({view.page})' = {n}
    <3>1. ~view.saved /\ Here({view.page}) = {}
      BY <1>1, <2>2 DEF SubmittingOK
    <3>2. ASSUME NEW k \in Here({view.page})', k # n PROVE FALSE
      <4>1. k \in F /\ calls'[k].here /\ calls'[k].op = view.page
        BY <1>8, <3>2 DEF Here, F
      <4>2. f[k] \in DOMAIN calls /\ SameCall(calls'[k], calls[f[k]])
        BY <1>15, <4>1 DEF Moved
      <4> QED
        BY <3>1, <4>1, <4>2 DEF Here, SameCall
    <3> QED
      BY <2>1, <3>1, <3>2
  <2> QED
    BY <1>1, <1>8, <2>1, <2>2 DEF SubmittingOK
<1>19. RowsOK' /\ GetsOK'
  BY <1>8, <1>9, <1>13 DEF RowsOK, GetsGrow
<1> QED
  BY <1>14, <1>16, <1>17, <1>18, <1>19

\* A property is selected, and its units are read.
LEMMA ChooseHomeInv ==
  ASSUME IInv, view.page \in LeaseForms, NEW h \in Homes, ChooseProperty(h)
  PROVE  IInv'
<1> USE DEF IInv
<1>1. CASE h = None
  BY <1>1, ChooseNoneInv
<1>2. CASE h # None
  <2> DEFINE asking == Here({"units"}) # {}
             c == Reading("units", h, "active", UnitUrls(h))
  <2>1. /\ view' = [view EXCEPT !.property = h, !.options = view.options,
                                !.rushed = @ \/ asking]
        /\ UNCHANGED <<db, expired, issued, token, strays, unloading, going>>
        /\ calls' = Append(calls, c) /\ gets' = Fetch(UnitUrls(h))
        /\ view.choices
    BY <1>2 DEF ChooseProperty, formUnchanged
  <2>2. /\ view' \in View
        /\ view'.page = view.page /\ view'.loading = view.loading
        /\ view'.rows = view.rows /\ view'.acting = view.acting
        /\ view'.rushed = (view.rushed \/ asking) /\ view'.timer = view.timer
        /\ view'.property = h /\ view'.submitting = view.submitting /\ view'.saved = view.saved
    <3> DEFINE rushed == view.rushed \/ asking
    <3>1. rushed \in BOOLEAN /\ view \in View /\ view.options \in Homes \cup {None}
      BY TypesFacts DEF View
    <3>2. view' = [view EXCEPT !.property = h, !.options = view.options, !.rushed = rushed]
      BY <2>1
    <3>3. rushed = (view.rushed \/ asking)
      OBVIOUS
    <3> HIDE DEF rushed, IInv
    <3> QED
      BY <3>1, <3>2, <3>3, ZenonT(60) DEF View
  <2>3. UnitUrls(h) \in SUBSET Urls /\ UnitUrls(h) # {}
    BY UrlFacts
  <2>4. /\ c.op = "units" /\ c.arg = h /\ c.here /\ c.waits = UnitUrls(h)
        /\ c.got = {} /\ c.send = None
    BY DEF Reading
  <2>5. c \in Call
    BY <2>3 DEF Reading, Call, PageReads, Filters
  <2> HIDE DEF c, asking
  <2>6. PICK f, n : Grown(f, c, n)
    BY <2>1, <2>5, AppendGrown
  <2>7. calls'[n] = c /\ n \in DOMAIN calls' /\ Moved(f, DOMAIN calls, DOMAIN calls' \ {n})
    BY <2>6 DEF Grown
  <2>8. GetsGrow /\ UnitUrls(h) \subseteq DOMAIN gets'
    BY <2>1, <2>3, FetchFacts DEF GetsGrow
  <2>9. "units" \notin RowOperations /\ "units" \notin SavingPages /\ view.page \notin ListPageNames
    BY SavingNames DEF RowOperations, ListPageNames, LeaseForms
  <2>10. CallOK(n)' /\ SendOK(n)' /\ WaitsOK(n)' /\ PlaceOK(n)'
    <3>1. CallOK(n)'
      BY <2>4, <2>7, <2>9 DEF CallOK, Archivals, LeaseActions
    <3>2. SendOK(n)'
      BY <2>4, <2>7 DEF SendOK
    <3>3. WaitsOK(n)'
      BY <2>3, <2>4, <2>7, <2>8 DEF WaitsOK
    <3>4. PlaceOK(n)'
      BY <2>2, <2>4, <2>7, <2>9 DEF PlaceOK, Archivals, LeaseActions
    <3> QED
      BY <3>1, <3>2, <3>3, <3>4
  <2>11. Types' /\ CallsOK' /\ ActionsOK'
    BY <2>1, <2>2, <2>4, <2>5, <2>6, <2>8, <2>9, <2>10, GrownInv
  <2> DEFINE F == DOMAIN calls' \ {n}
  <2>12. /\ Moved(f, DOMAIN calls, F) /\ \A k \in DOMAIN calls' \ F : k = n
         /\ \A i \in DOMAIN calls \ DOMAIN calls : FALSE
    BY <2>7
  <2>13. \A k \in DOMAIN calls' : k # n => k \in F
    OBVIOUS
  <2> HIDE DEF F
  <2>14. \A k \in F : f[k] \in DOMAIN calls /\ calls'[k].op = calls[f[k]].op
                      /\ calls'[k].here = calls[f[k]].here
    BY <2>12 DEF Moved, SameCall
  <2>15. LoadingOK'
    BY <2>2, <2>12, LoadingKept
  <2>16. ActingOK'
    BY <2>2, <2>4, <2>7, <2>9, <2>12, ActingKept
  <2>17. SubmittingOK'
    BY <2>1, <2>2, <2>4, <2>7, <2>9, <2>12, SubmittingKept
  <2>18. LoadsAlone' /\ UnitsFiltered'
    <3>1. \A k \in Here({"load"})' : k \in F /\ f[k] \in Here({"load"})
      BY <2>4, <2>7, <2>13, <2>14 DEF Here
    <3>2. Here({"load"})' = {}
      BY <2>1, <3>1 DEF LoadsAlone
    <3> QED
      BY <2>2, <3>2 DEF LoadsAlone, UnitsFiltered, LeaseForms
  <2>19. UnitsOffered'
    <3>1. n \in Here({"units"})'
      BY <2>4, <2>7 DEF Here
    <3>2. ASSUME ~view'.rushed, NEW k \in Here({"units"})' PROVE calls'[k].arg = view'.property
      <4>1. k \in F => f[k] \in Here({"units"})
        BY <2>14, <3>2 DEF Here
      <4>2. k \notin F
        BY <2>2, <3>2, <4>1 DEF asking
      <4>3. k = n
        BY <2>13, <3>2, <4>2 DEF Here
      <4> QED
        BY <2>2, <2>4, <2>7, <4>3
    <3> QED
      BY <3>1, <3>2 DEF UnitsOffered
  <2>20. RowsOK' /\ GetsOK'
    BY <2>2, <2>8 DEF RowsOK, GetsGrow
  <2> QED
    BY <2>11, <2>15, <2>16, <2>17, <2>18, <2>19, <2>20
<1> QED
  BY <1>1, <1>2

\* The user switches between active and archived rows, and the list is read again.
LEMMA ToggleInv ==
  ASSUME IInv, view.page \in {"tenants", "units"}, ~view.loading,
         ToggleReloads(OtherFilter), listUnchanged, UNCHANGED <<token, unloading>>
  PROVE  IInv'
<1> USE DEF IInv
<1> DEFINE filter == OtherFilter
           urls == ListUrls(view.page, filter)
           c == Reading("load", None, filter, urls)
           rush == \E i \in DOMAIN calls : calls[i].here
<1>1. /\ view' = [view EXCEPT !.filter = filter, !.loading = TRUE, !.error = FALSE,
                              !.rushed = @ \/ rush]
      /\ UNCHANGED <<db, expired, issued, token, strays, unloading, going>>
      /\ calls' = Append(calls, c) /\ gets' = Fetch(urls)
  BY DEF ToggleReloads, listUnchanged
<1>2. filter \in Filters
  BY DEF OtherFilter, Filters
<1>3. urls \in SUBSET Urls /\ urls # {} /\ urls = PageUrls(view.page, filter)
  BY <1>2, UrlFacts DEF ListUrls, PageUrls, Filters, Paths
<1> HIDE DEF filter, urls, rush
<1>4. /\ view' \in View
      /\ view'.page = view.page /\ view'.filter = filter /\ view'.loading
      /\ view'.rows = view.rows /\ view'.acting = view.acting
      /\ view'.rushed = (view.rushed \/ rush) /\ view'.timer = view.timer
      /\ view'.submitting = view.submitting /\ view'.saved = view.saved
  BY <1>1, <1>2, TypesFacts, ZenonT(60) DEF View
<1>5. /\ c.op = "load" /\ c.here /\ c.waits = urls /\ c.filter = filter
      /\ c.got = {} /\ c.send = None
  BY DEF Reading
<1>6. c \in Call
  BY <1>2, <1>3 DEF Reading, Call, PageReads
<1> HIDE DEF c
<1>7. PICK f, n : Grown(f, c, n)
  BY <1>1, <1>6, AppendGrown
<1>8. calls'[n] = c /\ n \in DOMAIN calls' /\ Moved(f, DOMAIN calls, DOMAIN calls' \ {n})
  BY <1>7 DEF Grown
<1>9. GetsGrow /\ urls \subseteq DOMAIN gets'
  BY <1>1, <1>3, FetchFacts DEF GetsGrow
<1>10. "load" \notin RowOperations /\ "load" \notin SavingPages /\ view.page \notin SavingPages
         /\ Loads(view.page)
  BY SavingNames, PageFacts DEF RowOperations, Loads
<1>11. CallOK(n)' /\ SendOK(n)' /\ WaitsOK(n)' /\ PlaceOK(n)'
  <2>1. CallOK(n)'
    BY <1>5, <1>8, <1>10 DEF CallOK, Archivals, LeaseActions
  <2>2. SendOK(n)'
    BY <1>5, <1>8 DEF SendOK
  <2>3. WaitsOK(n)'
    BY <1>3, <1>5, <1>8, <1>9 DEF WaitsOK
  <2>4. PlaceOK(n)'
    BY <1>3, <1>4, <1>5, <1>8, <1>10 DEF PlaceOK, Archivals, LeaseActions
  <2> QED
    BY <2>1, <2>2, <2>3, <2>4
<1>12. Types' /\ CallsOK' /\ ActionsOK'
  BY <1>1, <1>4, <1>5, <1>6, <1>7, <1>9, <1>10, <1>11, GrownInv
<1> DEFINE F == DOMAIN calls' \ {n}
<1>13. /\ Moved(f, DOMAIN calls, F) /\ \A k \in DOMAIN calls' \ F : k = n
       /\ \A i \in DOMAIN calls \ DOMAIN calls : FALSE
  BY <1>8
<1>14. \A k \in DOMAIN calls' : k # n => k \in F
  OBVIOUS
<1> HIDE DEF F
<1>15. LoadingOK'
  BY <1>3, <1>5, <1>8 DEF LoadingOK, Here, ListReads
<1>16. ActingOK'
  BY <1>4, <1>5, <1>8, <1>10, <1>13, ActingKept
<1>17. SubmittingOK'
  BY <1>1, <1>4, <1>5, <1>8, <1>10, <1>13, SubmittingKept
<1>18. ~view'.rushed => \A k \in DOMAIN calls' : calls'[k].here => k = n
  <2> SUFFICES ASSUME ~view'.rushed, NEW k \in DOMAIN calls', calls'[k].here, k # n
               PROVE  FALSE
    OBVIOUS
  <2>1. f[k] \in DOMAIN calls /\ SameCall(calls'[k], calls[f[k]])
    BY <1>13, <1>14 DEF Moved
  <2> QED
    BY <1>4, <2>1 DEF rush, SameCall
<1>19. LoadsAlone' /\ UnitsFiltered' /\ UnitsOffered'
  <2>1. view'.page \notin LeaseForms /\ view'.page # "leases"
    BY <1>4 DEF LeaseForms
  <2>2. LoadsAlone'
    BY <1>4, <1>18, <2>1 DEF LoadsAlone, Here
  <2>3. UnitsFiltered'
    BY <1>4, <1>5, <1>8, <1>18 DEF UnitsFiltered
  <2> QED
    BY <2>1, <2>2, <2>3 DEF UnitsOffered
<1>20. RowsOK' /\ GetsOK'
  BY <1>4, <1>9 DEF RowsOK, GetsGrow
<1> QED
  BY <1>12, <1>15, <1>16, <1>17, <1>19, <1>20

\* Up to the first await, an action leaves what the page has read alone.
ActView ==
  /\ view' \in View /\ view'.page = view.page /\ view'.filter = view.filter
  /\ view'.loading = view.loading /\ view'.rows = view.rows /\ view'.rushed = view.rushed
  /\ view'.timer = view.timer /\ view'.submitting = view.submitting
  /\ view'.saved = view.saved
  /\ view.page = "units" => view'.error = view.error

\* An action on a row that the page shows.
LEMMA ActInv ==
  ASSUME IInv, NEW op \in RowOperations, NEW row, Act(op, row), ActView,
         \/ /\ view.page \in {"tenants", "units"} /\ op \in Archivals
            /\ row \in RowsOn(view.page) /\ view.filter = Transition(op)[1]
            /\ ~view.loading /\ view'.acting = {row}
         \/ /\ view.page = "leases" /\ op \in LeaseActions /\ row \in Leases
            /\ view.rows # {} \/ view.asking # None
            /\ row \notin view.acting /\ view'.acting = view.acting \cup {row}
  PROVE  IInv'
<1> USE DEF IInv
<1> DEFINE new == RowCalls = {} /\ strays = {}
           c == [Sending(op, row, view.filter, token) EXCEPT !.alone = new]
           Joined(d) == IF d.op \in RowOperations THEN [d EXCEPT !.alone = FALSE] ELSE d
           old == [i \in DOMAIN calls |-> Joined(calls[i])]
<1>1. /\ UNCHANGED <<db, expired, issued, token, strays, going, unloading, gets>>
      /\ calls' = Append(old, c)
  BY DEF Act, listUnchanged
<1>2. token \in Nat /\ token <= issued /\ view.filter \in Filters
  BY TypesFacts DEF Types, View
<1>3. [token |-> token, state |-> "sent"] \in Requests
  BY <1>2 DEF Requests
<1>4. [token |-> token, state |-> "sent"] # None
  BY <1>3, NoneAssumption
<1>5. row \in Rows /\ view.page \in ListPageNames
  BY DEF RowsOn, Rows, ListPageNames
<1> HIDE DEF new
<1>6. /\ c.op = op /\ c.arg = row /\ c.filter = view.filter /\ c.here /\ c.waits = {}
      /\ c.got = {} /\ c.send = [token |-> token, state |-> "sent"] /\ c.alone = new
  BY DEF Sending
<1>7. c \in Call
  BY <1>2, <1>3, <1>5 DEF Sending, Call, new
<1>8. /\ DOMAIN old = DOMAIN calls /\ old \in Seq(Call)
      /\ \A k \in DOMAIN calls : /\ SameCall(old[k], calls[k]) /\ old[k].own = calls[k].own
                                 /\ old[k].alone => calls[k].alone
                                 /\ old[k].op \in RowOperations => ~old[k].alone
  <2>1. \A k \in DOMAIN calls : calls[k] \in Call
    BY TypesFacts
  <2>2. \A k \in DOMAIN calls : /\ Joined(calls[k]) \in Call
                                /\ SameCall(Joined(calls[k]), calls[k])
                                /\ Joined(calls[k]).own = calls[k].own
                                /\ Joined(calls[k]).alone => calls[k].alone
                                /\ Joined(calls[k]).op \in RowOperations => ~Joined(calls[k]).alone
    BY <2>1 DEF Call, SameCall
  <2> HIDE DEF Joined
  <2>3. old \in Seq(Call)
    BY <2>2, TypesFacts
  <2> QED
    BY <2>2, <2>3
<1> HIDE DEF c, old
<1>9. \E g : Continues(g, old, DOMAIN calls)
  <2> DEFINE g == [k \in DOMAIN calls |-> k]
  <2>1. Continues(g, old, DOMAIN calls)
    BY <1>8 DEF Continues
  <2> HIDE DEF g
  <2> QED
    BY <2>1
<1>11. PICK g : Continues(g, old, DOMAIN calls)
  BY <1>9
<1>12. PICK n : Grown(g, c, n) /\ (\A k \in DOMAIN old : calls'[k] = old[k])
                /\ n = Len(old) + 1
  BY <1>1, <1>7, <1>8, <1>11, AppendedMoved DEF Grown
<1>13. calls'[n] = c /\ n \in DOMAIN calls' /\ Moved(g, DOMAIN calls, DOMAIN calls' \ {n})
  BY <1>12 DEF Grown
<1>14. \A k \in DOMAIN calls' : k # n => k \in DOMAIN calls /\ calls'[k] = old[k]
  <2>1. DOMAIN calls' = 1..n
    BY <1>1, <1>7, <1>8, <1>12, AppendProperties, LenProperties DEF Grown
  <2>2. DOMAIN old = 1..Len(old) /\ Len(old) \in Nat
    BY <1>8, LenProperties
  <2>3. \A k \in 1..n : k # n => k \in DOMAIN old
    BY <1>12, <2>2
  <2> QED
    BY <1>8, <1>12, <2>1, <2>3
<1>15. /\ op \in RowOperations => op \notin PageReads /\ op \notin SavingPages
       /\ view.page \notin SavingPages /\ view.page \notin LeaseForms
  BY <1>5, SavingNames DEF RowOperations, PageReads, ListPageNames, LeaseForms
<1>16. op \in Archivals \/ op \in LeaseActions
  BY DEF RowOperations, Archivals, LeaseActions
<1>17. op \in Archivals <=> op \notin LeaseActions
  BY <1>16 DEF Archivals, LeaseActions
<1>18. CallOK(n)' /\ SendOK(n)' /\ WaitsOK(n)' /\ PlaceOK(n)'
  <2> USE DEF ActView
  <2>1. CallOK(n)'
    BY <1>4, <1>6, <1>13, <1>15, <1>17 DEF CallOK, PageReads, RowsOn
  <2>2. SendOK(n)'
    BY <1>1, <1>2, <1>6, <1>13 DEF SendOK
  <2>3. WaitsOK(n)'
    BY <1>4, <1>6, <1>13 DEF WaitsOK
  <2>4. PlaceOK(n)'
    BY <1>6, <1>13, <1>15, <1>17 DEF PlaceOK, PageReads
  <2> QED
    BY <2>1, <2>2, <2>3, <2>4
<1>19. GetsGrow
  BY <1>1, GetsStay
<1>20. Types' /\ CallsOK'
  BY <1>1, <1>7, <1>12, <1>18, <1>19, GrownInv DEF ActView
<1> DEFINE F == DOMAIN calls' \ {n}
<1>21. /\ Moved(g, DOMAIN calls, F) /\ \A k \in DOMAIN calls' \ F : k = n
       /\ \A i \in DOMAIN calls \ DOMAIN calls : FALSE
  BY <1>13
<1>22. \A k \in DOMAIN calls' : k # n => k \in F
  OBVIOUS
<1> HIDE DEF F
<1>23. \A k \in F : /\ g[k] \in DOMAIN calls /\ calls'[k].op = calls[g[k]].op
                    /\ calls'[k].arg = calls[g[k]].arg /\ calls'[k].here = calls[g[k]].here
                    /\ calls'[k].filter = calls[g[k]].filter
  BY <1>21 DEF Moved, SameCall
<1>24. ActionsOK'
  <2> SUFFICES ASSUME NEW k \in RowCalls', calls'[k].alone PROVE AloneOK(k)'
    BY DEF ActionsOK
  <2>1. k = n
    <3> SUFFICES ASSUME k # n PROVE FALSE
      OBVIOUS
    <3>1. k \in DOMAIN calls' /\ calls'[k].op \in RowOperations
      BY DEF RowCalls
    <3> QED
      BY <1>8, <1>14, <3>1
  <2>2. new
    BY <1>6, <1>13, <2>1
  <2>3. RowCalls' = {n}
    <3>1. ASSUME NEW j \in RowCalls', j # n PROVE FALSE
      <4>1. j \in F /\ calls'[j].op \in RowOperations
        BY <1>22, <3>1 DEF RowCalls
      <4>2. g[j] \in RowCalls
        BY <1>23, <4>1 DEF RowCalls
      <4> QED
        BY <2>2, <4>2 DEF new
    <3> QED
      BY <2>1, <3>1
  <2> QED
    BY <1>1, <1>4, <1>6, <1>13, <2>1, <2>2, <2>3 DEF AloneOK, new
<1>25. LoadingOK'
  BY <1>21, LoadingKept DEF ActView
<1>26. SubmittingOK'
  BY <1>1, <1>15, <1>21, SubmittingKept DEF ActView
<1>27. LoadsAlone'
  <2> SUFFICES ASSUME NEW k \in Here({"load"})'
               PROVE  /\ view.page \in {"tenants", "units"} /\ ~view.rushed => FALSE
                      /\ view.page # "leases"
    BY <1>15 DEF LoadsAlone, ActView
  <2>1. k \in F /\ g[k] \in Here({"load"})
    BY <1>6, <1>13, <1>15, <1>22, <1>23 DEF Here, PageReads
  <2> QED
    BY <2>1 DEF LoadsAlone
<1>28. UnitsFiltered'
  BY <1>6, <1>13, <1>22, <1>23 DEF UnitsFiltered, ActView
<1>29. UnitsOffered'
  BY <1>15 DEF UnitsOffered, ActView
<1>30. ASSUME NEW ops \in SUBSET RowOperations
       PROVE  /\ \A k \in Here(ops)' : k = n \/ (k \in F /\ g[k] \in Here(ops))
              /\ \A i \in Here(ops) : \E k \in Here(ops)' : k \in F /\ g[k] = i
              /\ op \in ops => n \in Here(ops)'
  <2>1. \A k \in Here(ops)' : k = n \/ (k \in F /\ g[k] \in Here(ops))
    BY <1>22, <1>23 DEF Here
  <2>2. op \in ops => n \in Here(ops)'
    BY <1>6, <1>13 DEF Here
  <2>3. ASSUME NEW i \in Here(ops) PROVE \E k \in Here(ops)' : k \in F /\ g[k] = i
    <3>1. PICK k \in F : k \in DOMAIN calls' /\ g[k] = i
      BY <1>21 DEF Moved, Here
    <3> QED
      BY <1>23, <3>1 DEF Here
  <2> QED
    BY <2>1, <2>2, <2>3
<1>31. Archivals \in SUBSET RowOperations /\ LeaseActions \in SUBSET RowOperations
  BY DEF Archivals, LeaseActions, RowOperations
<1>32. ActingOK'
  <2>1. CASE view.page = "leases"
    <3>1. /\ op \in LeaseActions /\ row \in Leases /\ row \notin view.acting
          /\ view'.acting = view.acting \cup {row} /\ view'.page = "leases"
      BY <2>1 DEF ActView
    <3>2. view.acting = {calls[i].arg : i \in Here(LeaseActions)}
      BY <2>1 DEF ActingOK
    <3>3. view'.acting = {calls'[k].arg : k \in Here(LeaseActions)'}
      <4>1. \A k \in Here(LeaseActions)' : calls'[k].arg \in view'.acting
        BY <1>6, <1>13, <1>23, <1>30, <1>31, <3>1, <3>2
      <4>2. \A x \in view'.acting : \E k \in Here(LeaseActions)' : calls'[k].arg = x
        BY <1>6, <1>13, <1>23, <1>30, <1>31, <3>1, <3>2
      <4> QED
        BY <4>1, <4>2
    <3>4. OneActionPerLease'
      <4> SUFFICES ASSUME NEW j \in Here(LeaseActions)', NEW k \in Here(LeaseActions)',
                          calls'[j].arg = calls'[k].arg
                   PROVE  j = k
        BY DEF OneActionPerLease, LeaseActions
      <4>1. \A i \in Here(LeaseActions)' : i = n \/ (i \in F /\ g[i] \in Here(LeaseActions)
              /\ calls'[i].arg = calls[g[i]].arg /\ calls[g[i]].arg # row)
        BY <1>23, <1>30, <1>31, <3>1, <3>2
      <4>2. calls'[n].arg = row
        BY <1>6, <1>13
      <4>3. \A x, y \in Here(LeaseActions) : calls[x].arg = calls[y].arg => x = y
        BY DEF ActingOK, OneActionPerLease, LeaseActions
      <4>4. \A x, y \in F : g[x] = g[y] => x = y
        BY <1>21 DEF Moved
      <4> QED
        BY <4>1, <4>2, <4>3, <4>4
    <3> QED
      BY <3>1, <3>3, <3>4 DEF ActingOK
  <2>2. CASE view.page # "leases"
    <3>1. op \in Archivals /\ view'.page # "leases"
      BY <2>2 DEF ActView
    <3>2. Here(Archivals)' # {}
      BY <1>30, <1>31, <3>1
    <3>3. Here(LeaseActions)' = {}
      <4>1. Here(LeaseActions) = {}
        BY <2>2 DEF CallsOK, PlaceOK, Here
      <4>2. n \notin Here(LeaseActions)'
        BY <1>6, <1>13, <1>17, <3>1 DEF Here
      <4> QED
        BY <1>30, <1>31, <4>1, <4>2
    <3> QED
      BY <3>1, <3>2, <3>3 DEF ActingOK, OneActionPerLease, LeaseActions
  <2> QED
    BY <2>1, <2>2
<1>33. RowsOK' /\ GetsOK'
  BY <1>19 DEF RowsOK, GetsGrow, ActView
<1> QED
  BY <1>20, <1>24, <1>25, <1>26, <1>27, <1>28, <1>29, <1>32, <1>33

LEMMA RowOperationFacts ==
  ASSUME Types
  PROVE  RowOperation \in Archivals /\ RowOperation \in RowOperations
           /\ view.filter = Transition(RowOperation)[1]
<1>1. view.filter \in {"active", "archived"}
  BY TypesFacts DEF View, Filters
<1> QED
  BY <1>1 DEF RowOperation, Archivals, RowOperations, Transition

LEMMA TenantsControlsInv ==
  ASSUME IInv, TenantsControls
  PROVE  IInv'
<1>1. view.page = "tenants" /\ ~view.loading /\ view \in View /\ Types
  BY DEF TenantsControls, TenantsShown, IInv, Types
<1>2. ASSUME NEW r \in view.rows, HandleTenant(RowOperation, r[1]) PROVE IInv'
  <2>1. r[1] \in RowsOn("tenants")
    BY <1>1, <1>2 DEF IInv, RowsOK, ListPageNames
  <2>2. /\ Act(RowOperation, r[1])
        /\ view' = [view EXCEPT !.acting = {r[1]}, !.error = FALSE]
    BY <1>2 DEF HandleTenant
  <2>3. r[1] \in Rows
    BY <2>1 DEF RowsOn, Rows
  <2>4. ActView /\ view'.acting = {r[1]}
    BY <1>1, <2>2, <2>3 DEF View, ActView
  <2> QED
    BY <1>1, <2>1, <2>2, <2>4, RowOperationFacts, ActInv
<1>3. CASE ToggleReloads(OtherFilter) /\ listUnchanged /\ UNCHANGED <<token, unloading>>
  BY <1>1, <1>3, ToggleInv
<1>4. CASE ClearError(view.timer)
  <2>1. view.timer \in BOOLEAN
    BY <1>1 DEF View
  <2> QED
    BY <1>1, <1>4, <2>1, ClearErrorInv
<1> QED
  BY <1>2, <1>3, <1>4 DEF TenantsControls

LEMMA UnitsControlsInv ==
  ASSUME IInv, UnitsControls
  PROVE  IInv'
<1>1. view.page = "units" /\ ~view.loading /\ view.rows # None /\ view \in View /\ Types
  BY DEF UnitsControls, UnitsShown, IInv, Types
<1>2. ASSUME NEW r \in view.rows, HandleUnit(RowOperation, r[1]) PROVE IInv'
  <2>1. r[1] \in RowsOn("units")
    BY <1>1, <1>2 DEF IInv, RowsOK, ListPageNames
  <2>2. Act(RowOperation, r[1]) /\ view' = [view EXCEPT !.acting = {r[1]}]
    BY <1>2 DEF HandleUnit
  <2>3. r[1] \in Rows
    BY <2>1 DEF RowsOn, Rows
  <2>4. ActView /\ view'.acting = {r[1]}
    BY <1>1, <2>2, <2>3 DEF View, ActView
  <2> QED
    BY <1>1, <2>1, <2>2, <2>4, RowOperationFacts, ActInv
<1>3. CASE ToggleReloads(OtherFilter) /\ listUnchanged /\ UNCHANGED <<token, unloading>>
  BY <1>1, <1>3, ToggleInv
<1> QED
  BY <1>2, <1>3 DEF UnitsControls

LEMMA ConfirmEndLeaseInv ==
  ASSUME IInv, view.page = "leases", NEW l \in Leases \cup {None}, ConfirmEndLease(l),
         view.rows # {} \/ l = None
  PROVE  IInv'
<1>1. view \in View /\ PageParts
  BY DEF IInv, Types, PageParts
<1>2. view' = [view EXCEPT !.asking = l]
      /\ UNCHANGED <<db, expired, issued, token, gets, strays, calls, unloading, going>>
  BY DEF ConfirmEndLease, listUnchanged
<1>3. /\ view' \in View /\ ViewSame /\ view'.asking = l
      /\ view'.timer = view.timer /\ view'.error = view.error
  BY <1>1, <1>2 DEF View, ViewSame
<1>4. view'.page = view.page
  BY <1>3 DEF ViewSame
<1>5. PageParts'
  <2>1. view'.timer => view'.page = "tenants"
    BY <1>3, <1>4 DEF IInv, RowsOK
  <2> QED
    BY <1>1, <1>2, <1>3, <2>1, ViewSameParts
<1> QED
  BY <1>2, <1>3, <1>4, <1>5, ViewOnlyInv

LEMMA HandleActionInv ==
  ASSUME IInv, view.page = "leases", view.rows # {} \/ view.asking # None,
         NEW op \in LeaseActions, NEW l \in Leases, HandleAction(op, l)
  PROVE  IInv'
<1>1. view \in View
  BY DEF IInv, Types
<1>2. /\ l \notin view.acting /\ Act(op, l)
      /\ view' = [view EXCEPT !.acting = @ \cup {l}, !.asking = None, !.banner = FALSE]
  BY DEF HandleAction, RowIdle
<1>3. l \in Rows /\ op \in RowOperations
  BY DEF Rows, LeaseActions, RowOperations
<1>4. ActView /\ view'.acting = view.acting \cup {l}
  BY <1>1, <1>2, <1>3 DEF View, ActView
<1> QED
  BY <1>2, <1>3, <1>4, ActInv

LEMMA LeasesControlsInv ==
  ASSUME IInv, LeasesControls
  PROVE  IInv'
<1>1. view.page = "leases" /\ view \in View
  BY DEF LeasesControls, IInv, Types
<1>2. CASE \E r \in view.rows : LeaseRow(r)
  <2>1. PICK r \in view.rows : LeaseRow(r)
    BY <1>2
  <2>2. r[1] \in Leases /\ view.rows # {}
    BY <1>1, <2>1 DEF IInv, RowsOK, ListPageNames, RowsOn
  <2>3. HandleAction("activate", r[1]) \/ ConfirmEndLease(r[1])
    BY <2>1 DEF LeaseRow
  <2> QED
    BY <1>1, <2>2, <2>3, HandleActionInv, ConfirmEndLeaseInv DEF LeaseActions
<1>3. CASE view.asking # None /\ EndLeaseDialog
  <2>1. view.asking \in Leases
    BY <1>1, <1>3 DEF View
  <2>2. CASE HandleAction("end", view.asking)
    BY <1>1, <1>3, <2>1, <2>2, HandleActionInv DEF LeaseActions
  <2>3. CASE ConfirmEndLease(None)
    BY <1>1, <2>3, ConfirmEndLeaseInv
  <2> QED
    BY <1>3, <2>2, <2>3 DEF EndLeaseDialog
<1> QED
  BY <1>2, <1>3 DEF LeasesControls

LEMMA LeaseFormInv ==
  ASSUME IInv, LeaseForm
  PROVE  IInv'
<1>1. view.page \in LeaseForms
  BY DEF LeaseForm
<1>2. ASSUME NEW h \in Homes \cup {None}, ChooseProperty(h) PROVE IInv'
  BY <1>1, <1>2, ChooseHomeInv, ChooseNoneInv
<1> QED
  BY <1>2, ChooseUnitInv, HandleSubmitInv DEF LeaseForm

LEMMA UserInv ==
  ASSUME IInv, User
  PROVE  IInv'
<1>1. ASSUME NEW p \in Pages, Follow(p) PROVE IInv'
  BY <1>1, FollowInv
<1>2. CASE SignOut
  BY <1>2, SignOutInv
<1>3. CASE Refresh
  BY <1>3, RefreshInv
<1>4. CASE TenantsControls
  BY <1>4, TenantsControlsInv
<1>5. CASE UnitsControls
  BY <1>5, UnitsControlsInv
<1>6. CASE LeasesControls
  BY <1>6, LeasesControlsInv
<1>7. CASE LeaseForm
  BY <1>7, LeaseFormInv
<1>8. CASE HandleSubmit
  BY <1>8, HandleSubmitInv
<1> QED
  BY <1>1, <1>2, <1>3, <1>4, <1>5, <1>6, <1>7, <1>8
     DEF User, PaymentForm, TenantForm, PropertyForm, UnitForm, ArchiveButton,
         LoginForm, RegisterForm

-----------------------------------------------------------------------------
(* A mutating request is answered: its call ends, or goes on to read.       *)

LEMMA SettleFacts ==
  ASSUME Types, NEW send, NEW answer, Settle(send, answer)
  PROVE  token' \in {0, token} /\ token' \in 0..issued /\ unloading' \in BOOLEAN
<1>1. token' \in {0, token}
  BY DEF Settle, RemoveToken
<1>2. unloading' \in BOOLEAN
  BY DEF Settle, Types
<1>3. issued \in Nat /\ token \in 0..issued
  BY TypesFacts DEF Types
<1>4. 0 \in 0..issued
  BY <1>3
<1> QED
  BY <1>1, <1>2, <1>3, <1>4

LEMMA RemovedInv ==
  ASSUME IInv, NEW i \in DOMAIN calls, NEW f, calls' \in Seq(Call),
         Moved(f, DOMAIN calls \ {i}, DOMAIN calls'), GetsGrow,
         UNCHANGED <<db, expired, issued>>, token' \in 0..issued, unloading' \in BOOLEAN,
         going' \in (Targets \cap Pages) \cup {None},
         strays' = strays \/ (i \in RowCalls /\ strays' \subseteq RowOperations \X Rows),
         view' \in View, view'.page = view.page
  PROVE  Types' /\ CallsOK' /\ GetsOK' /\ ActionsOK'
<1> USE DEF IInv
<1>1. Types'
  BY DEF Types, GetsGrow
<1>2. SessionsGoOn
  BY TypesFacts DEF SessionsGoOn
<1> DEFINE T == DOMAIN calls \ {i}
           F == DOMAIN calls'
<1>3. Moved(f, T, F) /\ DOMAIN gets \subseteq DOMAIN gets'
        /\ \A u \in DOMAIN gets : gets'[u] = gets[u]
  BY DEF GetsGrow
<1>4. RowCalls' \subseteq F /\ (i \in RowCalls => RowCalls \ T # {})
  BY DEF RowCalls
<1>5. F = DOMAIN calls'
  OBVIOUS
<1> HIDE DEF T, F
<1>6. \A k \in F : CallOK(k)' /\ SendOK(k)' /\ WaitsOK(k)' /\ PlaceOK(k)'
  BY <1>2, <1>3, MovedCalls
<1>7. ASSUME NEW k \in RowCalls', calls'[k].alone PROVE AloneOK(k)'
  BY <1>3, <1>4, <1>7, MovedActions
<1> QED
  BY <1>1, <1>5, <1>6, <1>7 DEF CallsOK, ActionsOK, GetsGrow

\* Actions of the page shown have ended, and their rows are no longer busy.
LEMMA ActingLeft ==
  ASSUME ActingOK, NEW f, NEW T, NEW F, Followed(f, T, F), view'.page = view.page,
         \A k \in DOMAIN calls' \ F : calls'[k].op \notin RowOperations,
         view.page = "leases" =>
           view'.acting = view.acting \ {calls[i].arg : i \in Here(LeaseActions) \ T},
         view.page # "leases" =>
           view'.acting = {} \/ (view'.acting = view.acting /\ Here(Archivals) \subseteq T)
  PROVE  ActingOK'
<1>1. \A k \in F : /\ f[k] \in T /\ f[k] \in DOMAIN calls /\ calls'[k].op = calls[f[k]].op
                   /\ calls'[k].arg = calls[f[k]].arg /\ calls'[k].here = calls[f[k]].here
  BY DEF Followed
<1>2. \A j, k \in F : f[j] = f[k] => j = k
  BY DEF Followed
<1>3. ASSUME NEW ops \in SUBSET RowOperations
      PROVE  /\ \A k \in Here(ops)' : k \in F /\ f[k] \in Here(ops) /\ f[k] \in T
             /\ \A i \in Here(ops) \cap T : \E k \in Here(ops)' : k \in F /\ f[k] = i
  <2>1. \A k \in Here(ops)' : k \in F /\ f[k] \in Here(ops) /\ f[k] \in T
    BY <1>1 DEF Here
  <2>2. ASSUME NEW i \in Here(ops) \cap T PROVE \E k \in Here(ops)' : k \in F /\ f[k] = i
    <3>1. PICK k \in F : k \in DOMAIN calls' /\ f[k] = i
      BY DEF Followed
    <3> QED
      BY <1>1, <3>1 DEF Here
  <2> QED
    BY <2>1, <2>2
<1>4. Archivals \in SUBSET RowOperations /\ LeaseActions \in SUBSET RowOperations
  BY DEF Archivals, LeaseActions, RowOperations
<1>5. view'.acting # {} /\ view'.page # "leases" => Here(Archivals)' # {}
  BY <1>3, <1>4 DEF ActingOK
<1>6. view'.page = "leases" => view'.acting = {calls'[k].arg : k \in Here(LeaseActions)'}
  <2> SUFFICES ASSUME view.page = "leases"
               PROVE  view'.acting = {calls'[k].arg : k \in Here(LeaseActions)'}
    OBVIOUS
  <2>1. view.acting = {calls[i].arg : i \in Here(LeaseActions)}
    BY DEF ActingOK
  <2>2. \A i, j \in Here(LeaseActions) : calls[i].arg = calls[j].arg => i = j
    BY DEF ActingOK, OneActionPerLease, LeaseActions
  <2>3. view'.acting = {calls[i].arg : i \in Here(LeaseActions) \cap T}
    BY <2>1, <2>2
  <2> QED
    BY <1>1, <1>3, <1>4, <2>3
<1>7. OneActionPerLease'
  BY <1>1, <1>2, <1>3, <1>4 DEF ActingOK, OneActionPerLease, LeaseActions
<1> QED
  BY <1>5, <1>6, <1>7 DEF ActingOK

\* The calls afterwards are about what those before were about.
LEMMA ActingSame ==
  ASSUME ActingOK, view'.page = view.page, view'.acting = view.acting, NEW g,
         \A k \in DOMAIN calls' : /\ g[k] \in DOMAIN calls /\ calls'[k].op = calls[g[k]].op
                                  /\ calls'[k].arg = calls[g[k]].arg
                                  /\ calls'[k].here = calls[g[k]].here,
         \A j, k \in DOMAIN calls' : g[j] = g[k] => j = k,
         \A i \in DOMAIN calls : \E k \in DOMAIN calls' : g[k] = i
  PROVE  ActingOK'
<1>1. ASSUME NEW ops
      PROVE  /\ \A k \in Here(ops)' : k \in DOMAIN calls' /\ g[k] \in Here(ops)
             /\ \A i \in Here(ops) : \E k \in Here(ops)' : g[k] = i
  BY DEF Here
<1>2. view'.acting # {} /\ view'.page # "leases" => Here(Archivals)' # {}
  BY <1>1 DEF ActingOK
<1>3. view'.page = "leases" => view'.acting = {calls'[k].arg : k \in Here(LeaseActions)'}
  <2> SUFFICES ASSUME view.page = "leases"
               PROVE  view'.acting = {calls'[k].arg : k \in Here(LeaseActions)'}
    OBVIOUS
  <2>1. view.acting = {calls[i].arg : i \in Here(LeaseActions)}
    BY DEF ActingOK
  <2> QED
    BY <1>1, <2>1
<1>4. OneActionPerLease'
  BY <1>1 DEF ActingOK, OneActionPerLease, LeaseActions
<1> QED
  BY <1>2, <1>3, <1>4 DEF ActingOK

LEMMA FailureView ==
  ASSUME NEW v \in View, NEW acting \in SUBSET Rows, NEW error \in BOOLEAN,
         NEW timer \in BOOLEAN, NEW banner \in BOOLEAN
  PROVE  [v EXCEPT !.acting = acting, !.error = error, !.timer = timer, !.banner = banner]
           \in View
<1>1. [v EXCEPT !.acting = acting, !.error = error] \in View
  BY DEF View
<1>2. PICK w \in View : w = [v EXCEPT !.acting = acting, !.error = error]
  BY <1>1
<1>3. [w EXCEPT !.timer = timer, !.banner = banner] \in View
  BY ZenonT(60) DEF View
<1>4. [v EXCEPT !.acting = acting, !.error = error, !.timer = timer, !.banner = banner]
        = [w EXCEPT !.timer = timer, !.banner = banner]
  BY <1>2 DEF View
<1> QED
  BY <1>3, <1>4

LEMMA ActionRejectedInv ==
  ASSUME IInv, NEW i \in DOMAIN calls, ActionRejected(i)
  PROVE  IInv'
<1> USE DEF IInv
<1> DEFINE c == calls[i]
<1>1. /\ UNCHANGED <<db, expired, issued, gets, going>>
      /\ c.op \in RowOperations /\ c.send # None
      /\ calls' = RemoveAt(calls, i)
      /\ view' = IF c.here THEN AfterFailure(c) ELSE view
  BY DEF ActionRejected
<1>2. /\ \E answer : Settle(c.send, answer)
      /\ strays' \subseteq strays \cup {<<c.op, c.arg>>}
  BY DEF ActionRejected, LeaveStray
<1>3. token' \in 0..issued /\ unloading' \in BOOLEAN
  BY <1>2, SettleFacts
<1>4. c.arg \in Rows /\ CallOK(i) /\ PlaceOK(i) /\ i \in RowCalls
  BY <1>1 DEF CallsOK, CallOK, RowOperations, Archivals, LeaseActions, Rows, RowCalls
<1>5. strays' \subseteq RowOperations \X Rows
  BY <1>1, <1>2, <1>4 DEF Types
<1>6. PICK f : Moved(f, DOMAIN calls \ {i}, DOMAIN calls')
  BY <1>1, RemovedMoved
<1>7. calls' \in Seq(Call)
  BY <1>1, RemovedMoved
<1>8. GetsGrow
  BY <1>1, GetsStay
<1>9. view \in View
  BY TypesFacts
<1>10. /\ view' \in View /\ ReadSame /\ view'.page = view.page
       /\ view'.submitting = view.submitting /\ view'.saved = view.saved
       /\ view'.timer => view.timer \/ view.page = "tenants"
       /\ view'.acting = IF ~c.here THEN view.acting
                         ELSE IF view.page = "leases" THEN view.acting \ {c.arg} ELSE {}
  <2>1. CASE ~c.here
    BY <1>1, <1>9, <2>1 DEF ReadSame
  <2>2. CASE c.here
    <3> DEFINE acting == IF view.page = "leases" THEN view.acting \ {c.arg} ELSE {}
               error == view.error \/ view.page = "tenants"
               timer == view.timer \/ view.page = "tenants"
               banner == view.banner \/ view.page = "leases"
    <3>1. /\ acting \in SUBSET Rows /\ error \in BOOLEAN /\ timer \in BOOLEAN
          /\ banner \in BOOLEAN
      BY <1>9 DEF View
    <3>2. view' = [view EXCEPT !.acting = acting, !.error = error, !.timer = timer,
                               !.banner = banner]
      BY <1>1, <2>2 DEF AfterFailure
    <3>3. (view.error => error) /\ (timer => view.timer \/ view.page = "tenants")
      OBVIOUS
    <3>4. acting = IF view.page = "leases" THEN view.acting \ {c.arg} ELSE {}
      OBVIOUS
    <3> HIDE DEF IInv, acting, error, timer, banner
    <3>5. view' \in View
      BY <1>9, <3>1, <3>2, FailureView
    <3>6. ReadSame
      BY <1>9, <3>2, <3>3 DEF View, ReadSame
    <3>7. /\ view'.page = view.page
          /\ view'.submitting = view.submitting /\ view'.saved = view.saved
          /\ view'.timer = timer /\ view'.acting = acting
      BY <1>9, <3>2 DEF View
    <3> QED
      BY <2>2, <3>3, <3>4, <3>5, <3>6, <3>7
  <2> QED
    BY <2>1, <2>2
<1>11. Types' /\ CallsOK' /\ GetsOK' /\ ActionsOK'
  BY <1>1, <1>3, <1>4, <1>5, <1>6, <1>7, <1>8, <1>10, RemovedInv DEF Types
<1> DEFINE T == DOMAIN calls \ {i}
           F == DOMAIN calls'
<1>12. /\ Moved(f, T, F) /\ \A k \in DOMAIN calls' \ F : FALSE
       /\ \A j \in DOMAIN calls \ T : j = i
       /\ i \notin T
  BY <1>6
<1> HIDE DEF T, F
<1>13. LoadsAlone' /\ UnitsFiltered' /\ UnitsOffered' /\ LoadingOK'
  BY <1>1, <1>10, <1>12, ReadsKept
<1>14. c.here => view.page \in ListPageNames
  BY <1>1, <1>4 DEF PlaceOK, RowOperations, Archivals, LeaseActions, ListPageNames
<1>15. ActingOK'
  <2>1. CASE ~c.here
    BY <1>10, <1>12, <2>1, ActingKept
  <2>2. CASE c.here
    <3>1. view.page = "leases" =>
            view'.acting = view.acting \ {calls[j].arg : j \in Here(LeaseActions) \ T}
      <4> SUFFICES ASSUME view.page = "leases"
                   PROVE  view'.acting = view.acting \ {calls[j].arg : j \in Here(LeaseActions) \ T}
        OBVIOUS
      <4>1. c.op \in LeaseActions
        BY <1>1, <1>4, <2>2 DEF PlaceOK, RowOperations, Archivals, LeaseActions
      <4>2. Here(LeaseActions) \ T = {i}
        BY <1>12, <2>2, <4>1 DEF Here
      <4> QED
        BY <1>10, <2>2, <4>2
    <3>2. view.page # "leases" => view'.acting = {}
      BY <1>10, <2>2
    <3>3. Followed(f, T, F)
      BY <1>12, MovedFollowed
    <3> QED
      BY <1>10, <1>12, <3>1, <3>2, <3>3, ActingLeft
  <2> QED
    BY <2>1, <2>2
<1>16. SubmittingOK'
  <2>1. c.here => c.op # view.page
    BY <1>1, <1>14 DEF RowOperations, ListPageNames
  <2> QED
    BY <1>1, <1>10, <1>12, <2>1, SubmittingKept
<1>17. RowsOK'
  BY <1>10 DEF RowsOK, ReadSame
<1> QED
  BY <1>11, <1>13, <1>15, <1>16, <1>17

\* The call of a form has ended: at most one was under way, unless the form is
\* enabled too early.
LEMMA FormEnded ==
  ASSUME IInv, NEW i \in DOMAIN calls, calls[i].op \in SavingPages, calls' = RemoveAt(calls, i),
         GetsGrow, UNCHANGED <<db, expired, issued, strays>>, token' \in 0..issued,
         unloading' \in BOOLEAN, going' \in (Targets \cap Pages) \cup {None},
         going # None => going' # None,
         view' \in View, ReadSame, view'.acting = view.acting, view'.timer = view.timer,
         ~calls[i].here => view'.submitting = view.submitting /\ view'.saved = view.saved,
         calls[i].here =>
           \/ view'.submitting = Page[view.page].swallows /\ view'.saved = view.saved
           \/ view'.submitting = ~Page[view.page].early /\ view'.saved /\ going' # None
  PROVE  IInv'
<1> USE DEF IInv
<1> DEFINE c == calls[i]
<1>1. PICK f : Moved(f, DOMAIN calls \ {i}, DOMAIN calls')
  BY RemovedMoved
<1>2. calls' \in Seq(Call)
  BY RemovedMoved
<1>3. view'.page = view.page
  BY DEF ReadSame
<1>4. Types' /\ CallsOK' /\ GetsOK' /\ ActionsOK'
  BY <1>1, <1>2, <1>3, RemovedInv
<1> DEFINE T == DOMAIN calls \ {i}
           F == DOMAIN calls'
<1>5. /\ Moved(f, T, F) /\ \A k \in DOMAIN calls' \ F : FALSE
      /\ \A j \in DOMAIN calls \ T : j = i
      /\ i \notin T /\ F = DOMAIN calls'
  BY <1>1
<1> HIDE DEF T, F
<1>6. c.send # None /\ c.op \notin RowOperations /\ (c.here => c.op = view.page)
  BY SavingNames DEF CallsOK, CallOK, PlaceOK, RowOperations
<1>7. LoadsAlone' /\ UnitsFiltered' /\ UnitsOffered' /\ LoadingOK'
  BY <1>5, <1>6, ReadsKept
<1>8. ActingOK'
  BY <1>3, <1>5, <1>6, ActingKept
<1>9. RowsOK'
  BY <1>3 DEF RowsOK, ReadSame
<1>10. SubmittingOK'
  <2>1. CASE ~c.here
    BY <1>3, <1>5, <2>1, SubmittingKept
  <2>2. CASE c.here
    <3>1. view.page \in SavingPages /\ i \in Here({view.page})
      BY <1>6, <2>2 DEF Here
    <3>2. ASSUME ~Page[view.page].early
          PROVE  ~view.saved /\ Here({view.page})' = {}
      <4>1. ~view.saved /\ \A j \in Here({view.page}) : j = i
        BY <3>1, <3>2 DEF SubmittingOK
      <4>2. ASSUME NEW k \in Here({view.page})' PROVE FALSE
        <5>1. k \in F /\ calls'[k].here /\ calls'[k].op = view.page
          BY <1>3, <1>5, <4>2 DEF Here
        <5>2. f[k] \in T /\ f[k] \in DOMAIN calls /\ SameCall(calls'[k], calls[f[k]])
          BY <1>5, <5>1 DEF Moved
        <5> QED
          BY <1>5, <4>1, <5>1, <5>2 DEF Here, SameCall
      <4> QED
        BY <4>1, <4>2
    <3> QED
      BY <1>3, <2>2, <3>1, <3>2 DEF SubmittingOK
  <2> QED
    BY <2>1, <2>2
<1> QED
  BY <1>4, <1>7, <1>8, <1>9, <1>10

LEMMA SavedInv ==
  ASSUME IInv, NEW i \in DOMAIN calls, Saved(i)
  PROVE  IInv'
<1> USE DEF IInv
<1> DEFINE c == calls[i]
<1>1. /\ UNCHANGED <<db, expired, issued, strays, gets, unloading>>
      /\ c.op \in SavingPages /\ c.send # None
      /\ token' = (IF c.op \in AuthPages THEN c.send.token ELSE token)
      /\ going' = Page[c.op].leaves /\ calls' = RemoveAt(calls, i)
      /\ view' = IF c.here THEN AfterSave(c.op) ELSE view
  BY DEF Saved, formUnchanged
<1>2. c \in Call /\ c.send \in Requests /\ SendOK(i) /\ PlaceOK(i) /\ view \in View
  BY <1>1, TypesFacts DEF CallsOK
<1>3. token' \in 0..issued
  BY <1>1, <1>2, TypesFacts DEF SendOK, Requests, Types
<1>4. c.op \in Pages
  <2>1. c.op \notin RowOperations /\ c.op \notin PageReads
    BY <1>1, SavingNames DEF RowOperations, PageReads
  <2> QED
    BY <1>2, <2>1 DEF Call
<1>5. going' \in Targets \cap Pages /\ going' # None
  BY <1>1, <1>4, SavingNames, PagesAssumption DEF SavingPages
<1>6. GetsGrow
  BY <1>1, GetsStay
<1>7. Page[c.op].early \in BOOLEAN
  BY <1>4, PagesAssumption, PageFacts DEF PageTypes
<1>8. view' \in View /\ ReadSame /\ view'.acting = view.acting /\ view'.timer = view.timer
  <2>1. CASE ~c.here
    BY <1>1, <1>2, <2>1 DEF ReadSame
  <2>2. CASE c.here
    <3> DEFINE submitting == ~Page[c.op].early
    <3>1. view' = [view EXCEPT !.saved = TRUE, !.submitting = submitting]
      BY <1>1, <2>2 DEF AfterSave
    <3>2. submitting \in BOOLEAN /\ view \in View
      BY <1>2
    <3> HIDE DEF IInv, submitting
    <3> QED
      BY <3>1, <3>2 DEF View, ReadSame
  <2> QED
    BY <2>1, <2>2
<1>9. ~c.here => view'.submitting = view.submitting /\ view'.saved = view.saved
  BY <1>1
<1>10. c.here => view'.submitting = ~Page[view.page].early /\ view'.saved
  BY <1>1, <1>2 DEF View, AfterSave, PlaceOK
<1>11. unloading' \in BOOLEAN
  BY <1>1 DEF Types
<1> QED
  BY <1>1, <1>3, <1>5, <1>6, <1>8, <1>9, <1>10, <1>11, FormEnded

LEMMA NotSavedInv ==
  ASSUME IInv, NEW i \in DOMAIN calls, NotSaved(i)
  PROVE  IInv'
<1> USE DEF IInv
<1> DEFINE c == calls[i]
<1>1. /\ UNCHANGED <<db, expired, issued, strays, gets, going>>
      /\ c.op \in SavingPages /\ c.send # None
      /\ calls' = RemoveAt(calls, i)
      /\ view' = IF c.here THEN [view EXCEPT !.submitting = Page[c.op].swallows] ELSE view
  BY DEF NotSaved, formUnchanged
<1>2. PICK answer : Settle(c.send, answer)
  BY DEF NotSaved
<1>3. token' \in 0..issued /\ unloading' \in BOOLEAN
  BY <1>2, SettleFacts
<1>4. PlaceOK(i) /\ view \in View
  BY <1>1, TypesFacts DEF CallsOK
<1>5. going' \in (Targets \cap Pages) \cup {None}
  BY <1>1 DEF Types
<1>6. GetsGrow
  BY <1>1, GetsStay
<1>7. Page[c.op].swallows \in BOOLEAN
  BY <1>1, PageFacts DEF PageTypes, SavingPages
<1>8. view' \in View /\ ReadSame /\ view'.acting = view.acting /\ view'.timer = view.timer
        /\ view'.saved = view.saved
  BY <1>1, <1>4, <1>7 DEF View, ReadSame
<1>9. ~c.here => view'.submitting = view.submitting
  BY <1>1
<1>10. c.here => view'.submitting = Page[view.page].swallows
  BY <1>1, <1>4 DEF View, PlaceOK
<1> QED
  BY <1>1, <1>3, <1>5, <1>6, <1>8, <1>9, <1>10, FormEnded

\* The list an action reads afterwards is that of the page it was started on.
LEMMA ReloadUrlsFacts ==
  ASSUME Types, NEW i \in DOMAIN calls, CallOK(i), calls[i].op \in RowOperations
  PROVE  /\ ReloadUrls(calls[i]) \in SUBSET Urls /\ ReloadUrls(calls[i]) # {}
         /\ PlaceOK(i) /\ calls[i].here =>
              /\ view.page \in ListPageNames
              /\ ReloadUrls(calls[i]) = PageUrls(view.page, calls[i].filter)
              /\ view.page = "leases" <=> calls[i].arg \in Leases
<1> DEFINE c == calls[i]
<1>1. c.filter \in {"", "active", "archived"}
  BY TypesFacts DEF Call, Filters
<1>2. PageOf(c.arg) \in Paths /\ "property" \in Paths /\ "leases" \in Paths
  BY DEF PageOf, Paths
<1>3. Url(PageOf(c.arg), c.filter) \in Urls /\ Url("property", "") \in Urls
        /\ Url("leases", "") \in Urls
  BY <1>1, <1>2, UrlFacts
<1>4. ReloadUrls(c) \in SUBSET Urls /\ ReloadUrls(c) # {}
  BY <1>3 DEF ReloadUrls, ListUrls
<1>5. ASSUME PlaceOK(i), c.here
      PROVE  /\ view.page \in ListPageNames
             /\ ReloadUrls(c) = PageUrls(view.page, c.filter)
             /\ view.page = "leases" <=> c.arg \in Leases
  <2>1. CASE c.op \in Archivals
    <3>1. view.page \in {"tenants", "units"} /\ c.arg \in RowsOn(view.page)
      BY <1>5, <2>1 DEF PlaceOK
    <3>2. c.arg \notin Leases /\ PageOf(c.arg) = view.page
      BY <3>1, RowsAssumption DEF RowsOn, PageOf
    <3> QED
      BY <3>1, <3>2 DEF ReloadUrls, PageUrls, ListPageNames
  <2>2. CASE c.op \in LeaseActions
    <3>1. view.page = "leases" /\ c.arg \in Leases
      BY <1>5, <2>2 DEF PlaceOK, CallOK
    <3> QED
      BY <3>1 DEF ReloadUrls, PageUrls, ListPageNames
  <2> QED
    BY <2>1, <2>2 DEF RowOperations, Archivals, LeaseActions
<1> QED
  BY <1>4, <1>5

LEMMA AcknowledgedGoneInv ==
  ASSUME IInv, NEW i \in DOMAIN calls, ActionAcknowledged(i), ~calls[i].here
  PROVE  IInv'
<1> USE DEF IInv
<1> DEFINE c == calls[i]
           urls == ReloadUrls(c)
<1>1. /\ UNCHANGED <<db, expired, issued, token, strays, going, unloading, view>>
      /\ c.op \in RowOperations /\ c.send # None
      /\ calls' = RemoveAt(calls, i) /\ gets' = Fetch(urls)
  BY DEF ActionAcknowledged, listUnchanged
<1>2. CallOK(i) /\ i \in RowCalls
  BY <1>1 DEF CallsOK, RowCalls
<1>3. urls \in SUBSET Urls
  BY <1>1, <1>2, ReloadUrlsFacts
<1> HIDE DEF urls
<1>4. GetsGrow
  BY <1>1, <1>3, FetchFacts DEF GetsGrow
<1>5. PICK f : Moved(f, DOMAIN calls \ {i}, DOMAIN calls')
  BY <1>1, RemovedMoved
<1>6. calls' \in Seq(Call)
  BY <1>1, RemovedMoved
<1>7. view' \in View /\ ReadSame /\ token' \in 0..issued /\ unloading' \in BOOLEAN
        /\ going' \in (Targets \cap Pages) \cup {None}
  BY <1>1 DEF Types, ReadSame
<1>8. Types' /\ CallsOK' /\ GetsOK' /\ ActionsOK'
  BY <1>1, <1>4, <1>5, <1>6, <1>7, RemovedInv
<1> DEFINE T == DOMAIN calls \ {i}
           F == DOMAIN calls'
<1>9. /\ Moved(f, T, F) /\ \A k \in DOMAIN calls' \ F : FALSE
      /\ \A j \in DOMAIN calls \ T : j = i
  BY <1>5
<1> HIDE DEF T, F
<1>10. LoadsAlone' /\ UnitsFiltered' /\ UnitsOffered' /\ LoadingOK'
  BY <1>1, <1>7, <1>9, ReadsKept
<1>11. ActingOK'
  BY <1>1, <1>9, ActingKept
<1>12. SubmittingOK'
  BY <1>1, <1>9, SubmittingKept
<1>13. RowsOK'
  BY <1>1 DEF RowsOK
<1> QED
  BY <1>8, <1>10, <1>11, <1>12, <1>13

LEMMA AcknowledgedHereInv ==
  ASSUME IInv, NEW i \in DOMAIN calls, ActionAcknowledged(i), calls[i].here
  PROVE  IInv'
<1> USE DEF IInv
<1> DEFINE c == calls[i]
           urls == ReloadUrls(c)
           rest == RemoveAt(calls, i)
           reading == [c EXCEPT !.send = None, !.waits = urls, !.own = ~Shared(urls)]
<1>1. /\ UNCHANGED <<db, expired, issued, token, strays, going, unloading>>
      /\ c.op \in RowOperations /\ c.send # None /\ c.send.state = "ok"
      /\ calls' = Append(rest, reading) /\ gets' = Fetch(urls)
      /\ view' = IF c.arg \notin Leases THEN [view EXCEPT !.loading = TRUE, !.error = FALSE]
                                        ELSE view
  BY DEF ActionAcknowledged, listUnchanged
<1>2. CallOK(i) /\ PlaceOK(i) /\ i \in RowCalls /\ c \in Call /\ view \in View
  BY <1>1, TypesFacts DEF CallsOK, RowCalls
<1>3. /\ urls \in SUBSET Urls /\ urls # {} /\ view.page \in ListPageNames
      /\ urls = PageUrls(view.page, c.filter)
      /\ view.page = "leases" <=> c.arg \in Leases
  BY <1>1, <1>2, ReloadUrlsFacts
<1>4. Shared(urls) \in BOOLEAN
  BY DEF Shared
<1> DEFINE own == ~Shared(urls)
<1>5. own = (urls \cap DOMAIN gets = {})
  BY DEF Shared
<1> HIDE DEF urls, own
<1>6. /\ reading.op = c.op /\ reading.arg = c.arg /\ reading.filter = c.filter
      /\ reading.here /\ reading.waits = urls /\ reading.got = {} /\ reading.send = None
      /\ reading.own = own /\ reading.alone = c.alone
  BY <1>1, <1>2 DEF Call, CallOK, own
<1>7. reading \in Call
  <2> DEFINE settled == [c EXCEPT !.send = None, !.waits = urls]
             reads == ~Shared(urls)
  <2>1. settled \in Call
    BY <1>2, <1>3 DEF Call
  <2>2. reads \in BOOLEAN
    BY <1>4
  <2>3. reading = [settled EXCEPT !.own = reads]
    BY <1>2 DEF Call
  <2> HIDE DEF settled, reads, reading
  <2> QED
    BY <2>1, <2>2, <2>3 DEF Call
<1> HIDE DEF reading
<1>8. GetsGrow /\ urls \subseteq DOMAIN gets'
        /\ \A u \in urls \ DOMAIN gets : gets'[u].state = "sent"
  <2>1. Sent(token).state = "sent"
    BY DEF Sent
  <2>2. gets' = Fetch(urls) /\ expired' = expired
    BY <1>1 DEF urls
  <2> QED
    BY <1>3, <2>1, <2>2, FetchFacts DEF GetsGrow
<1> DEFINE T == DOMAIN calls \ {i}
<1>9. PICK f : Continues(f, rest, T)
  <2>1. calls \in Seq(Call)
    BY TypesFacts
  <2>2. PICK f : Selects(f, calls, T, rest)
    BY <2>1, RemoveAtSelects
  <2> HIDE DEF rest
  <2>3. Continues(f, rest, T)
    BY <2>2 DEF Selects, Continues, SameCall
  <2> QED
    BY <2>3
<1>10. rest \in Seq(Call)
  <2>1. calls \in Seq(Call)
    BY TypesFacts
  <2> QED
    BY <2>1, RemoveAtSelects
<1>11. /\ i \notin T
       /\ \A j \in DOMAIN calls \ T : j = i
       /\ \A j \in DOMAIN calls : j # i => j \in T
  OBVIOUS
<1> HIDE DEF T, rest
<1>12. PICK n : n = Len(calls')
  OBVIOUS
<1>13. /\ calls' \in Seq(Call) /\ n \in DOMAIN calls' /\ calls'[n] = reading
       /\ Moved(f, T, DOMAIN calls' \ {n})
  BY <1>1, <1>7, <1>9, <1>10, <1>12, AppendedMoved
<1> DEFINE F == DOMAIN calls' \ {n}
<1>14. Moved(f, T, F) /\ (\A k \in DOMAIN calls' \ F : k = n) /\ n \notin F
         /\ (\A k \in DOMAIN calls' : k # n => k \in F)
  BY <1>13
<1> HIDE DEF F
<1>15. \A k \in F : /\ f[k] \in T /\ f[k] \in DOMAIN calls /\ f[k] # i
                    /\ calls'[k].op = calls[f[k]].op
                    /\ calls'[k].arg = calls[f[k]].arg /\ calls'[k].here = calls[f[k]].here
                    /\ calls'[k].filter = calls[f[k]].filter
  BY <1>11, <1>14 DEF Moved, SameCall
<1>16. /\ view' \in View /\ view'.page = view.page /\ view'.filter = view.filter
       /\ view'.rows = view.rows /\ view'.acting = view.acting /\ view'.rushed = view.rushed
       /\ view'.timer = view.timer /\ view'.submitting = view.submitting
       /\ view'.saved = view.saved
       /\ view'.loading = (view.loading \/ view.page # "leases")
  BY <1>1, <1>2, <1>3 DEF View
<1>17. c.op \notin PageReads /\ c.op \notin SavingPages /\ view.page \notin SavingPages
         /\ view.page \notin LeaseForms /\ c.op # view.page
  BY <1>1, <1>3, SavingNames DEF RowOperations, PageReads, ListPageNames, LeaseForms
<1>18. CallOK(n)' /\ SendOK(n)' /\ WaitsOK(n)' /\ PlaceOK(n)'
  <2>1. CallOK(n)'
    BY <1>2, <1>6, <1>13, <1>17 DEF CallOK, PageReads
  <2>2. SendOK(n)'
    BY <1>6, <1>13 DEF SendOK
  <2>3. WaitsOK(n)'
    BY <1>3, <1>6, <1>8, <1>13 DEF WaitsOK
  <2>4. PlaceOK(n)'
    BY <1>2, <1>3, <1>6, <1>13, <1>16, <1>17 DEF PlaceOK, PageReads
  <2> QED
    BY <2>1, <2>2, <2>3, <2>4
<1>19. Types'
  BY <1>1, <1>8, <1>13, <1>16 DEF Types, GetsGrow
<1>20. CallsOK'
  <2>1. SessionsGoOn /\ DOMAIN gets \subseteq DOMAIN gets'
    BY <1>1, <1>8, TypesFacts DEF SessionsGoOn, GetsGrow
  <2>2. \A k \in F : CallOK(k)' /\ SendOK(k)' /\ WaitsOK(k)' /\ PlaceOK(k)'
    BY <1>14, <1>16, <2>1, MovedCalls
  <2> QED
    BY <1>14, <1>18, <2>2 DEF CallsOK
<1>21. ActionsOK'
  <2> SUFFICES ASSUME NEW k \in RowCalls', calls'[k].alone PROVE AloneOK(k)'
    BY DEF ActionsOK
  <2>1. k \in DOMAIN calls' /\ calls'[k].op \in RowOperations
    BY DEF RowCalls
  <2>2. k = n
    <3> SUFFICES ASSUME k # n PROVE FALSE
      OBVIOUS
    <3>1. k \in F
      BY <1>14, <2>1
    <3>2. f[k] \in RowCalls /\ calls[f[k]].alone /\ f[k] # i
      BY <1>14, <1>15, <2>1, <3>1 DEF RowCalls, Moved
    <3>3. RowCalls = {f[k]}
      BY <3>2 DEF ActionsOK, AloneOK
    <3> QED
      BY <1>2, <3>2, <3>3
  <2>3. AloneOK(i)
    BY <1>2, <1>6, <1>13, <2>2 DEF ActionsOK
  <2>4. RowCalls' = {n}
    <3>1. ASSUME NEW j \in RowCalls', j # n PROVE FALSE
      <4>1. j \in F /\ calls'[j].op \in RowOperations
        BY <1>14, <3>1 DEF RowCalls
      <4>2. f[j] \in RowCalls /\ f[j] # i
        BY <1>15, <4>1 DEF RowCalls
      <4> QED
        BY <2>3, <4>2 DEF AloneOK
    <3> QED
      BY <2>2, <3>1
  <2>5. Done(n)' /\ strays' = {}
    BY <1>1, <1>6, <1>13, <2>3 DEF AloneOK, Done
  <2>6. calls'[n].own => \A u \in calls'[n].waits : gets'[u].state # "ok"
    BY <1>5, <1>6, <1>8, <1>13
  <2>7. calls'[n].arg \notin Leases => Shows(calls'[n], calls'[n].got)
    BY <1>6, <1>13 DEF Shows
  <2> QED
    BY <2>2, <2>4, <2>5, <2>6, <2>7 DEF AloneOK
<1>22. LoadingOK'
  <2>1. CASE view.page = "leases"
    BY <1>1, <1>11, <1>14, <1>16, <2>1, LoadingKept
  <2>2. CASE view.page # "leases"
    <3>1. c.op \in ListReads
      BY <1>1, <1>2, <2>2 DEF PlaceOK, RowOperations, LeaseActions, ListReads
    <3>2. n \in Here(ListReads)' /\ calls'[n].waits # {}
      BY <1>3, <1>6, <1>13, <3>1 DEF Here
    <3> QED
      BY <3>2 DEF LoadingOK
  <2> QED
    BY <2>1, <2>2
<1>23. LoadsAlone'
  <2> SUFFICES ASSUME NEW k \in Here({"load"})'
               PROVE  /\ view.page \in {"tenants", "units"} /\ ~view.rushed => FALSE
                      /\ view.page # "leases"
    BY <1>16, <1>17 DEF LoadsAlone
  <2>1. k \in F /\ f[k] \in Here({"load"}) /\ f[k] # i
    BY <1>6, <1>13, <1>14, <1>15, <1>17 DEF Here, PageReads
  <2> QED
    BY <2>1 DEF LoadsAlone
<1>24. UnitsFiltered'
  <2> SUFFICES ASSUME view.page = "units", ~view.rushed
               PROVE  /\ \A k \in DOMAIN calls' : calls'[k].here => calls'[k].filter = view.filter
                      /\ view'.loading
    BY <1>16 DEF UnitsFiltered
  <2>1. \A j \in DOMAIN calls : calls[j].here => calls[j].filter = view.filter
    BY DEF UnitsFiltered
  <2>2. calls'[n].filter = view.filter
    BY <1>6, <1>13, <2>1
  <2>3. \A k \in F : calls'[k].here => calls'[k].filter = view.filter
    BY <1>15, <2>1
  <2> QED
    BY <1>14, <1>16, <2>2, <2>3
<1>25. UnitsOffered' /\ RowsOK' /\ GetsOK'
  BY <1>8, <1>16, <1>17 DEF UnitsOffered, RowsOK, GetsGrow
<1>26. SubmittingOK'
  BY <1>1, <1>11, <1>14, <1>16, <1>17, SubmittingKept
<1>27. ActingOK'
  <2> DEFINE g == [k \in DOMAIN calls' |-> IF k = n THEN i ELSE f[k]]
  <2>1. \A k \in DOMAIN calls' : /\ g[k] \in DOMAIN calls /\ calls'[k].op = calls[g[k]].op
                                 /\ calls'[k].arg = calls[g[k]].arg
                                 /\ calls'[k].here = calls[g[k]].here
    BY <1>6, <1>13, <1>14, <1>15
  <2>2. \A j, k \in DOMAIN calls' : g[j] = g[k] => j = k
    BY <1>14, <1>15 DEF Moved
  <2>3. \A j \in DOMAIN calls : \E k \in DOMAIN calls' : g[k] = j
    <3> SUFFICES ASSUME NEW j \in DOMAIN calls PROVE \E k \in DOMAIN calls' : g[k] = j
      OBVIOUS
    <3>1. CASE j = i
      BY <1>13, <3>1
    <3>2. CASE j # i
      <4>1. PICK k \in F : k \in DOMAIN calls' /\ f[k] = j
        BY <1>11, <1>14, <3>2 DEF Moved
      <4> QED
        BY <1>14, <4>1
    <3> QED
      BY <3>1, <3>2
  <2> HIDE DEF g
  <2> QED
    BY <1>16, <2>1, <2>2, <2>3, ActingSame
<1> QED
  BY <1>19, <1>20, <1>21, <1>22, <1>23, <1>24, <1>25, <1>26, <1>27

LEMMA ActionAcknowledgedInv ==
  ASSUME IInv, NEW i \in DOMAIN calls, ActionAcknowledged(i)
  PROVE  IInv'
  BY AcknowledgedGoneInv, AcknowledgedHereInv

-----------------------------------------------------------------------------
(* An answer to a GET ends calls: what they set.                            *)

LEMMA GreatestOf ==
  ASSUME NEW n \in Nat, NEW T \in SUBSET (1..n), T # {}
  PROVE  Max(T) \in T
<1> DEFINE D == {n - x : x \in T}
<1>1. D \in SUBSET Nat /\ D # {}
  <2>1. \A x \in T : x \in Nat /\ x <= n
    OBVIOUS
  <2>2. \A x \in T : n - x \in Nat
    BY <2>1
  <2>3. PICK x \in T : TRUE
    OBVIOUS
  <2>4. n - x \in D
    BY <2>3
  <2> QED
    BY <2>2, <2>4
<1>2. PICK d \in D : \A e \in D : d <= e
  BY <1>1, LeastOf
<1>3. PICK x \in T : d = n - x
  BY <1>2
<1>4. \A y \in T : x >= y
  <2> SUFFICES ASSUME NEW y \in T PROVE x >= y
    OBVIOUS
  <2>1. n - y \in D
    OBVIOUS
  <2> QED
    BY <1>2, <1>3, <2>1
<1> QED
  BY <1>3, <1>4 DEF Max

\* Calls that end, at their positions.
Endings(ended) ==
  /\ \E n \in Nat : DOMAIN ended \subseteq 1..n
  /\ \A i \in DOMAIN ended :
       ended[i] \in Call /\ (ended[i].op = "units" => ended[i].arg \in Homes)

LEMMA LaterOf ==
  ASSUME NEW ended, Endings(ended), NEW ops, Of(ended, ops) # {}
  PROVE  \E i \in Of(ended, ops) : Later(ended, ops) = ended[i]
<1>1. PICK n \in Nat : DOMAIN ended \subseteq 1..n
  BY DEF Endings
<1>2. Of(ended, ops) \in SUBSET (1..n)
  BY <1>1 DEF Of
<1>3. Max(Of(ended, ops)) \in Of(ended, ops)
  BY <1>2, GreatestOf
<1> QED
  BY <1>3 DEF Later

\* Fields that no answer to a GET touches.
Untouched(v, w) ==
  /\ w.page = v.page /\ w.filter = v.filter /\ w.timer = v.timer /\ w.rushed = v.rushed
  /\ w.submitting = v.submitting /\ w.saved = v.saved /\ w.asking = v.asking

Read(v, w) == w.loading = v.loading /\ w.error = v.error
Chosen(v, w) == w.choices = v.choices /\ w.property = v.property /\ w.options = v.options

LoadsEnd(v, ended, ok) == Of(ended, ListReads) # {} /\ (ok \/ ~Page[v.page].spins)

LEMMA LoadEndsFacts ==
  ASSUME NEW v \in View, NEW ended, Endings(ended), NEW ok \in BOOLEAN,
         NEW w, w = LoadEnds(v, ended, ok)
  PROVE  /\ w \in View /\ Untouched(v, w)
         /\ w.loading = (v.loading /\ ~LoadsEnd(v, ended, ok))
         /\ w.error = (v.error \/ (LoadsEnd(v, ended, ok) /\ ~ok))
         /\ IF LoadsEnd(v, ended, ok) /\ ok
              THEN \E i \in Of(ended, ListReads) : w.rows = ended[i].got
              ELSE w.rows = v.rows
         /\ w.acting = v.acting /\ w.banner = v.banner
         /\ w.property = IF LoadsEnd(v, ended, ok) /\ ok /\ v.page = "editLease"
                           THEN Preset ELSE v.property
         /\ w.choices = v.choices /\ w.options = v.options
<1> DEFINE filled == ok /\ v.page = "editLease"
           later == Later(ended, ListReads)
<1>1. w = IF LoadsEnd(v, ended, ok)
            THEN [v EXCEPT !.loading = FALSE, !.error = @ \/ ~ok,
                    !.rows = IF ok THEN later.got ELSE @,
                    !.property = IF filled THEN Preset ELSE @,
                    !.unit = IF filled THEN Preset ELSE @]
            ELSE v
  BY DEF LoadEnds, LoadsEnd, ListReads
<1>2. CASE ~LoadsEnd(v, ended, ok)
  BY <1>1, <1>2 DEF Untouched, View
<1>3. CASE LoadsEnd(v, ended, ok)
  <2>1. PICK k \in Of(ended, ListReads) : later = ended[k]
    BY <1>3, LaterOf DEF LoadsEnd
  <2>2. later \in Call
    BY <2>1 DEF Endings, Of
  <2>3. later.got \in SUBSET Listed /\ Preset \in Homes
    BY <2>2, UrlFacts DEF Call
  <2> DEFINE rows == IF ok THEN later.got ELSE v.rows
             property == IF filled THEN Preset ELSE v.property
             unit == IF filled THEN Preset ELSE v.unit
             error == v.error \/ ~ok
  <2>4. /\ rows \in (SUBSET Listed) \cup {None} /\ error \in BOOLEAN
        /\ property \in Homes \cup {None} /\ unit \in Homes \cup {None}
    BY <2>3 DEF View
  <2> HIDE DEF later, filled
  <2>5. w = [v EXCEPT !.loading = FALSE, !.error = error, !.rows = rows,
                      !.property = property, !.unit = unit]
    BY <1>1, <1>3
  <2> HIDE DEF rows, property, unit, error
  <2>6. /\ w \in View /\ Untouched(v, w) /\ w.loading = FALSE /\ w.error = error
        /\ w.rows = rows /\ w.acting = v.acting /\ w.banner = v.banner
        /\ w.property = property /\ w.choices = v.choices /\ w.options = v.options
    <3>1. w \in View
      BY <2>4, <2>5, ZenonT(60) DEF View
    <3>2. /\ w.loading = FALSE /\ w.error = error /\ w.rows = rows /\ w.property = property
          /\ w.acting = v.acting /\ w.banner = v.banner
          /\ w.choices = v.choices /\ w.options = v.options
      BY <2>5 DEF View
    <3>3. Untouched(v, w)
      BY <2>5 DEF View, Untouched
    <3> QED
      BY <3>1, <3>2, <3>3
  <2>7. w.loading = (v.loading /\ ~LoadsEnd(v, ended, ok))
    BY <1>3, <2>6
  <2>8. w.error = (v.error \/ (LoadsEnd(v, ended, ok) /\ ~ok))
    BY <1>3, <2>6 DEF error
  <2>9. IF ok THEN \E i \in Of(ended, ListReads) : w.rows = ended[i].got
              ELSE w.rows = v.rows
    BY <2>1, <2>6 DEF rows
  <2>10. w.property = IF LoadsEnd(v, ended, ok) /\ ok /\ v.page = "editLease"
                        THEN Preset ELSE v.property
    BY <1>3, <2>6 DEF property, filled
  <2> QED
    BY <1>3, <2>6, <2>7, <2>8, <2>9, <2>10
<1> QED
  BY <1>2, <1>3

LEMMA ArchivalEndsFacts ==
  ASSUME NEW v \in View, NEW ended, NEW w, w = ArchivalEnds(v, ended)
  PROVE  /\ w \in View /\ Untouched(v, w) /\ Read(v, w) /\ Chosen(v, w)
         /\ w.rows = v.rows /\ w.banner = v.banner
         /\ w.acting = IF Of(ended, Archivals) = {} THEN v.acting ELSE {}
  BY DEF ArchivalEnds, Archivals, View, Untouched, Read, Chosen

LEMMA ReloadEndsFacts ==
  ASSUME NEW v \in View, NEW ended, Endings(ended), NEW ok \in BOOLEAN,
         NEW w, w = ReloadEnds(v, ended, ok)
  PROVE  /\ w \in View /\ Untouched(v, w) /\ Read(v, w) /\ Chosen(v, w)
         /\ IF Of(ended, LeaseActions) # {} /\ ok
              THEN \E i \in Of(ended, LeaseActions) : w.rows = ended[i].got
              ELSE w.rows = v.rows
         /\ w.acting = v.acting \ {ended[i].arg : i \in Of(ended, LeaseActions)}
         /\ w.banner = (v.banner \/ (Of(ended, LeaseActions) # {} /\ ~ok))
<1> DEFINE reloads == Of(ended, LeaseActions)
           later == Later(ended, LeaseActions)
<1>1. w = IF reloads = {} THEN v
          ELSE [v EXCEPT !.rows = IF ok THEN later.got ELSE @,
                         !.acting = @ \ {ended[i].arg : i \in reloads},
                         !.banner = @ \/ ~ok]
  BY DEF ReloadEnds, LeaseActions
<1>2. CASE reloads = {}
  BY <1>1, <1>2 DEF Untouched, Read, Chosen, View
<1>3. CASE reloads # {}
  <2>1. PICK i \in reloads : later = ended[i]
    BY <1>3, LaterOf
  <2>2. later \in Call
    BY <2>1 DEF Endings, Of
  <2>3. later.got \in SUBSET Listed
    BY <2>2 DEF Call
  <2> DEFINE acting == v.acting \ {ended[j].arg : j \in reloads}
  <2>4. acting \in SUBSET Rows
    BY DEF View
  <2> HIDE DEF later, reloads
  <2>5. w = [v EXCEPT !.rows = IF ok THEN later.got ELSE v.rows,
                      !.acting = acting, !.banner = v.banner \/ ~ok]
    BY <1>1, <1>3
  <2> HIDE DEF acting
  <2>6. /\ w \in View /\ Untouched(v, w) /\ Read(v, w) /\ Chosen(v, w)
        /\ w.rows = IF ok THEN later.got ELSE v.rows
        /\ w.acting = acting /\ w.banner = (v.banner \/ ~ok)
    BY <2>3, <2>4, <2>5 DEF View, Untouched, Read, Chosen
  <2> QED
    BY <1>3, <2>1, <2>6 DEF acting, reloads
<1> QED
  BY <1>2, <1>3

LEMMA OptionsEndFacts ==
  ASSUME NEW v \in View, NEW ended, NEW ok \in BOOLEAN, NEW w, w = OptionsEnd(v, ended, ok)
  PROVE  /\ w \in View /\ Untouched(v, w) /\ Read(v, w)
         /\ w.rows = v.rows /\ w.acting = v.acting /\ w.banner = v.banner
         /\ w.property = v.property /\ w.options = v.options
         /\ w.choices = (v.choices \/ (ok /\ Of(ended, {"options"}) # {}))
  BY DEF OptionsEnd, View, Untouched, Read

LEMMA UnitsEndFacts ==
  ASSUME NEW v \in View, NEW ended, Endings(ended), NEW ok \in BOOLEAN,
         NEW w, w = UnitsEnd(v, ended, ok)
  PROVE  /\ w \in View /\ Untouched(v, w) /\ Read(v, w)
         /\ w.rows = v.rows /\ w.acting = v.acting /\ w.banner = v.banner
         /\ w.property = v.property /\ w.choices = v.choices
         /\ Of(ended, {"units"}) = {} => w.options = v.options
         /\ Of(ended, {"units"}) # {} /\ ~ok => w.options = None
         /\ Of(ended, {"units"}) # {} /\ ok =>
              \E i \in Of(ended, {"units"}) : w.options = ended[i].arg
<1> DEFINE units == Of(ended, {"units"})
           later == Later(ended, {"units"})
<1>1. w = IF units = {} THEN v ELSE [v EXCEPT !.options = IF ok THEN later.arg ELSE None]
  BY DEF UnitsEnd
<1>2. CASE units = {}
  BY <1>1, <1>2 DEF Untouched, Read, View
<1>3. CASE units # {}
  <2>1. PICK i \in units : later = ended[i]
    BY <1>3, LaterOf
  <2>2. later.arg \in Homes
    BY <2>1 DEF Endings, Of
  <2> HIDE DEF later, units
  <2>3. /\ w \in View /\ Untouched(v, w) /\ Read(v, w)
        /\ w.rows = v.rows /\ w.acting = v.acting /\ w.banner = v.banner
        /\ w.property = v.property /\ w.choices = v.choices
        /\ w.options = IF ok THEN later.arg ELSE None
    BY <1>1, <1>3, <2>2 DEF View, Untouched, Read
  <2> QED
    BY <1>3, <2>1, <2>3 DEF units
<1> QED
  BY <1>2, <1>3

\* All of them, one after the other.
Resumed(v, ended, ok, w) ==
  /\ w \in View /\ Untouched(v, w)
  /\ w.loading = (v.loading /\ ~LoadsEnd(v, ended, ok))
  /\ w.error = (v.error \/ (LoadsEnd(v, ended, ok) /\ ~ok))
  /\ IF Of(ended, LeaseActions) # {} /\ ok
       THEN \E i \in Of(ended, LeaseActions) : w.rows = ended[i].got
       ELSE IF LoadsEnd(v, ended, ok) /\ ok
              THEN \E i \in Of(ended, ListReads) : w.rows = ended[i].got
              ELSE w.rows = v.rows
  /\ w.acting = (IF Of(ended, Archivals) = {} THEN v.acting ELSE {})
                  \ {ended[i].arg : i \in Of(ended, LeaseActions)}
  /\ w.banner = (v.banner \/ (Of(ended, LeaseActions) # {} /\ ~ok))
  /\ w.property = IF LoadsEnd(v, ended, ok) /\ ok /\ v.page = "editLease"
                    THEN Preset ELSE v.property
  /\ w.choices = (v.choices \/ (ok /\ Of(ended, {"options"}) # {}))
  /\ Of(ended, {"units"}) = {} => w.options = v.options
  /\ Of(ended, {"units"}) # {} /\ ~ok => w.options = None
  /\ Of(ended, {"units"}) # {} /\ ok => \E i \in Of(ended, {"units"}) : w.options = ended[i].arg

LEMMA ResumeFacts ==
  ASSUME NEW v \in View, NEW ended, Endings(ended), NEW ok \in BOOLEAN
  PROVE  Resumed(v, ended, ok, Resume(v, ended, ok))
<1>1. PICK v1 : v1 = LoadEnds(v, ended, ok)
  OBVIOUS
<1>2. PICK v2 : v2 = ArchivalEnds(v1, ended)
  OBVIOUS
<1>3. PICK v3 : v3 = ReloadEnds(v2, ended, ok)
  OBVIOUS
<1>4. PICK v4 : v4 = OptionsEnd(v3, ended, ok)
  OBVIOUS
<1>5. PICK v5 : v5 = UnitsEnd(v4, ended, ok)
  OBVIOUS
<1>6. Resume(v, ended, ok) = v5
  BY <1>1, <1>2, <1>3, <1>4, <1>5 DEF Resume
<1>7. /\ v1 \in View /\ Untouched(v, v1)
      /\ v1.loading = (v.loading /\ ~LoadsEnd(v, ended, ok))
      /\ v1.error = (v.error \/ (LoadsEnd(v, ended, ok) /\ ~ok))
      /\ IF LoadsEnd(v, ended, ok) /\ ok
           THEN \E i \in Of(ended, ListReads) : v1.rows = ended[i].got
           ELSE v1.rows = v.rows
      /\ v1.acting = v.acting /\ v1.banner = v.banner
      /\ v1.property = IF LoadsEnd(v, ended, ok) /\ ok /\ v.page = "editLease"
                         THEN Preset ELSE v.property
      /\ v1.choices = v.choices /\ v1.options = v.options
  BY <1>1, LoadEndsFacts
<1>8. /\ v2 \in View /\ Untouched(v1, v2) /\ Read(v1, v2) /\ Chosen(v1, v2)
      /\ v2.rows = v1.rows /\ v2.banner = v1.banner
      /\ v2.acting = IF Of(ended, Archivals) = {} THEN v1.acting ELSE {}
  BY <1>2, <1>7, ArchivalEndsFacts
<1>9. /\ v3 \in View /\ Untouched(v2, v3) /\ Read(v2, v3) /\ Chosen(v2, v3)
      /\ IF Of(ended, LeaseActions) # {} /\ ok
           THEN \E i \in Of(ended, LeaseActions) : v3.rows = ended[i].got
           ELSE v3.rows = v2.rows
      /\ v3.acting = v2.acting \ {ended[i].arg : i \in Of(ended, LeaseActions)}
      /\ v3.banner = (v2.banner \/ (Of(ended, LeaseActions) # {} /\ ~ok))
  BY <1>3, <1>8, ReloadEndsFacts
<1>10. /\ v4 \in View /\ Untouched(v3, v4) /\ Read(v3, v4)
       /\ v4.rows = v3.rows /\ v4.acting = v3.acting /\ v4.banner = v3.banner
       /\ v4.property = v3.property /\ v4.options = v3.options
       /\ v4.choices = (v3.choices \/ (ok /\ Of(ended, {"options"}) # {}))
  BY <1>4, <1>9, OptionsEndFacts
<1>11. /\ v5 \in View /\ Untouched(v4, v5) /\ Read(v4, v5)
       /\ v5.rows = v4.rows /\ v5.acting = v4.acting /\ v5.banner = v4.banner
       /\ v5.property = v4.property /\ v5.choices = v4.choices
       /\ Of(ended, {"units"}) = {} => v5.options = v4.options
       /\ Of(ended, {"units"}) # {} /\ ~ok => v5.options = None
       /\ Of(ended, {"units"}) # {} /\ ok =>
            \E i \in Of(ended, {"units"}) : v5.options = ended[i].arg
  BY <1>5, <1>10, UnitsEndFacts
<1>12. v5 \in View /\ Untouched(v, v5)
  BY <1>7, <1>8, <1>9, <1>10, <1>11 DEF Untouched
<1>13. v5.loading = v1.loading /\ v5.error = v1.error
  BY <1>8, <1>9, <1>10, <1>11 DEF Read
<1>14. v3.property = v1.property /\ v3.choices = v1.choices /\ v3.options = v1.options
  BY <1>8, <1>9 DEF Chosen
<1> QED
  BY <1>6, <1>7, <1>8, <1>9, <1>10, <1>11, <1>12, <1>13, <1>14 DEF Resumed

-----------------------------------------------------------------------------
(* An answer to a GET: who is told, and what is read next.                  *)

LEMMA ConcatParts ==
  ASSUME NEW C, NEW s \in Seq(C), NEW t \in Seq(C)
  PROVE  /\ s \o t \in Seq(C)
         /\ DOMAIN s \subseteq DOMAIN (s \o t)
         /\ \A k \in DOMAIN s : (s \o t)[k] = s[k]
         /\ \A k \in DOMAIN (s \o t) \ DOMAIN s : \E j \in DOMAIN t : (s \o t)[k] = t[j]
         /\ \A j \in DOMAIN t : \E k \in DOMAIN (s \o t) \ DOMAIN s : (s \o t)[k] = t[j]
<1> DEFINE m == Len(s)
           n == Len(t)
           r == s \o t
<1>1. m \in Nat /\ n \in Nat /\ DOMAIN s = 1..m /\ DOMAIN t = 1..n
  BY LenProperties
<1>2. r \in Seq(C) /\ Len(r) = m + n
        /\ \A k \in 1..(m+n) : r[k] = IF k <= m THEN s[k] ELSE t[k-m]
  BY ConcatProperties
<1>3. DOMAIN r = 1..(m+n)
  BY <1>2, LenProperties
<1> HIDE DEF m, n, r
<1>4. \A k \in 1..m : k \in 1..(m+n) /\ r[k] = s[k]
  BY <1>1, <1>2
<1>5. \A k \in (1..(m+n)) \ (1..m) : k-m \in 1..n /\ r[k] = t[k-m]
  BY <1>1, <1>2
<1>6. \A j \in 1..n : j+m \in (1..(m+n)) \ (1..m) /\ r[j+m] = t[j]
  <2> SUFFICES ASSUME NEW j \in 1..n
               PROVE  j+m \in (1..(m+n)) \ (1..m) /\ r[j+m] = t[j]
    OBVIOUS
  <2>1. j+m \in 1..(m+n) /\ ~(j+m <= m) /\ (j+m)-m = j
    BY <1>1
  <2> QED
    BY <1>2, <2>1
<1> QED
  BY <1>1, <1>2, <1>3, <1>4, <1>5, <1>6 DEF r

Ended(u, ok) == [i \in Ending(u, ok) |-> Told(u)[i]]

\* d is c after the answer to u.
Tells(u, c, d) ==
  /\ d.op = c.op /\ d.arg = c.arg /\ d.filter = c.filter
  /\ d.here = c.here /\ d.send = c.send /\ d.own = c.own /\ d.alone = c.alone
  /\ d.waits = c.waits \ {u}
  /\ d.got = IF u \in c.waits THEN c.got \cup gets[u].body ELSE c.got

LEMMA ToldFacts ==
  ASSUME IInv, NEW u \in DOMAIN gets
  PROVE  /\ Told(u) \in Seq(Call) /\ DOMAIN Told(u) = DOMAIN calls
         /\ \A i \in DOMAIN calls : Told(u)[i] \in Call /\ Tells(u, calls[i], Told(u)[i])
<1>1. gets[u].body \in SUBSET Listed
  BY TypesFacts DEF IInv, Fetched
<1>2. DOMAIN Told(u) = DOMAIN calls
  BY DEF Told
<1>3. ASSUME NEW i \in DOMAIN calls
      PROVE  Told(u)[i] \in Call /\ Tells(u, calls[i], Told(u)[i])
  <2> DEFINE c == calls[i]
             d == Told(u)[i]
  <2>1. c \in Call
    BY TypesFacts DEF IInv
  <2>2. CASE u \in c.waits
    <3>1. d = [c EXCEPT !.waits = @ \ {u}, !.got = @ \cup gets[u].body]
      BY <2>2 DEF Told, Awaiting
    <3>2. c.waits \ {u} \in SUBSET Urls /\ c.got \cup gets[u].body \in SUBSET Listed
      BY <1>1, <2>1 DEF Call
    <3> HIDE DEF c, d
    <3>3. d \in Call /\ Tells(u, c, d)
      BY <2>1, <2>2, <3>1, <3>2 DEF Call, Tells
    <3> QED
      BY <3>3 DEF c, d
  <2>3. CASE u \notin c.waits
    <3>1. d = c /\ c.waits \ {u} = c.waits
      BY <2>3 DEF Told, Awaiting
    <3> QED
      BY <2>1, <2>3, <3>1 DEF Tells
  <2> QED
    BY <2>2, <2>3
<1>4. Told(u) \in Seq(Call)
  <2>1. \A i \in DOMAIN calls : Told(u)[i] \in Call
    BY <1>3
  <2>2. Told(u) = [i \in DOMAIN calls |-> Told(u)[i]]
    BY DEF Told
  <2> QED
    BY <2>1, <2>2, TypesFacts DEF IInv
<1> QED
  BY <1>2, <1>3, <1>4

\* The calls that end belong to the page shown, and to what it can do.
LEMMA EndedFacts ==
  ASSUME IInv, NEW u \in DOMAIN gets, NEW ok \in BOOLEAN
  PROVE  /\ Ending(u, ok) \subseteq DOMAIN calls
         /\ \A i \in Ending(u, ok) :
              /\ u \in calls[i].waits /\ calls[i].send = None /\ calls[i].here
              /\ calls[i].op \in PageReads \cup RowOperations
              /\ Ended(u, ok)[i] = Told(u)[i]
         /\ \A ops : Of(Ended(u, ok), ops) = {i \in Ending(u, ok) : calls[i].op \in ops}
         /\ DOMAIN Ended(u, ok) = Ending(u, ok)
         /\ Endings(Ended(u, ok))
<1>1. Ending(u, ok) \subseteq DOMAIN calls /\ \A i \in Ending(u, ok) : u \in calls[i].waits
  BY DEF Ending, Awaiting
<1>2. \A i \in Ending(u, ok) : Ended(u, ok)[i] = Told(u)[i]
  BY DEF Ended
<1>3. DOMAIN Ended(u, ok) = Ending(u, ok)
  BY DEF Ended
<1>4. \A i \in DOMAIN calls : Told(u)[i] \in Call /\ Told(u)[i].op = calls[i].op
                              /\ Told(u)[i].arg = calls[i].arg
  BY ToldFacts DEF Tells
<1>5. \A ops : Of(Ended(u, ok), ops) = {i \in Ending(u, ok) : calls[i].op \in ops}
  BY <1>1, <1>2, <1>3, <1>4 DEF Of
<1>6. ASSUME NEW i \in Ending(u, ok)
      PROVE  /\ calls[i].send = None /\ calls[i].here
             /\ calls[i].op \in PageReads \cup RowOperations
             /\ calls[i].op = "units" => calls[i].arg \in Homes
  <2>1. CallOK(i) /\ WaitsOK(i) /\ i \in DOMAIN calls /\ calls[i].waits # {}
    BY <1>1 DEF IInv, CallsOK
  <2>2. calls[i] \in Call
    BY <2>1, TypesFacts DEF IInv
  <2>3. calls[i].send = None /\ calls[i].here
    BY <2>1 DEF WaitsOK
  <2> QED
    BY <2>1, <2>2, <2>3 DEF CallOK, Call
<1>7. Endings(Ended(u, ok))
  <2>1. DOMAIN Ended(u, ok) \subseteq 1..Len(calls) /\ Len(calls) \in Nat
    BY <1>1, <1>3, TypesFacts DEF IInv
  <2>2. \A i \in Ending(u, ok) : /\ Ended(u, ok)[i] \in Call
          /\ Ended(u, ok)[i].op = calls[i].op /\ Ended(u, ok)[i].arg = calls[i].arg
    BY <1>1, <1>2, <1>4
  <2> QED
    BY <1>3, <1>6, <2>1, <2>2 DEF Endings
<1> QED
  BY <1>1, <1>2, <1>3, <1>5, <1>6, <1>7

\* What the effects of a form read once its record is there.
NewRead(c) ==
  /\ c \in Call /\ c.here /\ c.send = None /\ c.got = {} /\ c.waits # {}
  /\ \/ c.op = "options" /\ c.waits = Page[view.page].options
     \/ c.op = "units" /\ c.arg = Preset /\ view.page = "editLease"

LEMMA FormReadsFacts ==
  ASSUME Types, NEW ended, NEW ok \in BOOLEAN
  PROVE  /\ FormReads(ended, ok) \in Seq(Call)
         /\ \A j \in DOMAIN FormReads(ended, ok) :
              /\ NewRead(FormReads(ended, ok)[j]) /\ ok /\ Of(ended, {"load"}) # {}
         /\ ok /\ Of(ended, {"load"}) # {} /\ view.page = "editLease" =>
              \E j \in DOMAIN FormReads(ended, ok) : FormReads(ended, ok)[j].op = "units"
<1> DEFINE options == Page[view.page].options
           o == Reading("options", None, "active", options)
           n == Reading("units", Preset, "active", UnitUrls(Preset))
           a == IF options = {} THEN <<>> ELSE <<o>>
           b == IF view.page = "editLease" THEN <<n>> ELSE <<>>
<1>1. options \in SUBSET Urls
  BY TypesFacts, PageFacts DEF PageTypes
<1>2. o \in Call /\ o.op = "options" /\ o.here /\ o.send = None /\ o.got = {} /\ o.waits = options
  BY <1>1 DEF Reading, Call, PageReads, Filters
<1>3. Preset \in Homes /\ UnitUrls(Preset) \in SUBSET Urls /\ UnitUrls(Preset) # {}
  BY UrlFacts
<1>4. n \in Call /\ n.op = "units" /\ n.here /\ n.send = None /\ n.got = {}
        /\ n.waits = UnitUrls(Preset) /\ n.arg = Preset
  BY <1>3 DEF Reading, Call, PageReads, Filters
<1>5. FormReads(ended, ok) = IF ~ok \/ Of(ended, {"load"}) = {} THEN <<>> ELSE a \o b
  BY DEF FormReads
<1> HIDE DEF o, n
<1>6. /\ a \in Seq(Call) /\ \A j \in DOMAIN a : NewRead(a[j])
  <2>1. options # {} => NewRead(o)
    BY <1>2 DEF NewRead
  <2> HIDE DEF options
  <2>2. options # {} => a = <<o>> /\ DOMAIN a = {1} /\ a[1] = o /\ a \in Seq(Call)
    BY <1>2
  <2>3. options = {} => a = <<>> /\ DOMAIN a = {} /\ a \in Seq(Call)
    OBVIOUS
  <2> QED
    BY <2>1, <2>2, <2>3
<1>7. /\ b \in Seq(Call) /\ \A j \in DOMAIN b : NewRead(b[j])
      /\ view.page = "editLease" => \E j \in DOMAIN b : b[j].op = "units"
  <2>1. view.page = "editLease" => NewRead(n)
    BY <1>3, <1>4 DEF NewRead
  <2>2. view.page = "editLease" => b = <<n>> /\ DOMAIN b = {1} /\ b[1] = n /\ b \in Seq(Call)
    BY <1>4
  <2>3. view.page # "editLease" => b = <<>> /\ DOMAIN b = {} /\ b \in Seq(Call)
    OBVIOUS
  <2> QED
    BY <1>4, <2>1, <2>2, <2>3
<1> HIDE DEF a, b
<1>8. /\ a \o b \in Seq(Call) /\ DOMAIN a \subseteq DOMAIN (a \o b)
      /\ \A k \in DOMAIN a : (a \o b)[k] = a[k]
      /\ \A k \in DOMAIN (a \o b) \ DOMAIN a : \E j \in DOMAIN b : (a \o b)[k] = b[j]
      /\ \A j \in DOMAIN b : \E k \in DOMAIN (a \o b) \ DOMAIN a : (a \o b)[k] = b[j]
  BY <1>6, <1>7, ConcatParts
<1>9. \A k \in DOMAIN (a \o b) : NewRead((a \o b)[k])
  BY <1>6, <1>7, <1>8
<1>10. view.page = "editLease" => \E k \in DOMAIN (a \o b) : (a \o b)[k].op = "units"
  BY <1>7, <1>8
<1>11. CASE ~ok \/ Of(ended, {"load"}) = {}
  <2>1. FormReads(ended, ok) = <<>> /\ <<>> \in Seq(Call) /\ DOMAIN <<>> = {}
    BY <1>5, <1>11
  <2> QED
    BY <1>11, <2>1
<1>12. CASE ok /\ Of(ended, {"load"}) # {}
  <2>1. FormReads(ended, ok) = a \o b
    BY <1>5, <1>12
  <2> QED
    BY <1>8, <1>9, <1>10, <1>12, <2>1
<1> QED
  BY <1>11, <1>12

\* A step in which u is answered, as far as the proofs below need it.
Delivery(u, ok, f, F) ==
  /\ UNCHANGED <<db, expired, issued, strays, going>>
  /\ token' \in {0, token} /\ token' \in 0..issued /\ unloading' \in BOOLEAN
  /\ ok => gets[u].state = "ok"
  /\ Resumed(view, Ended(u, ok), ok, view')
  /\ calls' \in Seq(Call)
  /\ Followed(f, DOMAIN calls \ Ending(u, ok), F) /\ F \subseteq DOMAIN calls
  /\ \A k \in F : calls'[k] = Told(u)[f[k]]
  /\ \A k \in DOMAIN calls' \ F :
       /\ NewRead(calls'[k]) /\ calls'[k].waits \subseteq DOMAIN gets'
       /\ ok /\ Of(Ended(u, ok), {"load"}) # {}
  /\ ok /\ Of(Ended(u, ok), {"load"}) # {} /\ view.page = "editLease" =>
       \E k \in DOMAIN calls' : calls'[k].op = "units" /\ calls'[k].here
  /\ DOMAIN gets' \subseteq Urls /\ gets' \in [DOMAIN gets' -> Fetched] /\ GetsOK'
  /\ \A w \in DOMAIN gets : w # u => w \in DOMAIN gets' /\ gets'[w] = gets[w]

LEMMA DeliverFacts ==
  ASSUME IInv, NEW u \in DOMAIN gets, NEW ok \in BOOLEAN, DeliverGet(u, ok)
  PROVE  \E f, F : Delivery(u, ok, f, F)
<1> DEFINE ending == Ending(u, ok)
           ended == Ended(u, ok)
           started == FormReads(ended, ok)
           asked == UNION {started[i].waits : i \in DOMAIN started}
           T == DOMAIN calls \ ending
           r == Only(Told(u), T)
<1>1. Types /\ GetsOK /\ view \in View
  BY DEF IInv, Types
<1>2. /\ UNCHANGED <<db, expired, issued, strays, going>>
      /\ ok => gets[u].state = "ok"
      /\ view' = Resume(view, ended, ok)
      /\ calls' = r \o started
      /\ gets' = [w \in (DOMAIN gets \ {u}) \cup asked |->
                    IF w \in DOMAIN gets \ {u} THEN gets[w] ELSE Sent(token)]
      /\ token' \in {0, token} /\ (unloading' = TRUE \/ unloading' = unloading)
  BY DEF DeliverGet, Ended, RemoveToken
<1>3. Endings(ended)
  BY EndedFacts
<1>4. /\ started \in Seq(Call)
      /\ \A j \in DOMAIN started : NewRead(started[j]) /\ ok /\ Of(ended, {"load"}) # {}
      /\ ok /\ Of(ended, {"load"}) # {} /\ view.page = "editLease" =>
           \E j \in DOMAIN started : started[j].op = "units"
  BY <1>1, FormReadsFacts
<1>5. Told(u) \in Seq(Call) /\ DOMAIN Told(u) = DOMAIN calls
  BY ToldFacts
<1>6. T \in SUBSET DOMAIN Told(u)
  BY <1>5
<1> HIDE DEF started, T
<1>7. PICK f : Selects(f, Told(u), T, r)
  BY <1>5, <1>6, OnlySelects
<1>8. r \in Seq(Call)
  BY <1>5, <1>6, OnlySelects
<1> DEFINE F == DOMAIN r
<1>22. F \subseteq DOMAIN calls
  <2>1. Len(r) <= Len(Told(u))
    BY <1>5, <1>6, OnlySelects
  <2>2. /\ DOMAIN r = 1..Len(r) /\ Len(r) \in Nat
        /\ DOMAIN Told(u) = 1..Len(Told(u)) /\ Len(Told(u)) \in Nat
    BY <1>5, <1>8, LenProperties
  <2> HIDE DEF r
  <2> QED
    BY <1>5, <2>1, <2>2
<1> HIDE DEF r
<1>9. /\ calls' \in Seq(Call) /\ F \subseteq DOMAIN calls'
      /\ \A k \in F : calls'[k] = r[k]
      /\ \A k \in DOMAIN calls' \ F : \E j \in DOMAIN started : calls'[k] = started[j]
      /\ \A j \in DOMAIN started : \E k \in DOMAIN calls' \ F : calls'[k] = started[j]
  <2>1. /\ r \o started \in Seq(Call) /\ DOMAIN r \subseteq DOMAIN (r \o started)
        /\ \A k \in DOMAIN r : (r \o started)[k] = r[k]
        /\ \A k \in DOMAIN (r \o started) \ DOMAIN r :
             \E j \in DOMAIN started : (r \o started)[k] = started[j]
        /\ \A j \in DOMAIN started :
             \E k \in DOMAIN (r \o started) \ DOMAIN r : (r \o started)[k] = started[j]
    BY <1>4, <1>8, ConcatParts
  <2>2. calls' = r \o started
    BY <1>2
  <2> QED
    BY <2>1, <2>2
<1>10. /\ \A k \in F : f[k] \in T /\ calls'[k] = Told(u)[f[k]]
       /\ \A j, k \in F : f[j] = f[k] => j = k
       /\ \A i \in T : \E k \in F : f[k] = i
  BY <1>7, <1>9 DEF Selects
<1> HIDE DEF F
<1>11. T \subseteq DOMAIN calls /\ T = DOMAIN calls \ Ending(u, ok)
  BY DEF T
<1>12. Followed(f, T, F)
  <2>1. \A i \in DOMAIN calls :
          /\ Told(u)[i].op = calls[i].op /\ Told(u)[i].arg = calls[i].arg
          /\ Told(u)[i].filter = calls[i].filter /\ Told(u)[i].here = calls[i].here
    BY ToldFacts DEF Tells
  <2> QED
    BY <1>9, <1>10, <1>11, <2>1 DEF Followed
<1>13. asked \in SUBSET Urls
  <2>1. \A j \in DOMAIN started : started[j].waits \in SUBSET Urls
    BY <1>4 DEF NewRead, Call
  <2> QED
    BY <2>1
<1>14. \A j \in DOMAIN started : started[j].waits \subseteq asked
  OBVIOUS
<1> HIDE DEF asked
<1>15. /\ DOMAIN gets' = (DOMAIN gets \ {u}) \cup asked
       /\ DOMAIN gets' \subseteq Urls /\ gets' \in [DOMAIN gets' -> Fetched] /\ GetsOK'
  <2>1. DOMAIN gets \ {u} \in SUBSET DOMAIN gets /\ expired \subseteq expired'
    BY <1>2
  <2> DEFINE left == DOMAIN gets \ {u}
  <2>2. gets' = [w \in left \cup asked |-> IF w \in left THEN gets[w] ELSE Sent(token)]
    BY <1>2
  <2> HIDE DEF left
  <2>3. left \in SUBSET DOMAIN gets
    BY <2>1 DEF left
  <2>4. /\ DOMAIN gets' = left \cup asked
        /\ DOMAIN gets' \subseteq Urls /\ gets' \in [DOMAIN gets' -> Fetched] /\ GetsOK'
    BY <1>1, <1>13, <2>1, <2>2, <2>3, AskedFacts
  <2> QED
    BY <2>4 DEF left
<1>16. \A w \in DOMAIN gets : w # u => w \in DOMAIN gets' /\ gets'[w] = gets[w]
  BY <1>2, <1>15
<1>17. \A k \in DOMAIN calls' \ F :
         /\ NewRead(calls'[k]) /\ calls'[k].waits \subseteq DOMAIN gets'
         /\ ok /\ Of(ended, {"load"}) # {}
  BY <1>4, <1>9, <1>14, <1>15
<1>18. ok /\ Of(ended, {"load"}) # {} /\ view.page = "editLease" =>
         \E k \in DOMAIN calls' : calls'[k].op = "units" /\ calls'[k].here
  <2> SUFFICES ASSUME ok, Of(ended, {"load"}) # {}, view.page = "editLease"
               PROVE  \E k \in DOMAIN calls' : calls'[k].op = "units" /\ calls'[k].here
    OBVIOUS
  <2>1. PICK j \in DOMAIN started : started[j].op = "units"
    BY <1>4
  <2>2. PICK k \in DOMAIN calls' \ F : calls'[k] = started[j]
    BY <1>9, <2>1
  <2>3. started[j].here
    BY <1>4, <2>1 DEF NewRead
  <2> QED
    BY <2>1, <2>2, <2>3
<1>19. Resumed(view, ended, ok, view')
  BY <1>1, <1>2, <1>3, ResumeFacts
<1>20. token' \in 0..issued /\ unloading' \in BOOLEAN
  <2>1. token \in 0..issued /\ issued \in Nat /\ unloading \in BOOLEAN
    BY <1>1, TypesFacts DEF Types
  <2>2. 0 \in 0..issued
    BY <2>1
  <2> QED
    BY <1>2, <2>1, <2>2
<1>21. Delivery(u, ok, f, F)
  BY <1>2, <1>9, <1>10, <1>11, <1>12, <1>15, <1>16, <1>17, <1>18, <1>19, <1>20, <1>22
     DEF Delivery
<1> QED
  BY <1>21

\* What is answered under a url of a list page belongs to that page.
LEMMA BodyOnPage ==
  ASSUME NEW u, GetOK(u), view.page \in ListPageNames, NEW filter,
         u \in PageUrls(view.page, filter)
  PROVE  gets[u].body \subseteq PageRows(view.page, filter)
<1>1. \/ u = <<"tenants", filter>> /\ view.page = "tenants"
      \/ u = <<"units", filter>> /\ view.page = "units"
      \/ u = <<"leases", "">> /\ view.page = "leases"
      \/ u = <<"property", "">>
  BY DEF PageUrls, ListUrls, Url, ListPageNames
<1>2. CASE u = <<"property", "">>
  <2>1. u[1] \notin ListPageNames
    BY <1>2 DEF ListPageNames
  <2> QED
    BY <2>1 DEF GetOK
<1>3. CASE u = <<"tenants", filter>> /\ view.page = "tenants"
  BY <1>3 DEF GetOK, ListPageNames
<1>4. CASE u = <<"units", filter>> /\ view.page = "units"
  BY <1>4 DEF GetOK, ListPageNames
<1>5. CASE u = <<"leases", "">> /\ view.page = "leases"
  BY <1>5 DEF GetOK, PageRows, ListPageNames
<1> QED
  BY <1>1, <1>2, <1>3, <1>4, <1>5

LEMMA ToldOnPage ==
  ASSUME IInv, NEW u \in DOMAIN gets, NEW i \in DOMAIN calls, calls[i].here,
         view.page \in ListPageNames
  PROVE  Told(u)[i].got \subseteq PageRows(view.page, calls[i].filter)
<1>1. GetOK(u) /\ PlaceOK(i)
  BY DEF IInv, GetsOK, CallsOK
<1>2. /\ calls[i].waits \subseteq PageUrls(view.page, calls[i].filter)
      /\ calls[i].got \subseteq PageRows(view.page, calls[i].filter)
  BY <1>1 DEF PlaceOK
<1>3. Told(u)[i].got = IF u \in calls[i].waits THEN calls[i].got \cup gets[u].body
                                               ELSE calls[i].got
  BY ToldFacts DEF Tells
<1>4. u \in calls[i].waits => gets[u].body \subseteq PageRows(view.page, calls[i].filter)
  BY <1>1, <1>2, BodyOnPage
<1> QED
  BY <1>2, <1>3, <1>4

LEMMA DeliverTypes ==
  ASSUME IInv, NEW u \in DOMAIN gets, NEW ok \in BOOLEAN, NEW f, NEW F, Delivery(u, ok, f, F)
  PROVE  Types'
  BY DEF Delivery, IInv, Types, Resumed

LEMMA DeliverCalls ==
  ASSUME IInv, NEW u \in DOMAIN gets, NEW ok \in BOOLEAN, NEW f, NEW F, Delivery(u, ok, f, F)
  PROVE  CallsOK'
<1>0. \A i \in DOMAIN calls : Tells(u, calls[i], Told(u)[i])
  BY ToldFacts
<1> USE DEF IInv
<1>1. view'.page = view.page
  BY DEF Delivery, Resumed, Untouched
<1>2. SessionsGoOn
  BY TypesFacts DEF SessionsGoOn, Delivery
<1>3. ASSUME NEW k \in F
      PROVE  CallOK(k)' /\ SendOK(k)' /\ WaitsOK(k)' /\ PlaceOK(k)'
  <2> DEFINE i == f[k]
             c == calls[i]
             d == calls'[k]
  <2>1. i \in DOMAIN calls /\ i \notin Ending(u, ok) /\ d = Told(u)[i]
    BY <1>3 DEF Delivery, Followed
  <2>2. /\ d.op = c.op /\ d.arg = c.arg /\ d.filter = c.filter
        /\ d.here = c.here /\ d.send = c.send
        /\ d.waits = c.waits \ {u}
        /\ d.got = IF u \in c.waits THEN c.got \cup gets[u].body ELSE c.got
    <3>1. Tells(u, c, Told(u)[i])
      BY <1>0, <2>1
    <3>2. Tells(u, c, d)
      BY <2>1, <3>1
    <3> HIDE DEF c, d
    <3> QED
      BY <3>2 DEF Tells
  <2>3. CallOK(i) /\ SendOK(i) /\ WaitsOK(i) /\ PlaceOK(i)
    BY <2>1 DEF CallsOK
  <2>4. u \in c.waits => c.send = None /\ c.waits # {u}
    BY <2>1, <2>3 DEF WaitsOK, Ending, Awaiting
  <2>5. c.send # None => c.send.token \in Nat
    BY <2>1, TypesFacts DEF Requests
  <2>6. c.here /\ view.page \in ListPageNames =>
          d.got \subseteq PageRows(view.page, c.filter)
    BY <2>1, ToldOnPage
  <2>7. c.waits \ {u} \subseteq DOMAIN gets'
    BY <2>3 DEF WaitsOK, Delivery
  <2>8. calls'[k] = d
    OBVIOUS
  <2> HIDE DEF i, d
  <2>9. CallOK(k)'
    BY <2>2, <2>3, <2>4, <2>8 DEF CallOK
  <2>10. SendOK(k)'
    BY <1>2, <2>2, <2>3, <2>5, <2>8 DEF SendOK, SessionsGoOn, Valid
  <2>11. WaitsOK(k)'
    BY <2>2, <2>3, <2>4, <2>7, <2>8 DEF WaitsOK
  <2>12. PlaceOK(k)'
    BY <1>1, <2>2, <2>3, <2>6, <2>8 DEF PlaceOK
  <2> QED
    BY <2>9, <2>10, <2>11, <2>12
<1>4. ASSUME NEW k \in DOMAIN calls' \ F
      PROVE  CallOK(k)' /\ SendOK(k)' /\ WaitsOK(k)' /\ PlaceOK(k)'
  <2> DEFINE d == calls'[k]
  <2>1. NewRead(d) /\ d.waits \subseteq DOMAIN gets'
    BY <1>4 DEF Delivery
  <2>2. /\ d.op \in {"options", "units"} /\ d.here /\ d.send = None /\ d.got = {} /\ d.waits # {}
        /\ d.op = "options" => Page[view.page].options # {}
        /\ d.op = "units" => d.arg = Preset /\ view.page = "editLease"
    BY <2>1 DEF NewRead
  <2>3. view.page \notin ListPageNames
    BY <2>2, TypesFacts, PageFacts DEF ListPageNames
  <2>4. "options" \notin SavingPages /\ "units" \notin SavingPages
    BY SavingNames
  <2>5. calls'[k] = d
    OBVIOUS
  <2> HIDE DEF d
  <2>6. CallOK(k)'
    BY <2>2, <2>4, <2>5, UrlFacts DEF CallOK, Archivals, LeaseActions
  <2>7. SendOK(k)'
    BY <2>2, <2>5 DEF SendOK
  <2>8. WaitsOK(k)'
    BY <2>1, <2>2, <2>5 DEF WaitsOK
  <2>9. PlaceOK(k)'
    BY <1>1, <2>2, <2>3, <2>4, <2>5 DEF PlaceOK, Archivals, LeaseActions, LeaseForms
  <2> QED
    BY <2>6, <2>7, <2>8, <2>9
<1> QED
  BY <1>3, <1>4 DEF CallsOK

LEMMA DeliverActions ==
  ASSUME IInv, NEW u \in DOMAIN gets, NEW ok \in BOOLEAN, NEW f, NEW F, Delivery(u, ok, f, F)
  PROVE  ActionsOK'
<1>0. \A i \in DOMAIN calls : Tells(u, calls[i], Told(u)[i])
  BY ToldFacts
<1> USE DEF IInv
<1> SUFFICES ASSUME NEW k \in RowCalls', calls'[k].alone PROVE AloneOK(k)'
  BY DEF ActionsOK
<1>1. \A j \in RowCalls' : j \in F
  <2> SUFFICES ASSUME NEW j \in RowCalls', j \notin F PROVE FALSE
    OBVIOUS
  <2>1. NewRead(calls'[j]) /\ calls'[j].op \in RowOperations
    BY DEF RowCalls, Delivery
  <2> QED
    BY <2>1 DEF NewRead, RowOperations
<1>2. \A j \in RowCalls' : /\ f[j] \in RowCalls /\ f[j] \in DOMAIN calls
                           /\ f[j] \notin Ending(u, ok) /\ calls'[j] = Told(u)[f[j]]
  BY <1>1 DEF RowCalls, Delivery, Followed
<1> DEFINE i == f[k]
           c == calls[i]
           d == calls'[k]
<1>3. /\ d.op = c.op /\ d.arg = c.arg /\ d.send = c.send /\ d.own = c.own /\ d.alone = c.alone
      /\ d.waits = c.waits \ {u}
      /\ d.got = IF u \in c.waits THEN c.got \cup gets[u].body ELSE c.got
  <2>1. k \in RowCalls' /\ i \in DOMAIN calls /\ d = Told(u)[i]
    BY <1>2
  <2>2. Tells(u, c, Told(u)[i])
    BY <1>0, <2>1
  <2>3. Tells(u, c, d)
    BY <2>1, <2>2
  <2> HIDE DEF c, d
  <2> QED
    BY <2>3 DEF Tells
<1>4. i \in RowCalls /\ c.alone /\ i \in DOMAIN calls /\ i \notin Ending(u, ok)
  BY <1>2, <1>3
<1>5. d = calls'[k] /\ \A j \in RowCalls' : f[j] = i => j = k
  BY <1>1 DEF Delivery, Followed
<1>6. \A j \in RowCalls' : f[j] \in RowCalls
  BY <1>2
<1> HIDE DEF i, d
<1>7. AloneOK(i) /\ WaitsOK(i)
  BY <1>4 DEF ActionsOK, CallsOK
<1>8. RowCalls' = {k}
  BY <1>5, <1>6, <1>7 DEF AloneOK
<1>9. db' = db /\ strays' = strays
  BY DEF Delivery
<1>10. \A w \in d.waits : gets'[w] = gets[w]
  BY <1>3, <1>7 DEF WaitsOK, Delivery
<1>11. u \in c.waits => ok /\ gets[u].state = "ok"
  BY <1>4 DEF Ending, Awaiting, Delivery
<1>12. ASSUME c.send = None, c.own
       PROVE  /\ \A w \in d.waits : gets'[w].state = "ok" => Shows(d, gets'[w].body)
              /\ d.arg \notin Leases => Shows(d, d.got)
  <2>1. /\ \A w \in c.waits : gets[w].state = "ok" => Shows(c, gets[w].body)
        /\ c.arg \notin Leases => Shows(c, c.got)
    BY <1>7, <1>12 DEF AloneOK
  <2> QED
    BY <1>3, <1>10, <1>11, <2>1 DEF Shows
<1>13. Done(k)' = Done(i)
  BY <1>3, <1>5, <1>9 DEF Done
<1> QED
  BY <1>3, <1>5, <1>7, <1>8, <1>9, <1>12, <1>13 DEF AloneOK

\* What ends is a read of the page shown, or an action on one of its rows.
LEMMA EndedHere ==
  ASSUME IInv, NEW u \in DOMAIN gets, NEW ok \in BOOLEAN, NEW i \in Ending(u, ok)
  PROVE  /\ i \in DOMAIN calls /\ calls[i].here /\ calls[i].op \in PageReads \cup RowOperations
         /\ Ended(u, ok)[i].got = Told(u)[i].got /\ Ended(u, ok)[i].arg = calls[i].arg
         /\ calls[i].op \in Archivals => view.page \in {"tenants", "units"}
         /\ calls[i].op \in LeaseActions => view.page = "leases"
         /\ calls[i].op = "units" => view.page \in LeaseForms
         /\ calls[i].op = "load" => Loads(view.page)
<1>1. i \in DOMAIN calls /\ calls[i].here /\ calls[i].op \in PageReads \cup RowOperations
        /\ Ended(u, ok)[i] = Told(u)[i]
  BY EndedFacts
<1>2. PlaceOK(i)
  BY <1>1 DEF IInv, CallsOK
<1>3. Tells(u, calls[i], Told(u)[i])
  BY <1>1, ToldFacts
<1> QED
  BY <1>1, <1>2, <1>3 DEF PlaceOK, Tells

\* Nothing ends: the page learns nothing, and reads nothing more.
LEMMA NothingEnds ==
  ASSUME IInv, NEW u \in DOMAIN gets, NEW ok \in BOOLEAN, NEW f, NEW F, Delivery(u, ok, f, F),
         Ending(u, ok) = {}
  PROVE  /\ view'.loading = view.loading /\ view'.rows = view.rows
         /\ view'.choices = view.choices /\ DOMAIN calls' = F
<1>1. \A ops : Of(Ended(u, ok), ops) = {}
  BY EndedFacts
<1>2. Resumed(view, Ended(u, ok), ok, view') /\ view \in View
  BY DEF Delivery, IInv, Types
<1>3. view'.loading = view.loading /\ view'.rows = view.rows /\ view'.choices = view.choices
  BY <1>1, <1>2 DEF Resumed, LoadsEnd, View
<1> QED
  BY <1>1, <1>3 DEF Delivery, Followed

LEMMA DeliverRows ==
  ASSUME IInv, NEW u \in DOMAIN gets, NEW ok \in BOOLEAN, NEW f, NEW F, Delivery(u, ok, f, F)
  PROVE  RowsOK'
<1>1. Resumed(view, Ended(u, ok), ok, view') /\ RowsOK
  BY DEF Delivery, IInv
<1>2. view'.page = view.page /\ view'.timer = view.timer
  BY <1>1 DEF Resumed, Untouched
<1>3. \/ view'.rows = view.rows
      \/ \E i \in Ending(u, ok) : view'.rows = Ended(u, ok)[i].got
  BY <1>1, EndedFacts DEF Resumed
<1>4. ASSUME NEW i \in Ending(u, ok), view'.rows = Ended(u, ok)[i].got,
             view.page \in ListPageNames
      PROVE  view'.rows \in SUBSET Listed /\ \A r \in view'.rows : r[1] \in RowsOn(view.page)
  <2>1. i \in DOMAIN calls /\ calls[i].here /\ view'.rows = Told(u)[i].got
    BY <1>4, EndedHere
  <2>2. view'.rows \subseteq PageRows(view.page, calls[i].filter)
    BY <1>4, <2>1, ToldOnPage
  <2> QED
    BY <2>2 DEF PageRows
<1> QED
  BY <1>1, <1>2, <1>3, <1>4 DEF RowsOK

LEMMA DeliverLoading ==
  ASSUME IInv, NEW u \in DOMAIN gets, NEW ok \in BOOLEAN, NEW f, NEW F, Delivery(u, ok, f, F)
  PROVE  LoadingOK'
<1>1. Resumed(view, Ended(u, ok), ok, view') /\ LoadingOK
  BY DEF Delivery, IInv
<1>2. view'.page = view.page
  BY <1>1 DEF Resumed, Untouched
<1> SUFFICES ASSUME view'.loading, ~Page[view.page].spins
             PROVE  \E k \in Here(ListReads)' : calls'[k].waits # {}
  BY <1>2 DEF LoadingOK
<1>3. view.loading /\ Of(Ended(u, ok), ListReads) = {}
  BY <1>1 DEF Resumed, LoadsEnd
<1>4. PICK i \in Here(ListReads) : calls[i].waits # {}
  BY <1>1, <1>3 DEF LoadingOK
<1>5. i \in DOMAIN calls \ Ending(u, ok) /\ calls[i].here /\ calls[i].op \in ListReads
  BY <1>3, <1>4, EndedFacts DEF Here
<1>6. PICK k \in F : f[k] = i
  BY <1>5 DEF Delivery, Followed
<1>7. k \in DOMAIN calls' /\ calls'[k] = Told(u)[i]
  BY <1>6 DEF Delivery, Followed
<1>8. Tells(u, calls[i], Told(u)[i])
  BY <1>5, ToldFacts
<1>9. Tells(u, calls[i], calls'[k])
  BY <1>7, <1>8
<1>10. WaitsOK(i)
  BY <1>5 DEF IInv, CallsOK
<1>11. WaitsOK(k)'
  BY <1>7, DeliverCalls DEF CallsOK
<1>12. calls'[k].send = None
  BY <1>4, <1>9, <1>10 DEF Tells, WaitsOK
<1>13. calls'[k].here /\ calls'[k].op \in ListReads /\ calls'[k].waits # {}
  BY <1>5, <1>9, <1>11, <1>12 DEF Tells, WaitsOK
<1> QED
  BY <1>7, <1>13 DEF Here

LEMMA DeliverActing ==
  ASSUME IInv, NEW u \in DOMAIN gets, NEW ok \in BOOLEAN, NEW f, NEW F, Delivery(u, ok, f, F)
  PROVE  ActingOK'
<1> DEFINE T == DOMAIN calls \ Ending(u, ok)
           ended == Ended(u, ok)
<1>1. Resumed(view, ended, ok, view') /\ ActingOK /\ Followed(f, T, F)
  BY DEF Delivery, IInv
<1>2. view'.page = view.page
  BY <1>1 DEF Resumed, Untouched
<1>3. view'.acting = (IF Of(ended, Archivals) = {} THEN view.acting ELSE {})
                       \ {ended[i].arg : i \in Of(ended, LeaseActions)}
  BY <1>1 DEF Resumed
<1>4. /\ Of(ended, Archivals) = {i \in Ending(u, ok) : calls[i].op \in Archivals}
      /\ Of(ended, LeaseActions) = {i \in Ending(u, ok) : calls[i].op \in LeaseActions}
  BY EndedFacts
<1>5. \A k \in DOMAIN calls' \ F : calls'[k].op \notin RowOperations
  BY DEF Delivery, NewRead, RowOperations
<1>6. view.page = "leases" =>
        view'.acting = view.acting \ {calls[i].arg : i \in Here(LeaseActions) \ T}
  <2> SUFFICES ASSUME view.page = "leases"
               PROVE  view'.acting = view.acting \ {calls[i].arg : i \in Here(LeaseActions) \ T}
    OBVIOUS
  <2>1. Of(ended, Archivals) = {}
    BY <1>4, EndedHere
  <2>2. Of(ended, LeaseActions) = Here(LeaseActions) \ T
    BY <1>4, EndedHere DEF Here
  <2>3. \A i \in Of(ended, LeaseActions) : ended[i].arg = calls[i].arg
    BY <1>4, EndedHere
  <2> HIDE DEF T, ended
  <2>4. {ended[i].arg : i \in Of(ended, LeaseActions)}
          = {calls[i].arg : i \in Here(LeaseActions) \ T}
    BY <2>2, <2>3
  <2> QED
    BY <1>3, <2>1, <2>4
<1>7. view.page # "leases" =>
        view'.acting = {} \/ (view'.acting = view.acting /\ Here(Archivals) \subseteq T)
  <2> SUFFICES ASSUME view.page # "leases"
               PROVE  view'.acting = {} \/ (view'.acting = view.acting /\ Here(Archivals) \subseteq T)
    OBVIOUS
  <2>1. Of(ended, LeaseActions) = {}
    BY <1>4, EndedHere
  <2>2. Of(ended, Archivals) = {} => Here(Archivals) \subseteq T
    BY <1>4 DEF Here
  <2> QED
    BY <1>3, <2>1, <2>2
<1> HIDE DEF T, ended
<1> QED
  BY <1>1, <1>2, <1>5, <1>6, <1>7, ActingLeft

LEMMA DeliverSubmitting ==
  ASSUME IInv, NEW u \in DOMAIN gets, NEW ok \in BOOLEAN, NEW f, NEW F, Delivery(u, ok, f, F)
  PROVE  SubmittingOK'
<1> DEFINE T == DOMAIN calls \ Ending(u, ok)
<1>1. SubmittingOK /\ Followed(f, T, F) /\ going' = going
  BY DEF Delivery, IInv
<1>2. /\ view'.page = view.page /\ view'.submitting = view.submitting
      /\ view'.saved = view.saved
  BY DEF Delivery, Resumed, Untouched
<1>3. view.page \in AllPages
  BY TypesFacts DEF IInv
<1>4. \A i \in DOMAIN calls \ T : calls[i].op # view.page
  <2> SUFFICES ASSUME NEW i \in Ending(u, ok) PROVE calls[i].op # view.page
    OBVIOUS
  <2>1. /\ calls[i].op \in PageReads \cup RowOperations
        /\ calls[i].op = "units" => view.page \in LeaseForms
    BY EndedHere
  <2> QED
    BY <1>3, <2>1, PageNames DEF PageReads, RowOperations, LeaseForms
<1>5. \A k \in DOMAIN calls' \ F : view.page \in SavingPages => calls'[k].op # view.page
  BY SavingNames DEF Delivery, NewRead
<1> HIDE DEF T
<1> QED
  BY <1>1, <1>2, <1>4, <1>5, SubmittingFollowed

LEMMA DeliverLoadsAlone ==
  ASSUME IInv, NEW u \in DOMAIN gets, NEW ok \in BOOLEAN, NEW f, NEW F, Delivery(u, ok, f, F)
  PROVE  LoadsAlone'
<1> DEFINE T == DOMAIN calls \ Ending(u, ok)
<1>1. Followed(f, T, F) /\ LoadsAlone
  BY DEF Delivery, IInv
<1>2. view'.page = view.page /\ view'.rushed = view.rushed /\ view'.asking = view.asking
  BY DEF Delivery, Resumed, Untouched
<1> SUFFICES ASSUME NEW k \in Here({"load"})'
             PROVE  /\ view.page \in {"tenants", "units"} /\ ~view.rushed =>
                         view'.loading /\ \A j \in DOMAIN calls' : calls'[j].here => j = k
                    /\ view.page = "leases" =>
                         /\ view'.rows = {} /\ view'.asking = None
                         /\ \A j \in DOMAIN calls' : calls'[j].here => j = k
                    /\ view.page \in LeaseForms =>
                         ~view'.choices /\ \A j \in Here(PageReads)' : j = k
  BY <1>2 DEF LoadsAlone
<1>3. k \in F /\ f[k] \in Here({"load"}) /\ f[k] \notin Ending(u, ok)
  <2>1. k \in F
    BY DEF Here, Delivery, NewRead
  <2> QED
    BY <1>1, <2>1 DEF Followed, Here
<1>4. \A j \in F : /\ f[j] \in DOMAIN calls
                   /\ calls'[j].here => calls[f[j]].here
                   /\ j \in Here(PageReads)' => f[j] \in Here(PageReads)
                   /\ f[j] = f[k] => j = k
  BY <1>1, <1>3 DEF Followed, Here
<1>5. \A i \in Ending(u, ok) : i \in DOMAIN calls /\ calls[i].here /\ i # f[k]
  BY <1>3, EndedHere
<1>6. CASE (view.page \in {"tenants", "units"} /\ ~view.rushed) \/ view.page = "leases"
  <2>1. \A j \in DOMAIN calls : calls[j].here => j = f[k]
    BY <1>1, <1>3, <1>6 DEF LoadsAlone
  <2>2. Ending(u, ok) = {}
    BY <1>5, <2>1
  <2>3. view'.loading = view.loading /\ view'.rows = view.rows /\ DOMAIN calls' = F
    BY <2>2, NothingEnds
  <2>4. \A j \in DOMAIN calls' : calls'[j].here => j = k
    BY <1>4, <2>1, <2>3
  <2> QED
    BY <1>1, <1>2, <1>3, <1>6, <2>3, <2>4 DEF LoadsAlone, LeaseForms
<1>7. CASE view.page \in LeaseForms
  <2>1. ~view.choices /\ \A j \in Here(PageReads) : j = f[k]
    BY <1>1, <1>3, <1>7 DEF LoadsAlone
  <2>2. \A i \in Ending(u, ok) : i \in Here(PageReads)
    <3> SUFFICES ASSUME NEW i \in Ending(u, ok) PROVE calls[i].op \in PageReads
      BY <1>5 DEF Here
    <3> QED
      BY <1>7, EndedHere DEF LeaseForms, Archivals, LeaseActions, RowOperations
  <2>3. Ending(u, ok) = {}
    BY <1>5, <2>1, <2>2
  <2>4. view'.choices = view.choices /\ DOMAIN calls' = F
    BY <2>3, NothingEnds
  <2>5. \A j \in Here(PageReads)' : j = k
    <3>1. \A j \in Here(PageReads)' : j \in F
      BY <2>4 DEF Here
    <3> QED
      BY <1>4, <2>1, <3>1
  <2> QED
    BY <1>7, <2>1, <2>4, <2>5 DEF LeaseForms
<1> QED
  BY <1>6, <1>7
LEMMA DeliverFiltered ==
  ASSUME IInv, NEW u \in DOMAIN gets, NEW ok \in BOOLEAN, NEW f, NEW F, Delivery(u, ok, f, F)
  PROVE  UnitsFiltered'
<1> DEFINE T == DOMAIN calls \ Ending(u, ok)
           ended == Ended(u, ok)
<1>1. Resumed(view, ended, ok, view') /\ UnitsFiltered /\ Followed(f, T, F)
  BY DEF Delivery, IInv
<1>2. view'.page = view.page /\ view'.rushed = view.rushed /\ view'.filter = view.filter
  BY <1>1 DEF Resumed, Untouched
<1> SUFFICES ASSUME view.page = "units", ~view.rushed
             PROVE  /\ \A k \in DOMAIN calls' : calls'[k].here => calls'[k].filter = view.filter
                    /\ ~view'.loading /\ ~view'.error /\ view'.rows # None =>
                         \A r \in view'.rows : r[2] = view.filter
  BY <1>2 DEF UnitsFiltered
<1>3. \A i \in DOMAIN calls : calls[i].here => calls[i].filter = view.filter
  BY <1>1 DEF UnitsFiltered
<1>4. DOMAIN calls' = F
  <2>1. Page[view.page].options = {} /\ view.page # "editLease"
    BY PageFacts, PageNames
  <2>2. \A k \in DOMAIN calls' : k \in F
    BY <2>1 DEF Delivery, NewRead
  <2> QED
    BY <1>1, <2>2 DEF Followed
<1>5. \A k \in DOMAIN calls' : calls'[k].here => calls'[k].filter = view.filter
  <2>1. \A k \in F : /\ f[k] \in DOMAIN calls /\ calls'[k].filter = calls[f[k]].filter
                     /\ calls'[k].here = calls[f[k]].here
    BY <1>1 DEF Followed
  <2> QED
    BY <1>3, <1>4, <2>1
<1>6. ASSUME ~view'.loading, ~view'.error, view'.rows # None
      PROVE  \A r \in view'.rows : r[2] = view.filter
  <2>1. Of(ended, LeaseActions) = {}
    BY EndedFacts, EndedHere
  <2>2. CASE LoadsEnd(view, ended, ok)
    <3>1. ok
      BY <1>1, <1>6, <2>2 DEF Resumed
    <3>2. PICK i \in Of(ended, ListReads) : view'.rows = ended[i].got
      BY <1>1, <2>1, <2>2, <3>1 DEF Resumed
    <3>3. i \in Ending(u, ok)
      BY <3>2, EndedFacts
    <3>4. i \in DOMAIN calls /\ calls[i].here /\ view'.rows = Told(u)[i].got
      BY <3>2, <3>3, EndedHere
    <3>5. view'.rows \subseteq PageRows(view.page, view.filter)
      BY <1>3, <3>4, ToldOnPage DEF ListPageNames
    <3> QED
      BY <3>5 DEF PageRows
  <2>3. CASE ~LoadsEnd(view, ended, ok)
    <3>1. /\ ~view.loading /\ ~view.error /\ view'.rows = view.rows
      BY <1>1, <1>6, <2>1, <2>3 DEF Resumed
    <3> QED
      BY <1>1, <1>6, <3>1 DEF UnitsFiltered
  <2> QED
    BY <2>2, <2>3
<1> QED
  BY <1>5, <1>6

\* A lease form whose record is answered reads nothing else.
LEMMA FormLoadEnds ==
  ASSUME IInv, NEW u \in DOMAIN gets, NEW ok \in BOOLEAN, view.page \in LeaseForms,
         Of(Ended(u, ok), ListReads) # {}
  PROVE  /\ view.page = "editLease" /\ Of(Ended(u, ok), {"load"}) # {}
         /\ \A j \in Here(PageReads) : j \in Ending(u, ok) /\ calls[j].op = "load"
<1>1. PICK i \in Ending(u, ok) : calls[i].op \in ListReads
  BY EndedFacts
<1>2. calls[i].op = "load" /\ Loads(view.page) /\ i \in Here({"load"})
  BY <1>1, EndedHere DEF LeaseForms, ListReads, Archivals, Here
<1>3. view.page = "editLease"
  BY <1>2, PageFacts DEF Loads, LeaseForms
<1>4. Of(Ended(u, ok), {"load"}) # {}
  BY <1>1, <1>2, EndedFacts
<1>5. \A j \in Here(PageReads) : j = i
  BY <1>2 DEF IInv, LoadsAlone
<1> QED
  BY <1>1, <1>2, <1>3, <1>4, <1>5

LEMMA DeliverOffered ==
  ASSUME IInv, NEW u \in DOMAIN gets, NEW ok \in BOOLEAN, NEW f, NEW F, Delivery(u, ok, f, F)
  PROVE  UnitsOffered'
<1> DEFINE T == DOMAIN calls \ Ending(u, ok)
           ended == Ended(u, ok)
<1>1. Resumed(view, ended, ok, view') /\ UnitsOffered /\ Followed(f, T, F)
  BY DEF Delivery, IInv
<1>2. view'.page = view.page /\ view'.rushed = view.rushed
  BY <1>1 DEF Resumed, Untouched
<1> SUFFICES ASSUME view.page \in LeaseForms, ~view.rushed
             PROVE  /\ \A k \in Here({"units"})' : calls'[k].arg = view'.property
                    /\ Here({"units"})' = {} => view'.options \in {None, view'.property}
  BY <1>2 DEF UnitsOffered
<1>3. /\ \A i \in Here({"units"}) : calls[i].arg = view.property
      /\ Here({"units"}) = {} => view.options \in {None, view.property}
  BY <1>1 DEF UnitsOffered
<1>4. \A k \in Here({"units"})' : k \in F => f[k] \in Here({"units"}) \cap T
                                             /\ calls'[k].arg = calls[f[k]].arg
  BY <1>1 DEF Followed, Here
<1>5. Of(ended, {"units"}) = {i \in Ending(u, ok) : calls[i].op = "units"}
  BY EndedFacts
<1>6. CASE Of(ended, ListReads) # {}
  <2>1. /\ view.page = "editLease" /\ Of(ended, {"load"}) # {}
        /\ \A j \in Here(PageReads) : j \in Ending(u, ok) /\ calls[j].op = "load"
    BY <1>6, FormLoadEnds
  <2>2. Here({"units"}) = {}
    BY <2>1 DEF Here, PageReads
  <2>3. \A k \in Here({"units"})' : k \in DOMAIN calls' \ F
    BY <1>4, <2>2 DEF Here
  <2>4. Of(ended, {"units"}) = {}
    BY <1>5, <2>2, EndedHere DEF Here
  <2>5. view'.options = view.options
    BY <1>1, <2>4 DEF Resumed
  <2>6. CASE ok
    <3>1. view'.property = Preset
      BY <1>1, <1>6, <2>1, <2>6 DEF Resumed, LoadsEnd
    <3>2. \A k \in Here({"units"})' : calls'[k].arg = Preset
      BY <2>3 DEF Here, Delivery, NewRead
    <3>3. PICK k \in DOMAIN calls' : calls'[k].op = "units" /\ calls'[k].here
      BY <2>1, <2>6 DEF Delivery
    <3>4. k \in Here({"units"})'
      BY <3>3 DEF Here
    <3> QED
      BY <3>1, <3>2, <3>4
  <2>7. CASE ~ok
    <3>1. view'.property = view.property
      BY <1>1, <2>7 DEF Resumed
    <3>2. Here({"units"})' = {}
      BY <2>3, <2>7 DEF Delivery
    <3> QED
      BY <1>3, <2>2, <2>5, <3>1, <3>2
  <2> QED
    BY <2>6, <2>7
<1>7. CASE Of(ended, ListReads) = {}
  <2>1. view'.property = view.property
    BY <1>1, <1>7 DEF Resumed, LoadsEnd
  <2>2. Of(ended, {"load"}) = {}
    BY <1>7 DEF Of, ListReads
  <2>3. DOMAIN calls' = F
    BY <1>1, <2>2 DEF Delivery, Followed
  <2>4. \A k \in Here({"units"})' : calls'[k].arg = view'.property
    <3>1. \A k \in Here({"units"})' : k \in F
      BY <2>3 DEF Here
    <3> QED
      BY <1>3, <1>4, <2>1, <3>1
  <2>5. ASSUME Here({"units"})' = {} PROVE view'.options \in {None, view'.property}
    <3>1. \A i \in Here({"units"}) : i \in Ending(u, ok)
      <4> SUFFICES ASSUME NEW i \in Here({"units"}), i \in T PROVE FALSE
        BY DEF Here
      <4>1. PICK k \in F : k \in DOMAIN calls' /\ f[k] = i
        BY <1>1 DEF Followed
      <4>2. k \in Here({"units"})'
        BY <1>1, <4>1 DEF Followed, Here
      <4> QED
        BY <2>5, <4>2
    <3>2. CASE Of(ended, {"units"}) = {}
      <4>1. Here({"units"}) = {} /\ view'.options = view.options
        BY <1>1, <1>5, <3>1, <3>2 DEF Here, Resumed
      <4> QED
        BY <1>3, <2>1, <4>1
    <3>3. CASE Of(ended, {"units"}) # {} /\ ok
      <4>1. PICK i \in Of(ended, {"units"}) : view'.options = ended[i].arg
        BY <1>1, <3>3 DEF Resumed
      <4>2. i \in Ending(u, ok) /\ calls[i].op = "units"
        BY <1>5, <4>1
      <4>3. i \in Here({"units"}) /\ ended[i].arg = calls[i].arg
        BY <4>2, EndedHere DEF Here
      <4> QED
        BY <1>3, <2>1, <4>1, <4>3
    <3>4. CASE Of(ended, {"units"}) # {} /\ ~ok
      BY <1>1, <3>4 DEF Resumed
    <3> QED
      BY <3>2, <3>3, <3>4
  <2> QED
    BY <2>4, <2>5
<1> QED
  BY <1>6, <1>7

LEMMA DeliverGetInv ==
  ASSUME IInv, NEW u \in DOMAIN gets, NEW ok \in BOOLEAN, DeliverGet(u, ok)
  PROVE  IInv'
<1>1. \E f, F : Delivery(u, ok, f, F)
  BY DeliverFacts
<1>2. PICK f : \E F : Delivery(u, ok, f, F)
  BY <1>1
<1>3. PICK F : Delivery(u, ok, f, F)
  BY <1>2
<1>4. Types' /\ CallsOK' /\ GetsOK'
  <2>1. Types'
    BY <1>3, DeliverTypes
  <2>2. CallsOK'
    BY <1>3, DeliverCalls
  <2> QED
    BY <1>3, <2>1, <2>2 DEF Delivery
<1>5. RowsOK' /\ LoadsAlone' /\ UnitsFiltered' /\ UnitsOffered'
  BY <1>3, DeliverRows, DeliverLoadsAlone, DeliverFiltered, DeliverOffered
<1>6. LoadingOK' /\ ActingOK' /\ SubmittingOK' /\ ActionsOK'
  BY <1>3, DeliverLoading, DeliverActing, DeliverSubmitting, DeliverActions
<1> QED
  BY <1>4, <1>5, <1>6 DEF IInv

-----------------------------------------------------------------------------
(* The invariant holds when the tab opens, and every step keeps it.         *)

LEMMA InitInv ==
  ASSUME Init
  PROVE  IInv
<1>1. PICK p \in FirstPages :
        /\ view = Blank(p) /\ calls = EntryCalls(p)
        /\ gets = [u \in EntryUrls(p) |-> Sent(token)]
  BY DEF Init
<1>2. p \in Pages
  BY FirstAssumption
<1>3. /\ db = [r \in Rows |-> IF r \in Leases THEN FirstStatus ELSE "active"]
      /\ expired = {} /\ issued = 1 /\ token = 1 /\ strays = {}
      /\ going = None /\ unloading = FALSE
  BY DEF Init, ApiInit
<1>4. EntryUrls(p) \in SUBSET Urls /\ EntryCalls(p) \in Seq(Call)
  BY <1>2, EntryFacts
<1>5. \A k \in DOMAIN calls : EntryUrls(p) # {} /\ calls[k] = EntryCall(p) /\ k = Len(calls)
  <2>1. /\ EntryUrls(p) # {} => calls = <<EntryCall(p)>>
        /\ EntryUrls(p) = {} => calls = <<>>
    BY <1>1, <1>2, EntryFacts
  <2> HIDE DEF EntryUrls, EntryCall
  <2>2. EntryUrls(p) # {} => Len(calls) = 1 /\ DOMAIN calls = {1} /\ calls[1] = EntryCall(p)
    BY <2>1
  <2>3. EntryUrls(p) = {} => DOMAIN calls = {}
    BY <2>1
  <2> QED
    BY <2>2, <2>3
<1>6. EntryUrls(p) # {} => Len(calls) \in DOMAIN calls /\ calls[Len(calls)] = EntryCall(p)
  <2>1. EntryUrls(p) # {} => calls = <<EntryCall(p)>>
    BY <1>1, <1>2, EntryFacts
  <2> HIDE DEF EntryUrls, EntryCall
  <2> QED
    BY <2>1
<1>7. Sent(token) \in Fetched /\ DOMAIN gets = EntryUrls(p)
  BY <1>1, <1>3 DEF Sent, Fetched
<1>8. Types
  <2>1. db \in [Rows -> Statuses]
    BY <1>3, FirstStatusAssumption DEF Statuses
  <2>2. issued \in 1..MaxSessions /\ expired \subseteq 1..issued /\ token \in 0..issued
    BY <1>3, SessionsAssumption
  <2>3. DOMAIN gets \subseteq Urls /\ gets \in [DOMAIN gets -> Fetched]
    BY <1>1, <1>4, <1>7
  <2>4. view \in View
    BY <1>1, <1>2, BlankFacts
  <2> QED
    BY <1>1, <1>3, <1>4, <2>1, <2>2, <2>3, <2>4 DEF Types
<1>9. CallsOK
  <2> SUFFICES ASSUME NEW k \in DOMAIN calls
               PROVE  CallOK(k) /\ SendOK(k) /\ WaitsOK(k) /\ PlaceOK(k)
    BY DEF CallsOK
  <2>1. calls[k] = EntryCall(p) /\ EntryUrls(p) # {} /\ EntryUrls(p) \subseteq DOMAIN gets
    BY <1>5, <1>7
  <2> QED
    BY <1>1, <1>2, <2>1, EntryCallFits
<1>10. GetsOK
  <2> SUFFICES ASSUME NEW u \in DOMAIN gets PROVE GetOK(u)
    BY DEF GetsOK
  <2>1. gets[u] = Sent(token)
    BY <1>1
  <2> QED
    BY <2>1 DEF GetOK, Sent
<1>11. PageParts
  <2>1. OnlyEntryHere(p)
    BY <1>5, <1>6 DEF OnlyEntryHere
  <2> QED
    BY <1>1, <1>2, <2>1, BlankPage DEF PageParts
<1>12. ActionsOK
  <2>1. EntryCall(p).op \notin RowOperations
    BY DEF EntryCall, Reading, RowOperations
  <2>2. RowCalls = {}
    BY <1>5, <2>1 DEF RowCalls
  <2> QED
    BY <2>2 DEF ActionsOK
<1> QED
  BY <1>8, <1>9, <1>10, <1>11, <1>12 DEF IInv, PageParts

LEMMA FunctionsInv ==
  ASSUME IInv, Functions
  PROVE  IInv'
<1>1. ASSUME NEW u \in DOMAIN gets, NEW ok \in BOOLEAN, DeliverGet(u, ok) PROVE IInv'
  BY <1>1, DeliverGetInv
<1>2. ASSUME NEW i \in DOMAIN calls, ActionAcknowledged(i) PROVE IInv'
  BY <1>2, ActionAcknowledgedInv
<1>3. ASSUME NEW i \in DOMAIN calls, ActionRejected(i) PROVE IInv'
  BY <1>3, ActionRejectedInv
<1>4. ASSUME NEW i \in DOMAIN calls, Saved(i) PROVE IInv'
  BY <1>4, SavedInv
<1>5. ASSUME NEW i \in DOMAIN calls, NotSaved(i) PROVE IInv'
  BY <1>5, NotSavedInv
<1>6. CASE ErrorTimer
  BY <1>6, ErrorTimerInv
<1>7. CASE Arrive
  BY <1>7, ArriveInv
<1>8. CASE Unload
  BY <1>8, UnloadInv
<1> QED
  BY <1>1, <1>2, <1>3, <1>4, <1>5, <1>6, <1>7, <1>8 DEF Functions

LEMMA ServerInv ==
  ASSUME IInv, Server
  PROVE  IInv'
<1>1. ASSUME NEW u \in DOMAIN gets, ServeGet(u), UNCHANGED tabVars PROVE IInv'
  BY <1>1, ServeGetInv
<1>2. CASE ServeStray /\ UNCHANGED tabVars
  BY <1>2, ServeStrayInv
<1>3. CASE Expire /\ UNCHANGED tabVars
  BY <1>3, ExpireInv
<1>4. ASSUME NEW i \in DOMAIN calls, ServeSend(i) PROVE IInv'
  BY <1>4, ServeSendInv
<1> QED
  BY <1>1, <1>2, <1>3, <1>4 DEF Server

LEMMA StutterInv ==
  ASSUME IInv, UNCHANGED vars
  PROVE  IInv'
<1>1. /\ UNCHANGED <<db, expired, issued, token, gets, strays>>
      /\ UNCHANGED <<view, calls, going, unloading>>
  BY DEF vars, apiVars, tabVars
<1>2. PageParts'
  BY <1>1, PagePartsSame DEF IInv, PageParts
<1>3. view' \in View /\ view'.page = view.page
  BY <1>1 DEF IInv, Types
<1> QED
  BY <1>1, <1>2, <1>3, ViewOnlyInv

\* What is known of every request, call and page is an invariant: it holds when the
\* tab opens, and each handler, effect and answer of the pages and of services/api.ts
\* keeps it.
THEOREM Invariance == Spec => []IInv
<1>1. Init => IInv
  BY InitInv
<1>2. IInv /\ [Next]_vars => IInv'
  BY UserInv, FunctionsInv, ServerInv, StutterInv DEF Next
<1> QED
  BY <1>1, <1>2, PTL DEF Spec

\* Every variable of the tab has its type, and no function call of a page awaits a
\* url that is not in inFlightRequests, or two kinds of requests at once.
THEOREM TypeCorrect == Spec => []TypeOK
<1>1. IInv => TypeOK
  <2> SUFFICES ASSUME IInv PROVE TypeOK
    OBVIOUS
  <2>1. DOMAIN db = Rows
    BY DEF IInv, Types
  <2>2. /\ expired \subseteq 1..issued /\ issued \in 1..MaxSessions /\ token \in 0..issued
        /\ going \in Pages \cup {None} /\ unloading \in BOOLEAN
    BY DEF IInv, Types
  <2>3. view.page \in Pages
    BY TypesFacts DEF IInv, View
  <2>4. \A u \in DOMAIN gets : gets[u].state \in {"sent", "ok", "unauthorized"}
    BY TypesFacts DEF IInv, Fetched
  <2>5. \A i \in DOMAIN calls :
          calls[i].waits \subseteq DOMAIN gets /\ (calls[i].send = None <=> calls[i].waits # {})
    BY DEF IInv, CallsOK, WaitsOK
  <2> QED
    BY <2>1, <2>2, <2>3, <2>4, <2>5 DEF TypeOK
<1> QED
  BY <1>1, Invariance, PTL

\* A spinner, a busy row or a disabled button always has a call of the page shown
\* that will end it: no order of answers, clicks and navigation leaves one behind.
THEOREM BusyControls == Spec => []SpinnersHaveCalls
<1>1. IInv => SpinnersHaveCalls
  <2> SUFFICES ASSUME IInv PROVE SpinnersHaveCalls
    OBVIOUS
  <2>1. view.loading /\ ~Page[view.page].spins => Here({"load", "archive", "restore"}) # {}
    BY DEF IInv, LoadingOK, ListReads
  <2>2. /\ view.acting # {} /\ view.page # "leases" => Here({"archive", "restore"}) # {}
        /\ view.page = "leases" => view.acting = {calls[i].arg : i \in Here({"activate", "end"})}
    BY DEF IInv, ActingOK, Archivals, LeaseActions
  <2>3. view.submitting /\ ~Page[view.page].swallows =>
          Here({view.page}) # {} \/ (view.saved /\ going # None)
    BY DEF IInv, SubmittingOK
  <2> QED
    BY <2>1, <2>2, <2>3 DEF SpinnersHaveCalls
<1> QED
  BY <1>1, Invariance, PTL

\* handleAction of a lease row: actionInFlight keeps a second click, on whatever
\* rendering of the row, from starting a second action.
THEOREM LeaseActionsExclude == Spec => []OneActionPerLease
<1>1. IInv => OneActionPerLease
  BY DEF IInv, ActingOK
<1> QED
  BY <1>1, Invariance, PTL

\* The units page lists what its heading names, whatever the order in which the
\* answers to its reads arrive, unless the user was in a rush.
THEOREM HeadingTrue == Spec => []UnitsUnderHeading
<1>1. IInv => UnitsUnderHeading
  BY DEF IInv, UnitsFiltered, UnitsUnderHeading, UnitsShown
<1> QED
  BY <1>1, Invariance, PTL

\* loadUnits of the lease form: the units offered are those of the property that is
\* selected, however the answers and failures of the form's reads interleave.
THEOREM LeaseFormConsistent == Spec => []LeaseFormSettles
<1>1. IInv => LeaseFormSettles
  <2> SUFFICES ASSUME IInv, view.page \in LeaseForms, ~view.rushed, Here({"units", "load"}) = {}
               PROVE  view.options \in {None, view.property}
    BY DEF LeaseFormSettles
  <2>1. Here({"units"}) = {}
    BY DEF Here
  <2> QED
    BY <2>1 DEF IInv, UnitsOffered
<1> QED
  BY <1>1, Invariance, PTL

-----------------------------------------------------------------------------
(* What a step may never do.                                                *)

\* No call is added that saves the form shown.
NoSave == \A k \in DOMAIN calls' \ DOMAIN calls : calls'[k].op # view.page

\* A step that saves nothing, ends no GET and leaves the session as it is.
Quiet == NoSave /\ DOMAIN gets \subseteq DOMAIN gets' /\ token' = token

LEMMA OtherNames ==
  ASSUME Types, NEW op \in RowOperations \cup {"load", "options"}
  PROVE  op # view.page
  BY TypesFacts, PageNames DEF RowOperations

LEMMA AppendSaves ==
  ASSUME Types, NEW old, old \in Seq(Call), Len(old) = Len(calls), NEW c \in Call,
         calls' = Append(old, c), c.op # view.page
  PROVE  NoSave
<1>1. Len(calls) \in Nat /\ DOMAIN calls = 1..Len(calls)
  BY TypesFacts
<1>2. calls' \in Seq(Call) /\ Len(calls') = Len(calls) + 1 /\ calls'[Len(calls) + 1] = c
  BY AppendProperties
<1>3. DOMAIN calls' = 1..(Len(calls) + 1)
  BY <1>2, LenProperties
<1>4. \A k \in DOMAIN calls' \ DOMAIN calls : k = Len(calls) + 1
  BY <1>1, <1>3
<1> QED
  BY <1>2, <1>4 DEF NoSave

LEMMA RemoveSaves ==
  ASSUME Types, NEW i \in DOMAIN calls, calls' = RemoveAt(calls, i)
  PROVE  NoSave
<1>1. Len(calls) \in Nat /\ DOMAIN calls = 1..Len(calls) /\ calls \in Seq(Call)
  BY TypesFacts
<1>2. calls' \in Seq(Call) /\ Len(calls') = Len(calls) - 1
  BY <1>1, RemoveAtSelects
<1>3. DOMAIN calls' = 1..(Len(calls) - 1)
  BY <1>2, LenProperties
<1> QED
  BY <1>1, <1>3 DEF NoSave

LEMMA EntrySaves ==
  ASSUME Types, NEW p \in Pages, NEW f, Entered(p, f)
  PROVE  NoSave
<1>1. EntryCall(p).op \in {"load", "options"}
  BY DEF EntryCall, Reading
<1>2. EntryCall(p).op # view.page
  BY <1>1, OtherNames
<1> QED
  BY <1>2 DEF NoSave, Entered, Entry

LEMMA FetchStays ==
  ASSUME NEW urls, gets' = Fetch(urls)
  PROVE  DOMAIN gets \subseteq DOMAIN gets'
  BY DEF Fetch

LEMMA MountSaves ==
  ASSUME Types, NEW p, Mount(p)
  PROVE  NoSave /\ DOMAIN gets \subseteq DOMAIN gets'
<1>1. p \in Pages /\ calls' = Unmounted(calls) \o EntryCalls(p) /\ gets' = Fetch(EntryUrls(p))
  BY DEF Mount
<1>2. PICK f : Entered(p, f)
  BY <1>1, MountEntered
<1> QED
  BY <1>1, <1>2, EntrySaves, FetchStays

LEMMA DocumentSaves ==
  ASSUME Types, NEW p \in Pages, FreshDocument(p)
  PROVE  NoSave /\ token' = token
<1>1. calls' = EntryCalls(p) /\ token' = token
  BY DEF FreshDocument
<1>2. PICK f : Entered(p, f)
  BY <1>1, DocumentEntered
<1> QED
  BY <1>1, <1>2, EntrySaves

LEMMA SameSaves ==
  ASSUME DOMAIN calls' = DOMAIN calls
  PROVE  NoSave
  BY DEF NoSave

LEMMA ReadingSaves ==
  ASSUME Types, NEW op \in PageReads, NEW arg \in Homes \cup {None}, NEW filter \in Filters,
         NEW urls \in SUBSET Urls, op # view.page,
         calls' = Append(calls, Reading(op, arg, filter, urls))
  PROVE  NoSave
<1> DEFINE c == Reading(op, arg, filter, urls)
<1>1. c \in Call /\ c.op = op
  BY DEF Reading, Call
<1> HIDE DEF c
<1>2. calls' = Append(calls, c) /\ calls \in Seq(Call)
  BY TypesFacts DEF c
<1> QED
  BY <1>1, <1>2, AppendSaves

LEMMA ActQuiet ==
  ASSUME Types, NEW op \in RowOperations, NEW row \in Rows, Act(op, row)
  PROVE  Quiet
<1> DEFINE new == RowCalls = {} /\ strays = {}
           c == [Sending(op, row, view.filter, token) EXCEPT !.alone = new]
           Joined(d) == IF d.op \in RowOperations THEN [d EXCEPT !.alone = FALSE] ELSE d
           old == [i \in DOMAIN calls |-> Joined(calls[i])]
<1>1. calls' = Append(old, c) /\ token' = token /\ gets' = gets
  BY DEF Act
<1>2. token \in Nat /\ view.filter \in Filters
  BY TypesFacts DEF Types, View
<1>3. [token |-> token, state |-> "sent"] \in Requests /\ new \in BOOLEAN
  BY <1>2 DEF Requests
<1> HIDE DEF new
<1>4. c \in Call /\ c.op = op
  BY <1>2, <1>3 DEF Sending, Call
<1>5. /\ Len(calls) \in Nat /\ DOMAIN calls = 1..Len(calls)
      /\ \A i \in DOMAIN calls : calls[i] \in Call
  BY TypesFacts
<1>6. \A i \in DOMAIN calls : Joined(calls[i]) \in Call
  BY <1>5 DEF Call
<1>7. old \in Seq(Call) /\ Len(old) = Len(calls)
  <2>1. old = [i \in 1..Len(calls) |-> Joined(calls[i])]
    BY <1>5
  <2>2. \A i \in 1..Len(calls) : Joined(calls[i]) \in Call
    BY <1>5, <1>6
  <2> HIDE DEF Joined, old
  <2> QED
    BY <1>5, <2>1, <2>2
<1> HIDE DEF c, old
<1>8. NoSave
  BY <1>1, <1>4, <1>7, OtherNames, AppendSaves
<1> QED
  BY <1>1, <1>8 DEF Quiet

LEMMA ToggleQuiet ==
  ASSUME Types, view.page \in {"tenants", "units"}, ToggleReloads(OtherFilter),
         token' = token
  PROVE  Quiet
<1> DEFINE urls == ListUrls(view.page, OtherFilter)
<1>1. calls' = Append(calls, Reading("load", None, OtherFilter, urls)) /\ gets' = Fetch(urls)
  BY DEF ToggleReloads
<1>2. OtherFilter \in Filters
  BY DEF OtherFilter, Filters
<1>3. urls \in SUBSET Urls
  BY <1>2, UrlFacts DEF ListUrls, Filters, Paths
<1>4. "load" # view.page /\ "load" \in PageReads
  BY OtherNames DEF PageReads
<1> HIDE DEF urls
<1>5. NoSave
  BY <1>1, <1>2, <1>3, <1>4, ReadingSaves
<1> QED
  BY <1>1, <1>5, FetchStays DEF Quiet

LEMMA ClearErrorQuiet ==
  ASSUME NEW timer, ClearError(timer)
  PROVE  Quiet
  BY DEF ClearError, Quiet, NoSave

LEMMA ListsQuiet ==
  ASSUME IInv, TenantsControls \/ UnitsControls \/ LeasesControls
  PROVE  Quiet
<1>1. Types /\ RowsOK
  BY DEF IInv
<1>2. ASSUME TenantsControls PROVE Quiet
  <2>1. view.page = "tenants"
    BY <1>2 DEF TenantsControls, TenantsShown
  <2>2. ASSUME NEW r \in view.rows, HandleTenant(RowOperation, r[1]) PROVE Quiet
    <3>1. r[1] \in Rows
      BY <1>1, <2>1 DEF RowsOK, ListPageNames, RowsOn, Rows
    <3> QED
      BY <1>1, <2>2, <3>1, RowOperationFacts, ActQuiet DEF HandleTenant
  <2> QED
    BY <1>1, <1>2, <2>1, <2>2, ToggleQuiet, ClearErrorQuiet DEF TenantsControls
<1>3. ASSUME UnitsControls PROVE Quiet
  <2>1. view.page = "units" /\ view.rows # None
    BY <1>3 DEF UnitsControls, UnitsShown
  <2>2. ASSUME NEW r \in view.rows, HandleUnit(RowOperation, r[1]) PROVE Quiet
    <3>1. r[1] \in Rows
      BY <1>1, <2>1, <2>2 DEF RowsOK, ListPageNames, RowsOn, Rows
    <3> QED
      BY <1>1, <2>2, <3>1, RowOperationFacts, ActQuiet DEF HandleUnit
  <2> QED
    BY <1>1, <1>3, <2>1, <2>2, ToggleQuiet DEF UnitsControls
<1>4. ASSUME LeasesControls PROVE Quiet
  <2>1. view.page = "leases"
    BY <1>4 DEF LeasesControls
  <2>2. ASSUME NEW op \in RowOperations, NEW l \in Rows, HandleAction(op, l) PROVE Quiet
    BY <1>1, <2>2, ActQuiet DEF HandleAction
  <2>3. ASSUME NEW l, ConfirmEndLease(l) PROVE Quiet
    BY <2>3 DEF ConfirmEndLease, Quiet, NoSave
  <2>4. CASE \E r \in view.rows : LeaseRow(r)
    <3>1. PICK r \in view.rows : LeaseRow(r)
      BY <2>4
    <3>2. r[1] \in Rows
      BY <1>1, <2>1, <3>1 DEF RowsOK, ListPageNames, RowsOn, Rows
    <3> QED
      BY <2>2, <2>3, <3>1, <3>2 DEF LeaseRow, RowOperations
  <2>5. CASE view.asking # None /\ EndLeaseDialog
    <3>1. view.asking \in Rows
      BY <1>1, <2>5 DEF Types, View, Rows
    <3> QED
      BY <2>2, <2>3, <2>5, <3>1 DEF EndLeaseDialog, RowOperations
  <2> QED
    BY <1>4, <2>4, <2>5 DEF LeasesControls
<1> QED
  BY <1>2, <1>3, <1>4

LEMMA ChooseQuiet ==
  ASSUME IInv, view.page \in LeaseForms, NEW h \in Homes \cup {None}, ChooseProperty(h)
  PROVE  Quiet
<1>1. Types /\ token' = token
  BY DEF IInv, ChooseProperty
<1>2. CASE h = None
  BY <1>1, <1>2 DEF ChooseProperty, Quiet, NoSave
<1>3. CASE h # None
  <2>1. /\ calls' = Append(calls, Reading("units", h, "active", UnitUrls(h)))
        /\ gets' = Fetch(UnitUrls(h)) /\ h \in Homes
    BY <1>3 DEF ChooseProperty
  <2>2. "units" # view.page /\ "units" \in PageReads /\ "active" \in Filters
        /\ UnitUrls(h) \in SUBSET Urls
    BY <2>1, UrlFacts DEF LeaseForms, PageReads, Filters
  <2>3. NoSave
    BY <1>1, <2>1, <2>2, ReadingSaves
  <2> QED
    BY <1>1, <2>1, <2>3, FetchStays DEF Quiet
<1> QED
  BY <1>2, <1>3

LEMMA ArriveQuiet ==
  ASSUME Types, Arrive
  PROVE  Quiet
<1>1. token' = token
  BY DEF Arrive
<1>2. \/ UNCHANGED <<view, calls, gets>>
      \/ Mount(going)
  BY DEF Arrive
<1> QED
  BY <1>1, <1>2, MountSaves, SameSaves DEF Quiet

LEMMA AcknowledgedQuiet ==
  ASSUME IInv, NEW i \in DOMAIN calls, ActionAcknowledged(i)
  PROVE  Quiet
<1> DEFINE c == calls[i]
           urls == ReloadUrls(c)
           rest == RemoveAt(calls, i)
           own == ~Shared(urls)
           reading == [c EXCEPT !.send = None, !.waits = urls, !.own = own]
<1>1. Types /\ token' = token /\ gets' = Fetch(urls) /\ c.op \in RowOperations
        /\ calls' = IF c.here THEN Append(rest, reading) ELSE rest
  BY DEF IInv, ActionAcknowledged
<1>2. c \in Call /\ calls \in Seq(Call) /\ Len(calls) \in Nat /\ DOMAIN calls = 1..Len(calls)
  BY <1>1, TypesFacts
<1>3. urls \in SUBSET Urls /\ own \in BOOLEAN
  <2>1. CallOK(i)
    BY DEF IInv, CallsOK
  <2> QED
    BY <1>1, <2>1, ReloadUrlsFacts
<1> HIDE DEF urls, own
<1>4. reading \in Call /\ reading.op = c.op
  BY <1>2, <1>3 DEF Call
<1>5. rest \in Seq(Call) /\ Len(rest) = Len(calls) - 1
  BY <1>2, RemoveAtSelects
<1>6. CASE ~c.here
  <2>1. NoSave
    BY <1>1, <1>6, RemoveSaves
  <2> QED
    BY <1>1, <2>1, FetchStays DEF Quiet
<1>7. CASE c.here
  <2> HIDE DEF rest, reading, c
  <2>1. calls' \in Seq(Call) /\ Len(calls') = (Len(calls) - 1) + 1
    BY <1>1, <1>4, <1>5, <1>7, AppendProperties
  <2>2. DOMAIN calls' = DOMAIN calls
    BY <1>2, <2>1, LenProperties
  <2> QED
    BY <1>1, <2>2, FetchStays, SameSaves DEF Quiet
<1> QED
  BY <1>6, <1>7

LEMMA ServerQuiet ==
  ASSUME Server
  PROVE  Quiet
<1>1. ASSUME NEW u \in DOMAIN gets, ServeGet(u), UNCHANGED tabVars PROVE Quiet
  BY <1>1 DEF ServeGet, tabVars, Quiet, NoSave
<1>2. CASE (ServeStray \/ Expire) /\ UNCHANGED tabVars
  BY <1>2 DEF ServeStray, Expire, tabVars, Quiet, NoSave
<1>3. ASSUME NEW i \in DOMAIN calls, ServeSend(i) PROVE Quiet
  <2>1. DOMAIN calls' = DOMAIN calls /\ token' = token /\ gets' = gets
    BY <1>3 DEF ServeSend, WithSend
  <2> QED
    BY <2>1, SameSaves DEF Quiet
<1> QED
  BY <1>1, <1>2, <1>3 DEF Server

\* The steps that are not quiet.
Loud ==
  \/ HandleSubmit
  \/ \E p \in Pages : FreshDocument(p)
  \/ SignOut
  \/ \E u \in DOMAIN gets, ok \in BOOLEAN : DeliverGet(u, ok)
  \/ \E i \in DOMAIN calls : ActionRejected(i) \/ Saved(i) \/ NotSaved(i)

LEMMA QuietOrLoud ==
  ASSUME IInv, [Next]_vars
  PROVE  Quiet \/ Loud
<1>1. Types
  BY DEF IInv
<1>2. CASE UNCHANGED vars
  BY <1>2, SameSaves DEF Quiet, vars, apiVars, tabVars
<1>3. CASE User
  <2>1. ASSUME NEW p \in Pages, Follow(p) PROVE Quiet
    BY <1>1, <2>1, MountSaves DEF Follow, Quiet
  <2>2. CASE Refresh
    <3> DEFINE p == IF token = 0 /\ view.page \notin AuthPages THEN "login" ELSE view.page
    <3>1. p \in Pages
      BY <1>1, PagesAssumption DEF Types, View
    <3>2. FreshDocument(p)
      BY <2>2 DEF Refresh
    <3> HIDE DEF p
    <3> QED
      BY <3>1, <3>2 DEF Loud
  <2>3. CASE TenantsControls \/ UnitsControls \/ LeasesControls
    BY <2>3, ListsQuiet
  <2>4. CASE LeaseForm
    <3>1. CASE ChooseUnit
      BY <3>1, SameSaves DEF ChooseUnit, Quiet
    <3>2. ASSUME NEW h \in Homes \cup {None}, ChooseProperty(h) PROVE Quiet
      BY <2>4, <3>2, ChooseQuiet DEF LeaseForm
    <3> QED
      BY <2>4, <3>1, <3>2 DEF LeaseForm, Loud
  <2> QED
    BY <1>3, <2>1, <2>2, <2>3, <2>4
       DEF User, Loud, PaymentForm, TenantForm, PropertyForm, UnitForm, ArchiveButton,
           LoginForm, RegisterForm
<1>4. CASE Functions
  <2>1. ASSUME NEW i \in DOMAIN calls, ActionAcknowledged(i) PROVE Quiet
    BY <2>1, AcknowledgedQuiet
  <2>2. CASE ErrorTimer
    <3>1. PICK others \in BOOLEAN : ClearError(others)
      BY <2>2 DEF ErrorTimer
    <3> QED
      BY <3>1, ClearErrorQuiet
  <2>3. CASE Arrive
    BY <1>1, <2>3, ArriveQuiet
  <2>4. CASE Unload
    <3>1. FreshDocument("login") /\ "login" \in Pages
      BY <2>4, PagesAssumption DEF Unload
    <3> QED
      BY <3>1 DEF Loud
  <2> QED
    BY <1>4, <2>1, <2>2, <2>3, <2>4 DEF Functions, Loud
<1>5. CASE Server
  BY <1>5, ServerQuiet
<1> QED
  BY <1>2, <1>3, <1>4, <1>5 DEF Next

NoSaveAgain ==
  \A i \in DOMAIN calls' :
    i \notin DOMAIN calls /\ view.saved /\ calls'[i].op = view.page => Page[view.page].early

LEMMA NoSaveFacts ==
  ASSUME NoSave
  PROVE  NoSaveAgain
  BY DEF NoSave, NoSaveAgain

LEMMA DeliverSaves ==
  ASSUME IInv, NEW u \in DOMAIN gets, NEW ok \in BOOLEAN, DeliverGet(u, ok)
  PROVE  NoSave
<1>1. \E f, F : Delivery(u, ok, f, F)
  BY DeliverFacts
<1>2. PICK f : \E F : Delivery(u, ok, f, F)
  BY <1>1
<1>3. PICK F : Delivery(u, ok, f, F)
  BY <1>2
<1>4. Types
  BY DEF IInv
<1> SUFFICES ASSUME NEW k \in DOMAIN calls' \ DOMAIN calls PROVE calls'[k].op # view.page
  BY DEF NoSave
<1>5. k \in DOMAIN calls' \ F
  BY <1>3 DEF Delivery
<1>6. calls'[k].op = "options" \/ (calls'[k].op = "units" /\ view.page = "editLease")
  BY <1>3, <1>5 DEF Delivery, NewRead
<1> QED
  BY <1>4, <1>6, OtherNames

LEMMA StepSaves ==
  ASSUME IInv, [Next]_vars
  PROVE  NoSaveAgain
<1>1. CASE Quiet
  BY <1>1, NoSaveFacts DEF Quiet
<1>2. CASE HandleSubmit
  <2>1. view.page \in SavingPages /\ ~view.submitting
    BY <1>2 DEF HandleSubmit, FormShown
  <2>2. ~Page[view.page].early => ~view.saved
    BY <2>1 DEF IInv, SubmittingOK
  <2> QED
    BY <2>2 DEF NoSaveAgain
<1>3. ASSUME NEW p \in Pages, FreshDocument(p) PROVE NoSaveAgain
  BY <1>3, DocumentSaves, NoSaveFacts DEF IInv
<1>4. CASE SignOut
  BY <1>4, MountSaves, NoSaveFacts DEF SignOut, IInv
<1>5. ASSUME NEW u \in DOMAIN gets, NEW ok \in BOOLEAN, DeliverGet(u, ok) PROVE NoSaveAgain
  BY <1>5, DeliverSaves, NoSaveFacts
<1>6. ASSUME NEW i \in DOMAIN calls, ActionRejected(i) \/ Saved(i) \/ NotSaved(i)
      PROVE  NoSaveAgain
  <2>1. calls' = RemoveAt(calls, i)
    BY <1>6 DEF ActionRejected, Saved, NotSaved
  <2> QED
    BY <2>1, RemoveSaves, NoSaveFacts DEF IInv
<1> QED
  BY <1>1, <1>2, <1>3, <1>4, <1>5, <1>6, QuietOrLoud DEF Loud

\* handleSubmit: once a request is acknowledged no step adds another one of the form
\* shown, unless its finally enables the button before the navigation.
THEOREM SavedForms == Spec => SavedOnce
<1>1. IInv /\ [Next]_vars => [NoSaveAgain]_vars
  BY StepSaves
<1> QED
  BY <1>1, Invariance, PTL DEF Spec, SavedOnce, NoSaveAgain

-----------------------------------------------------------------------------
(* Who forgets a session.                                                   *)

Forgets ==
  Valid(token) /\ token' = 0 =>
    \/ view.page = "home" /\ view'.page = "login"
    \/ \E u \in DOMAIN gets : gets[u].state = "unauthorized" /\ gets[u].token # token

LEMMA SessionStays ==
  ASSUME Types, token' = token
  PROVE  Forgets
<1>1. Valid(token) => token # 0
  BY TypesFacts DEF Types, Valid
<1> QED
  BY <1>1 DEF Forgets

\* A mutating request that is refused was not sent under a session that is valid.
LEMMA SettleForgets ==
  ASSUME IInv, NEW i \in DOMAIN calls, calls[i].send # None,
         NEW answer \in Answers(calls[i].send), Settle(calls[i].send, answer)
  PROVE  Forgets
<1>1. Types /\ SendOK(i)
  BY DEF IInv, CallsOK
<1>2. CASE answer = "unauthorized" /\ SendEndsSession(calls[i].send.token)
  <2>1. calls[i].send.state = "unauthorized"
    BY <1>2 DEF Answers
  <2>2. ~Valid(calls[i].send.token) /\ calls[i].send.token = token
    BY <1>1, <1>2, <2>1 DEF SendOK, SendEndsSession
  <2> QED
    BY <2>2 DEF Forgets
<1>3. CASE ~(answer = "unauthorized" /\ SendEndsSession(calls[i].send.token))
  <2>1. token' = token
    BY <1>3 DEF Settle
  <2> QED
    BY <1>1, <2>1, SessionStays
<1> QED
  BY <1>2, <1>3

LEMMA StepForgets ==
  ASSUME IInv, [Next]_vars
  PROVE  Forgets
<1>0. Types
  BY DEF IInv
<1>1. CASE Quiet
  BY <1>0, <1>1, SessionStays DEF Quiet
<1>2. CASE HandleSubmit
  BY <1>0, <1>2, SessionStays DEF HandleSubmit
<1>3. ASSUME NEW p \in Pages, FreshDocument(p) PROVE Forgets
  BY <1>0, <1>3, DocumentSaves, SessionStays
<1>4. CASE SignOut
  <2>1. view.page = "home" /\ view'.page = "login"
    BY <1>4 DEF SignOut, Mount, Blank
  <2> QED
    BY <2>1 DEF Forgets
<1>5. ASSUME NEW u \in DOMAIN gets, NEW ok \in BOOLEAN, DeliverGet(u, ok) PROVE Forgets
  <2>1. CASE gets[u].state = "unauthorized"
    <3>1. ~Valid(gets[u].token)
      BY <2>1 DEF IInv, GetsOK, GetOK
    <3>2. Valid(token) => gets[u].token # token
      BY <3>1
    <3> QED
      BY <2>1, <3>2 DEF Forgets
  <2>2. CASE gets[u].state # "unauthorized"
    <3>1. token' = token
      BY <1>5, <2>2 DEF DeliverGet
    <3> QED
      BY <1>0, <3>1, SessionStays
  <2> QED
    BY <2>1, <2>2
<1>6. ASSUME NEW i \in DOMAIN calls, ActionRejected(i) PROVE Forgets
  <2>1. PICK answer \in Answers(calls[i].send) : Settle(calls[i].send, answer)
    BY <1>6 DEF ActionRejected
  <2>2. calls[i].send # None
    BY <1>6 DEF ActionRejected
  <2> QED
    BY <2>1, <2>2, SettleForgets
<1>7. ASSUME NEW i \in DOMAIN calls, NotSaved(i) PROVE Forgets
  <2>1. PICK answer \in Answers(calls[i].send) : Settle(calls[i].send, answer)
    BY <1>7 DEF NotSaved
  <2>2. calls[i].send # None
    BY <1>7 DEF NotSaved
  <2> QED
    BY <2>1, <2>2, SettleForgets
<1>8. ASSUME NEW i \in DOMAIN calls, Saved(i) PROVE Forgets
  <2> DEFINE send == calls[i].send
  <2>1. /\ send # None /\ send.state = "ok"
        /\ token' = IF calls[i].op \in AuthPages THEN send.token ELSE token
    BY <1>8 DEF Saved
  <2>2. SendOK(i) /\ send \in Requests
    BY <1>0, <2>1, TypesFacts DEF IInv, CallsOK
  <2>3. CASE calls[i].op \in AuthPages
    <3>1. token' = send.token /\ send.token > 0 /\ send.token \in Nat
      BY <2>1, <2>2, <2>3 DEF SendOK, Requests
    <3> QED
      BY <3>1 DEF Forgets
  <2>4. CASE calls[i].op \notin AuthPages
    BY <1>0, <2>1, <2>4, SessionStays
  <2> QED
    BY <2>3, <2>4
<1> QED
  BY <1>1, <1>2, <1>3, <1>4, <1>5, <1>6, <1>7, <1>8, QuietOrLoud DEF Loud

\* "An old account's delayed failure must not sign out a newly active account"
\* (services/api.ts): no answer to a mutating request makes the tab forget a session
\* that is valid; the answer to a GET that was sent under an older session may.
THEOREM SessionKept == Spec => ValidSessionKept
<1>1. IInv /\ [Next]_vars => [Forgets]_vars
  BY StepForgets
<1> QED
  BY <1>1, Invariance, PTL DEF Spec, ValidSessionKept, Forgets

-----------------------------------------------------------------------------
(* What the reload after an action shows.                                   *)

ReloadShows ==
  \A i \in DOMAIN calls : ReloadEndsWell(i) =>
    LET c == calls[i]
    IN IF c.arg \in Leases THEN <<c.arg, Transition(c.op)[2]>> \in view'.rows
                           ELSE \A r \in view'.rows : r[1] # c.arg

\* An action whose reload ends well, with the answer to u.
EndsWell(i, u) ==
  /\ i \in RowCalls /\ calls[i].here /\ calls[i].own /\ calls[i].alone /\ ~view.rushed
  /\ u \in DOMAIN gets /\ calls[i].waits = {u} /\ gets[u].state = "ok" /\ u \notin DOMAIN gets'
  /\ view'.page = view.page /\ ~view'.loading /\ ~view'.error /\ ~view'.banner

LEMMA EndsWellBy ==
  ASSUME NEW i \in DOMAIN calls, ReloadEndsWell(i)
  PROVE  \E u \in DOMAIN gets : EndsWell(i, u)
  BY DEF ReloadEndsWell, EndsWell, RowCalls

LEMMA StaysShows ==
  ASSUME DOMAIN gets \subseteq DOMAIN gets'
  PROVE  ReloadShows
<1> SUFFICES ASSUME NEW i \in DOMAIN calls, ReloadEndsWell(i) PROVE FALSE
  BY DEF ReloadShows
<1> QED
  BY DEF ReloadEndsWell

\* What is known of it before the answer.
LEMMA EndsWellFacts ==
  ASSUME IInv, NEW i, NEW u, EndsWell(i, u)
  PROVE  /\ i \in DOMAIN calls /\ RowCalls = {i} /\ u \in calls[i].waits
         /\ Shows(calls[i], gets[u].body)
         /\ calls[i].arg \notin Leases => Shows(calls[i], calls[i].got)
         /\ \/ /\ calls[i].op \in Archivals /\ calls[i].arg \notin Leases
               /\ view.page \in {"tenants", "units"}
            \/ /\ calls[i].op \in LeaseActions /\ calls[i].arg \in Leases
               /\ view.page = "leases"
<1>1. i \in RowCalls /\ i \in DOMAIN calls /\ calls[i].op \in RowOperations
  BY DEF EndsWell, RowCalls
<1>2. CallOK(i) /\ WaitsOK(i) /\ PlaceOK(i) /\ AloneOK(i)
  BY <1>1 DEF IInv, CallsOK, ActionsOK, EndsWell
<1>3. calls[i].send = None
  BY <1>2 DEF WaitsOK, EndsWell
<1>4. calls[i].op \in Archivals \/ calls[i].op \in LeaseActions
  BY <1>1 DEF RowOperations, Archivals, LeaseActions
<1>5. calls[i].op \in Archivals => calls[i].arg \notin Leases /\ view.page \in {"tenants", "units"}
  BY <1>2, RowsAssumption DEF CallOK, PlaceOK, EndsWell
<1>6. calls[i].op \in LeaseActions => calls[i].arg \in Leases /\ view.page = "leases"
  BY <1>2 DEF CallOK, PlaceOK, EndsWell
<1> QED
  BY <1>1, <1>2, <1>3, <1>4, <1>5, <1>6 DEF AloneOK, EndsWell

\* It is not the end of a document: a list that is opened is loading.
LEMMA DocumentShows ==
  ASSUME IInv, NEW p \in Pages, FreshDocument(p)
  PROVE  ReloadShows
<1> SUFFICES ASSUME NEW i \in DOMAIN calls, ReloadEndsWell(i) PROVE FALSE
  BY DEF ReloadShows
<1>1. PICK u \in DOMAIN gets : EndsWell(i, u)
  BY EndsWellBy
<1>2. view.page \in {"tenants", "units", "leases"}
  BY <1>1, EndsWellFacts
<1>3. view'.page = p /\ view'.loading = Loads(p)
  BY DEF FreshDocument, Blank
<1>4. p = view.page /\ ~Loads(p)
  BY <1>1, <1>3 DEF EndsWell
<1> QED
  BY <1>2, <1>4, PageFacts DEF Loads

\* The answer to u ends it, without an error.
LEMMA DeliverEndsWell ==
  ASSUME IInv, NEW u \in DOMAIN gets, NEW ok \in BOOLEAN, NEW f, NEW F,
         Delivery(u, ok, f, F), NEW i, NEW w, EndsWell(i, w)
  PROVE  w = u /\ ok /\ i \in Ending(u, ok)
<1>1. w = u
  BY DEF Delivery, EndsWell
<1>2. i \in Ending(u, ok)
  BY <1>1, EndsWellFacts DEF Ending, Awaiting, EndsWell
<1>3. Resumed(view, Ended(u, ok), ok, view')
  BY DEF Delivery
<1>4. /\ ~view'.error /\ ~view'.banner
  BY DEF EndsWell
<1>5. CASE calls[i].op \in Archivals
  <2>1. view.page \in {"tenants", "units"}
    BY <1>5, EndsWellFacts DEF Archivals, LeaseActions
  <2>2. ~Page[view.page].spins
    BY <2>1, PageFacts, PageNames
  <2>3. Of(Ended(u, ok), ListReads) # {}
    BY <1>2, <1>5, EndedFacts DEF ListReads, Archivals
  <2> QED
    BY <1>1, <1>2, <1>3, <1>4, <2>2, <2>3 DEF Resumed, LoadsEnd
<1>6. CASE calls[i].op \in LeaseActions
  <2>1. Of(Ended(u, ok), LeaseActions) # {}
    BY <1>2, <1>6, EndedFacts
  <2> QED
    BY <1>1, <1>2, <1>3, <1>4, <2>1 DEF Resumed
<1> QED
  BY <1>5, <1>6, EndsWellFacts

LEMMA DeliverShows ==
  ASSUME IInv, NEW u \in DOMAIN gets, NEW ok \in BOOLEAN, NEW f, NEW F, Delivery(u, ok, f, F)
  PROVE  ReloadShows
<1> SUFFICES ASSUME NEW i \in DOMAIN calls, ReloadEndsWell(i) PROVE Shows(calls[i], view'.rows)
  BY DEF ReloadShows, Shows
<1>1. PICK w \in DOMAIN gets : EndsWell(i, w)
  BY EndsWellBy
<1>2. ok /\ i \in Ending(u, ok) /\ w = u
  BY <1>1, DeliverEndsWell
<1>3. /\ RowCalls = {i} /\ u \in calls[i].waits
      /\ Shows(calls[i], gets[u].body)
      /\ calls[i].arg \notin Leases => Shows(calls[i], calls[i].got)
  BY <1>1, <1>2, EndsWellFacts
<1>4. Resumed(view, Ended(u, ok), ok, view')
  BY DEF Delivery
<1>5. \A j \in Ending(u, ok) : calls[j].op \in RowOperations => j = i
  BY <1>3, EndedFacts DEF RowCalls
<1>6. view'.rows = Told(u)[i].got
  <2>1. CASE calls[i].op \in Archivals
    <3>1. view.page \in {"tenants", "units"}
      BY <1>1, <2>1, EndsWellFacts DEF Archivals, LeaseActions
    <3>2. ~Page[view.page].spins
      BY <3>1, PageFacts, PageNames
    <3>3. Of(Ended(u, ok), LeaseActions) = {}
      BY <1>5, <2>1, EndedFacts DEF LeaseActions, Archivals, RowOperations
    <3>4. Of(Ended(u, ok), ListReads) # {}
      <4>1. Of(Ended(u, ok), ListReads) = {j \in Ending(u, ok) : calls[j].op \in ListReads}
        BY EndedFacts
      <4>2. calls[i].op \in ListReads
        BY <2>1 DEF ListReads, Archivals
      <4> QED
        BY <1>2, <4>1, <4>2
    <3>5. PICK j \in Of(Ended(u, ok), ListReads) : view'.rows = Ended(u, ok)[j].got
      BY <1>2, <1>4, <3>3, <3>4 DEF Resumed, LoadsEnd
    <3>6. j \in Ending(u, ok) /\ calls[j].op \in ListReads
      BY <3>5, EndedFacts
    <3>7. j = i
      <4>1. CASE calls[j].op = "load"
        <5>1. j \in Here({"load"})
          BY <3>6, <4>1, EndedFacts DEF Here
        <5>2. ~view.rushed /\ calls[i].here
          BY <1>1 DEF EndsWell
        <5> QED
          BY <3>1, <5>1, <5>2 DEF IInv, LoadsAlone
      <4>2. CASE calls[j].op # "load"
        BY <1>5, <3>6, <4>2 DEF ListReads, RowOperations
      <4> QED
        BY <4>1, <4>2
    <3> QED
      BY <1>2, <3>5, <3>7, EndedFacts
  <2>2. CASE calls[i].op \in LeaseActions
    <3>1. Of(Ended(u, ok), LeaseActions) # {}
      <4>1. Of(Ended(u, ok), LeaseActions) = {j \in Ending(u, ok) : calls[j].op \in LeaseActions}
        BY EndedFacts
      <4> QED
        BY <1>2, <2>2, <4>1
    <3>2. PICK j \in Of(Ended(u, ok), LeaseActions) : view'.rows = Ended(u, ok)[j].got
      BY <1>2, <1>4, <3>1 DEF Resumed
    <3>3. j \in Ending(u, ok) /\ calls[j].op \in LeaseActions
      BY <3>2, EndedFacts
    <3>4. j = i
      BY <1>5, <3>3 DEF LeaseActions, RowOperations
    <3> QED
      BY <1>2, <3>2, <3>4, EndedFacts
  <2> QED
    BY <1>1, <2>1, <2>2, EndsWellFacts
<1>7. Told(u)[i].got = calls[i].got \cup gets[u].body
  <2>1. Tells(u, calls[i], Told(u)[i])
    BY ToldFacts
  <2> QED
    BY <1>3, <2>1 DEF Tells
<1> QED
  BY <1>3, <1>6, <1>7 DEF Shows

LEMMA StepShows ==
  ASSUME IInv, [Next]_vars
  PROVE  ReloadShows
<1>1. CASE Quiet
  BY <1>1, StaysShows DEF Quiet
<1>2. CASE HandleSubmit
  BY <1>2, StaysShows DEF HandleSubmit
<1>3. ASSUME NEW p \in Pages, FreshDocument(p) PROVE ReloadShows
  BY <1>3, DocumentShows
<1>4. CASE SignOut
  BY <1>4, MountSaves, StaysShows DEF SignOut, IInv
<1>5. ASSUME NEW u \in DOMAIN gets, NEW ok \in BOOLEAN, DeliverGet(u, ok) PROVE ReloadShows
  <2>1. \E f, F : Delivery(u, ok, f, F)
    BY <1>5, DeliverFacts
  <2>2. PICK f : \E F : Delivery(u, ok, f, F)
    BY <2>1
  <2>3. PICK F : Delivery(u, ok, f, F)
    BY <2>2
  <2> QED
    BY <2>3, DeliverShows
<1>6. ASSUME NEW i \in DOMAIN calls, ActionRejected(i) \/ Saved(i) \/ NotSaved(i)
      PROVE  ReloadShows
  BY <1>6, StaysShows DEF ActionRejected, Saved, NotSaved
<1> QED
  BY <1>1, <1>2, <1>3, <1>4, <1>5, <1>6, QuietOrLoud DEF Loud

\* loadTenants, loadUnits and reloadLeases after an acknowledged action: if they sent
\* the read themselves and no other action interfered, the rows set by the answer
\* show what the action did.
THEOREM ReloadsShow == Spec => ReloadShowsAction
<1>1. IInv /\ [Next]_vars => [ReloadShows]_vars
  BY StepShows
<1> QED
  BY <1>1, Invariance, PTL DEF Spec, ReloadShowsAction, ReloadShows
=============================================================================
