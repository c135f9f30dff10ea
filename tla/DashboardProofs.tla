--------------------------- MODULE DashboardProofs ---------------------------
(***************************************************************************)
(* Proofs about Dashboard, for any number of landlords, rows and requests. *)
(*                                                                         *)
(* The queries of one dashboard see the tables at different moments, so    *)
(* what one of them returned says nothing exact about what the next one    *)
(* will.  What carries over is that the units of a landlord stay his: a    *)
(* count of them, taken at any moment, bounds the occupied ones of all.    *)
(***************************************************************************)
EXTENDS Dashboard, BackendProofs, FiniteSetTheorems

-----------------------------------------------------------------------------
(* The tables under the dashboard.                                          *)

TablesInv == Inv /\ OneActivePerUnit

LEMMA DashStepIsNext == [DashNext]_dashVars => [Next]_vars
  BY DEF DashNext, DashStep, OtherStep, Next, dashVars

LEMMA TablesStep == TablesInv /\ [Next]_vars => TablesInv'
  BY NextInv, OneActiveStep DEF TablesInv

\* A unit moves between properties of one landlord only.
LEMMA UnitsStay ==
  ASSUME Inv, [Next]_vars
  PROVE  LandlordsSame
<1>1. ASSUME NEW w \in Workers, MoveUnit(w) PROVE LandlordsSame
  <2>1. /\ req[w].id \in Units /\ req[w].property \in Properties
        /\ PropertyOwner[req[w].property] = PropertyOwner[home[req[w].id]]
    BY <1>1 DEF Inv, HandlerOK, PortfolioHandlerOK, MoveUnit
  <2>2. \A n \in Units : home'[n] = IF n = req[w].id THEN req[w].property ELSE home[n]
    BY <1>1 DEF MoveUnit, Inv, TypeOK
  <2> QED
    BY <2>1, <2>2 DEF LandlordsSame
<1>2. ASSUME NEW w \in Workers, ReceiveRequest(w) \/ WriteAudit(w) \/ Fail(w)
      PROVE  home' = home
  BY <1>2 DEF ReceiveRequest, ReceiveLeaseRequest, ReceiveCreate, ReceiveUpdate,
     ReceiveLifecycle, ReceivePortfolioRequest, ReceiveMove, ReceiveArchival, Receive,
     WriteAudit, Fail, tables
<1>3. ASSUME NEW w \in Workers, LeaseStep(w)
      PROVE  home' = home
  BY <1>3 DEF LeaseStep, LookupLease, LoadUpdate, LoadForLifecycle, CheckProperty, CheckUnit,
     CheckTenant, CheckConflict, Check, CreateLease, UpdateLease, ActivateLease,
     TerminateLease, RestoreLease, EndLease, WriteLease, Written, tables
<1>4. ASSUME NEW w \in Workers, PortfolioStep(w), ~MoveUnit(w)
      PROVE  home' = home
  BY <1>4 DEF PortfolioStep, LoadUnit, CheckDestination, CheckUnitLeases, LoadTenant,
     CheckTenantLeases, LoadProperty, ArchiveRow, RestoreRow, Check, tables
<1>5. home' = home => LandlordsSame
  BY DEF LandlordsSame
<1> QED
  BY <1>1, <1>2, <1>3, <1>4, <1>5 DEF Next, Step, vars

LEMMA UnitsOfSame ==
  ASSUME LandlordsSame, dash'.user = dash.user
  PROVE  UnitsOf(dash.user)' = UnitsOf(dash.user)
  BY DEF LandlordsSame, UnitsOf

LEMMA QueriesSame ==
  ASSUME UNCHANGED <<lease, home>>, dash'.user = dash.user
  PROVE  /\ UnitsOf(dash.user)' = UnitsOf(dash.user)
         /\ ActiveLeasesOf(dash.user)' = ActiveLeasesOf(dash.user)
         /\ OccupiedUnitsOf(dash.user)' = OccupiedUnitsOf(dash.user)
  BY DEF UnitsOf, ActiveLeasesOf, OccupiedUnitsOf

-----------------------------------------------------------------------------
(* The numbers.                                                             *)

\* The units of a landlord, and those under a lease of his, can be counted.
LEMMA OccupiedAreUnits ==
  ASSUME TablesInv, NEW u
  PROVE  /\ IsFiniteSet(UnitsOf(u)) /\ Cardinality(UnitsOf(u)) \in Nat
         /\ IsFiniteSet(OccupiedUnitsOf(u)) /\ Cardinality(OccupiedUnitsOf(u)) \in Nat
         /\ Cardinality(OccupiedUnitsOf(u)) <= Cardinality(UnitsOf(u))
<1>1. \A l \in DOMAIN lease : lease[l].unit \in Units
  BY StoredRowsGood DEF TablesInv, GoodRow, LeaseRow
<1>2. OccupiedUnitsOf(u) \subseteq UnitsOf(u)
  BY <1>1 DEF OccupiedUnitsOf, UnitsOf, TablesInv, Inv, OneLandlordPerLease
<1>3. UnitsOf(u) \in SUBSET Units
  BY DEF UnitsOf
<1>4. IsFiniteSet(UnitsOf(u))
  BY <1>3, FS_Subset, RowsAssumption
<1> HIDE DEF OccupiedUnitsOf, UnitsOf
<1>5. /\ IsFiniteSet(OccupiedUnitsOf(u))
      /\ Cardinality(OccupiedUnitsOf(u)) <= Cardinality(UnitsOf(u))
  BY <1>2, <1>4, FS_Subset
<1> QED
  BY <1>4, <1>5, FS_CardinalityType

\* One ACTIVE lease per unit: leases and their units count the same.
LEMMA LeasesAndUnitsAgree ==
  ASSUME TablesInv, NEW u
  PROVE  Cardinality(ActiveLeasesOf(u)) = Cardinality(OccupiedUnitsOf(u))
<1> DEFINE L == ActiveLeasesOf(u)
           N == OccupiedUnitsOf(u)
           f == [l \in L |-> lease[l].unit]
<1>1. N = {lease[l].unit : l \in L}
  BY DEF ActiveLeasesOf, OccupiedUnitsOf
<1>2. \A l, k \in L : lease[l].unit = lease[k].unit => l = k
  BY DEF TablesInv, OneActivePerUnit, ActiveLeasesOf
<1>3. IsFiniteSet(N)
  BY OccupiedAreUnits
<1> HIDE DEF L, N
<1>4. f \in Injection(L, N)
  BY <1>1, <1>2 DEF Injection, IsInjective
<1>5. f \in Surjection(L, N)
  BY <1>1 DEF Surjection
<1> HIDE DEF f
<1>6. Cardinality(L) = Cardinality(N)
  BY <1>3, <1>4, <1>5, FS_Injection
<1> QED
  BY <1>6 DEF L, N

-----------------------------------------------------------------------------
(* The inductive invariant: what each query has returned.                   *)

CountOK == dash.total # None => dash.total = Cardinality(UnitsOf(dash.user))

GroupOK ==
  dash.occupied # None =>
    /\ dash.occupied \in Nat
    /\ dash.occupied <= Cardinality(UnitsOf(dash.user))

\* While nothing changes, the numbers are those of the tables as they are.
QuietOK ==
  dash.quiet =>
    /\ dash.active # None => dash.active = Cardinality(ActiveLeasesOf(dash.user))
    /\ dash.occupied # None => dash.occupied = Cardinality(OccupiedUnitsOf(dash.user))

DashType ==
  \E u, a, b, c, q :
    dash = [user |-> u, total |-> a, active |-> b, occupied |-> c, quiet |-> q]

DashInv ==
  /\ TablesInv
  /\ DashType
  /\ CountOK
  /\ GroupOK
  /\ QuietOK

LEMMA DashInitInv == DashInit => DashInv
<1> SUFFICES ASSUME DashInit PROVE DashInv
  OBVIOUS
<1>1. TablesInv
  BY InitInv DEF DashInit, TablesInv, Init, OneActivePerUnit
<1>2. DashType /\ CountOK /\ GroupOK /\ QuietOK
  BY DEF DashInit, NoDashboard, DashType, CountOK, GroupOK, QuietOK
<1> QED
  BY <1>1, <1>2 DEF DashInv

\* A query of the dashboard, or the start or the end of it.
LEMMA DashStepInv ==
  ASSUME DashInv, DashStep
  PROVE  DashInv'
<1>1. UNCHANGED <<lease, home>> /\ TablesInv
  BY DEF DashStep, vars, DashInv
<1>2. TablesInv'
  BY TablesStep DEF DashStep, DashInv
<1>3. CASE (\E v \in Users : StartDashboard(v)) \/ Answer
  <2>1. DashType' /\ CountOK' /\ GroupOK' /\ QuietOK'
    BY <1>3 DEF StartDashboard, Answer, NoDashboard, DashType, CountOK, GroupOK, QuietOK
  <2> QED
    BY <1>2, <2>1 DEF DashInv
<1>4. CASE CountUnits \/ CountActiveLeases \/ GroupByUnit
  <2> DEFINE a == Cardinality(UnitsOf(dash.user))
             b == Cardinality(ActiveLeasesOf(dash.user))
             c == Cardinality(OccupiedUnitsOf(dash.user))
  <2>1. c \in Nat /\ c <= a
    BY <1>1, OccupiedAreUnits
  <2>2. \/ dash' = [dash EXCEPT !.total = a]
        \/ dash' = [dash EXCEPT !.active = b]
        \/ dash' = [dash EXCEPT !.occupied = c]
    BY <1>4 DEF CountUnits, CountActiveLeases, GroupByUnit
  <2>3. dash'.user = dash.user
    BY <2>2 DEF DashInv, DashType
  <2>4. /\ Cardinality(UnitsOf(dash.user))' = a
        /\ Cardinality(ActiveLeasesOf(dash.user))' = b
        /\ Cardinality(OccupiedUnitsOf(dash.user))' = c
    BY <1>1, <2>3, QueriesSame
  <2>5. /\ dash.total # None => dash.total = a
        /\ dash.occupied # None => dash.occupied \in Nat /\ dash.occupied <= a
        /\ dash.quiet =>
             /\ dash.active # None => dash.active = b
             /\ dash.occupied # None => dash.occupied = c
    BY DEF DashInv, CountOK, GroupOK, QuietOK
  <2> HIDE DEF a, b, c
  <2>6. DashType'
    BY <2>2 DEF DashInv, DashType
  <2>7. CountOK' /\ GroupOK' /\ QuietOK'
    BY <2>1, <2>2, <2>4, <2>5 DEF DashInv, DashType, CountOK, GroupOK, QuietOK
  <2> QED
    BY <1>2, <2>6, <2>7 DEF DashInv
<1> QED
  BY <1>3, <1>4 DEF DashStep

\* Another request changes the tables between two queries.
LEMMA OtherStepInv ==
  ASSUME DashInv, OtherStep
  PROVE  DashInv'
<1>1. Inv /\ [Next]_vars
  BY DashStepIsNext DEF DashInv, TablesInv, DashNext
<1>2. TablesInv' /\ LandlordsSame
  BY <1>1, TablesStep, UnitsStay DEF DashInv
<1> DEFINE q == dash.quiet /\ (Unread \/ UNCHANGED tables)
<1>3. dash' = [dash EXCEPT !.quiet = q]
  BY DEF OtherStep
<1>4. /\ dash'.user = dash.user /\ dash'.total = dash.total
      /\ dash'.active = dash.active /\ dash'.occupied = dash.occupied
      /\ dash'.quiet = q /\ DashType'
  BY <1>3 DEF DashInv, DashType
<1>5. CountOK' /\ GroupOK'
  BY <1>2, <1>4, UnitsOfSame DEF DashInv, CountOK, GroupOK
<1>6. QuietOK'
  <2>1. CASE Unread
    BY <1>4, <2>1 DEF QuietOK, Unread
  <2>2. CASE UNCHANGED tables
    <3>1. /\ ActiveLeasesOf(dash.user)' = ActiveLeasesOf(dash.user)
          /\ OccupiedUnitsOf(dash.user)' = OccupiedUnitsOf(dash.user)
      BY <1>4, <2>2, QueriesSame DEF tables
    <3>2. q => dash.quiet
      OBVIOUS
    <3> QED
      BY <1>4, <3>1, <3>2 DEF DashInv, QuietOK
  <2>3. CASE ~q
    BY <1>4, <2>3 DEF QuietOK
  <2> QED
    BY <2>1, <2>2, <2>3
<1> QED
  BY <1>2, <1>4, <1>5, <1>6 DEF DashInv

LEMMA DashNextInv == DashInv /\ [DashNext]_dashVars => DashInv'
<1> SUFFICES ASSUME DashInv, [DashNext]_dashVars PROVE DashInv'
  OBVIOUS
<1>1. CASE UNCHANGED dashVars
  <2>1. TablesInv'
    BY DashStepIsNext, TablesStep DEF DashInv
  <2>2. UNCHANGED <<lease, home, dash>>
    BY <1>1 DEF dashVars, vars
  <2> QED
    BY <2>1, <2>2, QueriesSame DEF DashInv, DashType, CountOK, GroupOK, QuietOK
<1> QED
  BY <1>1, DashStepInv, OtherStepInv DEF DashNext

LEMMA DashSpecInv == DashSpec => []DashInv
  BY DashInitInv, DashNextInv, PTL DEF DashSpec

-----------------------------------------------------------------------------
(* The results.                                                             *)

\* The rate shown for c of a units.
RateOf(c, a) == (20000 * c + a) \div (2 * a)

\* The rounded rate of a part is a rate.
LEMMA RateBounded ==
  ASSUME NEW c \in Nat, NEW a \in Nat, c <= a, a > 0
  PROVE  RateOf(c, a) \in Nat /\ RateOf(c, a) <= 10000
<1> DEFINE n == 20000 * c + a
           d == 2 * a
           r == n \div d
<1>1. n \in Nat /\ d \in Nat /\ d > 0 /\ n < 10001 * d
  OBVIOUS
<1> HIDE DEF n, d
<1>2. r \in Int /\ d * r <= n /\ n < d * (r + 1)
  BY <1>1
<1> HIDE DEF r
<1>3. r >= 0
  BY <1>1, <1>2
<1>4. r <= 10000
  BY <1>1, <1>2
<1> QED
  BY <1>2, <1>3, <1>4 DEF n, d, r, RateOf

\* The dashboard never shows fewer units than occupied ones, whatever happens
\* between its queries.
THEOREM VacancyNeverNegative == DashSpec => []OccupiedWithinTotal
<1>1. DashInv => OccupiedWithinTotal
  <2> SUFFICES ASSUME DashInv, Complete
               PROVE  Metrics.vacantUnits >= 0 /\ Metrics.occupancyRate <= 10000
    BY DEF OccupiedWithinTotal
  <2> DEFINE a == dash.total
             c == dash.occupied
  <2>1. c \in Nat /\ a \in Nat /\ c <= a
    BY OccupiedAreUnits DEF DashInv, Complete, CountOK, GroupOK
  <2>2. /\ Metrics.vacantUnits = a - c
        /\ Metrics.occupancyRate = IF a > 0 THEN RateOf(c, a) ELSE 0
    BY DEF Metrics, RateOf
  <2> HIDE DEF a, c
  <2>3. ASSUME a > 0 PROVE RateOf(c, a) \in Nat /\ RateOf(c, a) <= 10000
    BY <2>1, <2>3, RateBounded
  <2>4. CASE a > 0
    BY <2>1, <2>2, <2>3, <2>4
  <2>5. CASE ~(a > 0)
    BY <2>1, <2>2, <2>5
  <2> QED
    BY <2>4, <2>5
<1> QED
  BY <1>1, DashSpecInv, PTL

\* Two queries that count the same thing differently agree when the tables
\* stand still between them.
THEOREM QuietCountsAgree == DashSpec => []QuietDashboardAgrees
<1>1. DashInv => QuietDashboardAgrees
  <2> SUFFICES ASSUME DashInv, Complete, dash.quiet
               PROVE  dash.active = dash.occupied
    BY DEF QuietDashboardAgrees, Metrics
  <2> QED
    BY LeasesAndUnitsAgree DEF DashInv, QuietOK, Complete
<1> QED
  BY <1>1, DashSpecInv, PTL
=============================================================================
