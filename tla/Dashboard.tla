------------------------------ MODULE Dashboard ------------------------------
(***************************************************************************)
(* GET /api/finance/dashboard over the tables of Backend.                  *)
(*                                                                         *)
(* getDashboardMetrics hands its queries to Promise.all without a          *)
(* transaction: the pool runs them in any order, and the statements of     *)
(* other requests fall in between.  The payment sum is left out; it meets  *)
(* none of the other numbers.                                              *)
(***************************************************************************)
EXTENDS Backend, Integers

\* A table has finitely many rows.
ASSUME RowsAssumption == IsFiniteSet(Units)

VARIABLE
  dash  \* the landlord being served, what each query has returned (None before
        \* it has), and whether the tables stood still since the first query

dashVars == <<vars, dash>>

NoDashboard ==
  [user |-> None, total |-> None, active |-> None, occupied |-> None, quiet |-> TRUE]

DashInit == Init /\ dash = NoDashboard

\* Requests being served, the dashboard's among them.
InFlight ==
  Cardinality({w \in Workers : pc[w] # "idle"}) + (IF dash.user = None THEN 0 ELSE 1)

\* A bound: the dashboard takes the place of one of the workers.
PlaceLeft == InFlight < Cardinality(Workers)

-----------------------------------------------------------------------------
(* The queries.                                                             *)

\* unit.count: archived units, and units of archived properties, count too.
UnitsOf(u) == {n \in Units : PropertyOwner[home[n]] = u}

\* Mutant: the leases of every landlord.
ActiveLeasesOfAll(u) == {l \in DOMAIN lease : lease[l].status = "ACTIVE"}

\* lease.count, by the property written in the lease.
ActiveLeasesOf(u) ==
  {l \in DOMAIN lease : lease[l].status = "ACTIVE" /\ PropertyOwner[lease[l].property] = u}

\* lease.groupBy unitId under the same condition, one group per unit.
OccupiedUnitsOf(u) ==
  {lease[l].unit : l \in {k \in DOMAIN lease :
     lease[k].status = "ACTIVE" /\ PropertyOwner[lease[k].property] = u}}

Unread == dash.total = None /\ dash.active = None /\ dash.occupied = None
Complete == dash.total # None /\ dash.active # None /\ dash.occupied # None

StartDashboard(u) ==
  /\ dash.user = None
  /\ PlaceLeft
  /\ dash' = [NoDashboard EXCEPT !.user = u]

CountUnits ==
  /\ dash.user # None /\ dash.total = None
  /\ dash' = [dash EXCEPT !.total = Cardinality(UnitsOf(dash.user))]

CountActiveLeases ==
  /\ dash.user # None /\ dash.active = None
  /\ dash' = [dash EXCEPT !.active = Cardinality(ActiveLeasesOf(dash.user))]

GroupByUnit ==
  /\ dash.user # None /\ dash.occupied = None
  /\ dash' = [dash EXCEPT !.occupied = Cardinality(OccupiedUnitsOf(dash.user))]

\* The numbers of the answer: the rate in hundredths of a percent, rounded half
\* up, and 0 without units.
Metrics ==
  [occupiedUnits |-> dash.occupied,
   vacantUnits |-> dash.total - dash.occupied,
   occupancyRate |-> IF dash.total > 0
                       THEN (20000 * dash.occupied + dash.total) \div (2 * dash.total)
                       ELSE 0,
   activeLeases |-> dash.active]

\* 200 when every query has returned, 500 as soon as one of them fails.
Answer == dash.user # None /\ dash' = NoDashboard

DashStep ==
  /\ \/ \E u \in Users : StartDashboard(u)
     \/ CountUnits \/ CountActiveLeases \/ GroupByUnit
     \/ Answer
  /\ UNCHANGED vars

\* A request of another kind proceeds; the dashboard has read some of the
\* tables, and they change under it.
OtherStep ==
  /\ \E w \in Workers : (PlaceLeft /\ ReceiveRequest(w)) \/ Step(w) \/ Fail(w)
  /\ dash' = [dash EXCEPT !.quiet = @ /\ (Unread \/ UNCHANGED tables)]

DashNext == DashStep \/ OtherStep

DashSpec == DashInit /\ [][DashNext]_dashVars

-----------------------------------------------------------------------------
(* Properties.                                                              *)

\* The dashboard never shows a negative number of vacant units, nor a rate
\* above 100 percent, although units are counted at one moment and occupied ones at
\* another, while leases are rewritten and units move between properties.
OccupiedWithinTotal ==
  Complete => Metrics.vacantUnits >= 0 /\ Metrics.occupancyRate <= 10000

\* When the tables stood still between its queries, the dashboard shows as many
\* active leases as occupied units: the two are counted by different queries.
QuietDashboardAgrees ==
  Complete /\ dash.quiet => Metrics.activeLeases = Metrics.occupiedUnits
=============================================================================
