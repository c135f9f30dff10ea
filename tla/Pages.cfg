\* One tab with every page: two tenants, a unit and a lease, two sessions.
SPECIFICATION Spec
SYMMETRY RowSymmetry
CONSTANTS
  t1 = t1
  t2 = t2
  n1 = n1
  l1 = l1
  h1 = h1
  h2 = h2
  None = None
  Tenants = {t1, t2}
  Units = {n1}
  Leases = {l1}
  Homes = {h1, h2}
  FirstStatus = "PENDING"
  MaxSessions = 2
  MaxRequests = 2
  MaxVisits = 1
  FirstPages = {"home", "leases"}
  Pages = {"home", "finance", "properties", "payments", "tenant", "property",
    "tenants", "units", "leases", "newLease", "editLease", "editPayment",
    "newTenant", "editTenant", "newProperty", "editProperty", "newUnit", "editUnit",
    "login", "register"}
INVARIANTS
  TypeOK
  SpinnersHaveCalls
  OneActionPerLease
  UnitsUnderHeading
  LeaseFormSettles
PROPERTIES
  ReloadShowsAction
  SavedOnce
  ValidSessionKept
CHECK_DEADLOCK FALSE
