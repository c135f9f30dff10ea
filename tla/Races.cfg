\* Two concurrent lease requests on two leases and two units of one landlord.
SPECIFICATION Spec
SYMMETRY RaceSymmetry
CONSTANTS
  u1 = u1
  u2 = u2
  p1 = p1
  p2 = p2
  p3 = p3
  n1 = n1
  n2 = n2
  t1 = t1
  t2 = t2
  l1 = l1
  l2 = l2
  w1 = w1
  w2 = w2
  None = None
  Users = {u1}
  Properties = {p1}
  Units = {n1, n2}
  Tenants = {t1}
  Leases = {l1, l2}
  Workers = {w1, w2}
  PropertyOwner <- OnePropertyOwner
  TenantOwner <- OneTenantOwner
  FirstHome <- OneHome
  Dates <- ThreeTerms
  Operations = {"create", "update", "activate", "terminate", "restore"}
  CreateStatuses = {"PENDING", "ACTIVE", "TERMINATED"}
  UpdateFields = {{"unit"}, {"start"}, {"end"}}
  AuditedOperations = {}
INVARIANTS
  TypeOK
  OneActivePerUnit
  DatesOrdered
PROPERTIES
  TerminatedIsStamped
  NeverPendingAgain
  ImplementsUnitOccupancy
