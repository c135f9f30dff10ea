\* Two landlords with the dashboard, units that move, updates that change every relationship.
SPECIFICATION DashSpec
SYMMETRY RequestSymmetry
CONSTANTS
  u1 = u1
  u2 = u2
  p1 = p1
  p2 = p2
  p3 = p3
  n1 = n1
  n2 = n2
  t1 = t1
  t2 = t2
  l1 = l1
  l2 = l2
  w1 = w1
  w2 = w2
  None = None
  Users = {u1, u2}
  Properties = {p1, p2, p3}
  Units = {n1, n2}
  Tenants = {t1, t2}
  Leases = {l1, l2}
  Workers = {w1, w2}
  PropertyOwner <- TwoPropertyOwner
  TenantOwner <- TwoTenantOwner
  FirstHome <- TwoHome
  Dates <- OneTerm
  Operations = {"create", "update", "moveUnit", "end"}
  CreateStatuses = {"ACTIVE"}
  UpdateFields <- AnyRelationships
  AuditedOperations = {}
INVARIANTS
  OneLandlordPerLease
  OccupiedWithinTotal
  QuietDashboardAgrees
