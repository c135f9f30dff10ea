\* A unit archive racing lease requests.
SPECIFICATION Spec
CONSTANTS
  u1 = u1
  u2 = u2
  p1 = p1
  p2 = p2
  p3 = p3
  n1 = n1
  n2 = n2
  t1 = t1
  t2 = t2
  l1 = l1
  l2 = l2
  w1 = w1
  w2 = w2
  None = None
  Users = {u1}
  Properties = {p1}
  Units = {n1}
  Tenants = {t1}
  Leases = {l1}
  Workers = {w1, w2}
  PropertyOwner <- OnePropertyOwner
  TenantOwner <- OneTenantOwner
  FirstHome <- OneHome
  Dates <- OneTerm
  Operations = {"create", "activate", "archiveUnit"}
  CreateStatuses = {"PENDING", "ACTIVE"}
  UpdateFields = {}
  AuditedOperations = {}
PROPERTIES
  UnitArchiveRejectsActive
