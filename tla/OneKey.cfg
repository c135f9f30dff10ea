\* Two requests at a time under one key, with and without a date, and edits of the payment.
SPECIFICATION FairSpec
CONSTANTS
  u1 = u1
  u2 = u2
  k1 = k1
  k2 = k2
  pay1 = pay1
  pay2 = pay2
  lease1 = lease1
  lease2 = lease2
  t1 = t1
  t2 = t2
  home1 = home1
  home2 = home2
  w1 = w1
  w2 = w2
  w3 = w3
  None = None
  Users = {u1}
  Keys = {k1}
  PaymentIds = {pay1, pay2}
  Leases = {lease1}
  Tenants = {t1}
  Properties = {home1}
  PropertyOf <- OneProperty
  PropertyOwner <- OneOwner
  TenantOwner <- OneLandlord
  FirstTenant <- FirstTenants
  Dates <- TwoDates
  Submissions <- DatedOrNot
  Edits <- TwoDates
  Workers = {w1, w2}
INVARIANTS
  ConfirmationsMatchDetails
PROPERTIES
  PaymentHistoryKept
  ImplementsExactlyOnce
  EveryRequestAnswered
