\* Two accounts and their tenants, registered, signed in, created, edited and archived by two requests at a time.
SPECIFICATION Spec
SYMMETRY AccountSymmetry
CONSTANTS
  Accounts = {a1, a2}
  Tenants = {t1, t2}
  Emails = {e1, e2}
  Passwords = {x1, x2}
  Workers = {w1, w2}
  None = None
INVARIANTS
  TypeOK
  AccountsUnique
  TokensNameTheirAccount
PROPERTIES
  ImplementsNameRegistry
