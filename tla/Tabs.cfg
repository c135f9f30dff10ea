\* Two tabs of one browser, two accounts, two payment attempts.
SPECIFICATION Spec
SYMMETRY RecoverySymmetry
CONSTANTS
  u1 = u1
  u2 = u2
  tab1 = tab1
  tab2 = tab2
  tab3 = tab3
  k1 = k1
  k2 = k2
  k3 = k3
  None = None
  Users = {u1, u2}
  Tabs = {tab1, tab2}
  Keys = {k1, k2}
INVARIANTS
  TypeOK
  OneOpenAttempt
  PaymentsLeaveEvidence
  ResolutionIsTrue
