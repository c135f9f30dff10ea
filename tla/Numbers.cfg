\* Two landlords' properties and units, created, edited, moved and archived by two requests at a time.
SPECIFICATION Spec
SYMMETRY HoldingSymmetry
CONSTANTS
  Users = {u1}
  Properties = {p1, p2}
  Units = {n1, n2}
  MaxCount = 2
  Workers = {w1, w2}
  None = None
INVARIANTS
  NumbersUnique
PROPERTIES
  PropertyAppearsWhole
  ImplementsNameRegistry
