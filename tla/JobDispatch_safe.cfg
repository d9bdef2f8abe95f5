SPECIFICATION Spec
CONSTANTS
  Jobs = {j1, j2}
  Files = {f1}
  Types = {t1}
  Leasers = {l1, l2}
  Handlers = {h1, h2}
  Calls = {c1, c2}
  None = None
  Overlap = FALSE
SYMMETRY MCSymmetry
INVARIANTS
  TypeOK
  Exclusive
  SweepComplete
PROPERTIES
  ServedInOrder
  LeaseIsNotStolen
  ImplementsLedger
