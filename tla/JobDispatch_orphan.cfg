SPECIFICATION Spec
CONSTANTS
  Jobs = {j1}
  Files = {f1}
  Types = {t1}
  Leasers = {l1}
  Handlers = {h1, h2}
  Calls = {c1}
  None = None
  Overlap = FALSE
INVARIANTS
  NoOrphanedJob
