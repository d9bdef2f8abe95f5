SPECIFICATION FairIndexSpec
CONSTANTS
  Jobs = {j1, j2}
  Files = {f1}
  Types = {t1}
  Leasers = {l1}
  Handlers = {h1}
  Calls = {c1, c2}
  None = None
  Overlap = FALSE
  Ids = {f2}
  MaxChunks = 1
INVARIANTS
  LostVectorsExplained
PROPERTIES
  NeverReindexed
  IndexUnderLease
  PendingIsServed
