\* Two pools over one backend, whose models a cycle must aggregate, and two
\* disturbances while it reads them.  Safety only: no backend is reliable.
SPECIFICATION Spec
CONSTANTS
  None = None
  Pools = {p1, p2}
  Backends = {b1}
  Models = {m1, m2}
  EmbedPool = p1
  EmbedModel = m1
  TasksModel = m1
  Reliable = {}
  MaxDisturbances = 2
INVARIANTS
  TypeOK
  EmbeddingIsDeclared
PROPERTIES
  DeclaredIsKept
  QueuedWasDeclared
  EntriesMatchMembers
