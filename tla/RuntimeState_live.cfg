\* One reliable backend that needs two models and has one row in the queue,
\* with three disturbances, crashes, cancellations and removals among them.
SPECIFICATION Spec
CONSTANTS
  None = None
  Pools = {p1}
  Backends = {b1}
  Models = {m1, m2}
  EmbedPool = p1
  EmbedModel = m1
  TasksModel = m2
  Reliable = {b1}
  MaxDisturbances = 3
PROPERTIES
  AllModelsPulled
  UndeclaredRemoved
  EntriesAreCurrent
