CONSTANTS
  None = None
  worker = worker  person = person
  r1 = r1  r2 = r2
  model = model
  word = word  dash = dash  default = default
  Users = {worker, person}
  Worker = worker
  Emails = {"worker", "admin", "other", "new"}
  WorkerEmail = "worker"
  AdminEmail = "admin"
  Names = {"name"}
  Passwords = {"secret"}
  EntryIds = {"e1", "e2", "e3"}
  ServerEntry = "e1"
  FilesEntry = "e2"
  Requests = {r1, r2}
  Resources = {"server", "files"}
  Grants <- MCGrants
  Allowed <- MCAllowed
  Forms <- MCForms
  Changes <- MCChanges
  MaxRequests = 4
  Backends = {"b"}
  PoolBackends = {"b"}
  Models = {model}
  TaskModel = model
  BaseName <- MCBaseName
  ContextLength <- MCContextLength
  ChatModels = {model}
  PromptModels = {}
  Chats = {"c"}
  MaxTime = 8
  Chains <- MCChains
  Texts <- MCTexts
  Folded <- MCFolded
  True <- MCTrue
  False <- MCFalse
  Dash = dash
  Default = default
  HookTypes = {"webhook"}
  MaxVisits = 3
SYMMETRY RequestSymmetry
SPECIFICATION Spec
INVARIANTS UsersExist UpdatesSurvive WorkerHasAccount VisitsExplained
PROPERTIES GrantedWasHeld AnswersInOrder
CHECK_DEADLOCK FALSE
