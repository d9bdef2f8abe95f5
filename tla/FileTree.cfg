SPECIFICATION Spec
CONSTANTS
  Files = {f1}
  Folders = {d1, d2}
  Names = {a, b}
  Entries = {e1, e2}
  Handlers = {h1, h2}
  Root = Root
  None = None
  MaxUploadSize = 1
  MaxDeletions = 1
SYMMETRY MCSymmetry
CONSTRAINT SpareEntries
INVARIANTS
  TypeOK
  RowsAgree
  CyclesExplained
  OrphansExplained
  EntriesExplained
PROPERTIES
  ImplementsFileStore
