SPECIFICATION Spec
CONSTANTS
  app = app
  App = App
  sql = sql
  sqlite = sqlite
  uses = uses
  notes = notes
  label = label
  Procs = {p1, p2}
  Names <- MCNames
  Norm <- MCNorm
  Similar <- MCSimilar
  Predicates = {uses}
  Paths = {notes, label}
  NoPath = label
  History <- ChangingHistory
  Env = {"fail", "crash"}
  MaxRounds = 3
  MaxFaults = 1
INVARIANTS
  SupersededByNewer
  EvidenceComplete
PROPERTIES
  FirstReplacementStays
  AliasStays
CHECK_DEADLOCK FALSE
