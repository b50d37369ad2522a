SPECIFICATION Spec
CONSTANTS
  app = app
  App = App
  sql = sql
  sqlite = sqlite
  uses = uses
  notes = notes
  label = label
  Procs = {p1}
  Names <- MCNames
  Norm <- MCNorm
  Similar <- MCSimilar
  Predicates = {uses}
  Paths = {notes}
  NoPath = label
  History <- StableHistory
  Env = {}
  MaxRounds = 2
  MaxFaults = 1
INVARIANTS
  NewestStands
CHECK_DEADLOCK FALSE
