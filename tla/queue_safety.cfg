SPECIFICATION Spec
CONSTANTS
  Workers = {w1, w2}
  Clients = {c1}
  NoWorker = NoWorker
  Killed = Killed
  MaxId = 2
  MaxRetries = 2
  MaxFaults = 2
  Env = {"crash", "abort", "process", "nospawn"}
INVARIANTS
  TypeOK
  SingleWorker
  IngestedOnce
PROPERTIES
  SettledIsFinal
  JobsSpec
