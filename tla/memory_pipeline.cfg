SPECIFICATION AttendedSpec
CONSTANTS
  t1 = t1
  t2 = t2
  rule = rule
  fix = fix
  clash = clash
  copy = copy
  d1 = d1
  d2 = d2
  Contents <- MCContents
  Title <- MCTitle
  SessionOf <- MCSessionOf
  Malformed = {}
  Conflicting <- MCConflicting
  Replaces <- MCReplaces
  Expired = {}
  Horizon = {}
  Confirmed = {t1}
  Procedural = {rule}
  Failing = {}
  CrystalSourceThreshold = 2
  Procs = {p1, p2}
  NoProc = NoProc
  Killed = Killed
  Projects = {home}
  Home = home
  Traces = {t1, t2}
  Gates = {g1, g2}
  CurrentGate = g1
  Extractable = {t1}
  Activating = {t1}
  Captures = {}
  MaxUnits = 1
  MaxFaults = 1
  Commands = {"triage", "extract", "checkpoint", "consolidate", "retract"}
  Env = {"crash", "abort"}
INVARIANTS
  ConsumedCovered
PROPERTIES
  ConsumedIsFinal
  PendingConsumed
