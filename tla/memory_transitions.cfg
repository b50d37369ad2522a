SPECIFICATION Spec
CONSTANTS
  t1 = t1
  t2 = t2
  rule = rule
  fix = fix
  clash = clash
  copy = copy
  d1 = d1
  d2 = d2
  Contents <- MCContents
  Title <- MCTitle
  SessionOf <- MCSessionOf
  Malformed = {}
  Conflicting <- MCConflicting
  Replaces <- MCReplaces
  Expired = {}
  Horizon = {}
  Confirmed = {}
  Procedural = {rule}
  Failing = {}
  CrystalSourceThreshold = 2
  Procs = {p1, p2}
  NoProc = NoProc
  Killed = Killed
  Projects = {home, other}
  Home = home
  Traces = {}
  Gates = {g1}
  CurrentGate = g1
  Extractable = {}
  Activating = {}
  Captures <- RuleCaptures
  MaxUnits = 1
  MaxFaults = 1
  Commands = {"capture", "consolidate", "retract", "restore", "supersede"}
  Env = {"crash", "abort"}
INVARIANTS
  LeaseExclusive
  CrystalEarned
PROPERTY RetractionHeld
