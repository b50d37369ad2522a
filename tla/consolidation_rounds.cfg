SPECIFICATION Spec
CONSTANTS
  rule = rule
  fix = fix
  clash = clash
  copy = copy
  stale = stale
  plan = plan
  d1 = d1
  d2 = d2
  Contents <- MCContents
  Title <- MCTitle
  SessionOf <- MCSessionOf
  Malformed = {copy}
  Conflicting <- MCConflicting
  Replaces <- MCReplaces
  Expired = {stale, plan}
  Horizon = {plan}
  Confirmed = {clash}
  Procedural = {rule, copy}
  Failing = {rule}
  CrystalSourceThreshold = 2
  Provenances <- MCProvenances
  UnitCount = 3
INVARIANTS
  NoLiveReplaced
  ChainsEnd
PROPERTIES
  Settles
  ConflictsHeld
CHECK_DEADLOCK FALSE
