SPECIFICATION FairSpec
CONSTANTS
  Procs = {p1, p2}
  Embedders = {large, small}
  NoEmbedder = NoEmbedder
  Unrecorded = Unrecorded
  OldVersions = {7}
  MaxRows = 1
  MaxInserts = 1
  MaxOpens = 3
  MaxFaults = 1
INVARIANTS
  VersionTruthful
  OpenIsComplete
  IndexesCover
  CheckedMatch
PROPERTIES
  OpensEnd
CHECK_DEADLOCK FALSE
