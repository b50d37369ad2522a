SPECIFICATION Spec
CONSTANTS
  k1 = k1
  k2 = k2
  k3 = k3
  hello = hello
  bye = bye
  tool = tool
  NoKey = NoKey
  Procs = {p1, p2}
  Formats = {"membox", "codex", "pi", "claude"}
  Lines <- MCLines
  Env = {"crash"}
  MaxLines = 3
  MaxRewrites = 1
  MaxImports = 3
SYMMETRY Importers
INVARIANTS
  NothingPassedOver
  Converges
  FetchGivesTheRow
  AroundIsAWindow
CHECK_DEADLOCK FALSE
