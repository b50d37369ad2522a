SPECIFICATION Spec
CONSTANTS
  k1 = k1
  k2 = k2
  k3 = k3
  hello = hello
  bye = bye
  tool = tool
  NoKey = NoKey
  Procs = {p1}
  Formats = {"claude"}
  Lines <- MCLines
  Env = {"midparse"}
  MaxLines = 3
  MaxRewrites = 0
  MaxImports = 2
INVARIANT
  NothingPassedOver
CHECK_DEADLOCK FALSE
