SPECIFICATION MdSpec
CONSTANTS
  Models = {m1, m2}
  Trees = {k1, k2, k3}
  Values = {"a", "b"}
  Default = "a"
  Missing = "missing"
  MaxCalls = 3
INVARIANTS FixedVariables
CHECK_DEADLOCK FALSE
