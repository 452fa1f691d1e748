SPECIFICATION Spec
CONSTANTS
  None = None
  g1 = g1
  g2 = g2
  g3 = g3
  d1 = d1
  Machine = {g1, g2, g3}
  Station = {d1}
  Killable = {g1}
  Slow = {}
INVARIANT MutualExclusion
CHECK_DEADLOCK FALSE
