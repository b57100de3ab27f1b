CONSTANTS
  g1 = g1
  g2 = g2
  g3 = g3
  Callers <- MCCallers
SYMMETRY CallerSymmetry
SPECIFICATION Spec
INVARIANT NoPanic
CHECK_DEADLOCK FALSE
