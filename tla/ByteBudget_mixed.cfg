SPECIFICATION Spec
CONSTANTS
  Callers = {c1, c2}
  Limits = {2, 3}
  Total = 4
INVARIANT
  BytesToCome
