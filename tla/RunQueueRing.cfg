SPECIFICATION Spec
CONSTANTS
  P = {p1,p2}
  Observer = {}
  T = {t1,t2,t3}
  NULL = NULL
  Size = 2
  MaxPuts = 3
SYMMETRY Symmetry
VIEW View
INVARIANTS
  RingBounds
