SPECIFICATION Spec
CONSTANTS
  P = {p1,p2}
  Observer = {m1}
  T = {t1,t2,t3}
  NULL = NULL
  Size = 2
  MaxPuts = 1
SYMMETRY Symmetry
VIEW View
INVARIANT EmptyNeverSpurious
