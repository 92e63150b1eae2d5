SPECIFICATION Spec
CONSTANTS
  P = {p1, p2}
  Observer = {}
  T = {t1, t2, t3, t4}
  NULL = NULL
  Size = 4
  MaxPuts = 3
SYMMETRY Symmetry
VIEW View
INVARIANTS
  TypeOK
  NoTaskLost
PROPERTY ImplementsWorkQueues
