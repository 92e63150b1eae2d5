SPECIFICATION Spec
CONSTANTS
  P = {p1, p2, p3}
  M = {m1, m2, m3}
  T = {t1, t2, t3}
  NULL = NULL
  Debug = TRUE
SYMMETRY Symmetry
INVARIANTS
  TypeOK
  OneOwner
  SpinningCounted
  OneStart
  IdleIsEmpty
  OnlyGivingUpStrands
PROPERTY UsesWorkQueues
