SPECIFICATION FairSpec
CONSTANTS
  P = {p1}
  Observer = {}
  T = {t1,t2,t3}
  NULL = NULL
  Size = 2
  MaxPuts = 3
VIEW View
PROPERTY PutCompletes
CHECK_DEADLOCK FALSE
