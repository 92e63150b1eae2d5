SPECIFICATION FairSpec
CONSTANTS
  P = {p1,p2}
  Observer = {}
  T = {t1,t2}
  NULL = NULL
  Size = 2
  MaxPuts = 3
VIEW View
PROPERTY GetCompletes
