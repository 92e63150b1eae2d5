SPECIFICATION PartsSpec
CONSTANTS
  Key = {0, 1, 3, 4, 8}
  Val = {v1, v2}
  NULL = NULL
  Hash <- MCHash
  Word = 8
  Entries = 2
  InitBuckets = 1
  MaxDoublings = 3
  Deletable = {0, 1, 3, 4, 8}
  Task = {t1, t2, t3, t4}
  Proc = {p1, p2}
  NoTask = NoTask
  Low = 1
  High = 2
  AlltGrow = 2
  PtrSize = 2
  MaxAllt = 4
  Counts = {1, 2, 3, 5, 7}
  ElemSize = 4
  WordSize = 4
  Junk = {0, 2}
  MaxRand = 8
  MaxMoves = 3
  TreeKey <- MCTreeKeys
  RemovedKey <- MCTreeKeys
  MaxDeletes = 1
  Source <- MCSources
SYMMETRY Symmetry
CHECK_DEADLOCK FALSE
INVARIANTS
  TypeOK
  AnswersUnshadowed
  OneEntryPerKey
  EachOnOneList
  TriesEveryBusyP
  TreeIsLLRB
  BlocksFollowIndent
  OperationsMean
