SPECIFICATION Spec
CONSTANTS
  foo = foo
  int = int
  NoName = NoName
  Name = {foo, int}
  Basic = {int}
  Grammar = {"PLiteral","PId","PVarOrConst","Ref","RefType","Return","pArrayLit","PBlock","PIf",
    "PFun","PStructType","PTypeDef","PIdTrailing","pAssignToId","Index","Assign",
    "PPostfixOp","PCall","PAs"}
  Storage = 2
  MaxSource = 4
  MaxCalls = 20
INVARIANTS
  TypeOK
  ScopesAgree
  PackageScope
  WarnedIsUnused
  MarksCounted
  AllResolved
  OnlySelfNamedEndless
CHECK_DEADLOCK FALSE
