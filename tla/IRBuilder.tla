------------------------------ MODULE IRBuilder ------------------------------
(***************************************************************************)
(* ir/irbuilder.c: the tree, resolved, as a graph of module IR.            *)
(*                                                                         *)
(* The builder is the record s.u: the current block and function, the      *)
(* variables of that block, and the functions put aside.  No caller asks   *)
(* for IRBuilderOpt.  What follows a failed assertion, a panic or a fault  *)
(* is left out with Then.                                                  *)
(***************************************************************************)
EXTENDS TypeResolver, IR

IRBuilderInit ==
  [b |-> 0, f |-> 0, vars |-> <<>>, defvars |-> <<>>, funstack |-> <<>>, typecache |-> <<>>,
   pkg |-> IRPkgNew, funs |-> <<>>, blks |-> <<>>, vals |-> <<>>]

-----------------------------------------------------------------------------
(* irbuilder.c: blocks and functions.                                      *)
SealBlock(s, b)  == IF s.u.blks[b].sealed THEN Stop(s, "assert") ELSE [s EXCEPT !.u.blks[b].sealed = TRUE]
StartBlock(s, b) == IF s.u.b # 0 THEN Stop(s, "assert") ELSE [s EXCEPT !.u.b = b]
StartSealedBlock(s, b) == Then(SealBlock(s, b), StartBlock(SealBlock(s, b), b))

(* The variables of a block move to defvars, by the number the block has   *)
(* in its function; nothing reads them there.                              *)
Padded(q, len) == IF Len(q) >= len THEN q ELSE [j \in 1 .. len |-> IF j \in DOMAIN q THEN q[j] ELSE <<>>]
EndBlockKept(s) ==                                             \* the variables stay (mutant)
  IF s.u.b = 0 THEN Stop(s, "assert") ELSE [s EXCEPT !.u.b = 0]
EndBlock(s) ==
  LET i == s.u.blks[s.u.b].id + 1
      d == Padded(s.u.defvars, i) IN
  IF s.u.b = 0 THEN Stop(s, "assert")
  ELSE [s EXCEPT !.u.defvars = IF s.u.vars = <<>> THEN d ELSE [d EXCEPT ![i] = s.u.vars],
                 !.u.vars = <<>>, !.u.b = 0]

(* A function met in the middle of another: the function and the block are *)
(* put away, the variables of the block are not.                           *)
SuspendFun(s, f) ==
  IF s.u.f = 0 THEN [s EXCEPT !.u.f = f]
  ELSE [s EXCEPT !.u.funstack = Append(@, [f |-> s.u.f, b |-> s.u.b]), !.u.b = 0, !.u.f = f]

ResumeFun(s) ==
  LET top == Last(s.u.funstack) IN
  IF s.u.f = 0 THEN Stop(s, "assert")
  ELSE IF s.u.funstack = <<>> THEN [s EXCEPT !.u.f = 0]
  ELSE [s EXCEPT !.u.f = top.f, !.u.b = top.b, !.u.funstack = Front(@)]

TODO_Value(s) == IRValueNew(s, s.u.b, OpNil, IRVoid, 0)

(* Variables: only those of the current block are found again.             *)
VarWrite(s, name, value) == [s EXCEPT !.u.vars = (name :> value) @@ @, !.v = value]
VarRead(s, name) == IF name \in DOMAIN s.u.vars THEN [s EXCEPT !.v = s.u.vars[name]] ELSE TODO_Value(s)

(* Types: the integers lose their sign.  The answer is in s.v.             *)
BasicIRType == [t \in BasicTypes \ {AutoT, IdealT} |->
  CASE t = NilT -> IRVoid [] t = BoolT -> IRBool [] t = I8T -> IRType("i8") [] OTHER -> IRType("i32")]

RECURSIVE GetIRType(_, _)
AddArrayType(s, n) ==
  LET t == IRArray(n, Val(s, n), s.v) IN
  Then(s, [s EXCEPT !.u.typecache = (n :> t) @@ @, !.v = t])
GetIRType(s, n) ==
  CASE n \in DOMAIN BasicIRType -> [s EXCEPT !.v = BasicIRType[n]]
    [] n \in DOMAIN s.u.typecache -> [s EXCEPT !.v = s.u.typecache[n]]
    [] n \notin DOMAIN s.u.typecache /\ Kind(s, n) = "ArrayType" -> AddArrayType(GetIRType(s, Kid(s, n, 1)), n)
    [] OTHER -> Stop(s, IF Kind(s, n) \in {"TupleType", "FunType"} THEN "panic" ELSE "assert")

-----------------------------------------------------------------------------
(* Expressions.                                                             *)
RECURSIVE AddExpr(_, _), AddIRFun(_, _)

AddArg(s, v, n) == LET q == AddExpr(s, n) IN Then(s, Then(q, IRValueAddArg(q, v, q.v)))
AddArgs(s, v, ns) == FoldLeft(LAMBDA q, n : AddArg(q, v, n), s, ns)
Added(s, v) == Then(s, IRBlockAddValue(s, s.u.b, v))

AddIntConst(s, n) ==
  LET q == GetIRType(s, TypeOf(s, n)) IN
  IF Kind(s, TypeOf(s, n)) # "BasicType" THEN Stop(s, "assert")
  ELSE Then(q, IRFunGetConstInt(q, q.u.f, q.v, Val(q, n)))
AddBoolConst(s, n) == IF TypeOf(s, n) # BoolT THEN Stop(s, "assert") ELSE IRFunGetConstBool(s, s.u.f, Val(s, n))

AddId(s, n) ==
  LET t == Kid(s, n, 1) IN
  CASE t = Null -> Stop(s, "assert")
    [] Kind(s, t) = "Var" -> VarRead(s, Val(s, n))
    [] OTHER -> AddExpr(s, t)

AllocaFor(s, n) == LET q == IRValueAlloc(s, <<"Alloca">>, s.v, 0) IN Added(AddArgs(q, q.v, Kids(s, n)), q.v)
AddArray(s, n) == LET q == GetIRType(s, TypeOf(s, n)) IN Then(q, AllocaFor(q, n))

(* The type of an element is looked up after the value is in the block.    *)
GepOf(s, recv, idx) ==
  LET q == IRValueNew(s, s.u.b, <<"GEP">>, IRVoid, 0)
      a == IRValueAddArg(q, q.v, recv)
      t == ValType(s, recv) IN
  IF recv = 0 \/ idx = 0 \/ t = NoType THEN Stop(s, "fault")
  ELSE IF t[1] # "array" THEN Stop(s, "panic")
  ELSE [IRValueAddArg(a, q.v, idx) EXCEPT !.u.vals[q.v].type = t[4]]
IndexAt(s, n, recv) == LET q == AddExpr(s, Kid(s, n, 2)) IN Then(s, Then(q, GepOf(q, recv, q.v)))
AddIndex(s, n) == LET q == AddExpr(s, Kid(s, n, 1)) IN Then(q, IndexAt(q, n, q.v))

(* Integers that differ only by sign.                                      *)
is_zerocost_typecast(from, to) ==
  TypeCodeIsInt(from[1]) /\ TypeCodeIsInt(to[1]) /\ SizeFlag(from[1]) = SizeFlag(to[1])

ConvertWith(s, op, src, dst) ==
  LET q == IRValueNew(s, s.u.b, op, dst, 0) IN
  CASE op = <<"assert">> -> Stop(s, "assert")
    [] op = OpNil        -> TODO_Value(Fail(s))
    [] OTHER             -> IRValueAddArg(q, q.v, src)

Converted(s, n, src, dst) ==
  LET t == ValType(s, src) IN
  IF Kind(s, Kid(s, n, 1)) # "BasicType" THEN TODO_Value(Fail(s))
  ELSE IF dst = t THEN [s EXCEPT !.v = src]
  ELSE IF t = NoType THEN Stop(s, "fault")
  ELSE IF is_zerocost_typecast(t, dst) THEN [s EXCEPT !.v = src]
  ELSE ConvertWith(s, IROpConvertType(t[1], dst[1]), src, dst)

CastValue(s, n) ==
  LET q == GetIRType(s, Kid(s, n, 1)) IN
  IF s.v = 0 THEN Stop(s, "fault") ELSE Then(q, Converted(q, n, s.v, q.v))
AddTypeCast(s, n) ==
  LET q == AddExpr(s, Kid(s, n, 2)) IN
  IF Kid(s, n, 1) = Null \/ ~IsType(s, Kid(s, n, 1)) \/ Kid(s, n, 2) = Null THEN Stop(s, "assert")
  ELSE Then(q, CastValue(q, n))

(* The type of the node must be that of its left operand, and the type of  *)
(* the operation that of its values: no comparison of numbers gets by.     *)
Tok == ("==" :> "Eq") @@ ("<" :> "Lt") @@ ("+" :> "Plus") @@ ("-" :> "Minus") @@ ("*" :> "Star") @@ ("/" :> "Slash")
BinOpWith(s, n, op, l, r) ==
  LET t == ValType(s, l)
      q == IRValueNew(s, s.u.b, op, t, 0) IN
  IF op \in {OpNil, <<"assert">>} \/ TypeOf(s, n) # TypeOf(s, Kid(s, n, 1)) THEN Stop(s, "assert")
  ELSE IF OutputType(op) \notin {"param1", t[1]} THEN Stop(s, "assert")
  ELSE IRValueAddArg(IRValueAddArg(q, q.v, l), q.v, r)
BinOpValue(s, n, l, r) ==
  IF l = 0 \/ r = 0 THEN Stop(s, "fault")
  ELSE IF NoType \in {ValType(s, l), ValType(s, r)} THEN Stop(s, "assert")
  ELSE BinOpWith(s, n, IROpFromAST(Tok[Val(s, n)], ValType(s, l)[1], ValType(s, r)[1]), l, r)

BinOpRight(s, n, l) == LET q == AddExpr(s, Kid(s, n, 2)) IN Then(q, BinOpValue(q, n, l, q.v))
AddBinOp(s, n) ==
  LET q == AddExpr(s, Kid(s, n, 1)) IN
  IF Null \in {Kid(s, n, 1), Kid(s, n, 2)} THEN Stop(s, "fault")
  ELSE IF Null \in {TypeOf(s, Kid(s, n, 1)), TypeOf(s, Kid(s, n, 2))} THEN Stop(s, "assert")
  ELSE Then(q, BinOpRight(q, n, q.v))

(* A variable nobody refers to is skipped, its initializer with it.        *)
AddAssign(s, name) == IF s.v = 0 THEN Stop(s, "assert") ELSE VarWrite(s, name, s.v)
AddVar(s, n) ==
  LET q == AddExpr(s, Init1(s, n)) IN
  IF Nd(s, n).refs = 0 /\ ~Has(s, n, "Param") THEN [s EXCEPT !.v = 0]
  ELSE IF Init1(s, n) = Null \/ TypeOf(s, n) \in {Null, IdealT} THEN Stop(s, "assert")
  ELSE Then(q, AddAssign(q, Val(s, n)))

-----------------------------------------------------------------------------
Edge(s, b, i, c, j) == [s EXCEPT !.u.blks[b].succs[i] = c, !.u.blks[c].preds[j] = b]

(* if: what ends is linked to what comes next.  The condition is of no     *)
(* block of its own, and its type is compared with a code, not a type.     *)
Phi(s, t, thenv, elsev) ==
  LET q == IRValueNew(s, s.u.b, <<"Phi">>, t, 0) IN
  IF thenv = 0 \/ elsev = 0 THEN Stop(s, "fault")
  ELSE IRValueAddArg(IRValueAddArg(q, q.v, thenv), q.v, elsev)

(* A zero stands for the branch that is not there.                         *)
ZeroThen(s, thenv) ==                                           \* the operands swapped (mutant)
  LET q == IRFunGetConstInt(s, s.u.f, ValType(s, thenv), 0) IN
  IF thenv = 0 THEN Stop(s, "fault") ELSE Then(q, Phi(q, ValType(s, thenv), q.v, thenv))
ZeroElse(s, thenv) ==
  LET q == IRFunGetConstInt(s, s.u.f, ValType(s, thenv), 0) IN
  IF thenv = 0 THEN Stop(s, "fault") ELSE Then(q, Phi(q, ValType(s, thenv), thenv, q.v))

AfterMove(s, at, thenv) == LET q == IRFunMoveBlockToEnd(s, s.u.f, at) IN Then(q, ZeroElse(q, thenv))
NoElse(s, ifb, thenb, elseb, at, thenv) ==
  LET q == StartSealedBlock(Edge(Edge(s, thenb, 1, elseb, 2), ifb, 2, elseb, 1), elseb) IN
  Then(q, AfterMove(q, at, thenv))

(* The values of the branches are of one type.  An else that made no value *)
(* is discarded, whatever it was to return.                                *)
Joined(s, thenv, elsev) == Then(s, Phi(s, ValType(s, thenv), thenv, elsev))
DropElse(s, ifb, contb, elseb) ==
  IF s.u.blks[elseb].values # <<>> THEN s ELSE IRBlockDiscard(Edge(s, ifb, 2, contb, 2), elseb)
SameBranches(s, ifb, contb, elseb, thenv, elsev) ==
  IF thenv = 0 \/ elsev = 0 THEN Stop(s, "fault")
  ELSE IF ValType(s, thenv) # ValType(s, elsev) THEN Stop(s, "assert")
  ELSE Joined(DropElse(s, ifb, contb, elseb), thenv, elsev)

Join(s, ifb, thenb, elseb, contb, at, thenv, elsev) ==
  LET q == StartSealedBlock(Edge(Edge(s, elseb, 1, contb, 2), thenb, 1, contb, 1), contb)
      m == IRFunMoveBlockToEnd(q, q.u.f, at) IN
  Then(q, Then(m, SameBranches(m, ifb, contb, elseb, thenv, elsev)))

ElseBody(s, n, ifb, thenb, contb, at, thenv) ==
  LET q == AddExpr(s, Kid(s, n, 3)) IN
  Then(q, Join(EndBlock(q), ifb, thenb, q.u.b, contb, at, thenv, q.v))
Else(s, n, ifb, thenb, elseb, thenv) ==
  LET q == StartSealedBlock([s EXCEPT !.u.blks[elseb].preds[1] = ifb], elseb) IN
  Then(q, ElseBody(q, n, ifb, thenb, s.r, Len(s.u.funs[s.u.f].blocks), thenv))

(* at: the place of the else block among the blocks of the function.       *)
AfterThen(s, n, ifb, thenb, elseb, at, thenv) ==
  IF Kid(s, n, 3) = Null THEN NoElse(s, ifb, thenb, elseb, at, thenv)
  ELSE Else(IRBlockNew(s, s.u.f, "Cont"), n, ifb, thenb, elseb, thenv)
ThenBody(s, n, ifb, elseb, at) ==
  LET q == AddExpr(s, Kid(s, n, 2)) IN
  Then(q, AfterThen(EndBlock(q), n, ifb, q.u.b, elseb, at, q.v))
StartThen(s, n, ifb, thenb, elseb, at) ==
  LET q == StartSealedBlock(Edge([s EXCEPT !.u.blks[ifb].succs[2] = elseb], ifb, 1, thenb, 1), thenb) IN
  Then(q, ThenBody(q, n, ifb, elseb, at))
BranchBlocks(s, n, ifb) ==
  StartThen(s, n, ifb, s.r - 1, s.r, Len(s.u.funs[s.u.f].blocks))
EndIf(s, n, control) ==
  LET q == IRBlockSetControl([EndBlock(s) EXCEPT !.u.blks[s.u.b].kind = "If"], s.u.b, control) IN
  BranchBlocks(IRBlockNew(IRBlockNew(q, q.u.f, "Cont"), q.u.f, "Cont"), n, s.u.b)
IfControl(s, n) ==
  IF s.v = 0 THEN Stop(s, "fault")
  ELSE EndIf(IF ValType(s, s.v) # NoType THEN Fail(s) ELSE s, n, s.v)
AddIf(s, n) == LET q == AddExpr(s, Kid(s, n, 1)) IN Then(q, IfControl(q, n))

-----------------------------------------------------------------------------
(* Calls and functions.  A function has no type of its own yet.            *)
CallArgs(s, n) == IF Kid(s, n, 2) = Null THEN <<>> ELSE Kids(s, Kid(s, n, 2))
\* The call itself is counted first: a function that calls itself is not pure.
Counted(s, fn) ==
  LET q == [s EXCEPT !.u.funs[s.u.f].ncalls = @ + 1] IN
  [q EXCEPT !.u.funs[q.u.f].npurecalls = @ + (IF IRFunIsPure(q, fn) THEN 1 ELSE 0)]
CallValue(s, n, fn) ==
  LET q == IRValueAlloc(s, <<"Call">>, NoType, s.u.funs[fn].name)
      a == Added(AddArgs(q, q.v, CallArgs(s, n)), q.v) IN
  Then(a, Counted(a, fn))

FunValue(s) ==
  IF s.v = 0 THEN Stop(s, "fault")
  ELSE IF s.u.vals[s.v].op # <<"Fun">> THEN Stop(s, "assert")
  ELSE Give(s, s.u.vals[s.v].aux)
CallTarget(s, recv) ==
  IF Kind(s, recv) = "Fun" THEN AddIRFun(s, recv)
  ELSE IF Kind(s, recv) = "Id" /\ Kind(s, Kid(s, recv, 1)) = "Fun" THEN AddIRFun(s, Kid(s, recv, 1))
  ELSE LET q == AddExpr(s, recv) IN Then(q, FunValue(q))

(* A call of a basic type is a cast; of the other types it is to be done.  *)
AddTypeCall(s, n) ==
  IF Kind(s, Kid(s, n, 1)) # "BasicType" THEN Stop(s, "panic")
  ELSE AddTypeCast([s EXCEPT !.n[n + Origin].k = "TypeCast"], n)

AddCall(s, n) ==
  LET recv == Kid(s, n, 1)
      q == CallTarget(s, recv) IN
  IF IsType(s, recv) THEN AddTypeCall(s, n) ELSE Then(q, CallValue(q, n, q.r))

AddBlock(s, n) ==
  FoldLeft(LAMBDA q, i : Then(q, AddExpr(q, i)), [s EXCEPT !.v = 0], Kids(s, n))

EndInRet(s) == [IRBlockSetControl(s, s.u.b, s.v) EXCEPT !.u.blks[s.u.b].kind = "Ret"]
AddRet(s, n) == LET q == AddExpr(s, Kid(s, n, 1)) IN Then(q, EndInRet(q))

AddFunExpr(s, n) == LET q == AddIRFun(s, n) IN Then(q, IRValueNew(q, q.u.b, <<"Fun">>, NoType, q.r))

ToBeDone == {"FloatLit", "StrLit", "Nil", "Assign", "Ref", "Field", "PrefixOp", "PostfixOp", "Tuple", "Selector",
  "NamedVal", "Slice", "Macro", "BasicType", "RefType", "TupleType", "ArrayType", "StructType", "FunType", "TypeType"}

AddExpr(s, n) ==
  LET k == Kind(s, n) IN
  CASE s.stop # "" -> s
    [] s.stop = "" /\ n = Null -> Stop(s, "fault")
    [] s.stop = "" /\ n # Null /\ ~IsType(s, n) /\ TypeOf(s, n) = Null -> Stop(s, "assert")
    [] s.stop = "" /\ n # Null /\ TypeOf(s, n) = IdealT -> [s EXCEPT !.v = 0]
    [] OTHER ->
       (CASE k = "Var"      -> AddVar(s, n)
          [] k = "Block"    -> AddBlock(s, n)
          [] k = "IntLit"   -> AddIntConst(s, n)
          [] k = "BoolLit"  -> AddBoolConst(s, n)
          [] k = "BinOp"    -> AddBinOp(s, n)
          [] k = "Id"       -> AddId(s, n)
          [] k = "If"       -> AddIf(s, n)
          [] k = "TypeCast" -> AddTypeCast(s, n)
          [] k = "Call"     -> AddCall(s, n)
          [] k = "Return"   -> AddRet(s, n)
          [] k = "Fun"      -> AddFunExpr(s, n)
          [] k = "Array"    -> AddArray(s, n)
          [] k = "Index"    -> AddIndex(s, n)
          [] k \in ToBeDone -> Stop(s, "panic")
          [] OTHER          -> TODO_Value(Fail(s)))

(* The last block returns the value of the body, also when the block has a *)
(* return of its own.                                                      *)
EndBody(s, n) ==
  LET q == [s EXCEPT !.u.blks[s.u.b].kind = "Ret"] IN
  IF s.u.b = 0 THEN s
  ELSE EndBlock(IF Kid(s, TypeOf(s, n), 2) = NilT THEN q ELSE IRBlockSetControl(q, q.u.b, q.v))
IRFunBody(s, n, f) == LET q == AddExpr(s, Kid(s, n, 3)) IN Then(q, Give(ResumeFun(EndBody(q, n)), f))
FunEntry(s, n, f) == LET q == StartSealedBlock(SuspendFun(s, f), s.r) IN Then(q, IRFunBody(q, n, f))

(* A function is known before its body is built: it may call itself.       *)
NewFun(s, n) ==
  LET q == IRBlockNew(s, s.r, "Cont") IN
  FunEntry([IRPkgAddFun(q, Val(s, n), s.r) EXCEPT !.r = q.r], n, s.r)

NParams(s, params) ==
  CASE params = Null -> 0 [] Kind(s, params) = "Tuple" -> Len(Kids(s, params)) [] OTHER -> 1
AddIRFun(s, n) ==
  LET known == IRPkgGetFun(s, Val(s, n)) IN
  CASE Kid(s, n, 3) = Null -> Stop(s, "assert")
    [] Kid(s, n, 3) # Null /\ known # 0 -> Give(s, known)
    [] Kid(s, n, 3) # Null /\ known = 0 ->
       IF Kind(s, TypeOf(s, n)) # "FunType" THEN Stop(s, "assert")
       ELSE NewFun(IRFunNew(s, Val(s, n), NParams(s, Kid(s, n, 1))), n)

(* A global is not built; what is neither ends the file with an error.     *)
AddToplevel(s, n) ==
  CASE Kind(s, n) = "Fun" -> AddIRFun(s, n)
    [] Kind(s, n) = "Var" -> s
    [] OTHER -> Fail(s)
=============================================================================
