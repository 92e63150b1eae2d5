----------------------------- MODULE LLVMBuilder -----------------------------
(***************************************************************************)
(* llvm/llvm.c: the tree, resolved, as a module of LLVM.                   *)
(*                                                                         *)
(* Build(s, n) is build_expr: the store after the call, with the value it  *)
(* returns in s.v; <<>> is NULL.  s.b is the builder's own state (struct   *)
(* B), s.m the module: functions, globals, blocks and instructions.  What  *)
(* LLVM itself does (folding of constants, its checks in NULL arguments)   *)
(* is modelled as far as the builder depends on it.                        *)
(***************************************************************************)
EXTENDS TypeResolver

(* Types and values of LLVM.                                               *)
TVoid == <<"void">>
TPtr(t) == <<"ptr", t>>
TArr(k, t) == <<"arr", k, t>>
TStruct(id, fields) == <<"struct", id, fields>>
TFun(result, params) == <<"fun", result, params>>
I1  == <<"i", 1>>
I8  == <<"i", 8>>
I32 == <<"i", 32>>
I64 == <<"i", 64>>
TRef == TStruct(-1, <<TPtr(I32), I32>>)    \* refstruct_type

NoValue == <<>>
Const(ty, x) == <<"const", ty, x>>
Param(f, j) == <<"param", f, j>>
Ref(k, i) == <<k, i>>                      \* an instruction, a function or a global

RECURSIVE VType(_, _)
VType(s, v) ==
  CASE v = NoValue -> <<"none">>
    [] v # NoValue /\ v[1] = "const" -> v[2]
    [] v # NoValue /\ v[1] = "param" -> s.m.fun[v[2]].params[v[3]]
    [] v # NoValue /\ v[1] = "ins"   -> s.m.ins[v[2]].ty
    [] v # NoValue /\ v[1] = "fun"   -> TPtr(TFun(s.m.fun[v[2]].result, s.m.fun[v[2]].params))
    [] v # NoValue /\ v[1] = "glob"  -> TPtr(s.m.glob[v[2]].ty)

Elem(ty) == IF ty[1] = "ptr" THEN ty[2] ELSE <<"none">>
IsConstant(v) == v[1] \in {"const", "glob", "fun"}
AllConstant(vs) == \A j \in DOMAIN vs : IsConstant(vs[j])

RECURSIVE ConstNull(_), IsNull(_)
ConstNull(ty) ==
  CASE ty[1] = "arr"    -> Const(ty, [j \in 1 .. ty[2] |-> ConstNull(ty[3])])
    [] ty[1] = "struct" -> Const(ty, [j \in DOMAIN ty[3] |-> ConstNull(ty[3][j])])
    [] OTHER -> Const(ty, 0)
IsNull(v) == v[1] = "const" /\ IF v[2][1] \in {"arr", "struct"}
                               THEN \A j \in DOMAIN v[3] : IsNull(v[3][j]) ELSE v[3] = 0

(* Integers are residues; widths of more than 8 bits are 16 bits, as in    *)
(* module Ast.                                                             *)
Modulus(ty) == IF ty = I1 THEN 2 ELSE IF ty = I8 THEN 256 ELSE 65536
Signed(ty, x) == IF x >= Modulus(ty) \div 2 THEN x - Modulus(ty) ELSE x
ConstInt(ty, x) == Const(ty, x % Modulus(ty))

Compute(op, ty, x, y) ==
  CASE op = "add"  -> (x + y) % Modulus(ty)
    [] op = "sub"  -> (x - y) % Modulus(ty)
    [] op = "mul"  -> (x * y) % Modulus(ty)
    [] op = "sdiv" -> Quotient(Signed(ty, x), Signed(ty, y)) % Modulus(ty)
    [] op = "udiv" -> x \div y
    [] op = "eq"   -> IF x = y THEN 1 ELSE 0
    [] op = "slt"  -> IF Signed(ty, x) < Signed(ty, y) THEN 1 ELSE 0
    [] op = "ult"  -> IF x < y THEN 1 ELSE 0
Compares == {"eq", "slt", "ult"}

-----------------------------------------------------------------------------
(* The builder of LLVM.                                                    *)
Result(s, v) == [s EXCEPT !.v = v]
SetIr(s, n, v) == Result(IF n > 0 THEN Put(s, n, [Nd(s, n) EXCEPT !.ir = v]) ELSE s, v)
Ir(s, n) == Nd(s, n).ir

(* An instruction at the end of the current block.                         *)
Ins(s, op, ty, args, imm) ==
  LET k == Len(s.m.ins) + 1 IN
  IF s.stop # "" THEN s
  ELSE IF NoValue \in {args[j] : j \in DOMAIN args} \/ s.b.bb = 0 THEN Stop(s, "null")
  ELSE [s EXCEPT !.m.ins = Append(@, [op |-> op, ty |-> ty, args |-> args, imm |-> imm]),
                 !.m.blk[s.b.bb].is = Append(@, k), !.v = Ref("ins", k)]

Alloca(s, ty) == Ins(s, "alloca", TPtr(ty), <<>>, ty)
Global(s, ty, init) ==
  IF s.stop # "" THEN s
  ELSE [s EXCEPT !.m.glob = Append(@, [ty |-> ty, init |-> init]), !.v = Ref("glob", Len(s.m.glob) + 1)]
Gep(s, ty, ptr, path, to) == Ins(s, "gep", TPtr(to), <<ptr>> \o path, ty)

(* build_store, build_load: the types are compared first.                  *)
Store(s, v, ptr) ==
  IF v = NoValue \/ ptr = NoValue THEN Stop(s, "null")
  ELSE IF VType(s, ptr)[1] # "ptr" THEN Stop(s, "assert")
  ELSE IF VType(s, v) # Elem(VType(s, ptr)) THEN Stop(s, "panic")
  ELSE Ins(s, "store", TVoid, <<v, ptr>>, 0)
Load(s, ty, ptr) ==
  IF ptr = NoValue THEN Stop(s, "null")
  ELSE IF VType(s, ptr)[1] # "ptr" THEN Stop(s, "assert")
  ELSE IF ty # Elem(VType(s, ptr)) THEN Stop(s, "panic")
  ELSE Ins(s, "load", ty, <<ptr>>, 0)

(* A block without a function is created, one with a function appended.    *)
NewBlock(s) == [s EXCEPT !.m.blk = Append(@, [f |-> 0, is |-> <<>>])]
AppendBlock(s, f, k) == [s EXCEPT !.m.blk[k].f = f, !.m.fun[f].blocks = Append(@, k)]
At(s, k) == [s EXCEPT !.b.bb = k]
CurrentFun(s) == IF s.b.bb = 0 THEN 0 ELSE s.m.blk[s.b.bb].f
set_mut(s, mut) == [s EXCEPT !.b.mut = mut]
IsRet(s, v) == v # NoValue /\ v[1] = "ins" /\ s.m.ins[v[2]].op = "ret"

RECURSIVE Build(_, _), StructInit(_, _, _, _)

BuildAs(s, n, noload) ==
  LET q == Build([s EXCEPT !.b.noload = noload], n) IN [q EXCEPT !.b.noload = s.b.noload]
MustLoad(s, n) == BuildAs(s, n, FALSE)
(* build_expr_noload: what the node itself stands for, not the result.     *)
FromIr(s, n) == Result(s, Ir(s, n))
NoLoad(s, n) == FromIr(BuildAs(s, n, TRUE), n)

(* Several nodes in order; the values are in s.vs.                         *)
Listed(e, vs) == [e EXCEPT !.vs = Append(vs, e.v)]
BuildList(s, ns) == FoldLeft(LAMBDA q, n : Listed(Build(q, n), q.vs), [s EXCEPT !.vs = <<>>], ns)

-----------------------------------------------------------------------------
(* Types.                                                                   *)
RECURSIVE GetType(_, _)

(* get_intern_type: by type identifier, which stays what it was first.     *)
Interned(s, t) == {j \in DOMAIN s.b.types : s.b.types[j][1] = Nd(s, t).tid}
InternAs(s, t, ty) ==
  IF Interned(s, t) # {} THEN Result(s, s.b.types[CHOOSE j \in Interned(s, t) : TRUE][2])
  ELSE Result([s EXCEPT !.b.types = Append(@, <<Nd(s, t).tid, ty>>)], ty)
Intern(s, t, ty) == InternAs(TypeID(s, t), t, ty)

GetTypes(s, ts) == FoldLeft(LAMBDA q, t : Listed(GetType(q, t), q.vs), [s EXCEPT !.vs = <<>>], ts)

(* A named struct is a type of its own, other types are interned.          *)
IrOf(s, n) == SetIr(s, n, s.v)
GetStructType(s, t) ==
  LET Fields(q) == SetIr(q, t, TStruct(t, q.vs)) IN
  Fields(GetTypes(s, [j \in DOMAIN Kids(s, t) |-> TypeOf(s, Kids(s, t)[j])]))
GetTupleType(s, t) ==
  LET Parts(q) == IrOf(Intern(q, t, TStruct(0, q.vs)), t) IN Parts(GetTypes(s, Kids(s, t)))
GetArrayType(s, t) ==
  LET Of(q) == IrOf(Intern(q, t, TArr(Val(q, t), q.v)), t) IN
  Of(GetType(Require(s, Val(s, t) > 0), Kid(s, t, 1)))

PtrTo(s) == Result(s, TPtr(s.v))
GetType(s, t) ==
  LET k == Kind(s, t) IN
  IF t \in {Null, NilT} \/ s.stop # "" THEN Result(s, TVoid)
  ELSE IF t < 0 THEN Result(IF t = AutoT THEN Stop(s, "panic") ELSE s,
                            CASE t = BoolT -> I1 [] t = I8T -> I8 [] t = U32T -> I32 [] OTHER -> I64)
  ELSE IF k \in {"StructType", "TupleType", "ArrayType"} /\ Ir(s, t) # NoValue THEN Result(s, Ir(s, t))
  ELSE CASE k = "StructType" -> GetStructType(s, t)
         [] k = "TupleType"  -> GetTupleType(s, t)
         [] k = "ArrayType"  -> GetArrayType(s, t)
         [] k = "RefType"    -> IF s.b.safe THEN Result(s, TRef)
                                ELSE PtrTo(GetType(s, Kid(s, t, 1)))
         [] OTHER -> Result(Stop(s, "panic"), TVoid)

(* build_funtype, get_funtype.                                             *)
FunType(s, t, result) == InternAs(s, t, TFun(result, s.vs))
WithParams(s, t) == FunType(GetTypes(s, Kids(s, TypeOf(s, Kid(s, t, 1)))), t, s.v)
KnownFunType(s, t) ==
  IF Interned(s, t) # {} THEN InternAs(s, t, TVoid) ELSE WithParams(GetType(s, Kid(s, t, 2)), t)
GetFunType(s, t) == KnownFunType(TypeID(s, t), t)

-----------------------------------------------------------------------------
(* Functions, blocks and calls.                                            *)

(* A constant parameter is its value; the others live on the stack.        *)
BuildParam(s, f, n, j) ==
  LET p == Kid(s, Kid(s, n, 1), j)
      Memory(a) == SetIr(Store(a, Param(f, j), a.v), p, a.v) IN
  IF Has(s, p, "Const") THEN SetIr(s, p, Param(f, j)) ELSE Memory(Alloca(s, s.m.fun[f].params[j]))

(* build_fun: a function that is first met in another's body is built      *)
(* there; the block is restored, noload, mut and varalloc are not touched. *)
AddFun(s, n) ==
  IF s.stop # "" THEN s
  ELSE SetIr([s EXCEPT !.m.fun = Append(@, [node |-> n, result |-> s.v[2], params |-> s.v[3], blocks |-> <<>>])],
             n, Ref("fun", Len(s.m.fun) + 1))
StartFun(s, n) == AddFun(GetFunType(Require(s, Kind(s, TypeOf(s, n)) = "FunType"), TypeOf(s, n)), n)

EndFun(s, n) ==
  IF IsRet(s, s.v) THEN s
  ELSE Ins(s, "ret", TVoid, IF s.v = NoValue \/ Kid(s, TypeOf(s, n), 2) = NilT THEN <<>> ELSE <<s.v>>, 0)
EnterFun(s, f, k) ==
  [AppendBlock(NewBlock(s), f, k) EXCEPT !.b.bb = k, !.b.nest = @ + 1, !.b.failb = 0, !.b.falloca = NoValue]
LeaveFun(s, old) ==
  [s EXCEPT !.b.nest = old.nest,
            !.b.bb      = IF old.bb = 0 THEN @ ELSE old.bb,
            !.b.failb   = IF old.bb = 0 THEN @ ELSE old.failb,
            !.b.falloca = IF old.bb = 0 THEN @ ELSE old.falloca]
BuildParams(s, n, f) ==
  FoldLeft(LAMBDA q, j : BuildParam(q, f, n, j), s, UpTo(Len(Kids(s, Kid(s, n, 1)))))
BuildBody(s, n, f) ==
  Result(LeaveFun(EndFun(Build(BuildParams(EnterFun(s, f, Len(s.m.blk) + 1), n, f), Kid(s, n, 3)), n), s.b),
         Ref("fun", f))

Started(s, n) ==
  IF Kid(s, n, 3) = Null \/ s.stop # "" THEN s ELSE BuildBody(s, n, Len(s.m.fun))
BuildFun(s, n) == IF Ir(s, n) # NoValue THEN FromIr(s, n) ELSE Started(StartFun(s, n), n)

(* build_block: only the last entry may be loaded.                         *)
BuildBlock(s, n) ==
  LET k == Len(Kids(s, n)) IN
  FoldLeft(LAMBDA q, j : BuildAs(q, Kid(s, n, j), IF j = k THEN s.b.noload ELSE TRUE),
           Result(s, NoValue), [j \in 1 .. k |-> j])

BuildFunCall(s, n) ==
  LET Of(q, f, ft) == IF ft[1] # "fun" \/ Len(ft[3]) # Len(q.vs) THEN Stop(q, "assert")
                      ELSE Ins(q, "call", ft[2], <<f>> \o q.vs, 0)
      Args(q, f) == Of([q EXCEPT !.b.noload = s.b.noload], f, Elem(VType(q, f)))
      Receiver(c) == IF c.v = NoValue \/ c.stop # "" THEN c
                     ELSE Args(BuildList([c EXCEPT !.b.noload = FALSE], ArgsOf(s, n)), c.v) IN
  Receiver(Build(s, Kid(s, n, 1)))

-----------------------------------------------------------------------------
(* Variables.                                                               *)

(* take_varalloca: the memory of the variable that is being initialized.   *)
Taken(s, ty) ==
  IF s.b.alloc # NoValue /\ Elem(VType(s, s.b.alloc)) # ty THEN Stop(s, "panic")
  ELSE [Result(s, s.b.alloc) EXCEPT !.b.alloc = NoValue]
TakeOrAlloca(s, ty) == LET Or(q) == IF q.v = NoValue THEN Alloca(q, ty) ELSE q IN Or(Taken(s, ty))

(* n built into the memory at ptr; s.eq says whether n did not take it.    *)
set_varalloca(s, ptr) == [s EXCEPT !.b.alloc = ptr]
Into(s, ptr, BuildIt(_)) ==
  LET q == BuildIt(set_varalloca(s, ptr)) IN
  set_varalloca([q EXCEPT !.eq = q.b.alloc # NoValue], s.b.alloc)

Filled(s, init) == Result(Store(s, init, s.v), s.v)
InitStore(s, init) ==
  IF s.b.bb = 0 THEN Global(s, VType(s, init), init) ELSE Filled(Alloca(s, VType(s, init)), init)

LoadVar(s, n) ==
  LET v == Ir(s, n) IN
  IF Has(s, n, "Const") \/ s.b.noload THEN Result(s, v)
  ELSE IF VType(s, v)[1] # "ptr" THEN Stop(s, "assert")
  ELSE IF s.b.nest = 0 THEN Result(s, IF v[1] = "glob" THEN s.m.glob[v[2]].init ELSE NoValue)
  ELSE Load(s, Elem(VType(s, v)), v)

(* build_var_def: an unused variable is not built at all.                  *)
NullOf(s) == Result(s, ConstNull(s.v))
InitialValue(s, n) ==
  IF Init1(s, n) = Null THEN NullOf(GetType(s, TypeOf(s, n))) ELSE Build(s, Init1(s, n))

ConstDef(s, n) == IrOf(InitialValue(s, n), n)

(* The initializer is built into the memory, or stored there.              *)
Untaken(s, ptr) == IF s.eq THEN Store(s, s.v, ptr) ELSE s
DefAt(s, n, ptr) ==
  Result(IF Init1(s, n) = Null THEN Store(s, ConstNull(Elem(VType(s, ptr))), ptr)
         ELSE Untaken(Into(s, ptr, LAMBDA q : Build(q, Init1(q, n))), ptr), ptr)
DefIn(s, n) == DefAt(SetIr(s, n, s.v), n, s.v)
AllocaOf(s) == Alloca(s, s.v)
MutableDef(s, n) == DefIn(AllocaOf(GetType(s, TypeOf(s, n))), n)

DefOf(s, n) ==
  IF Has(s, n, "Unused") THEN Result(s, NoValue)
  ELSE IF Has(s, n, "Const") THEN ConstDef(s, n) ELSE MutableDef(s, n)
VarDef(s, n) ==
  [DefOf([Require(s, Ir(s, n) = NoValue /\ ~Has(s, n, "Param") /\ s.b.bb # 0)
          EXCEPT !.b.noload = FALSE], n)
   EXCEPT !.b.noload = IF Has(s, n, "Unused") THEN FALSE ELSE s.b.noload]

BuildVar(s, n) ==
  LoadVar(IF Ir(s, n) # NoValue THEN s
          ELSE set_mut([VarDef(set_mut(s, ~Has(s, n, "Const")), n) EXCEPT !.b.noload = s.b.noload], s.b.mut), n)

(* build_global_var: the initializer of a constant is the constant.        *)
GlobalVar(s, n) ==
  LET Initial(q) ==
        IF q.stop # "" THEN q
        ELSE IF q.v = NoValue THEN Stop(q, "assert")
        ELSE IF ~IsConstant(q.v) THEN Stop(q, "panic")
        ELSE IrOf(IF Has(q, n, "Const") THEN q ELSE Global(q, VType(q, q.v), q.v), n) IN
  IF Has(s, n, "Const") /\ IsType(s, Init1(s, n)) THEN Result(s, NoValue) ELSE Initial(InitialValue(s, n))

(* The name of a value: the value, and what the node stands for.           *)
NameOf(q, n) == Result(SetIr(q, n, Ir(q, Kid(q, n, 1))), q.v)
BuildId(s, n) == NameOf(Build(Require(s, Kid(s, n, 1) # Null), Kid(s, n, 1)), n)

-----------------------------------------------------------------------------
(* Arrays, tuples and structs.                                             *)
I32Zero == ConstInt(I32, 0)

(* build_array: values that vary are stored one by one, the first one      *)
(* being the size of an allocation when no memory is waiting.              *)
StoreAt(s, v) == Store(s, v, s.v)
Elements(s, vs, ty, one) ==
  FoldLeft(LAMBDA p, v : IF v = one THEN p
                         ELSE StoreAt(Gep(p, ty, s.v, <<I32Zero, ConstInt(I32, ty[2])>>, ty[3]), v), s, vs)
VaryingArray(s, vs, ty) ==
  LET In(q, one) == Result(Elements(q, vs, ty, one), q.v) IN
  IF s.v = NoValue THEN In(Ins(s, "alloca", TPtr(ty), <<vs[1]>>, ty), vs[1]) ELSE In(s, NoValue)

ConstantArray(s, vs, ty) ==
  IF s.v = NoValue THEN Global(s, ty, Const(ty, vs)) ELSE Result(Store(s, Const(ty, vs), s.v), s.v)

ArrayIn(s, n, vs, ty) ==
  IF s.stop # "" THEN s
  ELSE IrOf(IF AllConstant(vs) THEN ConstantArray(s, vs, ty) ELSE VaryingArray(s, vs, ty), n)
ArrayOf(s, n, ty) == ArrayIn(Taken(s, ty), n, s.vs, ty)
ArrayValues(s, n) ==
  IF s.stop # "" THEN s
  ELSE IF NoValue \in SetOf(s.vs) THEN Stop(s, "null")
  ELSE ArrayOf(s, n, TArr(Val(s, TypeOf(s, n)), VType(s, s.vs[1])))

BuildArray(s, n) ==
  LET size == Val(s, TypeOf(s, n))
      k == Len(Kids(s, n)) IN
  IF k # size THEN Stop(s, IF k > size /\ size > 0 THEN "assert" ELSE "panic")
  ELSE ArrayValues(BuildList(s, Kids(s, n)), n)

(* build_anon_struct: the memory of the tuple goes to n, the value is      *)
(* returned; a tuple of constants that nothing changes is a global.        *)
AnonConstant(s, init, n) == Result(SetIr(Store(s, init, s.v), n, s.v), init)
AnonFields(s, vs, ty) ==
  FoldLeft(LAMBDA p, j : StoreAt(Gep(p, ty, s.v, <<I32Zero, ConstInt(I32, j - 1)>>, ty[3][j]), vs[j]), s, UpTo(Len(vs)))
AnonValue(s, ty, ptr) == IF s.b.noload THEN Result(s, NoValue) ELSE Load(s, ty, ptr)
AnonVarying(s, vs, ty, n) == AnonValue(SetIr(AnonFields(s, vs, ty), n, s.v), ty, s.v)

AnonTyped(s, ty, n) ==
  LET init == Const(ty, s.vs) IN
  IF ~AllConstant(s.vs) THEN AnonVarying(TakeOrAlloca(s, ty), s.vs, ty, n)
  ELSE IF s.b.mut THEN AnonConstant(TakeOrAlloca(s, ty), init, n)
  ELSE Result(IrOf(Global(s, ty, init), n), init)
AnonStruct(s, n) ==
  IF NoValue \in SetOf(s.vs) \/ s.stop # "" THEN Stop(s, "null")
  ELSE AnonTyped(s, TStruct(0, [j \in DOMAIN s.vs |-> VType(s, s.vs[j])]), n)

BuildTuple(s, n) ==
  AnonStruct([BuildList([s EXCEPT !.b.noload = FALSE], Kids(s, n)) EXCEPT !.b.noload = s.b.noload], n)

(* build_struct_init: from the initializers of the fields; the arguments   *)
(* of a constructor are not used.  The default value of a type is kept.    *)
DefaultOf(s, t) == IF Kind(s, t) = "StructType" THEN StructInit(s, t, FALSE, s.v) ELSE NullOf(s)
Initializer(s, t, init) == IF init # Null THEN Build(s, init) ELSE DefaultOf(GetType(s, t), t)

ConstantOnly(s) == IF s.v = NoValue THEN Stop(s, "null") ELSE IF IsConstant(s.v) THEN s ELSE Fail(s)
FieldValues(s, t) ==
  FoldLeft(LAMBDA q, f : Listed(ConstantOnly(Initializer(q, TypeOf(q, f), Init1(q, f))), q.vs),
           [s EXCEPT !.vs = <<>>], Kids(s, t))
add_default_init(s, ty, v) == [s EXCEPT !.b.inits = Append(@, <<ty, v>>)]
StructValue(s, args, ty, v) == Result(IF args THEN s ELSE add_default_init(s, ty, v), v)
StructOf(s, args, ty) ==
  IF s.stop # "" THEN s
  ELSE IF ~AllConstant(s.vs) THEN Stop(s, "panic")
  ELSE StructValue(s, args, ty, IF \A j \in DOMAIN s.vs : IsNull(s.vs[j]) THEN ConstNull(ty) ELSE Const(ty, s.vs))

StructInit(s, t, args, ty) ==
  LET known == {j \in DOMAIN s.b.inits : s.b.inits[j][1] = ty} IN
  IF ~args /\ known # {} THEN Result(s, s.b.inits[CHOOSE j \in known : TRUE][2])
  ELSE StructOf(FieldValues(s, t), args, ty)

Constructed(s, n) == IF s.stop # "" THEN s ELSE IrOf(InitStore(s, s.v), n)
ConsOf(s, n, t)   == Constructed(StructInit(s, t, Kid(s, n, 2) # Null, s.v), n)
StructCons(s, n)  ==
  LET t == Kid(s, TypeOf(s, Kid(s, n, 1)), 1) IN ConsOf(GetType(s, t), n, t)

BuildCall(s, n) ==
  LET rt == TypeOf(s, Kid(s, n, 1)) IN
  CASE Kind(s, rt) = "FunType" -> BuildFunCall(s, n)
    [] Kind(s, rt) = "TypeType" /\ Kind(s, Kid(s, rt, 1)) = "StructType" -> StructCons(s, n)
    [] OTHER -> Stop(s, "panic")

-----------------------------------------------------------------------------
(* Assignments.                                                            *)
IsValue(s, n) == Has(s, n, "RValue") /\ ~s.b.noload

(* build_assign_var: what is stored is what the right side stands for.     *)
ValueAt(s, n, ptr) == IF IsValue(s, n) THEN Load(s, Elem(VType(s, ptr)), ptr) ELSE Result(s, NoValue)
AssignUntaken(s, n, ptr) == ValueAt(IF s.eq /\ s.v # ptr THEN Store(s, s.v, ptr) ELSE s, n, ptr)
AssignTo(s, n, ptr) ==
  AssignUntaken(set_mut(Into(set_mut(s, TRUE), ptr, LAMBDA q : NoLoad(q, Kid(q, n, 2))), s.b.mut), n, ptr)
AssignKid(s, n) == AssignTo(s, n, s.v)
AssignVar(s, n) == AssignKid(NoLoad(s, Kid(s, n, 1)), n)

(* build_assign_tuple: every source is loaded before the first store.      *)
Present(s) == Require(s, s.v # NoValue)
Source(s, l, r) == IF r # Null THEN MustLoad(s, r) ELSE LoadVar(VarDef(s, l), l)
TupleSources(s, n) ==
  LET ls == Kids(s, Kid(s, n, 1))
      rs == Kids(s, Kid(s, n, 2)) IN
  FoldLeft(LAMBDA q, j : Listed(Present(Source(q, ls[j], rs[j])), q.vs), [s EXCEPT !.vs = <<>>], UpTo(Len(rs)))

\* mutant of TupleStores
TupleStoresLate(s, n, vs) ==
  LET ls == Kids(s, Kid(s, n, 1))
      rs == Kids(s, Kid(s, n, 2))
      To(p, v) == IF p.v = NoValue THEN Stop(p, "assert") ELSE Store(p, v, p.v)
      From(q, j) == To(NoLoad(q, ls[j]), q.v)
      One(q, j) == IF rs[j] = Null THEN q ELSE From(MustLoad(q, rs[j]), j) IN
  FoldLeft(One, s, UpTo(Len(rs)))

TupleStores(s, n, vs) ==
  LET ls == Kids(s, Kid(s, n, 1))
      rs == Kids(s, Kid(s, n, 2))
      To(p, j) == IF p.v = NoValue THEN Stop(p, "assert") ELSE Store(p, vs[j], p.v)
      One(q, j) == IF rs[j] = Null THEN q
                   ELSE IF Kind(q, ls[j]) # "Var" THEN Stop(q, "panic") ELSE To(NoLoad(q, ls[j]), j) IN
  FoldLeft(One, s, UpTo(Len(rs)))

LoadVars(s, xs) == FoldLeft(LAMBDA p, x : Listed(LoadVar(p, x), p.vs), [s EXCEPT !.vs = <<>>], xs)
TupleResult(s, n) ==
  IF IsValue(s, n) THEN AnonStruct(LoadVars(s, Kids(s, Kid(s, n, 1))), n) ELSE Result(s, NoValue)
StoreTuple(s, n) ==
  IF s.stop # "" THEN s
  ELSE TupleResult(set_mut(TupleStores(set_mut(s, TRUE), n, s.vs), s.b.mut), n)
AssignTuple(s, n) == StoreTuple(TupleSources(s, n), n)

PutElement(s, n, v) == SetIr(Store(s, v, s.v), n, v)
AssignElement(s, n, i, v, ty) ==
  IF ty[1] # "arr" THEN Stop(s, "null") ELSE PutElement(Gep(s, ty, s.v, <<I32Zero, i>>, ty[3]), n, v)
AssignIn(s, n, i, v) ==
  IF VType(s, s.v)[1] # "ptr" \/ s.stop # "" THEN Stop(s, "assert")
  ELSE AssignElement(s, n, i, v, Elem(VType(s, s.v)))
Equal(s) == Require(s, s.eq)
SourceFits(s, n, l) == Equal(TypeEquals(s, Kid(s, KidType(s, l, 1), 1), KidType(s, n, 2)))
AssignArray(s, n, l, i) ==
  LET k == Kind(s, TypeOf(s, Kid(s, l, 1))) IN
  IF k # "ArrayType" THEN Stop(s, IF k = "TupleType" THEN "panic" ELSE "assert")
  ELSE AssignIn(set_mut(NoLoad(set_mut(SourceFits(s, n, l), TRUE), Kid(s, l, 1)), s.b.mut), n, i, s.v)
AssignAt(s, n, l) == AssignArray(MustLoad(s, Kid(s, n, 2)), n, l, s.v)
AssignIndex(s, n) == AssignAt(MustLoad(s, Kid(s, Kid(s, n, 1), 2)), n, Kid(s, n, 1))

BuildAssign(s, n) ==
  LET k == Kind(s, Kid(s, n, 1)) IN
  CASE k = "Var"   -> AssignVar(s, n)
    [] k = "Tuple" -> AssignTuple(s, n)
    [] k = "Index" -> AssignIndex(s, n)
    [] OTHER       -> Stop(s, "panic")

-----------------------------------------------------------------------------
(* Operators and conditions.                                               *)

(* kOpTableSInt, kOpTableUInt; booleans can only be compared for equality. *)
OpCode(op, t) ==
  LET signed == t \in {IntT, I8T}
      integer == t \in IntTypes IN
  CASE op = "==" /\ (integer \/ t = BoolT) -> "eq"
    [] op = "<" /\ integer -> IF signed THEN "slt" ELSE "ult"
    [] op = "/" /\ integer -> IF signed THEN "sdiv" ELSE "udiv"
    [] op = "+" /\ integer -> "add"
    [] op = "-" /\ integer -> "sub"
    [] op = "*" /\ integer -> "mul"
    [] OTHER -> "none"

(* LLVM computes with constants as it builds.                              *)
Folds(op, ty, l, r) ==
  /\ l # NoValue /\ r # NoValue /\ l[1] = "const" /\ r[1] = "const"
  /\ ty[1] = "i" /\ r[2] = ty /\ ~(op \in {"sdiv", "udiv"} /\ r[3] \in {0, Modulus(ty) - 1})

Operate(s, op, l, ty) ==
  LET to == IF op \in Compares THEN I1 ELSE ty IN
  IF Folds(op, ty, l, s.v) THEN Result(s, Const(to, Compute(op, ty, l[3], s.v[3])))
  ELSE Ins(s, op, to, <<l, s.v>>, 0)
RightOf(s, op, l) ==
  IF s.stop # "" THEN s
  ELSE IF op = "none" THEN Result(Fail(s), NoValue) ELSE Operate(s, op, l, VType(s, l))
LeftOf(s, n) == RightOf(Build(s, Kid(s, n, 2)), OpCode(Val(s, n), KidType(s, n, 1)), s.v)
BuildBinOp(s, n) ==
  LET t == KidType(s, n, 1) IN
  IF t >= 0 \/ t \in {NilT, IdealT, AutoT} THEN Stop(s, "assert") ELSE LeftOf(Build(s, Kid(s, n, 1)), n)

(* build_if: a branch to the end follows each branch, whatever it ends in; *)
(* without an else the value is that of the type that has all bits clear.  *)
MatchedElse(s, n) == IF s.eq THEN Build(s, Kid(s, n, 3)) ELSE Stop(s, "panic")
ElseBranch(s, n) ==
  IF Kid(s, n, 3) = Null THEN NullOf(GetType(s, KidType(s, n, 2)))
  ELSE MatchedElse(TypeEquals(s, KidType(s, n, 2), KidType(s, n, 3)), n)

(* Blocks k + 1, k + 2 and, behind them, k + 3.                            *)
IfBranches(s, n, k, f, two, value) ==
  LET End(q) == Ins(q, "br", TVoid, <<>>, <<k + 3>>)
      Phi(q, t, e) == IF q.stop # "" \/ ~value THEN Result(q, NoValue)
                      ELSE IF t[1] = NoValue THEN Stop(q, "null")
                      ELSE Ins(q, "phi", VType(q, t[1]), <<t[1], e[1]>>, <<t[2], e[2]>>)
      Join(q, t, e) == Phi(At(AppendBlock(q, f, k + 3), k + 3), t, e)
      Else(e, t) == Join(End(e), t, <<e.v, e.b.bb>>)
      Then(t) == IF two THEN Else(ElseBranch(At(AppendBlock(End(t), f, k + 2), k + 2), n), <<t.v, t.b.bb>>)
                 ELSE Join(End(t), <<t.v, t.b.bb>>, <<>>) IN
  Then(Build(At(s, k + 1), Kid(s, n, 2)))

BuildIf(s, n) ==
  LET two == Kid(s, n, 3) # Null \/ IsValue(s, n)
      From(c, k, f) == IfBranches(Ins(AppendBlock(NewBlock(NewBlock(NewBlock(c))), f, k + 1), "condbr", TVoid,
                                      <<c.v>>, <<k + 1, IF two THEN k + 2 ELSE k + 3>>),
                                  n, k, f, two, IsValue(c, n))
      Condition(c) == IF c.stop # "" THEN c ELSE From(c, Len(c.m.blk), CurrentFun(c)) IN
  Condition(Build(Require(s, KidType(s, n, 1) = BoolT), Kid(s, n, 1)))

-----------------------------------------------------------------------------
(* References.                                                             *)

(* build_refstruct_new: a wide pointer, of generation 0.                   *)
Generation(s, ref) == Result(Store(s, I32Zero, s.v), ref)
RefPointer(s, p, ref) ==
  Generation(Gep(Store(s, s.v, p), TRef, ref, <<I32Zero, ConstInt(I32, 1)>>, I32), ref)
RefCast(s, ptr, ref) ==
  RefPointer(IF VType(s, ptr) = TPtr(I32) THEN Result(s, ptr) ELSE Ins(s, "cast", TPtr(I32), <<ptr>>, 0), s.v, ref)
RefIn(s, ptr) == RefCast(Gep(s, TRef, s.v, <<I32Zero, I32Zero>>, TPtr(I32)), ptr, s.v)
NewRef(s, ptr) == RefIn(TakeOrAlloca(s, TRef), ptr)

WideRef(s, n) ==
  IF s.b.noload THEN Result(SetIr(s, n, s.v), NoValue) ELSE Load(SetIr(s, n, s.v), TRef, s.v)
RefTo(s, n) ==
  IF VType(s, s.v)[1] # "ptr" THEN Stop(s, "assert")
  ELSE IF ~s.b.safe THEN IrOf(s, n) ELSE WideRef(NewRef(s, s.v), n)
BuildRef(s, n) == RefTo(NoLoad(s, Kid(s, n, 1)), n)

(* build_refstruct_deref: a reference with a generation must have that of  *)
(* the memory.  The block of failure and its memory are made once in a     *)
(* function, the memory at the head of the entry block.                    *)
FailBlock(s) ==
  LET f == CurrentFun(s)
      entry == s.m.fun[f].blocks[1]
      k == Len(s.m.blk) + 1
      Ahead(a) == [a EXCEPT !.m.blk[entry].is = <<Last(@)>> \o Front(@), !.b.falloca = a.v, !.b.failb = k]
      Made(q) == Ins(At(AppendBlock(NewBlock(q), f, k), k), "unreachable", TVoid, <<>>, 0) IN
  IF s.b.failb # 0 \/ s.stop # "" THEN s ELSE Made(Ahead(Alloca(At(s, entry), TRef)))

Branch(s, x, y) == Ins(s, "condbr", TVoid, <<s.v>>, <<x, y>>)

DerefValue(s, n, ptr) == Result(SetIr(s, n, ptr), s.v)
DerefLoad(s, n, ety) ==
  DerefValue(IF s.b.noload THEN Result(s, NoValue) ELSE Load(s, ety, s.v), n, s.v)
DerefCast(s, n, ety, p) ==
  DerefLoad(IF ety = I32 THEN Result(s, p) ELSE Ins(s, "cast", TPtr(ety), <<p>>, 0), n, ety)
SameGeneration(s, g, y) == At(Branch(Ins(s, "ne", I1, <<g, s.v>>, 0), s.b.failb, y), y)
(* Block x when the reference has a generation g, block y otherwise.       *)
CheckGeneration(s, p, g, x, y) ==
  LET f == CurrentFun(s)
      blocks == AppendBlock(AppendBlock(NewBlock(NewBlock(s)), f, x), f, y) IN
  SameGeneration(Load(At(FailBlock(Branch(Ins(blocks, "ne", I1, <<g, I32Zero>>, 0), x, y)), x), I32, p), g, y)
DerefPointer(s, n, ety, p) ==
  DerefCast(CheckGeneration(s, p, s.v, Len(s.m.blk) + 1, Len(s.m.blk) + 2), n, ety, p)
DerefGeneration(s, n, ref, ety) == DerefPointer(Ins(s, "extract", I32, <<ref>>, 1), n, ety, s.v)
DerefSafe(s, n, ref, ety) ==
  IF s.stop # "" THEN s
  ELSE IF VType(s, ref) # TRef THEN Stop(s, "assert")
  ELSE DerefGeneration(Ins(s, "extract", TPtr(I32), <<ref>>, 0), n, ref, ety)
(* The reference to a value of type t.                                     *)
DerefAs(s, n, ref) == DerefSafe(s, n, ref, s.v)
Deref(s, n, ref, t) == DerefAs(GetType(s, Kid(s, t, 1)), n, ref)

DerefOperand(s, n) ==
  IF s.b.safe THEN Deref(s, n, s.v, KidType(s, n, 1))
  ELSE IF s.b.noload THEN Result(s, NoValue) ELSE Load(s, Elem(VType(s, s.v)), s.v)
BuildPrefixOp(s, n) ==
  IF Val(s, n) # "*" THEN Stop(s, "panic")
  ELSE IF Kind(s, KidType(s, n, 1)) # "RefType" THEN Stop(s, "assert")
  ELSE DerefOperand(Build(s, Kid(s, n, 1)), n)

(* build_return; what is left of a block is built behind it.               *)
BuildResult(s, n) ==
  LET Of(q) == Ins(q, "ret", TVoid, <<q.v>>, 0) IN
  Of(Build(Require(s, Kid(s, n, 1) # Null), Kid(s, n, 1)))

RECURSIVE PathType(_, _)
PathType(ty, path) == IF path = <<>> THEN ty ELSE PathType(ty[3][path[1]], Tail(path))

MemberAt(s, n, to) == IF s.b.noload THEN IrOf(s, n) ELSE Load(IrOf(s, n), to, s.v)
MemberOf(s, n, ty, path) ==
  LET to == PathType(ty, path) IN
  MemberAt(Gep(s, ty, s.v, <<I32Zero>> \o [j \in DOMAIN path |-> ConstInt(I32, path[j] - 1)], to), n, to)
SelectOf(s, n) ==
  IF s.v = NoValue \/ s.stop # "" THEN Stop(s, "assert")
  ELSE IF VType(s, s.v)[1] # "ptr" THEN Stop(s, "null")
  ELSE MemberOf(s, n, Elem(VType(s, s.v)), Val(s, n)[2])
BuildSelector(s, n) == SelectOf(NoLoad(s, Kid(s, n, 1)), n)

(* build_index: a constant is taken apart; an array that is a value is     *)
(* first put in memory, once for the node that stands for it.              *)
Owner(s, n) == Unbox(s, n, FALSE).r

SpillTo(s, o, v) == SetIr(Store(s, v, s.v), o, s.v)
SpillOf(s, o, v) ==
  IF VType(s, Ir(s, o))[1] = "ptr" THEN FromIr(s, o) ELSE SpillTo(Alloca(s, VType(s, v)), o, v)
Spill(s, n, v) == SpillOf(s, Owner(s, n), v)

(* The element at a place that is only known when the program runs, or     *)
(* that is known of memory that is not constant.                           *)
LoadAt(s, ty) == Load(s, ty, s.v)
seq_elem_type(ty, at) == IF ty[1] = "arr" THEN ty[3] ELSE ty[3][at + 1]
ElementAtPtr(s, ptr, ty, at) ==
  LET fixed == ptr[1] = "glob" /\ ty[1] = "arr" /\ s.v[1] = "const" IN
  IF fixed /\ at < ty[2] THEN Result(s, s.m.glob[ptr[2]].init[3][at + 1])
  ELSE LoadAt(Gep(IF fixed THEN Fail(s) ELSE s, ty, ptr, <<I32Zero, s.v>>, seq_elem_type(ty, at)), seq_elem_type(ty, at))
AtPosition(s, ptr, ty) ==
  IF s.v = NoValue \/ s.stop # "" THEN Stop(s, "null")
  ELSE ElementAtPtr(s, ptr, ty, IF s.v[1] = "const" THEN s.v[3] ELSE NotConst)
IndexPtr(s, n, ptr) ==
  LET known == Val(s, n) # NotConst
      ty == Elem(VType(s, ptr)) IN
  IF ty[1] \notin {"arr", "struct"} \/ (~known /\ ty[1] # "arr") THEN Stop(s, "assert")
  ELSE AtPosition(IF known THEN Result(s, ConstInt(I32, Val(s, n))) ELSE Build(s, Kid(s, n, 2)), ptr, ty)

IndexInMemory(s, n) == IF s.v = NoValue THEN Stop(s, "null") ELSE IndexPtr(s, n, s.v)
IndexTyped(s, n, ty) ==
  LET x == Kid(s, n, 1)
      i == Val(s, n) IN
  IF ty[1] \notin {"arr", "struct", "ptr"} THEN Stop(s, "panic")
  ELSE IF ty[1] # "ptr" /\ i # NotConst /\ s.v[1] = "const" THEN Result(s, s.v[3][i + 1])
  ELSE IF ty[1] = "arr" /\ i # NotConst THEN Ins(s, "extract", ty[3], <<s.v>>, i)
  ELSE IndexInMemory(CASE ty[1] = "ptr" -> s [] ty[1] = "arr" -> Spill(s, x, s.v)
                       [] OTHER -> FromIr(s, Owner(s, x)), n)
IndexEither(s, n) == IF s.stop # "" THEN s ELSE IndexTyped(s, n, VType(s, s.v))
DerefIr(s, n, t) ==
  FromIr([Deref([s EXCEPT !.b.noload = TRUE], n, s.v, t) EXCEPT !.b.noload = s.b.noload], n)
IndexOperand(s, n) ==
  IF s.v = NoValue THEN Stop(s, "assert")
  ELSE IndexEither(IF VType(s, s.v) = TRef THEN DerefIr(s, n, KidType(s, n, 1)) ELSE s, n)
BuildIndex(s, n) == IndexOperand(MustLoad(s, Kid(s, n, 1)), n)

-----------------------------------------------------------------------------
BuildNamedVal(s, n) == NameOf(Build(s, Kid(s, n, 1)), n)
BuildIntLit(s, n) ==
  LET Typed(g) == SetIr(g, n, ConstInt(g.v, Val(g, n))) IN Typed(GetType(s, TypeOf(s, n)))
BuildStructTypeExpr(s, n) == Result(IF IsValue(s, n) THEN Stop(GetType(s, n), "panic") ELSE GetType(s, n), NoValue)

BuildField(s, n) == Initializer(s, TypeOf(s, n), Init1(s, n))
BuildTypeCast(s, n) == Stop(s, IF Kid(s, n, 2) = Null THEN "assert" ELSE "panic")
BuildSlice(s, n) == Stop(s, IF TypeOf(s, n) = Null THEN "assert" ELSE "panic")

(* build_expr.  Nil and the booleans are not there.                        *)
Build(s, n) ==
  LET k == Kind(s, n) IN
  IF s.stop # "" THEN s
  ELSE CASE k = "Array"    -> BuildArray(s, n)
         [] k = "Assign"   -> BuildAssign(s, n)
         [] k = "BinOp"    -> BuildBinOp(s, n)
         [] k = "Block"    -> BuildBlock(s, n)
         [] k = "Call"     -> BuildCall(s, n)
         [] k = "Field"    -> BuildField(s, n)
         [] k = "Fun"      -> BuildFun(s, n)
         [] k = "Id"       -> BuildId(s, n)
         [] k = "If"       -> BuildIf(s, n)
         [] k = "Index"    -> BuildIndex(s, n)
         [] k = "IntLit"   -> BuildIntLit(s, n)
         [] k = "NamedVal" -> BuildNamedVal(s, n)
         [] k = "PrefixOp" -> BuildPrefixOp(s, n)
         [] k = "Ref"      -> BuildRef(s, n)
         [] k = "Return"   -> BuildResult(s, n)
         [] k = "Selector" -> BuildSelector(s, n)
         [] k = "Slice"    -> BuildSlice(s, n)
         [] k = "TypeCast" -> BuildTypeCast(s, n)
         [] k = "Tuple"    -> BuildTuple(s, n)
         [] k = "Var"      -> BuildVar(s, n)
         [] k = "StructType" -> BuildStructTypeExpr(s, n)
         [] OTHER -> Stop(s, IF n = Null THEN "assert" ELSE "panic")

(* The builder of a file that starts (build_module).                       *)
EmptyModule == [ins |-> <<>>, blk |-> <<>>, fun |-> <<>>, glob |-> <<>>]
NewBuilder(safe) ==
  [noload |-> FALSE, mut |-> FALSE, nest |-> 0, alloc |-> NoValue, types |-> <<>>, inits |-> <<>>,
   failb |-> 0, falloca |-> NoValue, bb |-> 0, safe |-> safe]

=============================================================================
