---------------------------- MODULE TypeResolver ----------------------------
(***************************************************************************)
(* parse/resolve_type.c: one walk over the tree gives every expression its *)
(* type, literals that of their context.                                   *)
(*                                                                         *)
(* Resolve(s, n, fl) is resolve_type: the store after the call, with the   *)
(* node that replaces n in s.r.  fl is a subset of {"Explicit", "Ideal",   *)
(* "Eager"}, s.ctx the typecontext, s.funs the function stack.  A build    *)
(* with assertions is modelled: one that fails stops the compiler.         *)
(***************************************************************************)
EXTENDS Syntax

RECURSIVE Resolve(_, _, _)

Demand(fl) == fl \cup {"Ideal", "Eager"}

Require(s, ok) == IF ok THEN s ELSE Stop(s, "assert")

(* n's j-th child replaced by what resolving it returns.                   *)
PutKid(q, n, j) == Give(SetKid(q, n, j, q.r), n)
ResolveKid(s, n, j, fl) == PutKid(Resolve(Require(s, Kid(s, n, j) # Null), Kid(s, n, j), fl), n, j)
PutType(q, n) == SetType(q, n, q.r)
MaybeKid(s, n, j, fl) == IF Kid(s, n, j) = Null THEN Give(s, n) ELSE ResolveKid(s, n, j, fl)

KidType(s, n, j) == TypeOf(s, Kid(s, n, j))
SameType(s, x, y) == TypeEquals(Require(s, x # Null /\ y # Null), x, y)

(* typecontext_set, and the restoring of a saved context.                  *)
SetContext(s, t) == [Require(s, t = Null \/ (IsType(s, t) /\ t # IdealT)) EXCEPT !.ctx = t]
Restore(s, old)  == [s EXCEPT !.ctx = old.ctx]

(* The stack of functions has NULL, for the top level, at its bottom.      *)
funstack_push(s, n) == [s EXCEPT !.funs = Append(@, n)]
funstack_pop(s) == [s EXCEPT !.funs = Front(@)]
CurrFun(s) == Last(s.funs)

(* resolve_failed, and the same with nil as the type whatever it was.      *)
Failed(s, n) == Give(Fail(IF TypeOf(s, n) = Null THEN SetType(s, n, NilT) ELSE s), n)
Rejected(s, n) == Give(Fail(SetType(s, n, NilT)), n)

report_type_mismatch(s) == Fail(s)

Unequal(s) == IF s.eq THEN s ELSE report_type_mismatch(s)
CheckTypeEq(s, expect, subject) == Unequal(SameType(s, subject, expect))
CheckKid(s, n, j, expect) == CheckTypeEq(s, expect, KidType(s, n, j))

-----------------------------------------------------------------------------
(* clear_const: the variable below indices, members and names is marked    *)
(* mutable, unless it is declared const, and so is the node itself.        *)
RECURSIVE MutatedBy(_, _)
MutatedBy(s, n) ==
  IF Kind(s, n) \in {"Index", "Selector", "Id"} THEN MutatedBy(s, Kid(s, n, 1)) ELSE n

ClearConst(s, n, strict) ==
  LET Below(v) ==
        IF v = Null THEN Stop(s, "assert")
        ELSE IF Has(s, v, "isconst") THEN IF strict THEN Fail(s) ELSE s
        ELSE DelFlag(IF Kind(s, v) = "Var" THEN DelFlag(s, v, "Const") ELSE s, n, "Const") IN
  Below(MutatedBy(s, n))

-----------------------------------------------------------------------------
(* resolve_ideal_type: what an untyped value is in the context t.          *)
RECURSIVE ResolveIdeal(_, _, _, _)

Natural(s, n) == New(s, [Nd(s, n) EXCEPT !.type = IntT])

GiveType(s, n, t) == Give(SetType(s, n, t), n)
PutIdeal(s, n, j) == GiveType(SetKid(s, n, j, s.r), n, TypeOf(s, s.r))
IdealKid(s, n, j, t, fl) ==
  PutIdeal(ResolveIdeal(Require(s, Kid(s, n, j) # Null), Kid(s, n, j), t, fl), n, j)

Literal(s, n, t, fl) ==
  IF t = Null THEN Natural(s, n) ELSE Convlit(s, n, t, "Explicit" \in fl, TRUE)

ResolveIdeal1(s, n, t, fl) ==
  CASE Kind(s, n) = "IntLit" -> Literal(s, n, t, fl)
    [] Kind(s, n) = "Block" ->
         IF Len(Kids(s, n)) = 1 THEN ResolveIdeal(s, Kid(s, n, 1), t, fl)
         ELSE IdealKid(s, n, Len(Kids(s, n)), t, fl)
    [] Kind(s, n) \in {"Return", "Var"} -> IdealKid(s, n, 1, t, fl)
    [] OTHER -> Stop(s, "panic")

IdealValue(s, n, t, fl) ==
  IF s.stop # "" THEN Give(s, n)
  ELSE IF t > 0 \/ TypeOf(s, s.r) # IdealT THEN Give(Stop(s, "assert"), n)
  ELSE ResolveIdeal1(s, s.r, t, fl)

ResolveIdeal(s, n, t, fl) == IdealValue(Unbox(s, n, TRUE), n, t, fl)

-----------------------------------------------------------------------------
(* Functions and the expressions that end them.                            *)

ResultType(s, f) == Kid(s, TypeOf(s, f), 2)

(* A result that is inferred is auto until the body has been resolved.     *)
err_ret_type(s) == Fail(s)
ReturnFits(s) == IF s.eq THEN s ELSE err_ret_type(s)
ReturnType(p, n, t) ==
  LET f == CurrFun(p) IN
  IF f = Null \/ TypeOf(p, f) = Null THEN Stop(p, "assert")
  ELSE IF ResultType(p, f) = Null THEN p ELSE ReturnFits(SameType(p, ResultType(p, f), t))

\* mutant of ReturnOf
ReturnOfUntyped(s, n, t) == IF s.stop # "" THEN s ELSE Give(ReturnType(s, n, t), n)

ReturnOf(s, n, t) ==
  IF s.stop # "" THEN s ELSE Give(ReturnType(SetType(s, n, t), n, t), n)
ReturnKid(s, n) == ReturnOf(s, n, KidType(s, n, 1))
ResolveReturn(s, n, fl) == ReturnKid(ResolveKid(s, n, 1, fl \cup {"Ideal"}), n)

PrefixType(s, n, t) ==
  IF Val(s, n) # "*" THEN s
  ELSE IF Kind(s, t) = "RefType" THEN SetType(s, n, Kid(s, t, 1)) ELSE Fail(s)
PrefixKid(s, n, t) == Give(PrefixType(Require(SetType(s, n, t), t # Null), n, t), n)

PrefixOperand(s, n) == PrefixKid(s, n, KidType(s, n, 1))
ResolvePrefixOp(s, n, fl) == PrefixOperand(ResolveKid(s, n, 1, fl \cup {"Ideal"}), n)

LastExpr(s, b) == IF Kind(s, b) = "Block" THEN Last(<<Null>> \o Kids(s, b)) ELSE b

(* The type of the body against the one declared; a return expression has  *)
(* been checked where it stands.                                           *)
CheckLast(q, last) ==
  IF q.eq THEN q
  ELSE IF last = Null THEN Stop(q, "assert")
  ELSE IF Kind(q, last) = "Return" THEN q ELSE err_ret_type(q)

CheckBody(s, n, ft) ==
  LET t      == KidType(s, n, 3)
      result == Kid(s, ft, 2) IN
  IF t = Null THEN Stop(s, "assert")
  ELSE IF result = AutoT THEN SetKid(s, ft, 2, t)
  ELSE IF result = NilT THEN s
  ELSE CheckLast(SameType(s, result, t), LastExpr(s, Kid(s, n, 3)))

IdealBody(s, n, ft, fl) ==
  IF KidType(s, n, 3) # IdealT \/ Kid(s, ft, 2) = NilT THEN s
  ELSE PutKid(ResolveIdeal(s, Kid(s, n, 3), Kid(s, ft, 2), fl), n, 3)
ResolveBody(s, n, ft, fl) == CheckBody(IdealBody(ResolveKid(s, n, 3, fl), n, ft, fl), n, ft)

(* resolve_fun: the type is in place before the parameters and the body,   *)
(* which may name the function.                                            *)
FunBody(s, n, ft, fl) ==
  IF ~IsType(s, s.r) THEN Fail(s)
  ELSE IF Kid(s, n, 3) = Null THEN s ELSE ResolveBody(s, n, ft, fl)
SetResult(s, ft) == SetKid(s, ft, 2, s.r)
FunResult(s, n, ft, fl) ==
  FunBody(SetResult(Resolve(SetKid(s, ft, 1, Kid(s, n, 1)), Kid(s, n, 2), fl), ft), n, ft, fl)
FunOf(s, n, ft, fl) ==
  SetType(FunResult(Require(s, Kid(s, n, 1) = Null \/ KidType(s, n, 1) # Null), n, ft, fl), n, ft)
FunParams(s, n, fl) == FunOf(MaybeKid(SetType(s, n, s.r), n, 1, fl), n, s.r, fl)

ResolveFun(s, n, fl) ==
  LET Begun == New(funstack_push(s, n), Node("FunType", 0, <<Null, Null>>, Null, {})) IN
  Give(funstack_pop(FunParams(Begun, n, fl)), n)

(* resolve_block_type: the last entry is the value.                        *)
UpTo(k) == [j \in 1 .. k |-> j]

ResolveBlock(s, n, fl) ==
  LET k == Len(Kids(s, n))
      Value(p, j) == ResolveKid(p, n, j, IF j = k THEN fl \cup {"Ideal"} ELSE fl)
      Typed(q) == Give(SetType(q, n, IF k = 0 THEN NilT ELSE KidType(q, n, k)), n) IN
  Typed(FoldLeft(Value, s, UpTo(k)))

(* resolve_array: the context's element type, or that of the first element. *)
ResolveArray(s, n, fl) ==
  LET k == Len(Kids(s, n))
      One(p, j) == ResolveKid(p, n, j, Demand(fl))
      Typed(q, at) ==
        LET Check(p, j) == CheckTypeEq(p, Kid(p, at, 1), KidType(p, n, j)) IN
        Give(Restore(FoldLeft(Check, SetType(q, n, at), UpTo(k)), s), n)
      Rest(p, at, t) == Typed(FoldLeft(One, SetContext(SetKid(p, at, 1, t), t), Tail(UpTo(k))), at)
      First(p, at) == Rest(p, at, KidType(p, n, 1))
      Free(p) == IF k = 0 THEN Typed(p, p.r) ELSE First(One(p, 1), p.r) IN
  IF s.ctx = Null THEN Free(New(s, Node("ArrayType", k, <<NilT, Null>>, Null, {})))
  ELSE IF Kind(s, s.ctx) # "ArrayType" THEN Stop(s, "assert")
  ELSE Typed(FoldLeft(One, SetContext(s, Kid(s, s.ctx, 1)), UpTo(k)), s.ctx)

-----------------------------------------------------------------------------
(* Operators and assignments.                                              *)

FinalizeBinOp(s, n, t) ==
  LET Both(j) == Has(s, Kid(s, n, j), "Const")
      typed == SetType(s, n, IF Val(s, n) \in {"==", "<"} THEN BoolT ELSE t) IN
  Give(IF Both(1) /\ Both(2) THEN typed ELSE DelFlag(typed, n, "Const"), n)

ConvKid(s, n, j, t) == PutKid(Convlit(s, Kid(s, n, j), t, FALSE, TRUE), n, j)

(* The operands have types that differ, or both had none.                  *)
Differ(s, n, lt, rt, fl) ==
  IF s.eq THEN s
  ELSE IF rt = IdealT THEN PutKid(ResolveIdeal(s, Kid(s, n, 2), lt, fl), n, 2)
  ELSE ConvKid(s, n, 2, lt)
CheckRight(s, n, lt, eq) == IF eq THEN s ELSE CheckKid(s, n, 2, lt)

UnifyTo(s, n, lt, rt, fl) ==
  FinalizeBinOp(CheckRight(Differ(s, n, lt, rt, fl), n, lt, s.eq), n, lt)
Unify(s, n, rt, fl) == UnifyTo(SameType(s, KidType(s, n, 1), rt), n, KidType(s, n, 1), rt, fl)

(* A literal takes the type of the other operand; two of them that of the  *)
(* context.                                                                *)
BinOpType(s, n, lt, rt, fl) ==
  IF s.stop # "" THEN s
  ELSE IF lt = IdealT /\ rt # IdealT THEN FinalizeBinOp(ConvKid(s, n, 1, rt), n, rt)
  ELSE IF lt # IdealT /\ rt = IdealT THEN FinalizeBinOp(ConvKid(s, n, 2, lt), n, lt)
  ELSE Unify(IF lt = IdealT THEN PutKid(ResolveIdeal(s, Kid(s, n, 1), s.ctx, fl), n, 1) ELSE s, n, rt, fl)

NoArrays(s, lt, rt) == IF Kind(s, lt) = "ArrayType" /\ Kind(s, rt) = "ArrayType" THEN Fail(s) ELSE s

OperandTypes(s, n, fl) ==
  LET lt == KidType(s, n, 1)
      rt == KidType(s, n, 2)
      both == Require(s, lt # Null /\ rt # Null) IN
  BinOpType(IF Kind(s, n) # "Assign" THEN both ELSE NoArrays(ClearConst(both, Kid(s, n, 1), TRUE), lt, rt),
            n, lt, rt, fl)

(* The second operand is resolved in the context of the first's type.      *)
SecondOperand(s, n, lt, fl) == ResolveKid(IF lt = IdealT THEN s ELSE [s EXCEPT !.ctx = lt], n, 2, fl)

\* mutant of RightOperand
RightOperandKept(s, n, fl, old) ==
  OperandTypes(SecondOperand(s, n, KidType(s, n, 1), fl \ {"Ideal"}), n, fl)

RightOperand(s, n, fl, old) ==
  OperandTypes(Restore(SecondOperand(s, n, KidType(s, n, 1), fl \ {"Ideal"}), old), n, fl)
ResolveBinOp(s, n, fl) == RightOperand(ResolveKid(s, n, 1, fl \ {"Ideal"}), n, fl, s)

-----------------------------------------------------------------------------
(* Tuples, calls and conversions.                                          *)

(* A type or the type of a field or a parameter.                           *)
AsType(s, i) == IF IsType(s, i) THEN i ELSE TypeOf(s, i)

(* resolve_tuple: element j in the context of the j-th type expected; an   *)
(* absent element (a definition) takes that type.                          *)
ResolveTuple(s, n, fl) ==
  LET k == Len(Kids(s, n))
      Within(p, j) == IF s.ctx = Null THEN p ELSE SetContext(p, AsType(p, Kid(p, s.ctx, j)))
      Add(a, t, e) == SetKids(IF e = Null THEN Fail(a) ELSE a, t, Append(Kids(a, t), e))
      All(q) == LET t == q.r
                    One(p, j) ==
                      LET Present(r) == Add(r, t, KidType(r, n, j))
                          Absent(c)  == Add(c, t, c.ctx) IN
                      IF Kid(p, n, j) = Null THEN Absent(Within(p, j))
                      ELSE Present(ResolveKid(Within(p, j), n, j, fl \cup {"Ideal"})) IN
                Give(Restore(SetType(FoldLeft(One, q, UpTo(k)), n, t), s), n) IN
  IF s.ctx # Null /\ Kind(s, s.ctx) \notin {"TupleType", "StructType"} THEN Give(Fail(s), n)
  ELSE IF s.ctx # Null /\ Len(Kids(s, s.ctx)) # k THEN Give(Fail(s), n)
  ELSE All(New(s, Node("TupleType", 0, <<>>, Null, {})))

(* find_named_param: parameters and fields have their name as value.       *)
Named(s, params, x) == {j \in DOMAIN Kids(s, params) : Val(s, Kid(s, params, j)) = x}

(* Argument j in the context of its parameter; p.rs has the arguments by   *)
(* parameter, p.eq is cleared where the loops are left early.              *)
ResolveArg(p, args, params, j) ==
  LET a == Kid(p, args, j)
      x == Named(p, params, Val(p, a))
      i == IF Kind(p, a) = "NamedVal" THEN CHOOSE k \in x : TRUE ELSE j
      t == TypeOf(p, Kid(p, params, i))
      Given(q) == [q EXCEPT !.rs = [p.rs EXCEPT ![i] = q.r], !.eq = TRUE] IN
  IF ~p.eq \/ p.stop # "" THEN p
  ELSE IF Kind(p, a) = "NamedVal" /\ (x = {} \/ p.rs[i] # Null)
       THEN [Fail(SetType(p, a, NilT)) EXCEPT !.eq = FALSE]
  ELSE Given(Resolve([Require(p, t # Null) EXCEPT !.ctx = t], a, {"Ideal"}))

(* resolve_call_args: positional arguments of a function are replaced in   *)
(* place; those of a constructor only when some are named or absent.       *)
ResolveArgs(s, args, params) ==
  LET tuple == Kind(s, params) = "Tuple"
      argc  == Len(Kids(s, params))
      k     == Len(Kids(s, args))
      typed == SetType(s, args, IF tuple THEN TypeOf(s, params) ELSE NilT)
      named == Has(s, args, "Named")
      Place(q, j) == IF tuple /\ ~named THEN SetKid(q, args, j, q.rs[j]) ELSE q
      In(p, j)    == Place(ResolveArg(p, args, params, j), j)
      Check(p, j) == IF p.rs[j] = Null THEN p
                     ELSE CheckTypeEq(p, TypeOf(p, Kid(p, params, j)), TypeOf(p, p.rs[j]))
      Reorder(c) == IF argc # k \/ named THEN SetKids(c, args, c.rs) ELSE c
      Given(q) == Give(Restore(IF q.eq THEN Reorder(FoldLeft(Check, q, UpTo(argc))) ELSE q, s), args) IN
  IF k > argc THEN Failed(typed, args)
  ELSE Given(FoldLeft(In, [typed EXCEPT !.rs = [j \in 1 .. argc |-> Null], !.eq = TRUE], UpTo(k)))

ArgsOf(s, n) == IF Kid(s, n, 2) = Null THEN <<>> ELSE Kids(s, Kid(s, n, 2))

ResolveCallFun(s, n, ft) ==
  LET params == Kid(s, ft, 1)
      result == Kid(s, ft, 2)
      q == SetType(Require(s, result # Null), n, result) IN
  IF Len(Kids(s, params)) # Len(ArgsOf(s, n)) THEN Failed(q, n)
  ELSE IF Kid(s, n, 2) = Null THEN Give(q, n)
  ELSE Give(ResolveArgs(q, Kid(s, n, 2), params), n)

ResolveCallType(s, n, st) ==
  LET q == SetType(s, n, st)  as == ArgsOf(s, n) IN
  IF as = <<>> THEN Give(q, n)
  ELSE IF Has(s, Kid(s, n, 2), "Named") /\ Kind(s, as[1]) # "NamedVal" THEN Failed(q, n)
  ELSE IF Kind(s, st) # "StructType" THEN Stop(q, "panic")
  ELSE Give(ResolveArgs(q, Kid(s, n, 2), st), n)

CallTo(s, n, t) ==
  IF s.stop # "" THEN s
  ELSE CASE Kind(s, t) = "FunType"  -> ResolveCallFun(s, n, t)
         [] Kind(s, t) = "TypeType" -> ResolveCallType(s, n, Kid(s, t, 1))
         [] OTHER -> IF t = Null THEN Stop(s, "assert") ELSE Failed(s, n)

CallOfKid(s, n) == CallTo(s, n, KidType(s, n, 1))
ResolveCall(s, n, fl) == CallOfKid(ResolveKid(s, n, 1, fl), n)

(* resolve_typecast: a cast whose operand has, or gets, its type is gone.   *)
CompareCast(s, n) == SameType(s, KidType(s, n, 2), TypeOf(s, n))
ConvertCast(s, n) ==
  IF s.eq THEN s ELSE CompareCast(PutKid(Convlit(s, Kid(s, n, 2), TypeOf(s, n), TRUE, TRUE), n, 2), n)
CastOperand(s, n, t, fl) ==
  ResolveKid(SetContext(SetType(s, n, t), t), n, 2, fl \cup {"Explicit"})

CastResult(s, n) == Give(s, IF s.eq THEN Kid(s, n, 2) ELSE n)
CastTo(s, n, t, fl) ==
  CastResult(Restore(ConvertCast(CompareCast(CastOperand(s, n, t, fl), n), n), s), n)
CastOf(s, n, fl) == CastTo(s, n, Kid(s, n, 1), fl)

ResolveCast(s, n, fl) ==
  IF ~IsType(s, Kid(s, n, 1)) THEN Failed(s, n) ELSE CastOf(ResolveKid(s, n, 1, fl), n, fl)

(* resolve_if: the second branch in the context of the first, converted    *)
(* when its type differs.                                                  *)
Match(s, n, j, t) == IF s.eq THEN s ELSE CheckKid(ConvKid(s, n, j, t), n, j, t)
MatchElseAny(s, n, t) == s   \* mutant of MatchElse
MatchElse(s, n, t) == Match(SameType(s, t, KidType(s, n, 3)), n, 3, t)
SecondBranch(s, n, t, fl) ==
  IF Kid(s, n, 3) = Null THEN s ELSE MatchElse(Restore(ResolveKid(SetContext(s, t), n, 3, fl), s), n, t)

Branches(s, n, t, fl) == GiveType(SecondBranch(s, n, t, fl), n, t)
FirstBranch(s, n, fl) == Branches(s, n, KidType(s, n, 2), fl)
Conditional(s, n, fl) ==
  IF KidType(s, n, 1) # BoolT THEN Rejected(s, n) ELSE FirstBranch(ResolveKid(s, n, 2, Demand(fl)), n, fl)

ResolveIf(s, n, fl) == Conditional(ResolveKid(s, n, 1, Demand(fl)), n, fl)

OfKid(q, n) == Give(SetType(q, n, KidType(q, n, 1)), n)
ResolveName(s, n, fl) ==
  IF Kid(s, n, 1) = Null THEN Give(SetType(s, n, NilT), n) ELSE OfKid(ResolveKid(s, n, 1, fl), n)

-----------------------------------------------------------------------------
(* Arrays and structs.                                                     *)

RECURSIVE Complete(_, _)
Complete(s, t) ==
  CASE Kind(s, t) = "ArrayType" ->
         (Kid(s, t, 2) = Null \/ Val(s, t) > 0) /\ Complete(s, Kid(s, t, 1))
    [] Kind(s, t) = "StructType" -> ~Has(s, t, "CustomInit")
    [] OTHER -> TRUE

PutSize(s, n) ==
  IF s.r = Null THEN Fail(SetVal(s, n, 0)) ELSE SetKid(SetVal(s, n, Val(s, s.r)), n, 2, s.r)
EvalSize(s, n) == PutSize(Eval(SetVal(s, n, NotConst), Kid(s, n, 2), UintT, TRUE), n)
ElemType(s, n, fl) == Give(IF Complete(s, Kid(s, n, 1)) THEN s ELSE ResolveKid(s, n, 1, fl), n)

ResolveArrayType(s, n, fl) ==
  ElemType(IF Kid(s, n, 2) # Null /\ Val(s, n) = 0 THEN EvalSize(ResolveKid(s, n, 2, fl), n) ELSE s, n, fl)

ResolveStructType(s, n, fl) ==
  LET Typed(q, f) == IF Complete(q, TypeOf(q, f)) THEN Require(q, TypeOf(q, f) # Null)
                     ELSE PutType(Resolve([q EXCEPT !.ctx = TypeOf(q, f)], TypeOf(q, f), Demand(fl)), f)
      One(p, j) == Typed(ResolveKid(p, n, j, Demand(fl)), Kid(p, n, j)) IN
  Give(PutType(New(Restore(FoldLeft(One, DelFlag(s, n, "CustomInit"), UpTo(Len(Kids(s, n)))), s),
                   Node("TypeType", 0, <<n>>, Null, {})), n), n)

(* resolve_selector_struct_field: the indices that lead to a member, first *)
(* among the fields, then through the base structs.                        *)
RECURSIVE FieldPath(_, _, _)
FieldPath(s, st, x) ==
  LET fs   == Kids(s, st)
      own  == {j \in DOMAIN fs : Val(s, fs[j]) = x}
      base == {j \in DOMAIN fs : /\ Has(s, fs[j], "Base")
                                 /\ Kind(s, TypeOf(s, fs[j])) = "StructType"
                                 /\ FieldPath(s, TypeOf(s, fs[j]), x) # <<>>}
      First(S) == CHOOSE j \in S : \A k \in S : j <= k IN
  CASE own # {}  -> <<First(own)>>
    [] own = {} /\ base # {} ->
         <<First(base)>> \o FieldPath(s, TypeOf(s, fs[First(base)]), x)
    [] OTHER -> <<>>

RECURSIVE FieldType(_, _, _)
FieldType(s, st, path) ==
  LET t == TypeOf(s, Kid(s, st, path[1])) IN
  IF Len(path) = 1 THEN t ELSE FieldType(s, t, Tail(path))

ResolveSelector(s, n, fl) ==
  LET Path(q, t, p) == IF p = <<>> THEN Rejected(q, n)
                       ELSE Give(SetType(SetVal(q, n, <<Val(q, n)[1], p>>), n, FieldType(q, t, p)), n)
      Of(q, t) == IF q.stop # "" THEN q
                  ELSE IF Kind(q, t) # "StructType" THEN Stop(q, IF t = Null THEN "assert" ELSE "panic")
                  ELSE Path(q, t, FieldPath(q, t, Val(q, n)[1]))
      Operand(q) == Of(q, KidType(q, n, 1)) IN
  Operand(ResolveKid(s, n, 1, fl))

RECURSIVE Unref(_, _)
Unref(s, t) == IF Kind(s, t) = "RefType" THEN Unref(s, Kid(s, t, 1)) ELSE t

(* resolve_index: an index known now is checked against a known size.      *)
IndexType(s, n, t, i) ==
  LET p == SetType(s, n, Kid(s, t, 1)) IN
  CASE Kind(s, t) = "ArrayType" ->
         Give(IF i # NotConst /\ Val(s, t) # 0 /\ i >= Val(s, t) THEN Fail(p) ELSE p, n)
    [] Kind(s, t) = "TupleType" ->
         IF i = NotConst \/ i >= Len(Kids(s, t)) THEN Rejected(s, n)
         ELSE Give(SetType(s, n, Kid(s, t, i + 1)), n)
    [] OTHER -> IF t = Null THEN Stop(s, "assert") ELSE Give(Fail(s), n)

IndexOf(s, n, i) == IndexType(SetVal(s, n, i), n, Unref(s, KidType(s, n, 1)), i)
KnownIndex(s, n) == IndexOf(s, n, IF s.r = Null THEN Val(s, n) ELSE Val(s, s.r))
EvalIndex(s, n)  == KnownIndex(Eval(Require(s, Val(s, n) = NotConst), Kid(s, n, 2), U32T, FALSE), n)

ResolveIndex(s, n, fl) ==
  LET Operand(a) == EvalIndex(Restore(ResolveKid(SetContext(a, UintT), n, 2, Demand(fl)), a), n) IN
  Operand(ResolveKid(s, n, 1, Demand(fl)))

(* resolve_array_slice: a reference to an array, sized when both bounds    *)
(* are known and differ; "x[:]" becomes a reference to x.                  *)
WholeArray(s, n, at) ==
  LET To(q) == Give(Put(q, n, [Nd(q, n) EXCEPT !.k = "Ref", !.kids = <<Kid(q, n, 1)>>, !.type = q.r]), n) IN
  To(MakeRefType(s, at))

Sliced(s, n, at, t, x, y, lo, hi) ==
  IF lo > hi \/ (hi > Val(s, at) /\ Val(s, at) # 0) THEN Fail(s)
  ELSE IF hi = lo THEN s ELSE SetKids(SetVal(s, t, hi - lo), n, <<Kid(s, n, 1), x, y>>)

StartOf(s, n, x)   == IF Kid(s, n, 2) = Null THEN 0 ELSE Val(s, x)
EndOf(s, n, at, y) == IF Kid(s, n, 3) = Null THEN Val(s, at) ELSE Val(s, y)

EndBound(s, n, at, t, x) ==
  IF Kid(s, n, 3) # Null /\ s.r = Null THEN s
  ELSE Sliced(s, n, at, t, x, s.r, StartOf(s, n, x), EndOf(s, n, at, s.r))

StartBound(s, n, at, t) ==
  IF \/ Kid(s, n, 2) # Null /\ s.r = Null
     \/ Kid(s, n, 3) = Null /\ Val(s, at) = 0 THEN s
  ELSE EndBound(Eval(s, Kid(s, n, 3), U32T, FALSE), n, at, t, s.r)

BoundedArray(s, n, at, t) ==
  Give(StartBound(Eval(SetType(s, n, s.r), Kid(s, n, 2), U32T, FALSE), n, at, t), n)

RefToSlice(s, n, at) ==
  BoundedArray(MakeRefType(TransferConst(s, s.r, Kid(s, n, 1)), s.r), n, at, s.r)

SliceArray(s, n, at) ==
  IF Kid(s, n, 2) = Null /\ Kid(s, n, 3) = Null THEN WholeArray(s, n, at)
  ELSE RefToSlice(New(s, Node("ArrayType", 0, <<Kid(s, at, 1), Null>>, Null, {})), n, at)

SliceOf(q, n, t) ==
  IF q.stop # "" THEN q
  ELSE CASE Kind(q, t) = "ArrayType" -> SliceArray(q, n, t)
         [] Kind(q, t) = "TupleType" -> Stop(q, "panic")
         [] OTHER -> IF t = Null THEN Stop(q, "assert") ELSE Rejected(q, n)

SliceBounds(s, n, fl) ==
  MaybeKid(MaybeKid(SetContext(s, U32T), n, 2, Demand(fl)), n, 3, Demand(fl))

SliceOperand(s, n) == SliceOf(s, n, Unref(s, KidType(s, n, 1)))
SliceOfKid(s, n, fl) == SliceOperand(Restore(SliceBounds(s, n, fl), s), n)
ResolveSlice(s, n, fl) == SliceOfKid(ResolveKid(s, n, 1, Demand(fl)), n, fl)

-----------------------------------------------------------------------------
(* Definitions and references.                                             *)

report_var_init_type_mismatch(s) == report_type_mismatch(s)
VarFits(s) == IF s.eq THEN s ELSE report_var_init_type_mismatch(s)

(* resolve_var: a variable without a type takes that of its initializer;   *)
(* the type of a const is marked const.                                    *)
ResolveVar(s, n, fl) ==
  LET t == TypeOf(s, n)
      Arrays(d) == IF Kind(d, TypeOf(d, n)) = "ArrayType" /\ Kind(d, Kid(d, n, 1)) # "Array"
                   THEN Fail(d) ELSE d
      Inferred(p, it) == IF Has(p, n, "isconst") THEN AddFlag(p, it, "Const") ELSE p
      Typed(q, it) == Arrays(IF t # Null THEN VarFits(SameType(q, t, it))
                             ELSE Inferred(SetType(Require(q, it # Null), n, it), it))
      Value(q) == Give(Typed(Restore(q, s), KidType(q, n, 1)), n) IN
  Value(ResolveKid(SetContext(Require(s, Init1(s, n) # Null), t), n, 1,
                   IF t = Null THEN fl ELSE Demand(fl)))

(* resolve_field compares the types themselves.                            *)
ResolveField(s, n, fl) ==
  LET t == TypeOf(s, n)
      Value(q) == Give(IF KidType(q, n, 1) = t THEN q ELSE Fail(q), n) IN
  IF Init1(s, n) = Null THEN Give(Require(s, t # Null), n)
  ELSE Value(Restore(ResolveKid(SetContext(DelFlag(s, n, "CustomInit"), t), n, 1, fl), s))

ResolveNamedVal(s, n, fl) ==
  LET Value(q) == OfKid(Require(q, KidType(q, n, 1) # Null), n) IN Value(ResolveKid(s, n, 1, fl))

(* resolve_ref: the target becomes mutable, its type const if it is not.   *)
ResolveRef(s, n, fl) ==
  LET Typed(r) == Give(SetType(r, n, r.r), n)
      Mutable(c, x) == Typed(MakeRefType(TransferConst(c, TypeOf(c, x), x), TypeOf(c, x)))
      Of(q, x, t) == IF q.stop # "" THEN q ELSE IF t = Null THEN Stop(q, "null")
                     ELSE Mutable(ClearConst(IF Kind(q, t) = "RefType" THEN Fail(q) ELSE q, x, FALSE), x)
      Aimed(q) == Of(q, Kid(q, n, 1), KidType(q, n, 1)) IN
  Aimed(ResolveKid(s, n, 1, fl))

-----------------------------------------------------------------------------
(* resolve_type.                                                           *)

Dispatch(s, n, fl) ==
  LET k == Kind(s, n) IN
  CASE k = "Block"    -> ResolveBlock(s, n, fl)
    [] k = "Array"    -> ResolveArray(s, n, fl)
    [] k = "Tuple"    -> ResolveTuple(s, n, fl)
    [] k = "Fun"      -> ResolveFun(s, n, fl)
    [] k = "PrefixOp" -> ResolvePrefixOp(s, n, fl)
    [] k = "Return"   -> ResolveReturn(s, n, fl)
    [] k \in {"BinOp", "Assign"} -> ResolveBinOp(s, n, fl)
    [] k = "TypeCast" -> ResolveCast(s, n, fl)
    [] k = "Call"     -> ResolveCall(s, n, fl)
    [] k = "Var"      -> ResolveVar(s, n, fl)
    [] k = "Ref"      -> ResolveRef(s, n, fl)
    [] k = "Field"    -> ResolveField(s, n, fl)
    [] k = "NamedVal" -> ResolveNamedVal(s, n, fl)
    [] k = "If"       -> ResolveIf(s, n, fl)
    [] k = "Id"       -> ResolveName(s, n, fl)
    [] k = "Selector" -> ResolveSelector(s, n, fl)
    [] k = "Index"    -> ResolveIndex(s, n, fl)
    [] k = "Slice"    -> ResolveSlice(s, n, fl)
    [] k = "ArrayType"  -> ResolveArrayType(s, n, fl)
    [] k = "StructType" -> ResolveStructType(s, n, fl)
    [] k = "IntLit" /\ "Ideal" \in fl -> Literal(s, n, s.ctx, fl)
    [] OTHER -> Stop(s, "assert")

(* An untyped value is left alone until something asks for a type.         *)
ResolveUntyped(s, n, fl) ==
  LET Value(u) == IF Kind(u, u.r) = "IntLit" THEN Natural(u, u.r) ELSE Stop(u, "assert") IN
  IF "Ideal" \notin fl \/ ("Eager" \notin fl /\ s.ctx = Null) THEN Give(s, n)
  ELSE IF s.ctx # Null THEN ResolveIdeal(s, n, s.ctx, fl)
  ELSE Value(Unbox(s, n, FALSE))

(* A type is visited again until it is complete, a node while it is partial. *)
Visit(s, n, typed, fl) ==
  IF ~typed \/ (IF IsType(s, n) THEN ~Complete(s, n) ELSE Has(s, n, "Partial"))
  THEN Dispatch(DelFlag(s, n, "Partial"), n, fl) ELSE Give(s, n)

Resolve(s, n, fl0) ==
  LET fl == IF Has(s, n, "RValue") /\ ~IsType(s, n) THEN Demand(fl0) ELSE fl0
      t  == TypeOf(s, n) IN
  IF s.stop # "" THEN Give(s, n)
  ELSE IF n = Null THEN Stop(s, "assert")
  ELSE IF ~IsType(s, n) /\ t = IdealT THEN ResolveUntyped(s, n, fl)
  ELSE Visit(IF IsType(s, n) \/ t = Null \/ Complete(s, t) THEN s ELSE PutType(Resolve(s, t, fl), n),
             n, IsType(s, n) \/ t # Null, fl)

=============================================================================
