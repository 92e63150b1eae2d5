--------------------------------- MODULE Ast ---------------------------------
(***************************************************************************)
(* The syntax tree of Co (parse/ast.h, parse/ast.c) and the operations on  *)
(* types that every later pass uses: NodeUnbox, type identity              *)
(* (parse/typeid.c), conversion of literals (parse/convlit.c) and          *)
(* evaluation at compile time (parse/eval.c).                              *)
(*                                                                         *)
(* A pass is a sequential program over a graph of mutable nodes.  The      *)
(* graph and the state of the passes are one record s, the store; an       *)
(* operator that stands for a C function takes a store and returns the     *)
(* store it leaves, with the node the function returns in s.r and the      *)
(* result of a comparison in s.eq.  Positions, names in diagnostics and    *)
(* the Unresolved flag (module ResolveSym) are left out.                   *)
(***************************************************************************)
EXTENDS Integers, Sequences, SequencesExt

SetOf(q) == {q[j] : j \in DOMAIN q}

(* Nodes are positive, 0 is NULL, the types of the universe are negative.  *)
Null  == 0
NilT   == -1
AutoT  == -2
IdealT == -3
BoolT  == -4
IntT   == -5
UintT  == -6
I8T    == -7
U32T   == -8
BasicTypes == {NilT, AutoT, IdealT, BoolT, IntT, UintT, I8T, U32T}
IntTypes   == {IntT, UintT, I8T, U32T}

(* The constants of the universe are the first nodes of every store.       *)
ConstNil   == 1
ConstTrue  == 2
ConstFalse == 3
TypeT      == 4      \* the type of the basic types

(* v holds what the kind needs: a value, an operator, a name, a size, the  *)
(* path of a selector.  tid is the cached type identifier (t.id), ir what  *)
(* the back end made of the node (irval).                                  *)
Node(k, v, kids, type, fl) ==
  [k |-> k, v |-> v, kids |-> kids, type |-> type, fl |-> fl, refs |-> 0, tid |-> <<>>, ir |-> <<>>]

NoNode == Node("NULL", 0, <<>>, Null, {})

(* Entry i + Origin of the table is node i: the basic types, NULL and the    *)
(* constants come first.  Reading through NULL gives NoNode: the operators *)
(* below stop the pass where the code would dereference it.                *)
Origin == 9

Universe ==
  [j \in 1 .. 8 |-> Node("BasicType", j - Origin, <<>>, TypeT, {})] \o
  << NoNode, Node("Nil", 0, <<>>, NilT, {}), Node("BoolLit", 1, <<>>, BoolT, {}),
     Node("BoolLit", 0, <<>>, BoolT, {}), Node("TypeType", 0, <<Null>>, Null, {}) >>

-----------------------------------------------------------------------------
(* Reading and writing the store.                                          *)
Nd(s, i) == s.n[i + Origin]

Kind(s, i)   == Nd(s, i).k
TypeOf(s, i) == Nd(s, i).type
Val(s, i)    == Nd(s, i).v
Kids(s, i)   == Nd(s, i).kids
Entry(ks, j) == IF j \in DOMAIN ks THEN ks[j] ELSE Null
Kid(s, i, j) == Entry(Kids(s, i), j)
Has(s, i, f) == f \in Nd(s, i).fl

TypeKinds == {"BasicType", "RefType", "ArrayType", "TupleType", "StructType", "FunType"}
IsType(s, i) == Kind(s, i) \in TypeKinds

(* A failed assertion, a panic or a fault ends the compiler: every         *)
(* operator leaves a stopped store as it is.                               *)
Stop(s, why) == IF s.stop = "" THEN [s EXCEPT !.stop = why] ELSE s
Fail(s)      == IF s.stop = "" THEN [s EXCEPT !.errs = @ + 1] ELSE s

Put(s, i, nd) == IF i > 0 /\ s.stop = "" THEN [s EXCEPT !.n[i + Origin] = nd] ELSE s
New(s, nd)    == IF s.stop = "" THEN [s EXCEPT !.n = Append(@, nd), !.r = Len(s.n) + 1 - Origin] ELSE s
Give(s, i)    == [s EXCEPT !.r = i]

SetType(s, i, t)   == Put(s, i, [Nd(s, i) EXCEPT !.type = t])
SetVal(s, i, v)    == Put(s, i, [Nd(s, i) EXCEPT !.v = v])
SetKids(s, i, ks)  == Put(s, i, [Nd(s, i) EXCEPT !.kids = ks])
SetKid(s, i, j, c) == SetKids(s, i, [Kids(s, i) EXCEPT ![j] = c])

(* The nodes of the universe are const objects: a build either keeps them  *)
(* in writable memory or the store faults (s.rodata).                      *)
SetFlags(s, i, fl) ==
  IF i = Null THEN Stop(s, "null")
  ELSE IF i <= TypeT /\ s.rodata THEN Stop(s, "fault")
  ELSE IF s.stop = "" THEN [s EXCEPT !.n[i + Origin].fl = fl] ELSE s

AddFlag(s, i, f) == SetFlags(s, i, Nd(s, i).fl \cup {f})
DelFlag(s, i, f) == SetFlags(s, i, Nd(s, i).fl \ {f})
TransferConst(s, parent, child) ==
  SetFlags(s, parent, Nd(s, parent).fl \cup (Nd(s, child).fl \cap {"Const"}))

RefVar(s, i) == IF Kind(s, i) = "Var" THEN Put(s, i, [Nd(s, i) EXCEPT !.refs = @ + 1]) ELSE s
(* NodeUnrefVar: asserts that the count is positive.                       *)
UnrefVar(s, i) ==
  IF Nd(s, i).refs = 0 THEN Stop(s, "assert") ELSE Put(s, i, [Nd(s, i) EXCEPT !.refs = @ - 1])

IsConstVar(s, i) == Kind(s, i) = "Var" /\ Has(s, i, "Const")
Init1(s, i)      == Kid(s, i, 1)

(* NodeUnbox: through identifiers and constant variables to the value.     *)
RECURSIVE Unbox(_, _, _)
Unbox(s, i, unref) ==
  CASE IsConstVar(s, i) /\ Init1(s, i) # Null ->
         Unbox(IF unref THEN UnrefVar(s, i) ELSE s, Init1(s, i), unref)
    [] Kind(s, i) = "Id" -> Unbox(s, Kid(s, i, 1), unref)
    [] OTHER -> Give(s, i)

-----------------------------------------------------------------------------
(* Types.                                                                   *)

(* mktypestr: the shape of a type, prefix coded; a cached id is reused.    *)
RECURSIVE TypeStr(_, _)
TypeStrs(s, ts) == FlattenSeq([j \in DOMAIN ts |-> TypeStr(s, ts[j])])
ParamStr(s, ps) == IF ps = Null THEN <<NilT>> ELSE TypeStr(s, TypeOf(s, ps))
OrNilT(t)       == IF t = Null THEN NilT ELSE t

TypeStr(s, t) ==
  LET k == Kind(s, t) IN
  CASE t < 0 -> <<t>>
    [] k # "BasicType" /\ Nd(s, t).tid # <<>> -> Nd(s, t).tid
    [] k = "RefType"    -> <<100>> \o TypeStr(s, Kid(s, t, 1))
    [] k = "ArrayType"  -> <<101, Val(s, t)>> \o TypeStr(s, Kid(s, t, 1))
    [] k = "TupleType"  -> <<102>> \o TypeStrs(s, Kids(s, t)) \o <<103>>
    [] k = "StructType" -> <<104>> \o TypeStrs(s, [j \in DOMAIN Kids(s, t) |-> TypeOf(s, Kid(s, t, j))])
                           \o <<105>>
    [] k = "FunType"    -> <<106>> \o ParamStr(s, Kid(s, t, 1)) \o TypeStr(s, OrNilT(Kid(s, t, 2)))
    [] OTHER -> <<0>>

(* GetTypeID: computed once and kept in the type.                          *)
TypeID(s, t) == IF t > 0 /\ Nd(s, t).tid = <<>>
                THEN Put(s, t, [Nd(s, t) EXCEPT !.tid = TypeStr(s, t)]) ELSE s

(* TypeEquals, _TypeEquals: the answer is in s.eq.                         *)
TypeEquals(s, x, y) ==
  IF s.stop # "" THEN s
  ELSE IF x = y THEN [s EXCEPT !.eq = TRUE]
  ELSE IF ~IsType(s, x) \/ ~IsType(s, y) THEN Stop(s, "assert")
  ELSE IF Kind(s, x) # Kind(s, y) \/ x < 0 THEN [s EXCEPT !.eq = FALSE]
  ELSE [TypeID(TypeID(s, x), y) EXCEPT !.eq = TypeStr(s, x) = TypeStr(s, y)]

(* make_ref_type: a reference is const when its element type is.           *)
MakeRefType(s, t) ==
  LET Like(q) == Give(TransferConst(q, q.r, t), q.r) IN Like(New(s, Node("RefType", 0, <<t>>, Null, {})))

(* convval: the range of an integer type; int and the unsigned types have   *)
(* 16 bits here instead of 32 (TLC's own integers have 32).  The greatest  *)
(* value is compared as an unsigned one, which nothing negative passes.    *)
MaxInt(t) == IF t = I8T THEN 127 ELSE IF t = IntT THEN 32767 ELSE 65535
FitsIn(v, t) == 0 <= v /\ v <= MaxInt(t)

-----------------------------------------------------------------------------
(* convlit: n as a value of type t.  In the relaxed form a typed node is   *)
(* left alone, unless the conversion is explicit.  A literal is copied; an *)
(* identifier of a constant is replaced by the value it is bound to, which *)
(* is not copied.                                                          *)
RECURSIVE Convlit(_, _, _, _, _)

(* The tail of convlit: what is still ideal is given the type.             *)
Assign(s, i, t) == Give(IF TypeOf(s, i) = IdealT THEN SetType(s, i, t) ELSE s, i)

report_non_convertible(c) == Fail(c)

convval_to_int(c, t) == IF FitsIn(Val(c, c.r), t) THEN SetType(c, c.r, t) ELSE Stop(Fail(c), "panic")

(* Only integers are converted to; what is left goes to the tail.          *)
convval(c, t) == IF t \in IntTypes THEN convval_to_int(c, t) ELSE Assign(c, c.r, t)

ConvInt(c, t) == IF t > 0 THEN report_non_convertible(c) ELSE convval(c, t)

(* s is the store after the types of x and of the node in s.r have been    *)
(* compared.                                                               *)
PutOperands(s, i, x) ==
  Give(IF s.eq THEN SetType(SetKids(s, i, <<x, s.r>>), i, TypeOf(s, x)) ELSE s, i)
SameOperands(s, i, x) == PutOperands(TypeEquals(s, TypeOf(s, x), TypeOf(s, s.r)), i, x)

ConvRight(s, i, t, explicit, relaxed) ==
  SameOperands(Convlit(s, Kid(s, i, 2), t, explicit, relaxed), i, s.r)

ConvBinOp(s, i, t, explicit, relaxed) ==
  IF t < 0 THEN Give(Fail(s), i)
  ELSE ConvRight(Convlit(s, Kid(s, i, 1), t, explicit, relaxed), i, t, explicit, relaxed)

ConvUnboxed(s, t) == Assign(s, s.r, t)

Convert(s, i, t, explicit, relaxed) ==
  CASE Kind(s, i) = "IntLit" -> ConvInt(New(s, Nd(s, i)), t)
    [] Kind(s, i) = "BinOp"  -> ConvBinOp(s, i, t, explicit, relaxed)
    [] OTHER -> ConvUnboxed(Unbox(s, i, TRUE), t)

(* An explicit conversion of what has a type already, s.eq: the same one.  *)
ConvUnless(s, i, t, relaxed) == IF s.eq THEN Give(s, i) ELSE Convert(s, i, t, TRUE, relaxed)

OwnType(s, i, relaxed) == relaxed /\ TypeOf(s, i) \notin {Null, NilT, IdealT}

Convlit(s, i, t, explicit, relaxed) ==
  IF s.stop # "" THEN Give(s, i)
  ELSE IF t \in {Null, IdealT} \/ ~IsType(s, t) THEN Give(Stop(s, "assert"), i)
  ELSE IF ~OwnType(s, i, relaxed) THEN Convert(s, i, t, explicit, relaxed)
  ELSE IF explicit THEN ConvUnless(TypeEquals(s, TypeOf(s, i), t), i, t, relaxed)
  ELSE Give(s, i)

-----------------------------------------------------------------------------
(* NodeEval, _eval: the literal a constant expression stands for, or NULL. *)
(* A variable is evaluated through its initializer, constant or not.       *)
RECURSIVE Eval(_, _, _, _)

Residue(v, w, t) == LET u == v % w IN IF t \in {IntT, I8T} /\ u >= w \div 2 THEN u - w ELSE u

(* int and uint are evaluated in the 64 bits of the host, here in 30; what  *)
(* is negative stays in the literal as its bits.                           *)
Width(t)   == IF t = I8T THEN 256 ELSE IF t = U32T THEN 65536 ELSE 2^30
Wrap(v, t) == v % Width(t)

Magnitude(x) == IF x < 0 THEN -x ELSE x
Quotient(x, y) == LET q == Magnitude(x) \div Magnitude(y) IN IF (x < 0) = (y < 0) THEN q ELSE -q

(* _eval_binop_T; a division by zero is the fault of the host.             *)
Arith(op, x, y) ==
  CASE op = "+" -> x + y [] op = "-" -> x - y [] op = "*" -> x * y
    [] op = "/" -> IF y = 0 THEN 0 ELSE Quotient(x, y)

IntLit(s, v, t) == New(s, Node("IntLit", v, <<>>, t, {}))

NotConstant(s, must) == Give(IF must THEN Fail(s) ELSE s, Null)

(* q is the store after the types of l and r have been compared.           *)
EvalBinOp(q, i, l, r, must) ==
  IF \/ Kind(q, l) # Kind(q, r) \/ ~q.eq \/ Kind(q, l) # "IntLit"
     \/ Val(q, i) \notin {"+", "-", "*", "/"} \/ TypeOf(q, l) \notin IntTypes
  THEN NotConstant(q, must)
  ELSE IF Val(q, i) = "/" /\ Val(q, r) = 0 THEN Stop(q, "fault")
  ELSE LET t == TypeOf(q, l)
           Operand(e) == Residue(Val(q, e), Width(t), t) IN
       IntLit(q, Wrap(Arith(Val(q, i), Operand(l), Operand(r)), t), t)

EvalPrefixInt(s, op, e, must) ==
  LET v == IF op = "-" THEN -Val(s, e) ELSE Val(s, e) IN
  IF op \in {"+", "-"} /\ TypeOf(s, e) \in IntTypes THEN IntLit(s, Wrap(v, TypeOf(s, e)), TypeOf(s, e))
  ELSE NotConstant(s, must)

EvalPrefixOp(s, i, must) ==
  IF s.r = Null THEN s
  ELSE IF Kind(s, s.r) = "IntLit" THEN EvalPrefixInt(s, Val(s, i), s.r, must)
  ELSE NotConstant(s, must)

(* The value found is converted to the type asked for, typed or not.       *)
Target(s, t) == IF s.r = Null \/ t = Null \/ s.stop # "" THEN s
                ELSE Convlit(s, s.r, t, FALSE, FALSE)

EvalSame(s, i, x, must) == EvalBinOp(TypeEquals(s, TypeOf(s, x), TypeOf(s, s.r)), i, x, s.r, must)
EvalRight(s, i, x, must)  == IF s.r = Null THEN s ELSE EvalSame(s, i, x, must)
EvalLeft(s, i, t, must)   ==
  IF s.r = Null THEN s ELSE EvalRight(Eval(s, Kid(s, i, 2), t, must), i, s.r, must)

EvalExpr(s, i, t, must) ==
  CASE Kind(s, i) \in {"IntLit", "BoolLit"} -> Give(s, i)
    [] Kind(s, i) = "BinOp"    -> EvalLeft(Eval(s, Kid(s, i, 1), t, must), i, t, must)
    [] Kind(s, i) = "PrefixOp" -> EvalPrefixOp(Eval(s, Kid(s, i, 1), t, must), i, must)
    [] OTHER -> NotConstant(s, must)

Eval(s, i, t, must) ==
  IF i = Null \/ s.stop # "" THEN Give(s, Null)
  ELSE IF Kind(s, i) \in {"Id", "Var"} THEN Eval(s, Kid(s, i, 1), t, must)
  ELSE Target(EvalExpr(s, i, t, must), t)

(* NodeVisitChildren: the nodes a visitor is called with, in order; an      *)
(* absent child is visited as nil where the code calls back for it.        *)
Children(s, i) ==
  LET ks == Kids(s, i)
      k  == Kind(s, i)
      OrNil(c) == IF c = Null THEN ConstNil ELSE c IN
  CASE k \in {"BinOp", "Assign", "If"} -> SelectSeq(ks, LAMBDA c : c # Null)
    [] k = "Var" -> IF Has(s, i, "Param") /\ Init1(s, i) = Null THEN <<>> ELSE <<OrNil(Init1(s, i))>>
    [] k = "FunType" -> <<OrNil(TypeOf(s, Kid(s, i, 1))), OrNil(Kid(s, i, 2))>>
    [] OTHER -> [j \in DOMAIN ks |-> OrNil(ks[j])]

=============================================================================
