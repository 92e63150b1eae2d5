------------------------------- MODULE Syntax -------------------------------
(***************************************************************************)
(* What the parser (parse/parse.c) makes of a program that is already      *)
(* grouped into terms: the nodes, with the types and the flags it gives    *)
(* them.  Tokens, precedence, errors of syntax and the scope stack itself  *)
(* are module Parser's.                                                    *)
(*                                                                         *)
(* A term is a tuple <<form, ...>>.  The store has the scope (env, pairs   *)
(* of a name and its node; those after base are of the innermost scope)    *)
(* and the parser's type context (pctx).                                   *)
(***************************************************************************)
EXTENDS Ast

RECURSIVE Expr(_, _, _)

(* Several terms in order; the nodes are in s.rs.                          *)
ExprList(s, ts, rv) ==
  FoldLeft(LAMBDA q, t : LET e == Expr(q, t, rv) IN [e EXCEPT !.rs = Append(q.rs, e.r)],
           [s EXCEPT !.rs = <<>>], ts)

WithContext(s, t) == [s EXCEPT !.pctx = IF IsType(s, t) /\ t # IdealT THEN t ELSE Null]
Back(s, old)      == [s EXCEPT !.pctx = old.pctx]

(* A term read as an rvalue in the type context t.                         *)
ExprIn(s, term, t) == Back(Expr(WithContext(s, t), term, TRUE), s)

-----------------------------------------------------------------------------
(* Names.                                                                   *)
Bound(s, x)  == {j \in DOMAIN s.env : s.env[j][1] = x}
Lookup(s, x) == IF Bound(s, x) = {} THEN Null ELSE s.env[CHOOSE j \in Bound(s, x) :
                                                       \A k \in Bound(s, x) : k <= j][2]
Shallow(s, x) == {j \in Bound(s, x) : j > s.base}
Define(s, x, i) == [s EXCEPT !.env = Append(@, <<x, i>>)]
EnterScope(s) == [s EXCEPT !.base = Len(s.env)]
LeaveScope(s, outer) == [s EXCEPT !.env = outer.env, !.base = outer.base]

(* A lookup that finds a node marks it used; it checks first, because the  *)
(* nodes of the universe are not to be written.                            *)
Used(s, i) == IF Has(s, i, "Unused") THEN DelFlag(s, i, "Unused") ELSE s

Primitive(s, i) == Kind(s, i) \in {"Nil", "BasicType", "BoolLit"}

(* The value a constant name stands for, through names of names.           *)
RECURSIVE Unwind(_, _)
Unwind(s, i) == IF IsConstVar(s, i) /\ ~Has(s, i, "Param") /\ Init1(s, i) # Null
                THEN Unwind(s, Init1(s, i)) ELSE i

(* simplify_id: a name of nil, a basic type or a boolean is that constant. *)
SimplifyId(s, id, rv) ==
  LET t == IF rv THEN Unwind(s, Kid(s, id, 1)) ELSE Kid(s, id, 1)
      q == IF rv THEN AddFlag(s, id, "RValue") ELSE s IN
  Give(q, IF Primitive(s, t) THEN t ELSE id)

(* resolve_id: the identifier takes the type and constness its target has  *)
(* at this moment, and counts as a reference to a variable.  A name that   *)
(* is not defined yet is linked after the last file has been parsed.       *)
ResolveId(s, x, rv) ==
  LET t == Lookup(s, x)
      q == New(Used(s, t), Node("Id", x, <<t>>, TypeOf(s, t), Nd(s, t).fl \cap {"Const"})) IN
  IF t = Null THEN New(s, Node("Id", x, <<Null>>, Null, {"RValue"}))
  ELSE SimplifyId(RefVar(q, t), q.r, rv)

UseAsRValue(s, i) ==
  CASE Kind(s, i) = "Id" /\ Kid(s, i, 1) # Null -> SimplifyId(s, i, TRUE)
    [] Kind(s, i) = "Id" /\ Kid(s, i, 1) = Null -> Give(s, i)
    [] Kind(s, i) = "BasicType" -> Give(s, i)
    [] OTHER -> Give(AddFlag(s, i, "RValue"), i)

-----------------------------------------------------------------------------
(* Variables.                                                               *)

(* set_var_init: an explicit type makes the resolver visit the variable;   *)
(* otherwise the type is the initializer's, unless that is ideal.          *)
VarInitOf(s, n, init) ==
  LET it == TypeOf(s, init)
      t  == TypeOf(s, n)
      q  == SetKids(s, n, <<init>>)
      Known == it \notin {Null, IdealT}
      IsRef(x) == Kind(s, x) = "RefType"
      Agree(p) == IF Known /\ IsRef(t) # IsRef(it) THEN Fail(p) ELSE p IN
  IF t = Null THEN IF it = IdealT THEN q ELSE SetType(q, n, it)
  ELSE Agree(IF t # it THEN AddFlag(q, n, "Partial") ELSE q)

SetVarInit(s, n, init) == LET Value(u) == VarInitOf(u, n, u.r) IN Value(UseAsRValue(s, init))

(* make_var: a new variable is constant until it is assigned to, and       *)
(* unused until it is looked up, which asking whether the next one of its  *)
(* name in its scope shadows it does too.                                  *)
MakeVar(s, x, init, t, more) ==
  LET Shadow(q) == IF Shallow(s, x) = {} THEN q ELSE Used(q, Lookup(s, x))
      Made(v) == Give(Define(Shadow(IF init = Null THEN v ELSE SetVarInit(v, v.r, init)), x, v.r), v.r) IN
  Made(New(s, Node("Var", x, <<Null>>, t, {"Const", "Unused"} \cup more)))

(* pAssignToId: the first assignment to a name defines it; the next ones   *)
(* store the variable, no longer constant, as the target.                  *)
PartialOf(s, i, j) == (Nd(s, i).fl \cup Nd(s, j).fl) \cap {"Partial"}

StoreTo(r, v, id, t) ==
  LET same == t # Null /\ t = TypeOf(r, r.r) IN
  New(r, Node("Assign", "=", <<v, r.r>>, IF same THEN t ELSE Null,
              IF same THEN PartialOf(r, id, r.r) ELSE {}))

AssignToId(s, x, e) ==
  LET v == Lookup(s, x)
      Defined(i) == MakeVar(i, x, i.r, Null, {})
      Mutated(id) == RefVar(DelFlag(IF Has(s, v, "isconst") THEN Fail(id) ELSE id, v, "Const"), v)
      Known(id) == StoreTo(Expr(Mutated(id), e, TRUE), v, id.r, TypeOf(id, id.r)) IN
  IF Kind(s, v) # "Var" THEN Defined(ExprIn(ResolveId(s, x, FALSE), e, Null))
  ELSE Known(ResolveId(s, x, FALSE))

(* pAssignToBase: a store to an element of an array.                       *)
AssignToBase(s, l, e) ==
  LET Stored(r, i) == StoreTo(r, i, i, TypeOf(r, i))
      Base(a) == Stored(Expr(a, e, TRUE), a.r) IN
  Base(Expr(s, l, FALSE))

(* pAssignToTuple: existing names are stored to, others are defined; the   *)
(* source of a definition moves into the new variable.                     *)
AssignToTuple(s, xs, es) ==
  LET One(q, j) ==
        LET v == Lookup(s, xs[j])
            Defined(m) == [s |-> m, l |-> Append(q.l, m.r), r |-> [q.r EXCEPT ![j] = Null]] IN
        IF v = Null THEN Defined(MakeVar(q.s, xs[j], q.r[j], Null, {}))
        ELSE [q EXCEPT !.s = RefVar(RefVar(DelFlag(Used(q.s, v), v, "Const"), v), v), !.l = Append(@, v)]
      Assigned(l, r) == New(r, Node("Assign", "=", <<l, r.r>>, Null, {}))
      Sources(q, r) == Assigned(q.r, New(q, Node("Tuple", 0, r, Null, {"RValue"})))
      Targets(q) == Sources(New(q.s, Node("Tuple", 0, q.l, Null, {})), q.r)
      Each(r) == Targets(FoldLeft(One, [s |-> r, l |-> <<>>, r |-> r.rs], [j \in DOMAIN xs |-> j])) IN
  Each(ExprList(s, es, TRUE))

(* PVarOrConst, PIdTrailing: a definition with a type, an initializer or   *)
(* both; the type is the context the initializer is read in.               *)
VarOrConst(s, const, x, type, e) ==
  LET Defined(i, t) == MakeVar(i, x, i.r, t, IF const THEN {"isconst"} ELSE {})
      Initial(c, t) == Defined(IF e = <<>> THEN Give(c, Null) ELSE ExprIn(c, e, t), t)
      Typed(q) == Initial(IF const /\ q.r # Null THEN AddFlag(q, q.r, "Const") ELSE q, q.r) IN
  Typed(IF type = <<>> THEN Give(s, Null) ELSE Expr(s, type, TRUE))

-----------------------------------------------------------------------------
(* Expressions.                                                             *)

(* PIntLit: ideal, or at once of the type that is expected.                *)
IntLitExpr(s, v) ==
  LET q == New(s, Node("IntLit", v, <<>>, IdealT, {})) IN
  IF s.pctx = Null THEN q ELSE Convlit(q, q.r, s.pctx, FALSE, TRUE)

(* PInfixOp: the type of the left operand is the context of the right one. *)
InfixOp(s, op, l, r) ==
  LET a == Expr(s, l, FALSE)
      u == UseAsRValue(a, a.r)
      b == ExprIn(u, r, TypeOf(u, u.r)) IN
  New(b, Node("BinOp", op, <<u.r, b.r>>, Null, {}))

(* pBlock: the last entry is the value, used as an rvalue; an only entry   *)
(* takes the place of the block.                                           *)
BlockOf(s, ts) ==
  LET q == ExprList(s, ts, FALSE)
      k == Len(q.rs)
      u == UseAsRValue(RefVar(q, q.rs[k]), q.rs[k]) IN
  CASE k = 0 -> New(q, Node("Block", 0, <<>>, Null, {}))
    [] k = 1 -> u
    [] OTHER -> New(u, Node("Block", 0, [q.rs EXCEPT ![k] = u.r], Null, {}))

Block(s, ts) == LeaveScope(BlockOf(EnterScope(s), ts), s)

IfExpr(s, c, t, e, rv) ==
  LET a == Expr(s, c, TRUE)
      b == Expr(a, t, TRUE)
      d == IF e = <<>> THEN Give(b, Null) ELSE Expr(b, e, rv) IN
  New(d, Node("If", 0, <<a.r, b.r, d.r>>, Null, IF rv THEN {"RValue"} ELSE {}))

(* PCall, pArgs: a call of a basic type is a cast, gone when the argument  *)
(* is of that type; arguments are read in the context of the call.         *)
Arg(s, a) == IF a[1] = "named"
             THEN LET e == Expr(s, a[3], TRUE) IN New(e, Node("NamedVal", a[2], <<e.r>>, Null, {}))
             ELSE Expr(s, a, TRUE)

Call(s, f, as) ==
  LET g == Expr(s, f, FALSE)
      u == UseAsRValue(g, g.r)
      c == ExprIn(u, as[1], u.r)
      q == FoldLeft(LAMBDA p, a : LET e == Arg(p, a) IN [e EXCEPT !.rs = Append(p.rs, e.r)],
                    [u EXCEPT !.rs = <<>>], as)
      named == IF \E j \in DOMAIN as : as[j][1] = "named" THEN {"Named"} ELSE {}
      tup == New(q, Node("Tuple", 0, q.rs, Null, named)) IN
  IF as = <<>> THEN New(u, Node("Call", 0, <<u.r, Null>>, Null, {}))
  ELSE IF u.r < 0
       THEN IF TypeOf(c, c.r) = u.r THEN c
            ELSE New(c, Node("TypeCast", 0, <<u.r, c.r>>, Null, {}))
  ELSE New(tup, Node("Call", 0, <<u.r, tup.r>>, Null, {}))

(* pArrayLit: typed at once when every element has the expected type.      *)
ArrayLit(s, es) ==
  LET want == IF Kind(s, s.pctx) = "ArrayType" THEN Kid(s, s.pctx, 1) ELSE Null
      q == Back(ExprList([s EXCEPT !.pctx = want], es, TRUE), s)
      all == want # Null /\ \A j \in DOMAIN q.rs : TypeOf(q, q.rs[j]) = want
      t == New(q, Node("ArrayType", Len(es), <<want, Null>>, Null, {})) IN
  IF all THEN New(t, Node("Array", 0, q.rs, t.r, {})) ELSE New(q, Node("Array", 0, q.rs, Null, {}))

(* PLBrackInfix: an index (unknown as a constant, so far) or a slice.      *)
NotConst == 65535
Index(s, e, i) ==
  LET a == Expr(s, e, FALSE)  u == UseAsRValue(a, a.r)  x == Expr(u, i, TRUE) IN
  New(x, Node("Index", NotConst, <<u.r, x.r>>, Null, {}))

Slice(s, e, i, j) ==
  LET Opt(q, t) == IF t = <<>> THEN Give(q, Null) ELSE Expr(q, t, TRUE)
      a == Expr(s, e, FALSE)  u == UseAsRValue(a, a.r)
      x == Opt(u, i)  y == Opt(x, j) IN
  New(y, Node("Slice", 0, <<u.r, x.r, y.r>>, Null, {}))

(* PRefPrefix: a mutable reference makes a variable mutable; the type is   *)
(* known when the target's is.                                             *)
RefPrefix(s, e) ==
  LET Marks(c) == IF c THEN {"Const"} ELSE {}
      Expected(q, n) == IF q.eq THEN SetType(q, n, s.pctx) ELSE Fail(q)
      Inferred(q, n) == SetType(q, n, q.r)
      Typed(n, t, c) ==
        IF t \in {Null, IdealT} THEN n
        ELSE IF s.pctx = Null /\ Kind(n, t) = "RefType" THEN Fail(n)
        ELSE IF s.pctx = Null THEN Inferred(New(n, Node("RefType", 0, <<t>>, Null, Marks(c))), n.r)
        ELSE IF Kind(n, s.pctx) # "RefType" THEN Fail(n)
        ELSE Expected(TypeEquals(n, Kid(n, s.pctx, 1), t), n.r)
      Made(n, v, c) == Give(Typed(n, TypeOf(n, v), c), n.r)
      Of(a, v, c) == Made(New(IF ~c /\ Kind(a, v) = "Var" THEN DelFlag(a, v, "Const") ELSE a,
                              Node("Ref", 0, <<a.r>>, Null, Marks(c))), v, c)
      To(a, v) == Of(a, v, s.pctx # Null \/ Has(a, v, IF Kind(a, v) = "Var" THEN "isconst" ELSE "Const"))
      Aimed(a) == To(a, IF Kind(a, a.r) = "Id" THEN Kid(a, a.r, 1) ELSE a.r) IN
  Aimed(Expr(s, e, TRUE))

(* PFun, pParams: the name is defined before the body, the parameters in   *)
(* the scope of the body.                                                  *)
Fun(s, name, params, result, body) ==
  LET f  == New(s, Node("Fun", name, <<Null, Null, Null>>, Null, {}))
      d  == Define(f, name, f.r)
      One(q, p) == LET t == Expr(q, p[2], TRUE)
                       v == New(t, Node("Var", p[1], <<Null>>, t.r, {"Const", "Unused", "Param"})) IN
                   [Define(v, p[1], v.r) EXCEPT !.rs = Append(q.rs, v.r)]
      ps == FoldLeft(One, [EnterScope(d) EXCEPT !.rs = <<>>], params)
      tp == IF params = <<>> THEN Give(ps, Null) ELSE New(ps, Node("Tuple", 0, ps.rs, Null, {}))
      rt == Expr(tp, result, TRUE)
      b  == IF body = <<>> THEN Give(rt, Null) ELSE BlockOf(rt, body) IN
  Give(LeaveScope(SetKids(b, f.r, <<tp.r, rt.r, b.r>>), d), f.r)

(* PTypeDef, pField, pStructType: a type with initializers in its fields   *)
(* is left for the resolver.                                               *)
StructDef(s, name, fields) ==
  LET v == New(s, Node("Var", name, <<Null>>, Null, {"Const", "Unused", "isconst"}))
      d == Define(v, name, v.r)
      One(q, f) ==
        LET t == Expr(q, f[2], TRUE)
            i == IF f[3] = <<>> THEN Give(t, Null) ELSE ExprIn(t, f[3], t.r)
            n == New(i, Node("Field", f[1], <<i.r>>, t.r,
                             IF f[3] = <<>> THEN {} ELSE {"CustomInit", "Partial"})) IN
        [n EXCEPT !.rs = Append(q.rs, n.r)]
      fs == FoldLeft(One, [d EXCEPT !.rs = <<>>], fields)
      custom == \E j \in DOMAIN fields : fields[j][3] # <<>>
      st == New(fs, Node("StructType", name, fs.rs, Null, IF custom THEN {"CustomInit"} ELSE {}))
      q  == SetKids(st, v.r, <<st.r>>)
      tt == New(q, Node("TypeType", 0, <<st.r>>, Null, {})) IN
  Give(IF custom THEN q ELSE SetType(tt, v.r, tt.r), v.r)

(* pArrayType: the size is evaluated at once if it can be.                 *)
ArrayTypeExpr(s, t, size) ==
  LET e == Expr(s, t, TRUE)
      z == Back(Expr([e EXCEPT !.pctx = Null], size, TRUE), e)
      v == Eval(z, z.r, UintT, TRUE) IN
  IF size = <<>> THEN New(e, Node("ArrayType", 0, <<e.r, Null>>, Null, {}))
  ELSE New(v, Node("ArrayType", IF v.r = Null THEN 0 ELSE Val(v, v.r), <<e.r, z.r>>, Null,
                   IF v.r = Null THEN {"Partial"} ELSE {}))

-----------------------------------------------------------------------------
Unary(s, k, v, e) == LET a == Expr(s, e, TRUE) IN New(a, Node(k, v, <<a.r>>, Null, {}))

(* PReturn: with a value or without.                                       *)
ReturnExpr(s, e) == IF e = <<>> THEN New(s, Node("Return", 0, <<Null>>, Null, {}))
                    ELSE Unary(s, "Return", 0, e)

(* exprOrTuple: several expressions with commas between them.              *)
TupleExpr(s, es) == LET q == ExprList(s, es, TRUE) IN New(q, Node("Tuple", 0, q.rs, Null, {}))

(* pRefType: without "mut" in front, to something constant.                *)
RefTypeExpr(s, e) == LET t == Expr(s, e, TRUE) IN New(t, Node("RefType", 0, <<t.r>>, Null, {"Const"}))

(* PAs: the type comes after the value.                                    *)
AsExpr(s, l, type, rv) ==
  LET e == Expr(s, l, rv)  y == Expr(e, type, TRUE) IN
  New(y, Node("TypeCast", 0, <<y.r, e.r>>, Null, {}))

(* PSelector: the flags are those of the operand.                          *)
SelectorExpr(s, l, member) ==
  LET e == Expr(s, l, FALSE)  u == UseAsRValue(e, e.r) IN
  New(u, Node("Selector", <<member, <<>>>>, <<u.r>>, Null, Nd(u, u.r).fl))

Expr(s, t, rv) ==
  IF s.stop # "" THEN s
  ELSE CASE t[1] = "int"   -> IntLitExpr(s, t[2])
         [] t[1] = "const" -> Give(s, t[2])
         [] t[1] = "id"    -> ResolveId(s, t[2], TRUE)
         [] t[1] = "bin"   -> InfixOp(s, t[2], t[3], t[4])
         [] t[1] = "un"    -> Unary(s, "PrefixOp", t[2], t[3])
         [] t[1] = "set"   -> AssignToId(s, t[2], t[3])
         [] t[1] = "store" -> AssignToBase(s, t[2], t[3])
         [] t[1] = "sets"  -> AssignToTuple(s, t[2], t[3])
         [] t[1] = "var"   -> VarOrConst(s, FALSE, t[2], t[3], t[4])
         [] t[1] = "let"   -> VarOrConst(s, TRUE, t[2], t[3], t[4])
         [] t[1] = "block" -> Block(s, t[2])
         [] t[1] = "if"    -> IfExpr(s, t[2], t[3], t[4], rv)
         [] t[1] = "ret"   -> ReturnExpr(s, t[2])
         [] t[1] = "call"  -> Call(s, t[2], t[3])
         [] t[1] = "as"    -> AsExpr(s, t[2], t[3], rv)
         [] t[1] = "arr"   -> ArrayLit(s, t[2])
         [] t[1] = "tup"   -> TupleExpr(s, t[2])
         [] t[1] = "idx"   -> Index(s, t[2], t[3])
         [] t[1] = "slice" -> Slice(s, t[2], t[3], t[4])
         [] t[1] = "ref"   -> RefPrefix(s, t[2])
         [] t[1] = "sel"   -> SelectorExpr(s, t[2], t[3])
         [] t[1] = "fun"   -> Fun(s, t[2], t[3], t[4], t[5])
         [] t[1] = "type"  -> StructDef(s, t[2], t[3])
         [] t[1] = "T"     -> Give(s, t[2])
         [] t[1] = "Tref"  -> RefTypeExpr(s, t[2])
         [] t[1] = "Tarr"  -> ArrayTypeExpr(s, t[2], t[3])

(* A store with nothing in it: the universe, no scope, no errors.          *)
EmptyStore(rodata) ==
  [n |-> Universe, rodata |-> rodata,
   r |-> Null, rs |-> <<>>, eq |-> FALSE, v |-> <<>>, vs |-> <<>>, errs |-> 0, stop |-> "",
   env |-> <<>>, base |-> 0, pctx |-> Null, ctx |-> Null, funs |-> <<Null>>,
   b |-> <<>>, m |-> <<>>, u |-> <<>>]

=============================================================================
