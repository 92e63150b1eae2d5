------------------------------- MODULE Meaning -------------------------------
(***************************************************************************)
(* What a program of Co means, term by term: the abstract specification    *)
(* of the compiler.  Nothing here is taken from its passes: variables are  *)
(* places in memory, arguments and results are values of the types that    *)
(* are written in the program, an untyped number takes the type of what it *)
(* meets and is an int where it meets nothing.                             *)
(*                                                                         *)
(* A number is <<type, value>>; an array or a tuple <<List, values>>, a     *)
(* struct <<Record, values, fields>>, a reference <<Pointer, object, path>>. *)
(***************************************************************************)
EXTENDS LLVMModule

Number(t, x) == <<t, x>>
List == 1
Record == 2
Pointer == 3
None == 4
IsNumber(v) == v[1] < 0
Zero == Number(IdealT, 0)
Reduced(x, t) == Residue(x, IF t = I8T THEN 256 ELSE 65536, t)

Decl(p, x) == CHOOSE d \in SetOf(p) : d[2] = x
IsDecl(p, x, form) == \E d \in SetOf(p) : d[1] = form /\ d[2] = x

(* A value where one of type t is wanted; <<>> is no type.                 *)
RECURSIVE Fitted(_, _, _), Default(_, _)
Fitted(p, t, v) ==
  CASE IsNumber(v) -> IF t = <<>> \/ t[2] = AutoT THEN IF v[1] = IdealT THEN Number(IntT, v[2]) ELSE v
                      ELSE IF t[2] = NilT THEN Zero ELSE Number(t[2], IF t[2] = BoolT THEN v[2] ELSE Reduced(v[2], t[2]))
    [] v[1] = List -> <<List, [j \in DOMAIN v[2] |->
                          Fitted(p, IF t # <<>> /\ t[1] = "Tarr" THEN t[2] ELSE <<>>, v[2][j])]>>
    [] OTHER -> v

Default(p, t) ==
  CASE t[1] = "T" -> Number(t[2], 0)
    [] t[1] = "Tarr" -> <<List, [j \in 1 .. t[3][2] |-> Default(p, t[2])]>>
    [] t[1] = "id" -> LET fs == Decl(p, t[2])[3] IN
                      <<Record, [j \in DOMAIN fs |-> IF fs[j][3] = <<>> THEN Default(p, fs[j][2])
                                                    ELSE Fitted(p, fs[j][2], Number(IdealT, fs[j][3][2]))], fs>>

Both(op, l, r) ==
  LET t == IF l[1] = IdealT THEN r[1] ELSE l[1]
      W(x) == IF t = IdealT THEN x ELSE Reduced(x, t) IN
  CASE op = "==" -> Number(BoolT, IF l[2] = r[2] THEN 1 ELSE 0)
    [] op = "<"  -> Number(BoolT, IF l[2] < r[2] THEN 1 ELSE 0)
    [] op = "/"  -> Number(t, W(Quotient(l[2], r[2])))
    [] OTHER     -> Number(t, W(Arith(op, l[2], r[2])))

RECURSIVE Ev(_, _, _, _), Place(_, _, _, _), CallOf(_, _, _, _, _)

(* q: names, memory, the last value and how it was reached: "" normally,   *)
(* "ret" by a return, "ub" when the program has no meaning.                *)
Value(q, v) == [q EXCEPT !.v = v]
Undef(q) == [q EXCEPT !.how = "ub"]
Address(q, x) == LET S == {j \in DOMAIN q.env : q.env[j][1] = x} IN
                 IF S = {} THEN 0 ELSE q.env[CHOOSE j \in S : \A k \in S : k <= j][2]
NewPlace(q, x, v) == [q EXCEPT !.env = Append(@, <<x, Len(q.mem) + 1>>), !.mem = Append(@, v), !.v = v]
Read(q, a) == IF Inside(<<q.mem[a[1]]>>, <<1>>) THEN Value(q, q.mem[a[1]]) ELSE Undef(q)

RECURSIVE Sub(_, _), Written(_, _, _)
Sub(v, path) == IF path = <<>> THEN v ELSE IF path[1] \in DOMAIN v[2] THEN Sub(v[2][path[1]], Tail(path)) ELSE <<None>>
Written(v, path, new) == IF path = <<>> THEN new ELSE [v EXCEPT ![2][path[1]] = Written(@, Tail(path), new)]
SameTypeAs(v, old) == IF IsNumber(v) /\ v[1] = IdealT THEN Number(old[1], Reduced(v[2], old[1])) ELSE v
Assigned(q, a, path, v) ==
  LET old == Sub(q.mem[a], path) IN
  IF old = <<None>> THEN Undef(q)
  ELSE [q EXCEPT !.mem[a] = Written(@, path, SameTypeAs(v, old)), !.v = SameTypeAs(v, old)]

(* Several terms in order; the values are in q.vs.                         *)
EvAll(p, ts, q, fuel) ==
  FoldLeft(LAMBDA x, t : IF x.how # "" THEN x ELSE Listed(Ev(p, t, x, fuel), x.vs), [q EXCEPT !.vs = <<>>], ts)

(* Where an element, a member or what a reference points to is: q.v is     *)
(* <<object, path>>, <<>> for a value that is nowhere.                     *)
Field(v, x) == IF \E j \in DOMAIN v[3] : v[3][j][1] = x THEN CHOOSE j \in DOMAIN v[3] : v[3][j][1] = x ELSE 0
PointedTo(q) == IF q.how # "" THEN q ELSE Value(q, <<q.v[2], q.v[3]>>)
Member(q, x) == IF q.how # "" THEN q
                ELSE Value(q, <<q.v[1], Append(q.v[2], Field(Sub(q.mem[q.v[1]], q.v[2]), x))>>)
Temporary(q) == IF q.how # "" THEN q ELSE Value(NewPlace(q, "", q.v), <<Len(q.mem) + 1, <<>>>>)

(* q: the store after the index, at: the array or the pointer to one.      *)
ElementAt(q, at) == IF q.v[2] \notin 0 .. 10 THEN Undef(q)
                    ELSE Value(q, <<at[1], Append(at[2], q.v[2] + 1)>>)
Through(v, at) == IF v[1] = Pointer THEN <<v[2], v[3]>> ELSE at
Element(q, at) == IF q.how # "" THEN q ELSE ElementAt(q, Through(Sub(q.mem[at[1]], at[2]), at))

Place(p, t, q, fuel) ==
  LET Indexed(a) == IF a.how # "" THEN a ELSE Element(Ev(p, t[3], a, fuel), a.v) IN
  CASE t[1] = "id" -> IF Address(q, t[2]) = 0 THEN Undef(q) ELSE Value(q, <<Address(q, t[2]), <<>>>>)
    [] t[1] = "un"  -> PointedTo(Ev(p, t[3], q, fuel))
    [] t[1] = "idx" -> Indexed(Place(p, t[2], q, fuel))
    [] t[1] = "sel" -> Member(Place(p, t[2], q, fuel), t[3])
    [] OTHER -> Temporary(Ev(p, t, q, fuel))

Fetched(q, v) == IF v = <<None>> THEN Undef(q) ELSE Value(q, v)
Fetch(q) == IF q.how # "" THEN q ELSE Fetched(q, Sub(q.mem[q.v[1]], q.v[2]))

(* A block, value of the last entry; names end with it.                    *)
Sequence(p, ts, q, fuel) ==
  FoldLeft(LAMBDA x, t : IF x.how # "" THEN x ELSE Ev(p, t, x, fuel), Value(q, Zero), ts)

Visible(q) == SelectSeq(q.env, LAMBDA e : e[2] <= q.globals)
Activation(p, ps, vs, q) ==
  FoldLeft(LAMBDA x, j : NewPlace(x, ps[j][1], Fitted(p, ps[j][2], vs[j])),
           [q EXCEPT !.env = Visible(q)], [j \in DOMAIN vs |-> j])
Returned(p, q, t, env) ==
  IF q.how = "ub" THEN q ELSE [q EXCEPT !.env = env, !.how = "", !.v = Fitted(p, t, q.v)]
CallOf(p, f, vs, q, fuel) ==
  IF fuel = 0 THEN Undef(q)
  ELSE Returned(p, Sequence(p, Decl(p, f)[5], Activation(p, Decl(p, f)[3], vs, q), fuel - 1), Decl(p, f)[4], q.env)

(* A name takes a value: a new place, or what it names already.            *)
SetName(p, q, x, v) == IF Address(q, x) = 0 THEN NewPlace(q, x, Fitted(p, <<>>, v)) ELSE Assigned(q, Address(q, x), <<>>, v)
SetNames(p, q, xs, vs) ==
  Value(FoldLeft(LAMBDA x, j : SetName(p, x, xs[j], vs[j]), q, [j \in DOMAIN xs |-> j]), <<List, vs>>)

Operated(op, r, l) == IF op = "/" /\ r.v[2] = 0 THEN Undef(r) ELSE Value(r, Both(op, l, r.v))
Argument(a) == IF a[1] = "named" THEN a[3] ELSE a
Built(d, as, vs) ==
  FoldLeft(LAMBDA x, j : [x EXCEPT ![2][IF as[j][1] = "named" THEN Field(d, as[j][2]) ELSE j] = SameTypeAs(vs[j], @)],
           d, [j \in DOMAIN as |-> j])
ListOf(p, q) == Value(q, Fitted(p, <<>>, <<List, q.vs>>))

Ev(p, t, q, fuel) ==
  LET Then(x, F(_)) == IF x.how # "" THEN x ELSE F(x) IN
  CASE t[1] = "int"   -> Value(q, Number(IdealT, t[2]))
    [] t[1] = "const" -> Value(q, Number(BoolT, IF t[2] = ConstTrue THEN 1 ELSE 0))
    [] t[1] \in {"id", "idx", "sel"} -> Fetch(Place(p, t, q, fuel))
    [] t[1] = "un"    -> IF t[2] = "*" THEN Fetch(Place(p, t, q, fuel)) ELSE Undef(q)
    [] t[1] = "bin"   -> Then(Ev(p, t[3], q, fuel),
                              LAMBDA l : Then(Ev(p, t[4], l, fuel), LAMBDA r : Operated(t[2], r, l.v)))
    [] t[1] = "set"   -> Then(Ev(p, t[3], q, fuel), LAMBDA l : SetName(p, l, t[2], l.v))
    [] t[1] \in {"var", "let"} ->
         IF t[4] = <<>> THEN NewPlace(q, t[2], Default(p, t[3]))
         ELSE Then(Ev(p, t[4], q, fuel), LAMBDA e : NewPlace(e, t[2], Fitted(p, t[3], e.v)))
    [] t[1] = "store" -> Then(Place(p, t[2], q, fuel),
                              LAMBDA a : Then(Ev(p, t[3], a, fuel), LAMBDA v : Assigned(v, a.v[1], a.v[2], v.v)))
    [] t[1] = "sets"  -> Then(EvAll(p, t[3], q, fuel), LAMBDA e : SetNames(p, e, t[2], e.vs))
    [] t[1] = "block" -> [Sequence(p, t[2], q, fuel) EXCEPT !.env = q.env]
    [] t[1] = "if"    -> Then(Ev(p, t[2], q, fuel),
                              LAMBDA c : IF c.v[2] = 1 THEN Ev(p, t[3], c, fuel)
                                         ELSE IF t[4] = <<>> THEN Value(c, Zero) ELSE Ev(p, t[4], c, fuel))
    [] t[1] = "ret"   -> Then(Ev(p, t[2], q, fuel), LAMBDA e : [e EXCEPT !.how = "ret"])
    [] t[1] = "call"  ->
         IF t[2][1] = "T" THEN Then(Ev(p, t[3][1], q, fuel), LAMBDA v : Value(v, Fitted(p, t[2], v.v)))
         ELSE IF IsDecl(p, t[2][2], "type")
         THEN Then(EvAll(p, [j \in DOMAIN t[3] |-> Argument(t[3][j])], q, fuel),
                   LAMBDA e : Value(e, Built(Default(p, t[2]), t[3], e.vs)))
         ELSE Then(EvAll(p, t[3], q, fuel), LAMBDA e : CallOf(p, t[2][2], e.vs, e, fuel))
    [] t[1] = "as"    -> Then(Ev(p, t[2], q, fuel), LAMBDA e : Value(e, Fitted(p, t[3], e.v)))
    [] t[1] \in {"arr", "tup"} -> Then(EvAll(p, t[2], q, fuel), LAMBDA e : ListOf(p, e))
    [] t[1] \in {"T", "slice"} -> Undef(q)
    [] t[1] = "ref"   -> Then(Place(p, t[2], q, fuel), LAMBDA a : Value(a, <<Pointer, a.v[1], a.v[2]>>))

(* The result of calling f when the globals have been defined, in order;   *)
(* <<>> when it has none.                                                  *)
Initialized(p, fuel) ==
  LET One(q, d) == IF d[1] \in {"fun", "type"} \/ q.how # "" THEN q ELSE Ev(p, d, q, fuel) IN
  FoldLeft(One, [env |-> <<>>, mem |-> <<>>, v |-> Zero, vs |-> <<>>, how |-> "", globals |-> 99], p)

WithGlobals(q) == [q EXCEPT !.globals = Len(q.mem)]
Meant(p, f, args, fuel) ==
  LET q == CallOf(p, f, args, WithGlobals(Initialized(p, fuel)), fuel) IN
  IF q.how = "ub" THEN <<>> ELSE <<q.v>>

RECURSIVE Encoded(_)
Encoded(v) == IF IsNumber(v) THEN v[2] % (IF v[1] = BoolT THEN 2 ELSE IF v[1] = I8T THEN 256 ELSE 65536)
              ELSE IF v[1] = Pointer THEN 0 ELSE [j \in DOMAIN v[2] |-> Encoded(v[2][j])]
=============================================================================
