----------------------------- MODULE MCCompiler -----------------------------
(***************************************************************************)
(* Programs for Compiler: families of small functions, each combining the  *)
(* statements and expressions of one corner of the language in every way.  *)
(***************************************************************************)
EXTENDS Compiler

TI == <<"T", IntT>>
T8 == <<"T", I8T>>
TU == <<"T", U32T>>
TB == <<"T", BoolT>>
TA == <<"Tarr", TI, <<"int", 2>> >>
TR == <<"Tref", TI>>
N(v) == <<"int", v>>
I(x) == <<"id", x>>
Op(o, l, r) == <<"bin", o, l, r>>
Let(x, t, e) == <<"let", x, t, e>>
Var1(x, t, e) == <<"var", x, t, e>>
Set(x, e) == <<"set", x, e>>
Call1(f, as) == <<"call", I(f), as>>
If1(c, t, e) == <<"if", c, t, e>>
Ret(e) == <<"ret", e>>
Blk(ts) == <<"block", ts>>
Arr2(a, b) == <<"arr", <<a, b>> >>
Tup(a, b) == <<"tup", <<a, b>> >>
Ix(a, i) == <<"idx", a, i>>
Less(a, b) == Op("<", a, b)
AB == << <<"a", TI>>, <<"b", TI>> >>

Fn(name, ps, t, body) == <<"fun", name, ps, t, body>>
F(body) == Fn("f", AB, TI, body)
H == Fn("h", << <<"a", TI>> >>, TI, <<Op("+", I("a"), N(1))>>)

(* Scalars: assignments, definitions, globals and calls.                   *)
Globals == { Set("g", N(3)), Let("g", <<>>, N(3)), Var1("g", TI, N(3)) }
Stmts == { Set("x", N(1)), Set("x", I("a")), Set("x", Op("+", I("a"), I("b"))), Set("a", N(7)),
  <<"sets", <<"a", "b">>, <<I("b"), I("a")>> >>, <<"sets", <<"x", "a">>, <<I("b"), Op("+", I("b"), N(1))>> >>,
  Set("b", Call1("h", <<I("b")>>)), If1(Less(I("a"), I("b")), Set("a", I("b")), <<>>),
  Set("g", I("a")), Set("x", If1(Less(I("a"), I("b")), N(1), N(2))) }
Exprs == { I("a"), Op("-", I("b"), I("x")), Op("+", I("a"), I("g")), Call1("h", <<I("x")>>) }
MoreExprs == { N(1), I("g"), Op("+", I("a"), N(2)), I("x"), If1(Less(I("a"), N(2)), I("a"), I("b")),
  Ret(I("a")), Op("*", N(2), N(3)) }
Scalars == {<<Set("g", N(3)), H, F(<<t, u, e>>)>> : t, u \in Stmts, e \in Exprs}
      \cup {<<g, H, F(<<t, e>>)>> : g \in Globals, t \in Stmts, e \in Exprs \cup MoreExprs}

(* Arrays of constants, their elements and references to them.             *)
ADefs == { Set("x", Arr2(N(1), N(2))), Let("x", <<>>, Arr2(N(1), N(2))), Var1("x", TA, <<>>),
  Var1("x", TA, Arr2(N(7), N(8))) }
AStmts == { <<"store", Ix(I("x"), N(1)), I("a")>>, <<"store", Ix(I("x"), I("b")), N(9)>>,
  Set("y", <<"ref", I("x")>>), Set("y", <<"ref", I("g")>>), N(0) }
AExprs == { Ix(I("x"), N(1)), Ix(I("x"), I("a")), Ix(I("g"), N(1)), Ix(I("g"), I("a")), Ix(I("y"), N(0)),
  Ix(I("y"), I("a")), Ix(<<"un", "*", I("y")>>, N(1)), Ix(I("g"), N(2)) }
GA == Let("g", <<>>, Arr2(N(5), N(6)))
Arrays == {<<GA, F(<<t, u, v, e>>)>> : t \in ADefs, u \in AStmts, v \in {N(0), Set("y", <<"ref", I("x")>>)}, e \in AExprs}

(* References to numbers.                                                  *)
RDefs == { Set("x", N(4)), Set("x", I("a")), Var1("x", TI, N(4)) }
RRefs == { Set("y", <<"ref", I("x")>>), Set("y", <<"ref", I("a")>>), Set("y", <<"ref", I("g")>>) }
RStmts == { Set("x", N(5)), Set("a", N(6)), N(0) }
RExprs == { <<"un", "*", I("y")>>, Op("+", <<"un", "*", I("y")>>, I("x")), Call1("h", <<I("y")>>),
  Call1("h", <<(<<"ref", I("a")>>)>>) }
HR == Fn("h", << <<"a", TR>> >>, TI, <<Op("+", <<"un", "*", I("a")>>, N(1))>>)
Refs == {<<g, HR, F(<<t, u, v, e>>)>> :
           g \in {Set("g", N(3)), Let("g", <<>>, N(3))}, t \in RDefs, u \in RRefs, v \in RStmts, e \in RExprs}

(* Tuples and structs.                                                     *)
Fields == << <<"p", TI, <<>> >>, <<"q", TI, N(2)>> >>
Struct == <<"type", "S", Fields>>
Plain == <<"type", "S", << <<"p", TI, <<>> >>, <<"q", TI, <<>> >> >> >>
GS == { Set("g", Call1("S", <<>>)), Let("g", <<>>, Call1("S", <<>>)), Set("g", Tup(N(1), N(2))) }
SStmts == { Set("x", Call1("S", <<>>)), Var1("x", I("S"), <<>>), Set("x", Tup(I("a"), N(2))),
  Set("x", Tup(N(1), N(2))), Set("x", Tup(I("a"), I("b"))), Set("x", I("g")) }
SExprs == { <<"sel", I("x"), "q">>, <<"sel", I("g"), "q">>, <<"sel", I("y"), "p">>, Ix(I("x"), N(1)),
  Ix(I("g"), N(0)), Ix(I("y"), N(1)), Ix(Tup(I("a"), I("b")), N(1)) }
Structs == {<<t, g, F(<<u, w, e>>)>> : t \in {Struct, Plain}, g \in GS, u \in SStmts, w \in {Set("y", I("x")), N(0)}, e \in SExprs}

(* Conditions within conditions, early returns, blocks.                    *)
C1 == Less(I("a"), I("b"))
Conds == { I("a"), N(1), Ret(I("a")), Op("+", I("a"), I("b")), If1(Less(I("a"), N(3)), I("a"), N(2)),
  Blk(<<Set("x", N(1)), I("a")>>), Set("b", N(3)), Call1("h", <<I("b")>>), Op("/", I("b"), I("a")) }
Flow == {<<H, F(<<If1(c, t, e)>>)>> : c \in {C1, Op("==", I("a"), N(1)), I("a")}, t \in Conds, e \in Conds \cup {<<>>}}
   \cup {<<H, F(<<If1(C1, t, e), u>>)>> : t \in Conds, e \in Conds \cup {<<>>}, u \in {I("a"), Call1("h", <<I("b")>>)}}

(* Widths and conversions.                                                 *)
WExprs == { Op("+", I("a"), N(100)), Op("*", I("a"), I("b")), Op("-", N(1), I("a")),
  If1(Less(I("a"), N(3)), I("a"), I("b")), Op("+", I("a"), N(300)), Ret(N(5)),
  Op("+", N(100), Op("+", N(20), I("b"))), Op("/", Op("-", I("a"), N(9)), N(2)), I("c"), Op("+", I("c"), I("a")) }
Widths == {<<Fn("f", << <<"a", t>>, <<"b", u>> >>, t, <<x, e>>)>> : t \in {T8, TU, TI}, u \in {T8, TI},
           x \in {Set("c", N(3)), Set("c", I("a")), Set("a", I("b")), Var1("c", T8, N(1)) }, e \in WExprs}

(* Functions before and after their callers.                               *)
HH == Fn("h", << <<"a", TI>> >>, TI, <<If1(Less(I("a"), N(2)), I("a"), Call1("h", <<Op("-", I("a"), N(1))>>))>>)
Callers == { Call1("h", <<I("a")>>), Op("+", Call1("h", <<I("a")>>), N(1)), If1(C1, Call1("h", <<I("a")>>), N(4)),
  Ret(Call1("h", <<I("a")>>)) }
Orders == {<<h, F(<<t, c>>)>> : h \in {H, HH}, t \in Stmts, c \in Callers}
     \cup {<<F(<<t, c>>), h>> : h \in {H, HH}, t \in Stmts \cup {Call1("h", <<I("b")>>)}, c \in Callers}

(* Conversions, slices, arguments by name, blocks and signs: most of them  *)
(* stop in the back end.                                                   *)
Cast(t, e) == <<"call", t, <<e>> >>
Slc(e, i, j) == <<"slice", e, i, j>>
OExprs == { Cast(TI, I("a")), Cast(T8, I("a")), Cast(T8, N(5)), <<"as", I("a"), T8>>, <<"as", N(7), TI>>,
  Slc(I("g"), <<>>, <<>>), Slc(I("g"), N(0), N(1)), Slc(I("g"), N(1), <<>>), Slc(I("g"), N(2), N(1)),
  Slc(I("g"), I("a"), <<>>), <<"call", I("S"), <<(<<"named", "q", N(4)>>)>> >>, <<"call", I("S"), <<I("a"), N(2)>> >>,
  <<"call", I("S"), <<N(1), N(2), N(3)>> >>, <<"un", "-", I("a")>>, Blk(<<>>), Tup(I("a"), Tup(N(1), I("b"))),
  <<"const", ConstTrue>>, <<"const", ConstNil>>, <<"ref", <<"ref", I("a")>> >>, <<"un", "*", I("a")>>, I("S"), TI }
Others == {<<Struct, GA, F(<<Set("x", e), u>>)>> : e \in OExprs, u \in OExprs \cup {I("a"), I("x"), Ix(I("x"), N(0))}}

(* Functions without parameters, for the graph of Co's own.                *)
G0(name, body) == Fn(name, <<>>, TI, body)
True == <<"const", ConstTrue>>
H0 == G0("h", <<Set("x", N(6)), Op("+", I("x"), N(1))>>)
H1 == Fn("h", << <<"x", TI>> >>, TI, <<I("x")>>)
H2 == Fn("h", << <<"x", TI>> >>, TI, <<Op("+", I("x"), N(1))>>)
GDefs == { Set("x", N(4)), Set("x", Call1("h", <<>>)), Set("x", Op("-", N(2), N(3))) }
GArms == { N(5), I("x"), Blk(<<Var1("x", TI, Op("-", N(2), N(3))), I("x")>>), Ret(N(7)), If1(True, N(5), Ret(N(1))),
  If1(True, Op("*", N(2), N(3)), <<>>), Call1("h", <<>>) }
GConds == { True, <<"const", ConstFalse>>, If1(True, True, <<"const", ConstFalse>>) }
GIfs == {If1(c, t, e) : c \in GConds, t \in GArms, e \in GArms \cup {<<>>}}
Ordered(a, b) == {<<a, b>>, <<b, a>>}
Ssas == UNION {Ordered(H0, G0("f", <<d, i, e>>)) : d \in GDefs, i \in GIfs, e \in {N(3), I("x")}}
   \cup UNION {Ordered(H0, G0("f", <<d, Set("z", i), Op("+", I("z"), N(1))>>)) : d \in GDefs, i \in GIfs}
   \cup UNION {Ordered(h, G0("f", <<Set("x", N(4)), Call1("h", <<a>>)>>)) : h \in {H1, H2}, a \in {N(1), I("x")}}
   \cup {<<G0("f", <<Set("x", N(4)), Call1("g", <<>>)>>), G0("g", <<Set("z", N(5)), Call1("h", <<I("z")>>)>>), h>> : h \in {H1, H2}}
   \cup {<<G0("f", <<Var1("x", t, N(100)), Op(o, I("x"), e)>>)>> : t \in {T8, TI, TU}, o \in {"+", "/", "*"},
            e \in {N(7), I("x"), Cast(TI, I("x")), Cast(T8, I("x"))}}
   \cup {<<G0("f", <<Var1("x", TU, N(40000)), Op("/", I("x"), N(7))>>)>>,
         <<G0("f", <<Set("x", N(4)), Ret(N(7)), I("x")>>)>>}
   \cup {<<G0("f", <<Set("x", Arr2(N(1), e)), Ix(I("x"), N(1))>>)>> : e \in {N(1), N(2), Op("+", N(1), N(2))}}

MCPrograms == Ssas \cup Scalars \cup Arrays \cup Refs \cup Structs \cup Flow \cup Widths \cup Orders \cup Others

(* Arrays that are copied, and arrays of values that vary.                 *)
Copies == {<<F(<<Var1("x", TA, Arr2(N(7), N(8))), Set("y", I("x")), <<"store", Ix(I("x"), N(1)), I("a")>>, Ix(I("y"), i)>>)>> :
           i \in {I("a"), N(1)}}
     \cup {<<F(<<Set("x", Arr2(e, N(2))), Ix(I("x"), N(1))>>)>> : e \in {N(1), I("a")}}
=============================================================================
