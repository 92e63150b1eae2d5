------------------------------- MODULE IRGraph -------------------------------
(***************************************************************************)
(* The graph that IRBuilder makes of a function, as its readers may take   *)
(* it: edges, order, availability of values, and what running it gives.    *)
(* Nothing in the repository runs the graph; ir.h says what its parts mean. *)
(***************************************************************************)
EXTENDS IRBuilder

IRBlk(s, b)      == s.u.blks[b]
FunBlocks(s, f) == s.u.funs[f].blocks
Succs(s, b) == SetOf(IRBlk(s, b).succs) \ {0}
Preds(s, b) == SetOf(IRBlk(s, b).preds) \ {0}
Position(q, x) == CHOOSE j \in DOMAIN q : q[j] = x

Home(s, v) == CHOOSE b \in DOMAIN s.u.blks : v \in SetOf(IRBlk(s, b).values)
OwnFun(s, v) == IRBlk(s, Home(s, v)).f

(* The edges of f go both ways, to blocks of f that come later: what joins *)
(* two branches follows both, nested ones too, and all that is discarded   *)
(* is out of reach.                                                        *)
EdgesAgree(s, f) ==
  LET bs == FunBlocks(s, f) IN
  /\ IsInjective(bs) /\ Preds(s, bs[1]) = {}
  /\ \A j \in DOMAIN bs :
       /\ IRBlk(s, bs[j]).sealed
       /\ j > 1 => Preds(s, bs[j]) # {}
       /\ \A c \in Succs(s, bs[j]) : c \in SetOf(bs) /\ Position(bs, c) > j /\ bs[j] \in Preds(s, c)
       /\ \A p \in Preds(s, bs[j]) : p \in SetOf(bs) /\ bs[j] \in Succs(s, p)

(* Blocks that lie on every way to b, in order of the list.                *)
RECURSIVE OnEveryWay(_, _)
OnEveryWay(s, b) ==
  LET P == Preds(s, b) IN
  {b} \cup {d \in UNION {OnEveryWay(s, p) : p \in P} : \A p \in P : d \in OnEveryWay(s, p)}

(* An operand of a phi comes by the edge of its side.  After an if without *)
(* an else the edges are in the other order: the if itself is first.       *)
Side(s, b, j) == LET ps == IRBlk(s, b).preds IN
                 IF IRBlk(s, ps[1]).kind = "If" /\ IRBlk(s, ps[1]).succs[2] = b THEN ps[3 - j] ELSE ps[j]

Before(s, v, w) == LET vs == IRBlk(s, Home(s, v)).values IN Position(vs, v) < Position(vs, w)

Available(s, v, j) ==
  LET a == s.u.vals[v].args[j]
      b == Home(s, v) IN
  IF s.u.vals[v].op = <<"Phi">> THEN Home(s, a) \in OnEveryWay(s, Side(s, b, j))
  ELSE IF Home(s, a) = b THEN Before(s, a, v) ELSE Home(s, a) \in OnEveryWay(s, b)

ControlAvailable(s, b) == Home(s, IRBlk(s, b).control) \in OnEveryWay(s, b)

(* The functions that call f, and those that call them.                    *)
CallersOf(s, f) ==
  {OwnFun(s, v) : v \in {w \in DOMAIN s.u.vals : s.u.vals[w].op = <<"Call">> /\ IRPkgGetFun(s, s.u.vals[w].aux) = f}}
RECURSIVE AllCallers(_, _)
AllCallers(s, S) == LET T == S \cup UNION {CallersOf(s, f) : f \in S} IN IF T = S THEN S ELSE AllCallers(s, T)

Occurs(s, v) ==
  LET InArgs(w) == Cardinality({j \in DOMAIN s.u.vals[w].args : s.u.vals[w].args[j] = v})
      InControl(b) == IF IRBlk(s, b).control = v THEN 1 ELSE 0 IN
  FoldLeft(LAMBDA n, w : n + InArgs(w), 0, [w \in DOMAIN s.u.vals |-> w])
  + FoldLeft(LAMBDA n, b : n + InControl(b), 0, [b \in DOMAIN s.u.blks |-> b])

ConstantsOf(s, f) == {v \in DOMAIN s.u.vals : s.u.vals[v].op[1] = "Const" /\ OwnFun(s, v) = f}
SameConstant(s, v, w) == /\ ValType(s, v) = ValType(s, w)
                         /\ s.u.vals[v].aux = s.u.vals[w].aux

-----------------------------------------------------------------------------
(* Execution.  A number is a residue x, of the widths of module Ast, as the *)
(* sequence <<x>>; an array is the sequence of its elements.               *)
Modulo(t) == IF t = IRBool THEN 2 ELSE IF t = IRType("i8") THEN 256 ELSE 65536
AsSigned(t, x) == IF x >= Modulo(t) \div 2 THEN x - Modulo(t) ELSE x
Operation(op, t, x, y) ==
  CASE op[1] = "Eq"  -> IF x = y THEN 1 ELSE 0
    [] op[1] = "Div" -> Quotient(AsSigned(t, x), AsSigned(t, y)) % Modulo(t)
    [] op[1] = "Add" -> (x + y) % Modulo(t)
    [] op[1] = "Sub" -> (x - y) % Modulo(t)
    [] op[1] = "Mul" -> (x * y) % Modulo(t)

Unknown == <<>>
Lost(x) == [x EXCEPT !.ub = TRUE]

RECURSIVE RunIR(_, _, _)

RunValue(s, x, v, from, b, fuel) ==
  LET i == s.u.vals[v]
      op == i.op[1]
      A(j) == x.reg[i.args[j]]
      Made(y) == [x EXCEPT !.reg[v] = y] IN
  CASE op = "Const"  -> Made(<<i.aux % Modulo(i.type)>>)
    [] op \in {"Nil", "Fun"} -> x
    [] op = "Call"   -> LET r == RunIR(s, IRPkgGetFun(s, i.aux), fuel - 1) IN IF r.ub THEN Lost(x) ELSE Made(r.val)
    [] op = "Phi"    -> Made(A(CHOOSE j \in {1, 2} : Side(s, b, j) = from))
    [] op = "Alloca" -> Made([j \in DOMAIN i.args |-> A(j)])
    [] op = "GEP"    -> IF A(2)[1] + 1 \in DOMAIN A(1) THEN Made(A(1)[A(2)[1] + 1]) ELSE Lost(x)
    [] op = "Conv"   -> Made(<<AsSigned(ValType(s, i.args[1]), A(1)[1]) % Modulo(i.type)>>)
    [] OTHER -> IF op = "Div" /\ A(2) = <<0>> THEN Lost(x) ELSE Made(<<Operation(i.op, i.type, A(1)[1], A(2)[1])>>)

(* An operand that was never computed is the end of what can be said.      *)
Ready(s, x, v) == s.u.vals[v].op = <<"Phi">> \/ \A j \in DOMAIN s.u.vals[v].args : x.reg[s.u.vals[v].args[j]] # Unknown

RECURSIVE RunFrom(_, _, _, _, _)
Leave(s, x, b, fuel) ==
  LET k == IRBlk(s, b)
      c == IF k.control = 0 THEN <<0>> ELSE x.reg[k.control] IN
  IF x.ub \/ c = Unknown THEN Lost(x)
  ELSE CASE k.kind = "Ret"  -> [x EXCEPT !.val = c]
         [] k.kind = "If"   -> RunFrom(s, x, k.succs[IF c = <<1>> THEN 1 ELSE 2], b, fuel)
         [] k.kind = "Cont" -> RunFrom(s, x, k.succs[1], b, fuel)
RunFrom(s, x, b, from, fuel) ==
  Leave(s, FoldLeft(LAMBDA y, v : IF y.ub \/ ~Ready(s, y, v) THEN Lost(y) ELSE RunValue(s, y, v, from, b, fuel),
                    x, IRBlk(s, b).values), b, fuel)

RunIR(s, f, fuel) ==
  LET x == [reg |-> [v \in DOMAIN s.u.vals |-> Unknown], val |-> Unknown, ub |-> FALSE] IN
  IF fuel = 0 THEN Lost(x) ELSE RunFrom(s, x, FunBlocks(s, f)[1], 0, fuel)
=============================================================================
