------------------------------ MODULE LLVMModule ------------------------------
(***************************************************************************)
(* What LLVM makes of a module that the back end has built: the checks of  *)
(* its verifier and the meaning of its instructions.  LLVM is not part of  *)
(* the repository; this is what llvm/llvm.c and llvm/llvm.cc rely on.      *)
(***************************************************************************)
EXTENDS LLVMBuilder

Terminators == {"ret", "br", "condbr", "unreachable"}

Instr(s, k)  == s.m.ins[k]
Code(s, b)   == s.m.blk[b].is
Blocks(s, f) == SetOf(s.m.fun[f].blocks)
Where(s, k)  == CHOOSE b \in DOMAIN s.m.blk : k \in SetOf(Code(s, b))
Rank(s, b, k) == CHOOSE j \in DOMAIN Code(s, b) : Code(s, b)[j] = k
Follow(s, b) == LET i == Instr(s, Last(Code(s, b))) IN
                IF i.op \in {"br", "condbr"} THEN SetOf(i.imm) ELSE {}

RECURSIVE Reached(_, _, _)
Reached(s, S, avoid) ==
  LET T == S \cup (UNION {Follow(s, b) : b \in S} \ avoid) IN
  IF T = S THEN S ELSE Reached(s, T, avoid)

(* Every block ends in its only terminator.                                *)
WellFormed(s, f) ==
  \A b \in Blocks(s, f) :
    /\ Code(s, b) # <<>>
    /\ \A j \in DOMAIN Code(s, b) :
         (Instr(s, Code(s, b)[j]).op \in Terminators) <=> (j = Len(Code(s, b)))

(* The instruction d comes before the end of, or the use k in, block b.    *)
Dominates(s, f, d, b, k) ==
  LET c == Where(s, d)  entry == s.m.fun[f].blocks[1] IN
  /\ s.m.blk[c].f = f
  /\ IF c = b /\ k # 0 THEN Rank(s, c, d) < Rank(s, c, k)
     ELSE c = b \/ c = entry \/ b \notin Reached(s, {entry}, {c})

OperandsFit(s, f, k) ==
  LET i == Instr(s, k)
      T(j) == VType(s, i.args[j])
      fun == s.m.fun[f] IN
  CASE i.op \in {"add", "sub", "mul", "sdiv", "udiv", "eq", "slt", "ult", "ne"} -> T(1) = T(2) /\ T(1)[1] = "i"
    [] i.op = "condbr" -> T(1) = I1
    [] i.op = "ret"    -> IF i.args = <<>> THEN fun.result = TVoid ELSE T(1) = fun.result
    [] i.op = "phi"    -> \A j \in DOMAIN i.args : T(j) = i.ty
    [] i.op = "call"   -> [j \in 2 .. Len(i.args) |-> T(j)] = [j \in 2 .. Len(i.args) |-> Elem(T(1))[3][j - 1]]
    [] OTHER -> TRUE

Incoming(s, f, b) == {c \in Blocks(s, f) : b \in Follow(s, c)}

VerifiedFun(s, f) ==
  /\ WellFormed(s, f)
  /\ \A b \in Blocks(s, f) : \A j \in DOMAIN Code(s, b) :
       LET k == Code(s, b)[j]
           i == Instr(s, k)
           live == b \in Reached(s, {s.m.fun[f].blocks[1]}, {}) IN
       /\ OperandsFit(s, f, k)
       /\ i.op = "phi" => SetOf(i.imm) = Incoming(s, f, b) /\ \A h \in 1 .. j : Instr(s, Code(s, b)[h]).op = "phi"
       /\ \A h \in DOMAIN i.args :
            CASE i.args[h][1] = "ins" ->
                   live => IF i.op = "phi" THEN Dominates(s, f, i.args[h][2], i.imm[h], 0)
                           ELSE Dominates(s, f, i.args[h][2], b, k)
              [] i.args[h][1] = "param" -> i.args[h][2] = f
              [] OTHER -> TRUE

Verified(s) == \A f \in DOMAIN s.m.fun : s.m.fun[f].blocks = <<>> \/ VerifiedFun(s, f)

-----------------------------------------------------------------------------
(* Execution.  Integers are residues, aggregates sequences, a pointer is   *)
(* <<"at", object, path>>; what memory holds at first is not a residue.    *)
Undefined == -1
RECURSIVE Fresh(_)
Fresh(ty) == CASE ty[1] = "arr"    -> [j \in 1 .. ty[2] |-> Fresh(ty[3])]
               [] ty[1] = "struct" -> [j \in DOMAIN ty[3] |-> Fresh(ty[3][j])]
               [] OTHER -> Undefined

RECURSIVE Inside(_, _), PartAt(_, _), With(_, _, _)
Inside(v, path) == path = <<>> \/ (path[1] \in DOMAIN v /\ Inside(v[path[1]], Tail(path)))
PartAt(v, path) == IF path = <<>> THEN v ELSE PartAt(v[path[1]], Tail(path))
With(v, path, new) == IF path = <<>> THEN new ELSE [v EXCEPT ![path[1]] = With(@, Tail(path), new)]

RECURSIVE Constant(_)
Constant(v) == CASE v[1] = "const" -> IF v[2][1] \in {"arr", "struct"}
                                      THEN [j \in DOMAIN v[3] |-> Constant(v[3][j])] ELSE v[3]
                 [] v[1] = "glob" -> <<"at", v[2], <<>>>>
                 [] OTHER -> v

(* An activation: registers, memory, and how the block was left.           *)
Reg(x, v) == CASE v[1] = "ins" -> x.reg[v[2]] [] v[1] = "param" -> x.args[v[3]] [] OTHER -> Constant(v)
Bad(x) == [x EXCEPT !.ub = TRUE, !.to = 0]

RECURSIVE RunFun(_, _, _, _, _), RunBlock(_, _, _, _, _)

RunIns(s, x, k, from, fuel) ==
  LET i == Instr(s, k)
      A(j) == Reg(x, i.args[j])
      Set(v) == [x EXCEPT !.reg[k] = v]
      p == A(1) IN
  CASE i.op = "alloca" ->
         [Set(<<"at", Len(x.mem) + 1, <<>>>>) EXCEPT !.mem = Append(@, Fresh(i.imm))]
    [] i.op = "load"  -> IF Inside(x.mem[p[2]], p[3]) THEN Set(PartAt(x.mem[p[2]], p[3])) ELSE Bad(x)
    [] i.op = "store" -> IF Inside(x.mem[A(2)[2]], A(2)[3])
                         THEN [x EXCEPT !.mem[A(2)[2]] = With(@, A(2)[3], p)] ELSE Bad(x)
    [] i.op = "gep"   -> Set(<<"at", p[2], p[3] \o [j \in 1 .. Len(i.args) - 2 |-> A(j + 2) + 1]>>)
    [] i.op = "cast"  -> Set(p)
    [] i.op = "extract" -> Set(p[i.imm + 1])
    [] i.op \in {"add", "sub", "mul", "sdiv", "udiv", "eq", "slt", "ult", "ne"} ->
         IF Undefined \in {p, A(2)} \/ (i.op \in {"sdiv", "udiv"} /\ A(2) = 0) THEN Bad(x)
         ELSE IF i.op = "ne" THEN Set(IF p = A(2) THEN 0 ELSE 1)
         ELSE Set(Compute(i.op, VType(s, i.args[1]), p, A(2)))
    [] i.op = "phi"  -> Set(A(CHOOSE j \in DOMAIN i.imm : i.imm[j] = from))
    [] i.op = "call" ->
         LET r == RunFun(s, p[2], [j \in 1 .. Len(i.args) - 1 |-> A(j + 1)], x.mem, fuel - 1) IN
         IF r.ub THEN Bad(x) ELSE [Set(r.val) EXCEPT !.mem = r.mem]
    [] i.op = "ret"    -> [x EXCEPT !.val = IF i.args = <<>> THEN 0 ELSE p, !.to = 0]
    [] i.op = "br"     -> [x EXCEPT !.to = i.imm[1]]
    [] i.op = "condbr" -> IF p = Undefined THEN Bad(x) ELSE [x EXCEPT !.to = i.imm[IF p = 1 THEN 1 ELSE 2]]
    [] i.op = "unreachable" -> Bad(x)

RunBlock(s, x, b, from, fuel) ==
  LET y == FoldLeft(LAMBDA q, k : IF q.ub THEN q ELSE RunIns(s, q, k, from, fuel), x, Code(s, b)) IN
  IF y.ub \/ y.to = 0 THEN y ELSE RunBlock(s, [y EXCEPT !.to = 0], y.to, b, fuel)

RunFun(s, f, args, mem, fuel) ==
  LET x == [reg |-> [k \in DOMAIN s.m.ins |-> Undefined], mem |-> mem, args |-> args,
            val |-> Undefined, ub |-> FALSE, to |-> 0] IN
  IF fuel = 0 \/ s.m.fun[f].blocks = <<>> THEN [x EXCEPT !.ub = TRUE]
  ELSE RunBlock(s, x, s.m.fun[f].blocks[1], 0, fuel)

(* A function called when the globals have their initial values.           *)
Run(s, f, args, fuel) ==
  RunFun(s, f, args, [j \in DOMAIN s.m.glob |-> Constant(s.m.glob[j].init)], fuel)

=============================================================================
