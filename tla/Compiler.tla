------------------------------ MODULE Compiler ------------------------------
(***************************************************************************)
(* The driver, cmd_build of co.c: a package is parsed one declaration at a *)
(* time, its forward references are linked, its types resolved one         *)
(* declaration at a time and the tree validated.                           *)
(*                                                                         *)
(* A program is a sequence of declarations, one of the set Programs.  Its  *)
(* globals and functions are then given to the back end, and the module it *)
(* builds to the verifier of LLVM.                                         *)
(***************************************************************************)
EXTENDS Meaning, IRGraph

CONSTANTS Programs,   \* sequences of declarations
          Builds,     \* whether a build may put the universe in read-only memory
          Safe,       \* whether code is generated safe (build.safe)
          Ssa         \* whether the compiler is built with ENABLE_CO_IR

ASSUME BuildsAssumption ==
  /\ Builds \subseteq BOOLEAN /\ Builds # {}
  /\ Safe \subseteq BOOLEAN /\ Safe # {}
  /\ Ssa \subseteq BOOLEAN /\ Ssa # {}

(* The program; the store of the compiler; the nodes of the declarations;  *)
(* how far cmd_build has come; the declaration it is at.                   *)
VARIABLES prog, s, roots, phase, next
vars == <<prog, s, roots, phase, next>>

Init ==
  /\ \E ro \in Builds : s = EmptyStore(ro)
  /\ prog \in Programs /\ roots = <<>> /\ phase = "parse" /\ next = 1

Stopped == s.stop # ""

ParseDecl ==
  /\ phase = "parse" /\ next <= Len(prog) /\ ~Stopped
  /\ s' = Expr(s, prog[next], FALSE)
  /\ roots' = Append(roots, s'.r)
  /\ next' = next + 1
  /\ UNCHANGED <<prog, phase>>

ParseEnd ==
  /\ phase = "parse" /\ next > Len(prog) /\ ~Stopped
  /\ phase' = IF s.errs > 0 THEN "failed" ELSE "link"
  /\ next' = 1
  /\ UNCHANGED <<prog, s, roots>>

-----------------------------------------------------------------------------
(* ResolveSym: what a forward reference names.  The second branch of an if *)
(* is not visited.                                                         *)
RECURSIVE Reach(_, _)
Reach(st, S) ==
  LET T == S \cup (UNION {SetOf(Children(st, i)) \cup {TypeOf(st, i)} : i \in S} \ {Null}) IN
  IF T = S THEN S ELSE Reach(st, T)

Visited(st, i) == IF Kind(st, i) = "If" THEN {Kid(st, i, 1), Kid(st, i, 2)}
                  ELSE SetOf(Kids(st, i)) \cup {TypeOf(st, i)}

RECURSIVE Linkable(_, _)
Linkable(st, S) ==
  LET T == S \cup (UNION {Visited(st, i) : i \in S} \ {Null}) IN
  IF T = S THEN {i \in S : Kind(st, i) = "Id" /\ Kid(st, i, 1) = Null} ELSE Linkable(st, T)

LinkId(st, i) ==
  LET t == Lookup(st, Val(st, i))
      q == SetType(SetKids(Used(st, t), i, <<t>>), i, TypeOf(st, t)) IN
  IF t = Null THEN Fail(st) ELSE RefVar(q, t)

Link ==
  /\ phase = "link"
  /\ s' = FoldLeft(LinkId, s, SetToSortSeq(Linkable(s, SetOf(roots)), <))
  /\ phase' = IF s'.errs > 0 THEN "failed" ELSE "resolve"
  /\ UNCHANGED <<prog, roots, next>>

-----------------------------------------------------------------------------
(* ResolveType on the declarations of the file, in order.                  *)
ResolveDecl ==
  /\ phase = "resolve" /\ next <= Len(roots) /\ ~Stopped
  /\ s' = Resolve(s, roots[next], {})
  /\ roots' = [roots EXCEPT ![next] = s'.r]
  /\ next' = next + 1
  /\ UNCHANGED <<prog, phase>>

ResolveEnd ==
  /\ phase = "resolve" /\ next > Len(roots) /\ ~Stopped
  /\ phase' = IF s.errs > 0 THEN "failed" ELSE "validate"
  /\ UNCHANGED <<prog, s, roots, next>>

(* NodeValidate with NodeValidateMissingTypes: every expression that the   *)
(* visitor reaches has a type.                                             *)
Untyped(st, i) == Kind(st, i) # "TypeType" /\ ~IsType(st, i) /\ TypeOf(st, i) = Null

Valid(st) == \A i \in Reach(st, SetOf(roots)) : ~Untyped(st, i)

(* The back end starts with an empty module.                               *)
Emit(q) == phase' = "globals" /\ \E safe \in Safe : s' = [q EXCEPT !.b = NewBuilder(safe), !.m = EmptyModule]

Validate ==
  /\ phase = "validate"
  /\ \/ Valid(s) /\ FALSE \in Ssa /\ Emit(s)
     \/ Valid(s) /\ TRUE \in Ssa /\ phase' = "ir" /\ s' = [s EXCEPT !.u = IRBuilderInit]
     \/ ~Valid(s) /\ phase' = "failed" /\ UNCHANGED s
  /\ next' = 1
  /\ UNCHANGED <<prog, roots>>

(* IRBuilderAddAST: a declaration that is neither a function nor a         *)
(* variable ends it.  The graph is printed and dropped; the errors it has  *)
(* met are not looked at.                                                  *)
AddDecl ==
  /\ phase = "ir" /\ next <= Len(roots) /\ ~Stopped
  /\ s' = AddToplevel(s, roots[next])
  /\ next' = IF Kind(s, roots[next]) \in {"Fun", "Var"} THEN next + 1 ELSE Len(roots) + 1
  /\ UNCHANGED <<prog, roots, phase>>

AddEnd ==
  /\ phase = "ir" /\ next > Len(roots) /\ ~Stopped
  /\ Emit([s EXCEPT !.u = <<>>])
  /\ next' = 1
  /\ UNCHANGED <<prog, roots>>

-----------------------------------------------------------------------------
(* build_file: the globals, then the functions.                            *)
BuildGlobal ==
  /\ phase = "globals" /\ next <= Len(roots) /\ ~Stopped
  /\ s' = IF Kind(s, roots[next]) = "Var" THEN GlobalVar(s, roots[next]) ELSE s
  /\ next' = next + 1
  /\ UNCHANGED <<prog, roots, phase>>

GlobalsEnd ==
  /\ phase = "globals" /\ next > Len(roots) /\ ~Stopped
  /\ phase' = "functions" /\ next' = 1
  /\ UNCHANGED <<prog, s, roots>>

BuildFunction ==
  /\ phase = "functions" /\ next <= Len(roots) /\ ~Stopped
  /\ LET k == Kind(s, roots[next]) IN
     s' = IF k = "Fun" THEN BuildFun(s, roots[next]) ELSE IF k = "Var" THEN s ELSE Stop(s, "panic")
  /\ next' = next + 1
  /\ UNCHANGED <<prog, roots, phase>>

(* LLVMVerifyModule, and the verifier pass of llvm_optmod.  The errors the *)
(* back end has reported are not looked at.                                *)
ModuleBuilt == phase = "functions" /\ next > Len(roots) /\ ~Stopped
Verify ==
  /\ ModuleBuilt
  /\ phase' = IF Verified(s) THEN "emitted" ELSE "invalid"
  /\ UNCHANGED <<prog, s, roots, next>>

Next ==
  \/ ParseDecl \/ ParseEnd \/ Link \/ ResolveDecl \/ ResolveEnd \/ Validate
  \/ AddDecl \/ AddEnd \/ BuildGlobal \/ GlobalsEnd \/ BuildFunction \/ Verify

Spec == Init /\ [][Next]_vars
-----------------------------------------------------------------------------

(* Two types are the same when they have the same shape, whatever their    *)
(* cached identifiers say.                                                 *)
RECURSIVE Same(_, _, _)
Same(st, x, y) ==
  LET k == Kind(st, x)
      Params(t) == IF Kid(st, t, 1) = Null THEN <<>>
                   ELSE [j \in DOMAIN Kids(st, Kid(st, t, 1)) |-> TypeOf(st, Kids(st, Kid(st, t, 1))[j])]
      Parts(t) == CASE k = "FunType" -> Append(Params(t), Kid(st, t, 2))
                    [] k = "ArrayType" -> <<Kid(st, t, 1)>>
                    [] k = "StructType" -> [j \in DOMAIN Kids(st, t) |-> TypeOf(st, Kids(st, t)[j])]
                    [] OTHER -> Kids(st, t) IN
  \/ x = y
  \/ /\ x > 0 /\ y > 0 /\ k = Kind(st, y) /\ IsType(st, x)
     /\ k = "ArrayType" => Val(st, x) = Val(st, y)
     /\ Len(Parts(x)) = Len(Parts(y))
     /\ \A j \in DOMAIN Parts(x) : Same(st, Parts(x)[j], Parts(y)[j])

(* The typing rules, node by node.                                         *)
Rules(st, i) ==
  LET k == Kind(st, i)
      t == TypeOf(st, i)
      T(j) == TypeOf(st, Kid(st, i, j))
      FT == T(1)
      Params == IF Kid(st, FT, 1) = Null THEN <<>> ELSE Kids(st, Kid(st, FT, 1)) IN
  CASE k = "BinOp" -> /\ Same(st, T(1), T(2))
                      /\ Same(st, t, IF Val(st, i) \in {"==", "<"} THEN BoolT ELSE T(1))
    [] k = "Assign" -> Same(st, t, T(1)) /\ Same(st, T(1), T(2))
    [] k = "If" -> T(1) = BoolT /\ Same(st, t, T(2)) /\ (Kid(st, i, 3) # Null => Same(st, T(2), T(3)))
    [] k = "Id" -> Same(st, t, T(1))
    [] k = "Var" /\ IsType(st, Init1(st, i)) ->
         Kind(st, t) = "TypeType" /\ (Init1(st, i) < 0 \/ Kid(st, t, 1) = Init1(st, i))
    [] k = "Var" /\ ~IsType(st, Init1(st, i)) ->
         ~Has(st, i, "Param") /\ Init1(st, i) # Null => Same(st, t, T(1))
    [] k = "IntLit" -> t \in IntTypes /\ FitsIn(Val(st, i), t)
    [] k = "Block" -> Same(st, t, IF Kids(st, i) = <<>> THEN NilT ELSE T(Len(Kids(st, i))))
    [] k = "Array" -> \A j \in DOMAIN Kids(st, i) : Same(st, Kid(st, t, 1), T(j))
    [] k = "TypeCast" -> Same(st, t, Kid(st, i, 1))
    [] k = "Call" /\ Kind(st, FT) = "FunType" ->
         /\ Same(st, t, Kid(st, FT, 2))
         /\ Len(ArgsOf(st, i)) = Len(Params)
         /\ \A j \in DOMAIN Params : Same(st, TypeOf(st, ArgsOf(st, i)[j]), TypeOf(st, Params[j]))
    [] OTHER -> TRUE

(* The nodes of a body, not those its names stand for.                     *)
RECURSIVE Within(_, _)
Within(st, S) ==
  LET T == S \cup (UNION {SetOf(Kids(st, i)) : i \in {j \in S : Kind(st, j) \notin {"Id", "Fun"}}} \ {Null}) IN
  IF T = S THEN S ELSE Within(st, T)

Returns(st, i) == Kind(st, LastExpr(st, Kid(st, i, 3))) = "Return"
FunRule(st, i) ==
  LET result == ResultType(st, i)
      body == Kid(st, i, 3) IN
  /\ result \in {NilT} \/ body = Null \/ Returns(st, i) \/ Same(st, result, TypeOf(st, body))
  /\ \A j \in Within(st, {body}) : Kind(st, j) = "Return" => Same(st, TypeOf(st, j), result)

(* Entries of a block whose values nobody takes and sizes of array types    *)
(* stay as they are, and so do the arguments of a constructor that gives    *)
(* every field by position: resolve_call_args drops the nodes it resolved.  *)
OfKind(st, S, k) == {i \in S : Kind(st, i) = k}
AllFields(st, i) ==
  LET t == TypeOf(st, i) IN
  /\ Kid(st, i, 2) # Null /\ Kind(st, t) = "StructType"
  /\ ~Has(st, Kid(st, i, 2), "Named") /\ Len(ArgsOf(st, i)) = Len(Kids(st, t))
Discarded(st, S) == UNION {SetOf(Front(<<Null>> \o Kids(st, b))) : b \in OfKind(st, S, "Block")}
                    \cup {Kid(st, t, 2) : t \in OfKind(st, S, "ArrayType")}
                    \cup UNION {SetOf(ArgsOf(st, i)) : i \in {j \in OfKind(st, S, "Call") : AllFields(st, j)}}
TypedNode(st, i) == /\ TypeOf(st, i) # IdealT
                    /\ Rules(st, i)
                    /\ Kind(st, i) = "Fun" => FunRule(st, i)
UsedNodes(st, S) == {i \in S : ~(TypeOf(st, i) = IdealT /\ i \in Discarded(st, S))}

(* Once the types are resolved without an error, every node that counts     *)
(* obeys the typing rules, after any order of definitions: the two sides of *)
(* an operator have one type although resolve_binop converts them one       *)
(* towards the other, branches of an if agree after MatchTypes, literals    *)
(* fit the type convlit gave them, arguments have their parameters' types.  *)
WellTyped ==
  phase = "globals" /\ next = 1 => \A i \in UsedNodes(s, Reach(s, SetOf(roots))) : TypedNode(s, i)

(* The type that resolve_type resolves literals towards, and the stack of   *)
(* functions that return consults, are the same before and after every      *)
(* declaration: each of the early returns of resolve_fun, resolve_binop,    *)
(* resolve_call_args and the others puts back what it set, also when it has *)
(* reported an error.                                                       *)
ContextRestored ==
  (phase \in {"resolve", "validate"} /\ ~Stopped) => s.ctx = Null /\ s.funs = <<Null>>

TypeName(st, S, i) == Kind(st, i) = "Id" /\ \E j \in S : TypeOf(st, j) = i

(* What the resolver accepts passes NodeValidateMissingTypes: it is not the *)
(* validator that finds a node without a type, save for the name of a       *)
(* struct given as the type of a variable, which nobody resolves.           *)
Validates ==
  LET S == Reach(s, SetOf(roots)) IN
  phase = "failed" /\ s.errs = 0 => \A i \in S : Untyped(s, i) => TypeName(s, S, i)

Fuel == 6
Samples == {1, 4}
ArgsFor(k) == [1 .. k -> Samples]
FunNode(x) == CHOOSE j \in DOMAIN s.m.fun : Val(s, s.m.fun[j].node) = x
OfNumbers(d) == d[4][1] = "T" /\ \A j \in DOMAIN d[3] : d[3][j][2][1] = "T"
Agree(d, m, r) == m # <<>> /\ d[4][2] # NilT => ~r.ub /\ r.val = Encoded(m[1])
MeantOn(d, args) == Meant(prog, d[2], [j \in DOMAIN args |-> Number(d[3][j][2][2], args[j])], Fuel)

(* A module that the verifier accepts, of a program without errors, means   *)
(* what the program means: each function over numbers, run on each choice   *)
(* of samples, returns the value of Meaning wherever Meaning gives one, and *)
(* meets no undefined value on the way.  The parser's replacement of names  *)
(* by initializers, conversions of literals, the loads and stores of the    *)
(* back end and its caches of values all stand between the two.             *)
CompiledMeans ==
  phase = "emitted" /\ s.errs = 0 =>
    \A d \in {e \in SetOf(prog) : e[1] = "fun" /\ OfNumbers(e)} :
      \A args \in ArgsFor(Len(d[3])) :
        Agree(d, MeantOn(d, args), Run(s, FunNode(d[2]), args, Fuel))

-----------------------------------------------------------------------------
Graphs == phase = "ir" /\ ~Stopped

(* Whatever is nested in an if, joined, moved or discarded: the edges of a *)
(* function are the same from both ends, lead forward in the order of its  *)
(* blocks and reach every block but the first; uses counts the arguments   *)
(* and controls that are the value, in blocks that IRBlockDiscard has      *)
(* freed too; and however the cache of constants grew, a function has one  *)
(* value for each constant, in its first block.                            *)
SsaGraph ==
  Graphs => /\ \A f \in DOMAIN s.u.funs : EdgesAgree(s, f)
            /\ \A v \in DOMAIN s.u.vals : s.u.vals[v].uses = Occurs(s, v)
            /\ \A f \in DOMAIN s.u.funs : \A v, w \in ConstantsOf(s, f) :
                 Home(s, v) = FunBlocks(s, f)[1] /\ (SameConstant(s, v, w) => v = w)

(* A value is computed on every way to where it is used, in the function   *)
(* that uses it, or else in one that calls it: startFun leaves the         *)
(* variables of a function that is put aside to the one that is begun.     *)
OfACaller(a, f) == OwnFun(s, a) \in AllCallers(s, {f}) \ {f}
SsaDominates ==
  Graphs =>
    /\ \A v \in DOMAIN s.u.vals : \A j \in DOMAIN s.u.vals[v].args :
         Available(s, v, j) \/ OfACaller(s.u.vals[v].args[j], OwnFun(s, v))
    /\ \A f \in DOMAIN s.u.funs : \A b \in SetOf(FunBlocks(s, f)) :
         IRBlk(s, b).control # 0 => ControlAvailable(s, b) \/ OfACaller(IRBlk(s, b).control, f)

(* Three things make the graph mean something else: a return in an else    *)
(* that made no value, a return that is not the last of its block, and the *)
(* division of numbers that have lost their sign.                          *)
DroppedReturn == \E b \in DOMAIN s.u.blks : IRBlk(s, b).control # 0 /\ b \notin SetOf(FunBlocks(s, IRBlk(s, b).f))
EarlyReturn == \E b \in OfKind(s, {j - Origin : j \in DOMAIN s.n}, "Block") :
                 \E j \in DOMAIN Kids(s, b) : j < Len(Kids(s, b)) /\ Kind(s, Kid(s, b, j)) = "Return"
UnsignedQuotient == \E i \in DOMAIN s.n : i > Origin /\ Kind(s, i - Origin) = "BinOp" /\ Val(s, i - Origin) = "/"
                                         /\ TypeOf(s, i - Origin) = U32T

(* Otherwise a function over numbers gives what the program means, run     *)
(* through blocks, phis and calls, where neither is undefined.             *)
SsaMeans ==
  Graphs /\ ~DroppedReturn /\ ~EarlyReturn /\ ~UnsignedQuotient =>
    \A d \in {e \in SetOf(prog) : e[1] = "fun" /\ OfNumbers(e) /\ e[2] \in DOMAIN s.u.pkg} :
      \A args \in ArgsFor(Len(d[3])) :
        LET r == RunIR(s, s.u.pkg[d[2]], Fuel)
            m == MeantOn(d, args) IN
        ~r.ub /\ m # <<>> /\ d[4][2] # NilT => r.val = <<Encoded(m[1])>>
=============================================================================
