--------------------------------- MODULE IR ---------------------------------
(***************************************************************************)
(* ir/ir.c, ir/ir.h and ir/constcache.c: Co's own graph of blocks and      *)
(* values in static single assignment form, and the operations on it that  *)
(* the builder uses.                                                       *)
(*                                                                         *)
(* The graph is part of the record s.u: functions, blocks and values are   *)
(* the entries of its tables, 0 is NULL.  An operator with the name of a C *)
(* function gives the store after the call, the value it returns in s.v,   *)
(* the block or function in s.r.  What the numbers and comments of values  *)
(* are for is printing: they are left out.                                 *)
(***************************************************************************)
EXTENDS Ast, IROps, FiniteSets, TLC

IRPkgNew == <<>>    \* functions by name, none yet

(* What follows, unless the builder has stopped.                           *)
Then(s, e) == IF s.stop = "" THEN e ELSE s

-----------------------------------------------------------------------------
(* ir.c: types are compared by address; those of arrays by the node they   *)
(* were made for.                                                           *)
NoType    == <<>>
IRVoid    == <<"nil">>
IRBool    == <<"bool">>
IRType(c) == <<c>>
IRArray(n, count, elem) == <<"array", n, count, elem>>

(* Blocks.                                                                 *)
IRBlockNew(s, f, kind) ==
  LET b == Len(s.u.blks) + 1
      blk == [f |-> f, id |-> s.u.funs[f].bid, kind |-> kind, sealed |-> FALSE,
              succs |-> <<0, 0>>, preds |-> <<0, 0>>, values |-> <<>>, control |-> 0] IN
  Give([s EXCEPT !.u.blks = Append(@, blk), !.u.funs[f].bid = @ + 1,
                 !.u.funs[f].blocks = Append(@, b)], b)

Refers(s, c, b) == b \in SetOf(s.u.blks[c].succs) \cup SetOf(s.u.blks[c].preds)

IRBlockDiscard(s, b) ==
  LET f == s.u.blks[b].f IN
  IF \E c \in SetOf(s.u.funs[f].blocks) \ {b} : Refers(s, c, b) THEN Stop(s, "assert")
  ELSE [s EXCEPT !.u.funs[f].blocks = SelectSeq(@, LAMBDA c : c # b)]

MovedToEnd(q, i) == Append(RemoveAt(q, i), q[i])
IRFunLeaveBlock(s, f, i) == s                                  \* never moved (mutant)
IRFunMoveBlockToEnd(s, f, i) ==
  IF i > Len(s.u.funs[f].blocks) THEN Stop(s, "assert") ELSE [s EXCEPT !.u.funs[f].blocks = MovedToEnd(@, i)]

CountUse(s, v, d) == IF v = 0 THEN s ELSE [s EXCEPT !.u.vals[v].uses = @ + d]

IRBlockSetControl(s, b, v) ==
  CountUse(CountUse([s EXCEPT !.u.blks[b].control = v], v, 1), s.u.blks[b].control, -1)

(* Values.                                                                 *)
IRValueAlloc(s, op, t, aux) ==
  [s EXCEPT !.u.vals = Append(@, [op |-> op, type |-> t, args |-> <<>>, aux |-> aux, uses |-> 0]),
            !.v = Len(s.u.vals) + 1]
IRBlockAddValue(s, b, v) == [s EXCEPT !.u.blks[b].values = Append(@, v), !.v = v]
IRValueNew(s, b, op, t, aux) == IRBlockAddValue(IRValueAlloc(s, op, t, aux), b, Len(s.u.vals) + 1)

IRValueAddArg(s, v, arg) ==
  IF arg = 0 THEN Stop(s, "fault")
  ELSE [s EXCEPT !.u.vals[arg].uses = @ + 1, !.u.vals[v].args = Append(@, arg)]

ValType(s, v) == s.u.vals[v].type

-----------------------------------------------------------------------------
(* constcache.c: a bitmap of the type codes that have a branch, and the    *)
(* branches in the order of the codes, each a map of values.               *)
NoCache == [bmap |-> {}, branches |-> <<>>]
BitIndex(c, code) == Cardinality({k \in c.bmap : k < code}) + 1

(* The cached value or 0, and the place of the branch or 0 (addHint).      *)
IRConstCacheGet(c, code, value) ==
  IF code \notin c.bmap THEN [v |-> 0, hint |-> 0]
  ELSE LET i == BitIndex(c, code) IN
       [v |-> IF value \in DOMAIN c.branches[i] THEN c.branches[i][value] ELSE 0, hint |-> i]

IRConstCacheAppend(c, code, value, v, hint) ==                  \* a branch put last (mutant)
  IF hint > 0 THEN [c EXCEPT !.branches[hint] = (value :> v) @@ @]
  ELSE [bmap |-> c.bmap \cup {code}, branches |-> Append(c.branches, value :> v)]
IRConstCacheAdd(c, code, value, v, hint) ==
  LET i == BitIndex(c, code) IN
  IF hint > 0 THEN [c EXCEPT !.branches[hint] = (value :> v) @@ @]
  ELSE IF code \in c.bmap THEN [c EXCEPT !.branches[i] = (value :> v) @@ @]
  ELSE [bmap |-> c.bmap \cup {code}, branches |-> InsertAt(c.branches, i, value :> v)]

(* A constant is made once for each function, in its entry block.          *)
ConstOf(s, f, code, value, t, got) ==
  LET q == IRValueNew(s, s.u.funs[f].blocks[1], IROpConstFromAST(t[1]), t, value) IN
  IF got.v # 0 THEN [s EXCEPT !.v = got.v]
  ELSE [q EXCEPT !.u.funs[f].consts = IRConstCacheAdd(@, code, value, q.v, got.hint)]

GetConst64(s, f, t, value) ==
  LET code == CodeOf(t[1]) IN
  ConstOf(s, f, code, value, t, IRConstCacheGet(s.u.funs[f].consts, code, value))

IRFunGetConstBool(s, f, value)   == GetConst64(s, f, IRBool, value)
IRFunGetConstInt(s, f, t, value) ==
  IF t = NoType THEN Stop(s, "fault")
  ELSE IF ~TypeCodeIsInt(t[1]) THEN Stop(s, "assert")
  ELSE GetConst64(s, f, t, value)

-----------------------------------------------------------------------------
(* Functions and packages.  No write to a global is ever counted.          *)
IRFunIsPure(s, f) == s.u.funs[f].ncalls = s.u.funs[f].npurecalls

IRPkgAddFun(s, name, f) == [s EXCEPT !.u.pkg = (name :> f) @@ @]
IRPkgGetFun(s, name) == IF name \in DOMAIN s.u.pkg THEN s.u.pkg[name] ELSE 0

IRFunNew(s, name, nparams) ==
  LET f == [name |-> name, nparams |-> nparams, blocks |-> <<>>, bid |-> 0,
            ncalls |-> 0, npurecalls |-> 0, consts |-> NoCache] IN
  Give([s EXCEPT !.u.funs = Append(@, f)], Len(s.u.funs) + 1)
=============================================================================
