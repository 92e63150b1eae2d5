----------------------------- MODULE ScopeStack -----------------------------
(***************************************************************************)
(* The scope stack of the parser (co/parse/parse.c): every open scope of a *)
(* file in one array.  A binding is two cells, value then key; a pushed    *)
(* scope begins with a cell that holds the base of the scope around it.    *)
(* A stack is a record: ptr the cells (from 1 here, from 0 in the code),   *)
(* base the offset of the current scope's first cell, cap the allocation.  *)
(***************************************************************************)
EXTENDS Naturals, Sequences

EmptyStack(storage) == [ptr |-> <<>>, base |-> 0, cap |-> storage]

scopestackGrowNever(s, room) == s   \* mutant of scopestackGrow

scopestackGrow(s, room) == [s EXCEPT !.cap = IF @ - Len(s.ptr) < room THEN 2 * @ ELSE @]

pushScope(s) ==
  [scopestackGrow(s, 1) EXCEPT !.ptr = Append(@, s.base), !.base = Len(s.ptr)]

\* mutant of popScope
popScopeMarked(s) == [s EXCEPT !.ptr = SubSeq(@, 1, s.base + 1), !.base = s.ptr[s.base + 1]]

popScope(s) == [s EXCEPT !.ptr = SubSeq(@, 1, s.base), !.base = s.ptr[s.base + 1]]

scopestackPush(s, key, n) == [s EXCEPT !.ptr = @ \o <<n, key>>]

define(s, key, n) == scopestackPush(scopestackGrow(s, 2), key, n)

\* The base saved in a cell; every other cell is a node or a key.
Saved(s, i) == IF s.ptr[i] \in Nat THEN s.ptr[i] ELSE 0

\* The walk from cell i down, pair by pair; at a base it goes on below, with
\* the base saved there, or stops.  0 is NULL.
Walk(s, key, shallow) ==
  LET w[i \in Nat] ==
        [base \in Nat |->
           IF i <= 1 THEN 0
           ELSE IF i - 1 = base THEN IF shallow THEN 0 ELSE w[i - 1][Saved(s, i)]
           ELSE IF s.ptr[i] = key THEN s.ptr[i - 1]
           ELSE w[i - 2][base]]
  IN w

lookupsymDeep(s, key) == Walk(s, key, FALSE)[Len(s.ptr)][s.base]
lookupsymShallow(s, key) == Walk(s, key, TRUE)[Len(s.ptr)][s.base]

\* The binding found in the package's scope is kept in the current scope, if
\* that needs no allocation.
remember(s, key, n) == IF s.cap - Len(s.ptr) > 1 THEN scopestackPush(s, key, n) ELSE s

\* The nodes that the current scope binds.
bindings(s) == {s.ptr[i] : i \in {j \in s.base + 2 .. Len(s.ptr) - 1 : (j - s.base) % 2 = 0}}
=============================================================================
