----------------------------- MODULE ResolveSym -----------------------------
(***************************************************************************)
(* Symbol resolution (co/parse/resolve_sym.c) after the parser: a walk     *)
(* over the tree from the file, through children that are marked as        *)
(* unresolved, that looks up in the package what the parser could not.     *)
(*                                                                         *)
(* The walk is recursive: todo is its call stack too, of the nodes whose   *)
(* children are visited, each with those that are still to visit.          *)
(***************************************************************************)
EXTENDS Parser, SequencesExt

CONSTANT MaxCalls   \* bound on the depth of the walk

ASSUME ResolveAssumption == MaxCalls \in Nat \ {0}

Call(n, rest) == [n |-> n, rest |-> rest]

ChildrenUntyped(n) == ast[n].kids   \* mutant of Children

\* The type, then what the node owns in the order of the switch: the target of
\* an assignment, the arguments before the receiver, no else branch.
Children(n) ==
  LET nonNull(c) == IF c = 0 THEN <<>> ELSE <<c>>
      kids == ast[n].kids
  IN nonNull(ast[n].typ) \o
     CASE ast[n].kind = "Assign" -> nonNull(ast[n].target) \o kids
       [] ast[n].kind \in {"Call", "TypeCast"} -> Reverse(kids)
       [] ast[n].kind = "If" -> IF Len(kids) > 2 THEN Front(kids) ELSE kids
       [] ast[n].kind = "Id" -> nonNull(ast[n].target)
       [] OTHER -> kids

\* resolve_sym goes to the next child that is marked, and passes by the others.
Marked == {i \in DOMAIN Head(todo).rest : ast[Head(todo).rest[i]].unres}
Next1 == CHOOSE i \in Marked : \A j \in Marked : i <= j
Child1 == Head(todo).rest[Next1]
Caller == <<[Head(todo) EXCEPT !.rest = SubSeq(@, Next1 + 1, Len(@))]>> \o Tail(todo)

Walking == status = "resolve" /\ todo # <<>>
Visiting == Walking /\ Marked # {} /\ Len(todo) < MaxCalls
Untouched == UNCHANGED <<scope, pkgscope, val, taken, next, history>>

ResolveFile ==
  /\ status = "resolve" /\ todo = <<>>
  /\ todo' = <<Call(File, Children(File))>>
  /\ UNCHANGED <<ast, status, errors>> /\ Untouched

\* Into a node: an identifier that the parser bound leads to what it names.
Enter ==
  /\ Visiting
  /\ ast[Child1].kind = "Id" => ast[Child1].target # 0
  /\ todo' = <<Call(Child1, Children(Child1))>> \o Caller
  /\ UNCHANGED <<ast, status, errors>> /\ Untouched

\* An identifier that the parser did not find.  Its mark is cleared before what
\* it names is visited, and stays if that is undefined.
LookUp ==
  /\ Visiting
  /\ ast[Child1].kind = "Id" /\ ast[Child1].target = 0
  /\ LET t == ScopeLookup(ast[Child1].name)
     IN \/ /\ t = 0
           /\ ast' = [ast EXCEPT ![Child1].target = Bad]
           /\ errors' = TRUE
           /\ todo' = Caller
        \/ /\ t # 0
           /\ ast' = [ast EXCEPT ![Child1].unres = FALSE, ![Child1].target = t,
                                 ![t].used = @ \/ ast[t].kind = "Var"]
           /\ todo' = <<Call(Child1, <<t>>)>> \o Caller
           /\ UNCHANGED errors
  /\ UNCHANGED status /\ Untouched

\* The mark of any other node is cleared after its children were visited.
Leave ==
  /\ Walking /\ Marked = {}
  /\ LET n == Head(todo).n
         typ == IF ast[n].kind = "Id" THEN ast[ast[n].target].typ ELSE ast[n].typ
     IN ast' = [ast EXCEPT ![n].unres = FALSE, ![n].typ = typ]
  /\ todo' = Tail(todo)
  /\ status' = IF Len(todo) > 1 THEN status ELSE IF errors THEN "failed" ELSE "done"
  /\ UNCHANGED errors /\ Untouched

Init == ParseInit
Next == ParseNext \/ ResolveFile \/ Enter \/ LookUp \/ Leave
Spec == Init /\ [][Next]_vars
-----------------------------------------------------------------------------
(* Properties *)

Nodes == 1..Len(ast)

\* Every variable has its type, and the cells in use fit the allocation: defsym
\* and pushScope grow it before they write.
TypeOK ==
  /\ \A n \in Nodes :
       /\ ast[n].kind \in Kinds
       /\ ast[n].target \in 0..Len(ast) /\ ast[n].typ \in 0..Len(ast)
       /\ \A k \in DOMAIN ast[n].kids : ast[n].kids[k] \in Nodes
  /\ Len(scope.ptr) <= scope.cap /\ scope.base <= Len(scope.ptr)
  /\ pkgscope \in [Name -> Nodes \cup {0}]
  /\ val \in Nodes \cup {0} /\ next \in {"semi", "any"} /\ taken \in 0..MaxSource
  /\ status \in {"parse", "resolve", "done", "failed", "panic"}

Innermost(nm) ==
  LET depths == {d \in 1..Len(env) : env[d][nm] # 0}
  IN IF depths = {} THEN 0 ELSE env[Max(depths)][nm]

\* What lookupsym finds in the one array of cells, among bindings of scopes that
\* were pushed and popped and of the package that it remembered there, is the
\* innermost binding of a name.  (leaked: see PackageScope.)
ScopesAgree == ~leaked => \A nm \in Name : lookupsym(scope, nm).n = Innermost(nm)

\* The package's scope has the definitions at the top level of its files, and
\* no others.  Not so when the first scope of a file is pushed before anything is
\* bound: its base is 0, as that of the top level, and defsym gives what the
\* scope binds to the package.
PackageScope == ~leaked => \A nm \in Name : ScopeLookup(nm) = env[1][nm]

\* A variable that scopestackCheckUnused reports is named by nothing, neither
\* then nor later, when the resolver binds what the parser could not.
WarnedIsUnused == ~leaked /\ warned # {} => \A n \in Nodes : ast[n].target \notin warned

Reach(Step(_), n) ==
  LET r[S \in SUBSET Nodes] ==
        LET T == S \cup UNION {Step(m) : m \in S} IN IF T = S THEN S ELSE r[T]
  IN r[{n}]

Owned(n) == (Range(ast[n].kids) \cup {ast[n].typ}) \ {0}

\* The children whose mark the parser gives to their parent, and that the resolver
\* visits: not an element, an argument, what is converted, a branch else, the
\* type of a variable, nor the last expression of a block.
Counted(n) ==
  CASE ast[n].kind \in {"Array", "Tuple", "TypeCast", "Id"} -> {}
    [] ast[n].kind = "If" -> Range(SubSeq(ast[n].kids, 1, 2))
    [] ast[n].kind = "Block" -> Range(Front(ast[n].kids))
    [] ast[n].kind = "Var" -> Range(ast[n].kids)
    [] OTHER -> Owned(n)

Parsed == status \in {"resolve", "done"} /\ todo = <<>>

\* When a file is parsed, no node with an unresolved child is unmarked, but for
\* the children that Counted leaves out: a mark that comes after the child was
\* given to its parent would be lost to the resolver.
MarksCounted ==
  Parsed => \A n \in Reach(Owned, File) : \A c \in Counted(n) : ast[c].unres => ast[n].unres

\* After a resolution without errors nothing that the resolver should have visited
\* is unresolved, although it passes by what is not marked and marks are cleared
\* before, between and after visits.
AllResolved == status = "done" => \A n \in Reach(Counted, File) : ~ast[n].unres

\* "no errors should mean all resolved" (co.c): nothing of the tree is unresolved.
NothingLeft == status = "done" => \A n \in Reach(Owned, File) : ~ast[n].unres

\* A call of resolve_sym for a node leads to another for the same node, and no
\* mark on the way was cleared: the walk goes around for ever.
Endless ==
  status = "resolve" /\
  \E j, k \in DOMAIN todo :
    j < k /\ todo[j].n = todo[k].n /\ \A m \in j..k : ast[todo[m].n].unres

SelfNamed ==
  \E t \in Nodes : ast[t].kind = "Struct" /\
    \E n \in Reach(Owned, t) : ast[n].kind = "Id" /\ ast[n].target = t

\* The resolver never goes around for ever, although definitions may name each
\* other and functions themselves, unless a struct names itself.
OnlySelfNamedEndless == Endless => SelfNamed

\* The parser's fields refer to earlier definitions "to enforce no cycles": the
\* resolver, which follows them, never goes around for ever.
NeverEndless == ~Endless
=============================================================================
