------------------------------- MODULE Parser -------------------------------
(***************************************************************************)
(* The parser of co (co/parse/parse.c): what a source file does to the     *)
(* scopes and to the tree.                                                 *)
(*                                                                         *)
(* The parser is a recursive descent: its call stack is todo, the top      *)
(* first.  An entry says what goes on when the one above it returns, and   *)
(* val is the node that one returned.  The source is chosen as it is read: *)
(* an entry "prefix" or "infix" takes any parselet whose token may come    *)
(* next.  A syntax error panics (DEBUG_PANIC_ON_PARSE_ERROR): sources are  *)
(* well-formed but for what only the scopes find out.                      *)
(*                                                                         *)
(* Left out: positions; types computed from types, and the type context;   *)
(* tuples, macros and named arguments; the sizes of array types.           *)
(* Parselets with the same effect on scopes and flags are one.             *)
(***************************************************************************)
EXTENDS Naturals, Sequences, FiniteSets, ScopeStack

CONSTANTS
  Name,      \* the names a source uses
  Basic,     \* those the universe binds to a primitive type or constant
  NoName,
  Grammar,   \* bound: the parselets sources use, by the names of the actions
  Storage,   \* cells of the scope stack before it first grows (256)
  MaxSource  \* bound: how many parselets a source takes

ASSUME ParserAssumption ==
  /\ Basic \subseteq Name /\ NoName \notin Name
  /\ Storage \in Nat /\ Storage > 1
  /\ MaxSource \in Nat

VARIABLES
  ast,       \* the nodes; 0 is NULL
  scope,     \* p->scopestack
  pkgscope,  \* the package's scope: name -> node
  todo,      \* the call stack: what waits for a parselet to return, innermost first
  val,       \* the node returned last
  taken,     \* the parselets taken so far (at most MaxSource)
  next,      \* what is known of the next token: "semi" (or else, after a block) or "any"
  status,    \* "parse", "resolve", "done", "failed" or "panic"
  errors,    \* build->errcount > 0
  env,       \* history: what is bound, as the open scopes, innermost last
  leaked,    \* history: a scope was pushed on the empty stack
  warned     \* history: variables reported as unused

history == <<env, leaked, warned>>
vars == <<ast, scope, pkgscope, todo, val, taken, next, status, errors, history>>
-----------------------------------------------------------------------------
(* Nodes *)

Kinds == {"Prim", "Lit", "File", "Bad", "Id", "Var", "Fun", "Struct", "Field", "Block", "Array",
          "Tuple", "If", "Call", "TypeCast", "BinOp", "Unary", "Ref", "RefType", "Index", "Assign",
          "Return"}

\* kids are the children a node owns, typ its type, target what an identifier
\* names or an assignment sets.
mknode(kind) == [kind |-> kind, name |-> NoName, target |-> 0, typ |-> 0, kids |-> <<>>,
                 unres |-> FALSE, const |-> FALSE, isconst |-> FALSE, used |-> FALSE]

named(kind, name) == [mknode(kind) EXCEPT !.name = name]

\* A value of the universe (NodeIsPrimitiveConst), a literal without a type, the
\* file, and what an undefined symbol gets.
Prim == 1
Lit == 2
File == 3
Bad == 4

\* The child c becomes a child of n in the tree a, with its flag or without.
Adopt(a, n, c) == [a EXCEPT ![n].kids = Append(@, c)]
NodeTransferUnresolved(a, n, c) == [a EXCEPT ![n].unres = @ \/ a[c].unres]
AdoptFlagged(a, n, c) == NodeTransferUnresolved(Adopt(a, n, c), n, c)

isKind(a, n, kind) == n # 0 /\ a[n].kind = kind
-----------------------------------------------------------------------------
(* Names.  A result is the tree and the stack after a call and its node.   *)

Result(a, s, n) == [a |-> a, s |-> s, n |-> n]

\* The scope around that of the package: the universe.
GlobalScope == [key \in Name |-> IF key \in Basic THEN Prim ELSE 0]

ScopeLookup(key) == IF pkgscope[key] = 0 THEN GlobalScope[key] ELSE pkgscope[key]

lookupsym(s, key) ==
  LET local == lookupsymDeep(s, key)
      global == ScopeLookup(key)
  IN IF local # 0 THEN [n |-> local, s |-> s]
     ELSE [n |-> global, s |-> IF global = 0 THEN s ELSE remember(s, key, global)]

\* From a constant variable to its initializer, as long as there is one.
Unwind(a, n) ==
  LET u[i \in Nat] == IF a[i].kind = "Var" /\ a[i].const /\ a[i].kids # <<>>
                        THEN u[a[i].kids[1]] ELSE i
  IN u[n]

simplify_id(a, s, id, rvalue) ==
  LET t == IF rvalue THEN Unwind(a, a[id].target) ELSE a[id].target
  IN Result(a, s, IF a[t].kind = "Prim" THEN Prim ELSE id)

givesMarkAny(a, t) == a[t].unres   \* mutant of givesMark

\* Not a function: a call of itself would lead the resolver around in circles.
givesMark(a, t) == a[t].kind # "Fun" /\ a[t].unres

resolve_id(a, s, id, rvalue) ==
  LET found == lookupsym(s, a[id].name)
      t == found.n
      bound == [a EXCEPT ![id].target = t, ![id].typ = a[t].typ,
                         ![id].unres = @ \/ givesMark(a, t),
                         ![t].used = @ \/ a[t].kind = "Var"]
  IN IF t = 0 THEN Result([a EXCEPT ![id].unres = TRUE], s, id)
     ELSE simplify_id(bound, found.s, id, rvalue)

useAsRValue(a, s, e) ==
  IF a[e].kind # "Id" THEN Result(a, s, e)
  ELSE IF a[e].target # 0 THEN simplify_id(a, s, e, TRUE)
  ELSE resolve_id(a, s, e, TRUE)

\* An identifier that was replaced by its value is garbage.
Drop(r, id) == IF r.n # id /\ id = Len(r.a) THEN [r EXCEPT !.a = SubSeq(@, 1, id - 1)] ELSE r
-----------------------------------------------------------------------------
(* The call stack.  flags: "stmt" no PFlagRValue; "rvalue"; "operand" an   *)
(* rvalue that ends before an assignment or a binary operator; "type".     *)

Frame(op, n, flags, name) == [op |-> op, n |-> n, flags |-> flags, name |-> name]
On(op, n) == <<Frame(op, n, "", NoName)>>
prefixExpr(flags) == <<Frame("prefix", 0, flags, NoName)>>
infixExpr(flags) == <<Frame("infix", 0, flags, NoName)>>
expr(flags) == IF flags = "type" THEN prefixExpr(flags) ELSE prefixExpr(flags) \o infixExpr(flags)

\* Where an infix parselet may come the expression may also end: parentheses
\* (PGroup) let it end anywhere.
Ended == IF Head(todo).op = "infix" THEN Tail(todo) ELSE todo
Top == Head(Ended)
At(op) == status = "parse" /\ Top.op = op
Take == taken' = taken + 1
Resume(op) == At(op) /\ UNCHANGED taken
Prefix(parselet, flagss) ==
  parselet \in Grammar /\ At("prefix") /\ Top.flags \in flagss /\ Take
Infix(parselet, flagss) ==
  /\ parselet \in Grammar /\ status = "parse" /\ Head(todo).op = "infix"
  /\ Head(todo).flags \in flagss /\ next # "semi" /\ Take
New == Len(ast) + 1

\* The source that was taken and that is still expected is short enough.
Fits == taken' + Cardinality({i \in DOMAIN todo' : todo'[i].op = "prefix"}) <= MaxSource

\* The entry at the top is replaced by ks, with the result r.
Put(r, stack) == ast' = r.a /\ scope' = r.s /\ val' = r.n /\ todo' = stack /\ Fits
Go(r, ks) == Put(r, ks \o Tail(Ended))
Loop(r, ks) == Put(r, ks \o todo)   \* infixExpr goes on to the next infix parselet
Then(a, ks) == Go(Result(a, scope, val), ks)
Return(a, n) == Go(Result(a, scope, n), <<>>)

Consumed == next' = "any"
Quiet == UNCHANGED <<pkgscope, status, errors, history>>

\* mutant of Defined
DefinedAnywhere(s, name, n) ==
  pkgscope' = [pkgscope EXCEPT ![name] = n] /\ env' = [env EXCEPT ![Len(env)][name] = n]

\* defsym beside the stack: at the bottom, also a definition of the package.
Defined(s, name, n) ==
  /\ pkgscope' = IF s.base = 0 THEN [pkgscope EXCEPT ![name] = n] ELSE pkgscope
  /\ env' = [env EXCEPT ![Len(env)][name] = n]

ScopePushed(s) == env' = Append(env, [nm \in Name |-> 0]) /\ leaked' = (leaked \/ s.ptr = <<>>)

unusedVarsAll(a, s) == {n \in bindings(s) : a[n].kind = "Var"}   \* mutant of unusedVars

\* scopestackCheckUnused: nothing refers to them.
unusedVars(a, s) == {n \in bindings(s) : a[n].kind = "Var" /\ ~a[n].used}

popScopeAndCheckUnused(a, n) ==
  /\ Go(Result(a, popScope(scope), n), <<>>)
  /\ warned' = warned \cup unusedVars(a, scope)
  /\ env' = SubSeq(env, 1, Len(env) - 1)
  /\ UNCHANGED <<next, pkgscope, status, errors, leaked>>

set_var_init(a, s, n, init) ==
  LET r == useAsRValue(a, s, init)
      typ == IF a[n].typ = 0 THEN r.a[r.n].typ ELSE a[n].typ
  IN [r EXCEPT !.a = [AdoptFlagged(r.a, n, r.n) EXCEPT ![n].typ = typ], !.n = n]

make_var(name, init, typ, isconst) ==
  LET v == [named("Var", name) EXCEPT !.const = TRUE, !.typ = typ, !.isconst = isconst]
      a == Append(ast, v)
      r == IF init = 0 THEN Result(a, scope, New) ELSE set_var_init(a, scope, New, init)
  IN /\ Go([r EXCEPT !.s = define(r.s, name, New)], <<>>)
     /\ Defined(r.s, name, New)
     /\ UNCHANGED <<next, status, errors, leaked, warned>>
-----------------------------------------------------------------------------
(* Prefix parselets *)

rvalues == {"rvalue", "operand"}
anywhere == {"stmt"} \cup rvalues

\* PIntLit and PAuto: the node is shared.  (Nil is like a name of Basic.)
PLiteral ==
  /\ Prefix("PLiteral", anywhere \cup {"type"})
  /\ Return(ast, IF Top.flags = "type" THEN Prim ELSE Lit)
  /\ Consumed /\ Quiet

\* As a statement the identifier may turn out to be defined: it is looked up
\* now only if a semicolon follows.
PId ==
  /\ Prefix("PId", anywhere \cup {"type"})
  /\ \E name \in Name :
       LET a == Append(ast, named("Id", name))
       IN \/ /\ Top.flags # "stmt" /\ Consumed
             /\ Go(Drop(resolve_id(a, scope, New, TRUE), New), <<>>)
          \/ /\ Top.flags = "stmt" /\ next' = "semi"
             /\ Go(Drop(resolve_id(a, scope, New, TRUE), New), <<>>)
          \/ /\ Top.flags = "stmt" /\ Consumed
             /\ Return(a, New)
  /\ Quiet

PVarOrConst ==
  /\ Prefix("PVarOrConst", {"stmt"})
  /\ \E name \in Name, keyword \in {"var", "const"} :
       \/ Then(ast, expr("type") \o <<Frame("vartype", 0, keyword, name)>>)
       \/ Then(ast, expr("rvalue") \o <<Frame("mkvar", 0, keyword, name)>>)
  /\ Consumed /\ Quiet

\* A node with one child, which follows.
Opens(kind, flagss, operand) ==
  /\ Prefix(kind, flagss)
  /\ Then(Append(ast, mknode(kind)), expr(operand) \o On("child", New))
  /\ Consumed /\ Quiet

\* Unary operators, and "&" of a value.
PPrefixOp ==
  \E how \in {<<"Unary", "operand">>, <<"Ref", "rvalue">>} : Opens(how[1], anywhere, how[2])

\* "&" of a type; "[T]" does the same.
pRefType == Opens("RefType", {"type"}, "type")

\* Only in the body of a function.
PReturn ==
  /\ Opens("Return", anywhere, "rvalue")
  /\ \E i \in 1..Len(todo) : todo[i].op = "fun"

pArrayLit ==
  /\ Prefix("pArrayLit", anywhere)
  /\ LET a == Append(ast, mknode("Array"))
     IN Return(a, New) \/ Then(a, expr("rvalue") \o On("list", New))
  /\ Consumed /\ Quiet

PBlock ==
  /\ Prefix("PBlock", anywhere)
  /\ Go(Result(Append(ast, mknode("Block")), pushScope(scope), val),
        expr("stmt") \o On("block", New) \o On("endblock", 0))
  /\ ScopePushed(scope) /\ Consumed
  /\ UNCHANGED <<pkgscope, status, errors, warned>>

PIf ==
  /\ Prefix("PIf", anywhere)
  /\ Then(Append(ast, mknode("If")),
          expr("rvalue") \o <<Frame("then", New, Top.flags, NoName)>>)
  /\ Consumed /\ Quiet

\* A function or a struct is bound, if it has a name, before its scope is pushed.
BindAndOpen(node, ks) ==
  LET s == IF node.name = NoName THEN scope ELSE define(scope, node.name, New)
      bound(scopes, i) == IF node.name = NoName THEN scopes
                          ELSE [scopes EXCEPT ![i][node.name] = New]
  IN /\ Go(Result(Append(ast, node), pushScope(s), val), ks)
     /\ env' = Append(bound(env, Len(env)), [nm \in Name |-> 0])
     /\ pkgscope' = IF s.base = 0 THEN bound(<<pkgscope>>, 1)[1] ELSE pkgscope
     /\ leaked' = (leaked \/ s.ptr = <<>>)
     /\ Consumed /\ UNCHANGED <<status, errors, warned>>

PFun ==
  /\ Prefix("PFun", anywhere)
  /\ \E name \in Name \cup {NoName} :
       /\ name = NoName => Top.flags # "stmt"
       /\ \/ BindAndOpen(named("Fun", name), On("signature", New))
          \/ \E param \in Name \cup {NoName} :
               BindAndOpen(named("Fun", name),
                           expr("type") \o <<Frame("param", New, "", param)>>
                                        \o On("signature", New))

PStructType ==
  /\ Prefix("PStructType", anywhere \cup {"type"})
  /\ \E name \in Name \cup {NoName} :
       /\ name = NoName => Top.flags # "stmt"
       /\ BindAndOpen(named("Struct", name), On("struct", New))

\* So is the name of a type, to a constant whose initializer is the type.
PTypeDef ==
  /\ Prefix("PTypeDef", {"stmt"})
  /\ \E name \in Name :
       LET v == [named("Var", name) EXCEPT !.const = TRUE, !.isconst = TRUE]
       IN /\ Go(Result(Append(ast, v), define(scope, name, New), val),
                expr("type") \o On("child", New))
          /\ Defined(scope, name, New)
  /\ Consumed /\ UNCHANGED <<status, errors, leaked, warned>>
-----------------------------------------------------------------------------
(* Infix parselets *)

\* "x T" and "x T = init" define x.
PIdTrailing ==
  /\ Infix("PIdTrailing", {"stmt"})
  /\ ast[val].kind = "Id"
  /\ \E name \in Name, k \in {"mkvar", "declare"} :
       LET r == Drop(resolve_id(Append(ast, named("Id", name)), scope, New, FALSE), New)
           rest == Frame(k, r.n, "var", ast[val].name)
       IN Loop([r EXCEPT !.n = val], IF k = "mkvar" THEN expr("rvalue") \o <<rest>> ELSE <<rest>>)
  /\ Consumed /\ Quiet

\* To a variable that is bound: an assignment.  Otherwise a definition.  What the
\* name of a primitive denotes is no identifier (assertion).
pAssignToId ==
  /\ Infix("pAssignToId", {"stmt", "rvalue"})
  /\ ast[val].kind = "Id"
  /\ LET r == IF ast[val].target = 0 THEN resolve_id(ast, scope, val, FALSE) ELSE Result(ast, scope, val)
         t == r.a[r.n].target
         assign == [mknode("Assign") EXCEPT !.target = t]
     IN \/ /\ r.a[r.n].kind = "Prim"
           /\ status' = "panic"
           /\ UNCHANGED <<ast, scope, val, todo, next, pkgscope, errors, history>>
           /\ Fits
        \/ /\ r.a[r.n].kind = "Id" /\ isKind(r.a, t, "Var")
           /\ Loop([r EXCEPT !.a = Append([@ EXCEPT ![t].const = FALSE, ![t].used = TRUE], assign)],
                 expr("rvalue") \o On("child", New))
           /\ errors' = (errors \/ r.a[t].isconst)
           /\ Consumed /\ UNCHANGED <<pkgscope, status, history>>
        \/ /\ r.a[r.n].kind = "Id" /\ ~isKind(r.a, t, "Var")
           /\ Loop(r, expr("rvalue") \o <<Frame("mkvar", 0, "var", ast[val].name)>>)
           /\ Consumed /\ Quiet

\* A new node whose first child is the value used so far.
OnLeft(kind) ==
  LET r == useAsRValue(Append(ast, mknode(kind)), scope, val)
  IN [r EXCEPT !.a = AdoptFlagged(r.a, New, r.n), !.n = New]

\* Binary operators, subscripts, and the assignment to one.
PInfixOp ==
  /\ \E how \in {<<"BinOp", {"stmt", "rvalue"}, "operand">>, <<"Index", anywhere, "rvalue">>,
                  <<"Assign", {"stmt", "rvalue"}, "rvalue">>} :
       /\ Infix(how[1], how[2])
       /\ how[1] = "Assign" => ast[val].kind = "Index"
       /\ Loop(OnLeft(how[1]), expr(how[3]) \o On("child", New))
  /\ Consumed /\ Quiet

\* "++" and ".member": no more children.
PPostfixOp ==
  /\ Infix("PPostfixOp", anywhere)
  /\ Loop(OnLeft("Unary"), <<>>)
  /\ Consumed /\ Quiet

\* The flags of the arguments stay with them.  A primitive type converts.
PCall ==
  /\ Infix("PCall", anywhere)
  /\ LET r == OnLeft("Call")
         receiver == r.a[New].kids[1]
         args == Append(r.a, mknode("Tuple"))
     IN \/ Loop(r, <<>>)
        \/ /\ receiver = Prim
           /\ Loop([r EXCEPT !.a[New].kind = "TypeCast"], expr("rvalue") \o On("convert", New))
        \/ /\ receiver # Prim
           /\ Loop([r EXCEPT !.a = args], expr("rvalue") \o On("list", New + 1) \o On("child", New))
  /\ Consumed /\ Quiet

PAs ==
  /\ Infix("PAs", {"stmt", "rvalue"})
  /\ Loop(Result(Adopt(Append(ast, mknode("TypeCast")), New, val), scope, val), expr("type") \o On("as", New))
  /\ Consumed /\ Quiet
-----------------------------------------------------------------------------
(* What a parselet does when the expression it waits for is there *)

\* The node takes its last child and is returned.
Child ==
  /\ Resume("child")
  /\ LET n == Top.n
         a == AdoptFlagged(ast, n, val)
         t == ast[val].target
     IN Return(IF a[n].kind = "Ref" /\ isKind(a, t, "Var") /\ ~a[t].isconst
                 THEN [a EXCEPT ![t].const = FALSE] ELSE a, n)
  /\ UNCHANGED next /\ Quiet

As ==
  /\ Resume("as")
  /\ Return([ast EXCEPT ![Top.n].kids = <<val>> \o @], Top.n)
  /\ UNCHANGED next /\ Quiet

\* A conversion to the type that the argument has is the argument.
Convert ==
  /\ Resume("convert")
  /\ Return(Adopt(ast, Top.n, val), IF ast[val].typ = Prim THEN val ELSE Top.n)
  /\ UNCHANGED next /\ Quiet

List ==
  /\ Resume("list")
  /\ LET a == Adopt(ast, Top.n, val)
     IN \/ /\ Return(a, Top.n) /\ Consumed
        \/ Then(a, expr("rvalue") \o <<Top>>) /\ Consumed
  /\ Quiet

ThenBranch ==
  /\ Resume("then")
  /\ \/ /\ ast[Top.n].kids = <<>>
        /\ Then(Adopt(ast, Top.n, val), expr("rvalue") \o <<Top>>)
        /\ Consumed
     \/ /\ ast[Top.n].kids # <<>>
        /\ LET a == NodeTransferUnresolved(AdoptFlagged(ast, Top.n, val), Top.n, ast[Top.n].kids[1])
           IN \/ Return(a, Top.n) /\ UNCHANGED next
              \/ Then(a, expr(Top.flags) \o On("child", Top.n)) /\ Consumed
  /\ Quiet

VarType ==
  /\ Resume("vartype")
  /\ \/ /\ next # "semi"
        /\ Then(ast, expr("rvalue") \o <<[Top EXCEPT !.op = "mkvar", !.n = val]>>)
     \/ /\ Top.flags = "var"
        /\ Then(ast, <<[Top EXCEPT !.op = "declare", !.n = val]>>)
  /\ UNCHANGED next /\ Quiet

MakeVar ==
  /\ \/ Resume("mkvar") /\ make_var(Top.name, val, Top.n, Top.flags = "const")
     \/ Resume("declare") /\ make_var(Top.name, 0, Top.n, FALSE)

\* The last expression of a block is used by the block's value, and looked up
\* only then.  A block of one expression is that expression.
BlockMember ==
  /\ Resume("block")
  /\ LET a == AdoptFlagged(ast, Top.n, val)
         count == Len(a[Top.n].kids)
         r == useAsRValue([a EXCEPT ![val].used = @ \/ a[val].kind = "Var"], scope, val)
     IN \/ Then(a, expr("stmt") \o <<Top>>) /\ Consumed
        \/ /\ Go([r EXCEPT !.a[Top.n].kids[count] = r.n, !.n = IF count = 1 THEN r.n ELSE Top.n], <<>>)
           /\ next' = "semi"
  /\ Quiet

EndBlock == Resume("endblock") /\ popScopeAndCheckUnused(ast, val)

\* A parameter is bound after its type is read; one without a name is not.
Param ==
  /\ Resume("param")
  /\ LET v == [named("Var", Top.name) EXCEPT !.const = TRUE, !.typ = val, !.unres = ast[val].unres]
         a == AdoptFlagged(Append(ast, v), Top.n, New)
     IN \/ /\ Top.name = NoName
           /\ Then(a, <<>>) /\ UNCHANGED <<pkgscope, env>>
        \/ /\ Top.name # NoName
           /\ Go(Result(a, define(scope, Top.name, New), val), <<>>)
           /\ Defined(scope, Top.name, New)
  /\ Consumed /\ UNCHANGED <<status, errors, leaked, warned>>

Signature ==
  /\ Resume("signature")
  /\ \/ Then(ast, On("body", Top.n))
     \/ next # "semi" /\ Then(ast, expr("type") \o On("child", Top.n) \o On("body", Top.n))
  /\ Consumed /\ Quiet

\* A function without a body is only declared (which counts twice for MaxSource).
FunBody ==
  /\ At("body")
  /\ \/ /\ next # "semi" /\ UNCHANGED taken
        /\ Then(ast, expr("rvalue") \o On("fun", Top.n))
        /\ Consumed /\ Quiet
     \/ /\ next # "semi" /\ UNCHANGED taken
        /\ Then(Append(ast, mknode("Block")), expr("stmt") \o On("block", New) \o On("fun", Top.n))
        /\ Consumed /\ Quiet
     \/ /\ Take
        /\ Go(Result(ast, popScope(scope), Top.n), <<>>)
        /\ env' = SubSeq(env, 1, Len(env) - 1)
        /\ next' = "semi"
        /\ UNCHANGED <<pkgscope, status, errors, leaked, warned>>

EndFun == Resume("fun") /\ popScopeAndCheckUnused(AdoptFlagged(ast, Top.n, val), Top.n)

\* A field with its type, or one that is named as the type it embeds.
Field ==
  /\ At("struct")
  /\ Take
  /\ \E name \in Name :
       LET a == Append(ast, named("Field", name))
           field == <<Frame("field", New, "", name)>>
           r == resolve_id(Append(a, named("Id", name)), scope, New + 1, FALSE)
       IN \/ Then(a, expr("type") \o field \o <<Top>>)
          \/ Go(r, field \o <<Top>>)
  /\ Consumed /\ Quiet

\* What the message says is left out.
syntaxerrp ==
  /\ status' = "panic"
  /\ UNCHANGED <<ast, scope, val, todo, next, pkgscope, errors, history>>

Duplicate == lookupsymShallow(scope, Top.name) # 0

FieldDefined ==
  /\ Resume("field")
  /\ \/ Duplicate /\ syntaxerrp
     \/ /\ ~Duplicate
        /\ LET a == [ast EXCEPT ![Top.n].typ = val]
               ks == On("fieldend", Top.n)
           IN \E init \in {<<>>, expr("rvalue") \o On("child", Top.n)} :
                Go(Result(a, define(scope, Top.name, Top.n), val), init \o ks)
        /\ Defined(scope, Top.name, Top.n)
        /\ Consumed /\ UNCHANGED <<status, errors, leaked, warned>>

\* mutant of FieldEnd
FieldEndUntyped ==
  /\ Resume("fieldend")
  /\ Then(AdoptFlagged(ast, Tail(Ended)[1].n, Top.n), <<>>)
  /\ Consumed /\ Quiet

\* What follows the initializer, if there is one.
FieldEnd ==
  /\ Resume("fieldend")
  /\ LET struct == Tail(Ended)[1].n
         a == NodeTransferUnresolved(ast, Top.n, ast[Top.n].typ)
     IN Then(AdoptFlagged(a, struct, Top.n), <<>>)
  /\ Consumed /\ Quiet

EndStruct ==
  /\ Resume("struct")
  /\ Go(Result(ast, popScope(scope), Top.n), <<>>)
  /\ env' = SubSeq(env, 1, Len(env) - 1)
  /\ next' = "semi"
  /\ UNCHANGED <<pkgscope, status, errors, leaked, warned>>

FileMember ==
  /\ Resume("file")
  /\ LET a == AdoptFlagged(ast, File, val)
     IN \/ /\ Then(a, expr("stmt") \o <<Top>>)
           /\ Consumed /\ Quiet
        \/ /\ Then(a, <<>>)
           /\ status' = IF errors THEN "failed" ELSE IF a[File].unres THEN "resolve" ELSE "done"
           /\ UNCHANGED <<next, pkgscope, errors, history>>
-----------------------------------------------------------------------------
\* The nodes that are there before, and the variable of an earlier file.
Prelude == <<mknode("Prim"), mknode("Lit"), mknode("File"), mknode("Bad"),
             [mknode("Var") EXCEPT !.const = TRUE, !.kids = <<Lit>>]>>

\* An earlier file of the package may have defined a name.
ParseInit ==
  /\ ast = Prelude
  /\ pkgscope \in {[nm \in Name |-> 0]} \cup
       {[[nm \in Name |-> 0] EXCEPT ![name] = Len(Prelude)] : name \in Name \ Basic}
  /\ scope = EmptyStack(Storage)
  /\ todo = expr("stmt") \o On("file", 0)
  /\ val = 0 /\ taken = 0 /\ next = "any" /\ status = "parse" /\ errors = FALSE
  /\ env = <<[nm \in Name |-> ScopeLookup(nm)]>>
  /\ leaked = FALSE /\ warned = {}

ParseNext ==
  \/ PLiteral \/ PId \/ PVarOrConst \/ PPrefixOp \/ pRefType \/ PReturn
  \/ pArrayLit \/ PBlock \/ PIf \/ PFun
  \/ PStructType \/ PTypeDef
  \/ PIdTrailing \/ pAssignToId \/ PInfixOp \/ PPostfixOp \/ PCall \/ PAs
  \/ Child \/ As \/ Convert \/ List \/ ThenBranch \/ VarType \/ MakeVar \/ BlockMember \/ EndBlock
  \/ Param \/ Signature \/ FunBody \/ EndFun \/ Field \/ FieldDefined \/ FieldEnd \/ EndStruct
  \/ FileMember
=============================================================================
