--------------------------- MODULE SymPoolProofs ---------------------------
(***************************************************************************)
(* For any number of threads, pools, names and symbols: names are unique in *)
(* a pool, a symbol that was returned stays, and a name that was returned   *)
(* is found again.                                                          *)
(*                                                                         *)
(* View(t) is what thread t may rely on where it is, Shared what holds of   *)
(* the pools.  Guarantee(t) bounds what a step of t does to the others.     *)
(***************************************************************************)
EXTENDS SymPool, TLAPS

-----------------------------------------------------------------------------
(* The inductive invariant                                                  *)

\* r is p or a base of p: it is in every set that has p and is closed.
InChain(r, p) ==
  \A S \in SUBSET Pool :
    p \in S /\ (\A s \in S : Base[s] # NULL => Base[s] \in S) => r \in S

\* t has allocated a symbol that no pool has.
Private(t) == \/ pc[t] \in {"lock", "insert", "relink", "free"}
              \/ pc[t] = "unlock" /\ sym[t] # mine[t]

\* t has found, or added, a symbol.
Holds(t) == \/ pc[t] = "runlock" /\ sym[t] # NULL
            \/ pc[t] = "relink" /\ sym[t] # NULL
            \/ pc[t] \in {"unlock", "free"}

\* A pool of the chain from p has name n, and is not one of P.
Known(p, n, P) ==
  \E r \in Pool \ P : InChain(r, p) /\ \E q \in tree[r] : header[q] = n

ArgsView(t) ==
  /\ pc[t] # "idle" =>
       /\ pool[t] \in Pool /\ name[t] \in Name /\ at[t] \in Pool
       /\ InChain(at[t], pool[t])
  /\ pc[t] \notin {"idle", "rlock", "lookup", "runlock"} => at[t] = pool[t]

LockView(t) ==
  /\ pc[t] \in {"lookup", "runlock"} => t \in readers[at[t]]
  /\ pc[t] \in {"insert", "relink", "unlock"} => writer[at[t]] = t

SymbolView(t) ==
  /\ Private(t) => /\ mine[t] \in Ptr
                   /\ header[mine[t]] = name[t]
                   /\ \A p \in Pool : mine[t] \notin tree[p]
  /\ Holds(t) => /\ sym[t] \in tree[at[t]]
                 /\ header[sym[t]] = name[t]

SearchView(t) ==
  /\ pc[t] = "relink" /\ sym[t] = NULL => Named(at[t], name[t]) = {}
  /\ pc[t] \in {"rlock", "lookup"} /\ due[t] => Known(at[t], name[t], {})
  /\ pc[t] = "runlock" /\ sym[t] = NULL /\ due[t] => Known(at[t], name[t], {at[t]})

View(t) == ArgsView(t) /\ LockView(t) /\ SymbolView(t) /\ SearchView(t)

\* Two threads never hold the same new symbol.
Apart == \A t, u \in Thread : t # u /\ Private(t) /\ Private(u) => mine[t] # mine[u]

\* A tree is torn only while its writer relinks it.
TornByWriter ==
  \A p \in torn : /\ writer[p] \in Thread
                  /\ pc[writer[p]] = "relink" /\ at[writer[p]] = p

Allocated == \A p \in Pool : \A q \in tree[p] : header[q] # NULL

\* What was returned is in the chain of the pool it was asked of.
Given == \A g \in given : /\ header[g[3]] = g[2]
                          /\ \E r \in Pool : InChain(r, g[1]) /\ g[3] \in tree[r]

Shared == TornByWriter /\ Allocated /\ Unique /\ Given

IInv == TypeOK /\ Shared /\ Apart /\ \A t \in Thread : View(t)
-----------------------------------------------------------------------------
(* What a step of t does to the other threads                               *)

Guarantee(t) ==
  /\ \A u \in Thread \ {t} :
       /\ pc'[u] = pc[u] /\ pool'[u] = pool[u] /\ name'[u] = name[u] /\ at'[u] = at[u]
       /\ sym'[u] = sym[u] /\ mine'[u] = mine[u] /\ due'[u] = due[u]
       /\ \A p \in Pool : (u \in readers[p] => u \in readers'[p])
       /\ \A p \in Pool : (writer[p] = u => writer'[p] = u)
  /\ \A p \in Pool : tree[p] \subseteq tree'[p]
  /\ \A p \in Pool : \A q \in tree'[p] \ tree[p] : writer[p] = t /\ Private(t) /\ q = mine[t]
  /\ \A q \in Ptr : header[q] # NULL /\ header'[q] # header[q] => Private(t) /\ q = mine[t]

\* Symbols in a tree stay there and keep their names.
LEMMA TreeKept ==
  ASSUME IInv, NEW t \in Thread, Guarantee(t), NEW p \in Pool, NEW q \in tree[p]
  PROVE  q \in tree'[p] /\ q \in Ptr /\ header'[q] = header[q]
<1>1. q \in Ptr /\ header[q] # NULL
  BY DEF IInv, TypeOK, Shared, Allocated
<1>2. ~ (Private(t) /\ q = mine[t])
  BY DEF IInv, View, SymbolView
<1>3. QED
  BY <1>1, <1>2 DEF Guarantee

\* A name that is known stays known.
LEMMA KnownKept ==
  ASSUME IInv, NEW t \in Thread, Guarantee(t),
         NEW p \in Pool, NEW n \in Name, NEW P, Known(p, n, P)
  PROVE  \E r \in Pool \ P : InChain(r, p) /\ \E q \in tree'[r] : header'[q] = n
<1>1. PICK r \in Pool \ P : InChain(r, p) /\ \E q \in tree[r] : header[q] = n
  BY DEF Known
<1>2. PICK q \in tree[r] : header[q] = n
  BY <1>1
<1>3. q \in tree'[r] /\ header'[q] = n
  BY <1>1, <1>2, TreeKept
<1>4. QED
  BY <1>1, <1>3

\* A step of t leaves the view of every other thread u intact.
LEMMA Others ==
  ASSUME IInv, NEW t \in Thread, Guarantee(t), NEW u \in Thread \ {t}
  PROVE  View(u)'
<1>0. View(u) /\ TypeOK
  BY DEF IInv
<1>1. ArgsView(u)'
  BY <1>0 DEF Guarantee, View, ArgsView, InChain
<1>2. LockView(u)'
  BY <1>0 DEF Guarantee, View, LockView, ArgsView
<1>3. SymbolView(u)'
  <2>1. Private(u)' <=> Private(u)
    BY DEF Guarantee, Private
  <2>2. Holds(u)' <=> Holds(u)
    BY DEF Guarantee, Holds
  <2>3. ASSUME Private(u)
        PROVE  header'[mine[u]] = name[u] /\ \A p \in Pool : mine[u] \notin tree'[p]
    <3>1. mine[u] \in Ptr /\ header[mine[u]] = name[u] /\ name[u] \in Name
      BY <1>0, <2>3 DEF View, SymbolView, ArgsView, Private
    <3>2. ~ (Private(t) /\ mine[u] = mine[t])
      BY <2>3 DEF IInv, Apart
    <3>3. header[mine[u]] # NULL
      BY <3>1, SymPoolAssumption
    <3>4. QED
      BY <1>0, <2>3, <3>1, <3>2, <3>3 DEF Guarantee, View, SymbolView
  <2>4. ASSUME Holds(u)
        PROVE  sym[u] \in tree'[at[u]] /\ header'[sym[u]] = name[u]
    <3>1. at[u] \in Pool
      BY <1>0, <2>4 DEF View, ArgsView, Holds
    <3>2. QED
      BY <1>0, <2>4, <3>1, TreeKept DEF View, SymbolView
  <2>5. QED
    BY <1>0, <2>1, <2>2, <2>3, <2>4 DEF Guarantee, View, SymbolView
<1>4. SearchView(u)'
  <2>1. ASSUME pc[u] = "relink", sym[u] = NULL
        PROVE  Named(at[u], name[u])' = {}
    <3>1. at[u] \in Pool /\ writer[at[u]] = u /\ Named(at[u], name[u]) = {}
      BY <1>0, <2>1 DEF View, ArgsView, LockView, SearchView
    <3>2. ASSUME NEW q \in tree'[at[u]]
          PROVE  q \in tree[at[u]]
      BY <3>1 DEF Guarantee
    <3>3. \A q \in tree'[at[u]] : header'[q] # name[u]
      BY <3>1, <3>2, TreeKept DEF Named
    <3>4. at'[u] = at[u] /\ name'[u] = name[u]
      BY DEF Guarantee
    <3>5. QED
      BY <3>3, <3>4 DEF Named
  <2>2. ASSUME pc[u] \in {"rlock", "lookup"}, due[u]
        PROVE  Known(at[u], name[u], {})'
    <3>1. at[u] \in Pool /\ name[u] \in Name /\ Known(at[u], name[u], {})
      BY <1>0, <2>2 DEF View, ArgsView, SearchView
    <3>2. at'[u] = at[u] /\ name'[u] = name[u]
      BY DEF Guarantee
    <3>3. \E r \in Pool \ {} : InChain(r, at[u]) /\ \E q \in tree'[r] : header'[q] = name[u]
      BY <3>1, KnownKept
    <3>4. QED
      BY <3>2, <3>3 DEF Known
  <2>3. ASSUME pc[u] = "runlock", sym[u] = NULL, due[u]
        PROVE  Known(at[u], name[u], {at[u]})'
    <3>1. at[u] \in Pool /\ name[u] \in Name /\ Known(at[u], name[u], {at[u]})
      BY <1>0, <2>3 DEF View, ArgsView, SearchView
    <3>2. at'[u] = at[u] /\ name'[u] = name[u]
      BY DEF Guarantee
    <3>3. \E r \in Pool \ {at[u]} : InChain(r, at[u]) /\ \E q \in tree'[r] : header'[q] = name[u]
      BY <3>1, KnownKept
    <3>4. QED
      BY <3>2, <3>3 DEF Known
  <2>4. QED
    BY <2>1, <2>2, <2>3 DEF Guarantee, SearchView
<1>5. QED
  BY <1>1, <1>2, <1>3, <1>4 DEF View
\* ... and as long as it returns nothing and adds nothing, it leaves the pools.
LEMMA PoolsKept ==
  ASSUME IInv, NEW t \in Thread, Guarantee(t), UNCHANGED <<tree, given>>
  PROVE  Allocated' /\ Unique' /\ Given'
<1>1. \A p \in Pool : \A q \in tree[p] : q \in Ptr /\ header'[q] = header[q]
  BY TreeKept
<1>2. Allocated' /\ Unique'
  BY <1>1 DEF IInv, Shared, Allocated, Unique
<1>3. ASSUME NEW g \in given
      PROVE  header'[g[3]] = g[2] /\ \E r \in Pool : InChain(r, g[1]) /\ g[3] \in tree'[r]
  BY <1>1 DEF IInv, Shared, Given
<1>4. QED
  BY <1>2, <1>3 DEF Given, InChain

\* ... and no other thread's tree becomes torn.
LEMMA TornKept ==
  ASSUME IInv, NEW t \in Thread, Guarantee(t), UNCHANGED torn, pc[t] # "relink"
  PROVE  TornByWriter'
<1>1. ASSUME NEW p \in torn
      PROVE  /\ writer'[p] \in Thread
             /\ pc'[writer'[p]] = "relink" /\ at'[writer'[p]] = p
  <2>1. p \in Pool /\ writer[p] \in Thread \ {t} /\ pc[writer[p]] = "relink" /\ at[writer[p]] = p
    BY DEF IInv, TypeOK, Shared, TornByWriter
  <2>2. writer'[p] = writer[p]
    BY <2>1 DEF Guarantee
  <2>3. QED
    BY <2>1, <2>2 DEF Guarantee
<1>2. QED
  BY <1>1 DEF TornByWriter

\* ... and if it takes no new symbol, symbols stay apart.
LEMMA ApartKept ==
  ASSUME IInv, NEW t \in Thread, Guarantee(t),
         Private(t)' => Private(t) /\ mine'[t] = mine[t]
  PROVE  Apart'
<1>1. \A u \in Thread : Private(u)' => Private(u) /\ mine'[u] = mine[u]
  BY DEF Guarantee, Private
<1>2. QED
  BY <1>1 DEF IInv, Apart

\* What is to be shown of a step.
LEMMA Combine ==
  ASSUME IInv, NEW t \in Thread, Guarantee(t), TypeOK', View(t)', Shared', Apart'
  PROVE  IInv'
BY Others DEF IInv

-----------------------------------------------------------------------------
(* The steps of a search                                                    *)

LEMMA ChainStart == \A p : InChain(p, p)
BY DEF InChain

LEMMA ChainNext ==
  ASSUME NEW p \in Pool, NEW q \in Pool, InChain(q, p), Base[q] # NULL
  PROVE  InChain(Base[q], p)
BY DEF InChain

\* The chain of p is p and the chain of its base.
LEMMA ChainSplit ==
  ASSUME NEW p \in Pool, NEW r \in Pool, InChain(r, p), r # p
  PROVE  Base[p] # NULL /\ InChain(r, Base[p])
<1>1. Base[p] # NULL
  <2>1. SUFFICES ASSUME Base[p] = NULL PROVE r \in {p}
    OBVIOUS
  <2>2. {p} \in SUBSET Pool /\ p \in {p} /\ \A s \in {p} : Base[s] # NULL => Base[s] \in {p}
    BY <2>1
  <2>3. QED
    BY <2>2 DEF InChain
<1>2. ASSUME NEW S \in SUBSET Pool, Base[p] \in S,
             \A s \in S : Base[s] # NULL => Base[s] \in S
      PROVE  r \in S
  <2>1. S \cup {p} \in SUBSET Pool /\ p \in S \cup {p}
        /\ \A s \in S \cup {p} : Base[s] # NULL => Base[s] \in S \cup {p}
    BY <1>2
  <2>2. r \in S \cup {p}
    BY <2>1 DEF InChain
  <2>3. QED
    BY <2>2
<1>3. QED
  BY <1>1, <1>2 DEF InChain
LEMMA StartStep ==
  ASSUME IInv, NEW t \in Thread, NEW f \in {"symget", "symfind", "symadd"},
         NEW p \in Pool, NEW n \in Name, NEW l \in {"rlock", "alloc"},
         Start(t, f, p, n, l)
  PROVE  IInv'
<1> USE DEF Start, Goto
<1>1. TypeOK'
  BY DEF IInv, TypeOK, PC
<1>2. Guarantee(t)
  BY DEF IInv, TypeOK, Guarantee
<1>3. pc'[t] = l /\ pool'[t] = p /\ name'[t] = n /\ at'[t] = p /\ mine'[t] = mine[t]
      /\ due'[t] = \E q \in Ptr : <<p, n, q>> \in given
  BY DEF IInv, TypeOK
<1>4. View(t)'
  <2>1. ArgsView(t)'
    BY <1>3, ChainStart DEF ArgsView
  <2>2. ~Private(t)' /\ ~Holds(t)' /\ LockView(t)'
    BY <1>3 DEF Private, Holds, LockView
  <2>3. ASSUME due'[t]
        PROVE  \E r \in Pool \ {} : InChain(r, p) /\ \E q \in tree'[r] : header'[q] = n
    BY <1>3, <2>3 DEF IInv, Shared, Given
  <2>4. SearchView(t)'
    BY <1>3, <2>3 DEF SearchView, Known
  <2>5. QED
    BY <2>1, <2>2, <2>4 DEF View, SymbolView
<1>5. Shared'
  BY <1>2, PoolsKept, TornKept DEF Shared
<1>6. Apart'
  BY <1>2, <1>3, ApartKept DEF Private
<1>7. QED
  BY <1>1, <1>2, <1>4, <1>5, <1>6, Combine

LEMMA RLockStep ==
  ASSUME IInv, NEW t \in Thread, RLock(t)
  PROVE  IInv'
<1> USE DEF RLock, Goto, args
<1>0. TypeOK /\ View(t) /\ at[t] \in Pool
  BY DEF IInv, View, ArgsView
<1>1. TypeOK'
  BY <1>0 DEF TypeOK, PC
<1>2. Guarantee(t)
  BY <1>0 DEF TypeOK, Guarantee
<1>3. pc'[t] = "lookup" /\ t \in readers'[at[t]]
  BY <1>0 DEF TypeOK
<1>4. View(t)'
  BY <1>0, <1>3 DEF View, ArgsView, LockView, SymbolView, SearchView, Private, Holds, Known, InChain
<1>5. Shared'
  BY <1>2, PoolsKept, TornKept DEF Shared
<1>6. Apart'
  BY <1>2, <1>3, ApartKept DEF Private
<1>7. QED
  BY <1>1, <1>2, <1>4, <1>5, <1>6, Combine

\* The tree is whole while a reader looks.
LEMMA ReaderWhole ==
  ASSUME IInv, NEW t \in Thread, t \in readers[at[t]], at[t] \in Pool
  PROVE  at[t] \notin torn
BY SymPoolAssumption DEF IInv, TypeOK, Shared, TornByWriter

LEMMA LookupStep ==
  ASSUME IInv, NEW t \in Thread, Lookup(t)
  PROVE  IInv'
<1> USE DEF Lookup, Goto, args
<1>0. TypeOK /\ View(t) /\ at[t] \in Pool
  BY DEF IInv, View, ArgsView
<1>1. TypeOK'
  BY <1>0 DEF TypeOK, PC
<1>2. Guarantee(t)
  BY <1>0 DEF TypeOK, Guarantee
<1>3. /\ pc'[t] = "runlock"
      /\ sym'[t] \in Named(at[t], name[t]) \/ (sym'[t] = NULL /\ Named(at[t], name[t]) = {})
  <2>1. t \in readers[at[t]]
    BY <1>0 DEF View, LockView
  <2>2. at[t] \notin torn
    BY <1>0, <2>1, ReaderWhole
  <2>3. PICK s \in Ptr \cup {NULL} :
          /\ s \in Named(at[t], name[t]) \/ (s = NULL /\ Named(at[t], name[t]) = {})
          /\ sym' = [sym EXCEPT ![t] = s]
    BY <2>2
  <2>4. QED
    BY <1>0, <2>3 DEF TypeOK
<1>4. View(t)'
  <2>1. ArgsView(t)' /\ LockView(t)'
    BY <1>0, <1>3 DEF View, ArgsView, LockView, InChain
  <2>2. SymbolView(t)'
    BY <1>0, <1>3, SymPoolAssumption DEF SymbolView, Private, Holds, Named
  <2>3. ASSUME due[t], Named(at[t], name[t]) = {}
        PROVE  \E r \in Pool \ {at[t]} : InChain(r, at[t]) /\ \E q \in tree[r] : header[q] = name[t]
    BY <1>0, <2>3 DEF View, SearchView, Known, Named
  <2>4. SearchView(t)'
    BY <1>0, <1>3, <2>3, SymPoolAssumption DEF SearchView, Known, Named, TypeOK
  <2>5. QED
    BY <2>1, <2>2, <2>4 DEF View
<1>5. Shared'
  BY <1>2, PoolsKept, TornKept DEF Shared
<1>6. Apart'
  BY <1>2, <1>3, ApartKept DEF Private
<1>7. QED
  BY <1>1, <1>2, <1>4, <1>5, <1>6, Combine

LEMMA NextBaseStep ==
  ASSUME IInv, NEW t \in Thread, NextBase(t)
  PROVE  IInv'
<1> USE DEF NextBase, RUnlock, Goto, args
<1>0. TypeOK /\ View(t) /\ at[t] \in Pool /\ pool[t] \in Pool /\ Base[at[t]] \in Pool
  BY SymPoolAssumption DEF IInv, View, ArgsView
<1>1. TypeOK'
  BY <1>0 DEF TypeOK, PC
<1>2. Guarantee(t)
  BY <1>0 DEF TypeOK, Guarantee
<1>3. pc'[t] = "rlock" /\ at'[t] = Base[at[t]]
  BY <1>0 DEF TypeOK
<1>4. View(t)'
  <2>1. InChain(Base[at[t]], pool[t])
    BY <1>0, ChainNext DEF View, ArgsView
  <2>2. ArgsView(t)' /\ LockView(t)' /\ SymbolView(t)'
    BY <1>0, <1>3, <2>1 DEF View, ArgsView, LockView, SymbolView, Private, Holds
  <2>3. ASSUME due[t]
        PROVE  \E r \in Pool : InChain(r, Base[at[t]]) /\ \E q \in tree[r] : header[q] = name[t]
    <3>1. Known(at[t], name[t], {at[t]})
      BY <1>0, <2>3 DEF View, SearchView
    <3>2. QED
      BY <1>0, <3>1, ChainSplit DEF Known
  <2>4. SearchView(t)'
    BY <1>0, <1>3, <2>3 DEF SearchView, Known
  <2>5. QED
    BY <2>2, <2>4 DEF View
<1>5. Shared'
  BY <1>2, PoolsKept, TornKept DEF Shared
<1>6. Apart'
  BY <1>2, <1>3, ApartKept DEF Private
<1>7. QED
  BY <1>1, <1>2, <1>4, <1>5, <1>6, Combine
-----------------------------------------------------------------------------
(* The steps that return                                                    *)

\* A symbol that t holds may be returned.
LEMMA ReturnHeld ==
  ASSUME IInv, NEW t \in Thread, Guarantee(t), Holds(t), UNCHANGED tree,
         given' = given \cup {<<pool[t], name[t], sym[t]>>}
  PROVE  Allocated' /\ Unique' /\ Given'
<1>1. \A p \in Pool : \A q \in tree[p] : q \in Ptr /\ header'[q] = header[q]
  BY TreeKept
<1>2. Allocated' /\ Unique'
  BY <1>1 DEF IInv, Shared, Allocated, Unique
<1>3. at[t] \in Pool /\ InChain(at[t], pool[t]) /\ sym[t] \in tree[at[t]] /\ header[sym[t]] = name[t]
  BY DEF IInv, View, ArgsView, SymbolView, Holds
<1>4. ASSUME NEW g \in given'
      PROVE  header'[g[3]] = g[2] /\ \E r \in Pool : InChain(r, g[1]) /\ g[3] \in tree'[r]
  <2>1. CASE g \in given
    BY <1>1, <2>1 DEF IInv, Shared, Given
  <2>2. CASE g = <<pool[t], name[t], sym[t]>>
    BY <1>1, <1>3, <2>2
  <2>3. QED
    BY <2>1, <2>2
<1>5. QED
  BY <1>2, <1>4 DEF Given, InChain

LEMMA FoundStep ==
  ASSUME IInv, NEW t \in Thread, Found(t)
  PROVE  IInv'
<1> USE DEF Found, Return, RUnlock, Goto
<1>0. TypeOK /\ View(t) /\ at[t] \in Pool /\ pool[t] \in Pool /\ name[t] \in Name
  BY DEF IInv, View, ArgsView
<1>1. TypeOK'
  BY <1>0 DEF TypeOK, PC
<1>2. Guarantee(t)
  BY <1>0 DEF TypeOK, Guarantee
<1>3. pc'[t] = "idle"
  BY <1>0 DEF TypeOK
<1>4. View(t)'
  BY <1>3 DEF View, ArgsView, LockView, SymbolView, SearchView, Private, Holds
<1>5. Shared'
  BY <1>2, ReturnHeld, TornKept DEF Shared, Holds
<1>6. Apart'
  BY <1>2, <1>3, ApartKept DEF Private
<1>7. QED
  BY <1>1, <1>2, <1>4, <1>5, <1>6, Combine

LEMMA NotFoundStep ==
  ASSUME IInv, NEW t \in Thread, NotFound(t)
  PROVE  IInv'
<1> USE DEF NotFound, RUnlock, Goto
<1>0. TypeOK /\ View(t) /\ at[t] \in Pool /\ pool[t] \in Pool /\ name[t] \in Name
  BY DEF IInv, View, ArgsView
<1>1. TypeOK'
  <2>1. /\ readers' \in [Pool -> SUBSET Thread]
        /\ \A p \in Pool : writer'[p] = NULL \/ readers'[p] = {}
    BY <1>0 DEF TypeOK
  <2>2. CASE op[t] = "symget"
    BY <1>0, <2>1, <2>2 DEF TypeOK, PC, args
  <2>3. CASE op[t] # "symget"
    <3>1. given' = given
      BY <2>3 DEF Return
    <3>2. /\ pc' \in [Thread -> PC] /\ due' \in [Thread -> BOOLEAN]
          /\ pool' \in [Thread -> Pool \cup {NULL}] /\ at' \in [Thread -> Pool \cup {NULL}]
      BY <1>0, <2>3 DEF TypeOK, PC, Return
    <3>3. /\ op' \in [Thread -> {"symget", "symfind", "symadd", NULL}]
          /\ name' \in [Thread -> Name \cup {NULL}]
          /\ sym' \in [Thread -> Ptr \cup {NULL}] /\ mine' \in [Thread -> Ptr \cup {NULL}]
      BY <1>0, <2>3 DEF TypeOK, Return
    <3>4. QED
      BY <1>0, <2>1, <3>1, <3>2, <3>3 DEF TypeOK
  <2>4. QED
    BY <2>2, <2>3
<1>2. Guarantee(t)
  BY <1>0 DEF TypeOK, Guarantee, Return, args
<1>3. \/ pc'[t] = "idle"
      \/ pc'[t] = "alloc" /\ at'[t] = pool[t] /\ UNCHANGED args
  BY <1>0 DEF TypeOK, Return
<1>4. View(t)'
  BY <1>0, <1>3, ChainStart
  DEF View, ArgsView, LockView, SymbolView, SearchView, Private, Holds, args
<1>5. Shared'
  BY <1>2, PoolsKept, TornKept DEF Shared, Return
<1>6. Apart'
  BY <1>2, <1>3, ApartKept DEF Private
<1>7. QED
  BY <1>1, <1>2, <1>4, <1>5, <1>6, Combine

LEMMA UnlockAddedStep ==
  ASSUME IInv, NEW t \in Thread, UnlockAdded(t)
  PROVE  IInv'
<1> USE DEF UnlockAdded, Return, Goto
<1>0. TypeOK /\ View(t) /\ at[t] \in Pool /\ pool[t] \in Pool /\ name[t] \in Name
      /\ sym[t] \in Ptr
  BY DEF IInv, TypeOK, View, ArgsView, SymbolView, Holds
<1>1. TypeOK'
  BY <1>0, SymPoolAssumption DEF TypeOK, PC
<1>2. Guarantee(t)
  BY <1>0 DEF TypeOK, Guarantee, View, LockView
<1>3. pc'[t] = "idle"
  BY <1>0 DEF TypeOK
<1>4. View(t)'
  BY <1>3 DEF View, ArgsView, LockView, SymbolView, SearchView, Private, Holds
<1>5. Shared'
  BY <1>0, <1>2, ReturnHeld, TornKept, SymPoolAssumption DEF Shared, Holds
<1>6. Apart'
  BY <1>2, <1>3, ApartKept DEF Private
<1>7. QED
  BY <1>1, <1>2, <1>4, <1>5, <1>6, Combine

LEMMA FreeStep ==
  ASSUME IInv, NEW t \in Thread, Free(t)
  PROVE  IInv'
<1> USE DEF Free, Return, Goto
<1>0. TypeOK /\ View(t) /\ at[t] \in Pool /\ pool[t] \in Pool /\ name[t] \in Name
      /\ sym[t] \in Ptr /\ Private(t) /\ mine[t] \in Ptr
  BY DEF IInv, TypeOK, View, ArgsView, SymbolView, Holds, Private
<1>1. TypeOK'
  BY <1>0, SymPoolAssumption DEF TypeOK, PC
<1>2. Guarantee(t)
  BY <1>0 DEF TypeOK, Guarantee
<1>3. pc'[t] = "idle"
  BY <1>0 DEF TypeOK
<1>4. View(t)'
  BY <1>3 DEF View, ArgsView, LockView, SymbolView, SearchView, Private, Holds
<1>5. Shared'
  BY <1>0, <1>2, ReturnHeld, TornKept, SymPoolAssumption DEF Shared, Holds
<1>6. Apart'
  BY <1>2, <1>3, ApartKept DEF Private
<1>7. QED
  BY <1>1, <1>2, <1>4, <1>5, <1>6, Combine
-----------------------------------------------------------------------------
(* The steps of symaddh                                                     *)

LEMMA AllocStep ==
  ASSUME IInv, NEW t \in Thread, Alloc(t)
  PROVE  IInv'
<1> USE DEF Alloc, Goto, args
<1>0. TypeOK /\ View(t) /\ at[t] \in Pool /\ name[t] \in Name
  BY DEF IInv, View, ArgsView
<1>1. PICK q \in Ptr : /\ header[q] = NULL
                      /\ header' = [header EXCEPT ![q] = name[t]]
                      /\ mine' = [mine EXCEPT ![t] = q]
  OBVIOUS
<1>2. TypeOK'
  BY <1>0, <1>1 DEF TypeOK, PC
<1>3. Guarantee(t)
  BY <1>0, <1>1 DEF TypeOK, Guarantee
<1>4. pc'[t] = "lock" /\ mine'[t] = q /\ header'[q] = name[t]
  BY <1>0, <1>1 DEF TypeOK
<1>5. View(t)'
  <2>1. \A p \in Pool : q \notin tree[p]
    BY <1>1 DEF IInv, Shared, Allocated
  <2>2. QED
    BY <1>0, <1>4, <2>1
    DEF View, ArgsView, LockView, SymbolView, SearchView, Private, Holds, InChain
<1>6. Shared'
  BY <1>3, PoolsKept, TornKept DEF Shared
<1>7. Apart'
  <2>1. ASSUME NEW u \in Thread \ {t}, Private(u)
        PROVE  mine[u] # q
    <3>1. header[mine[u]] \in Name
      BY <2>1 DEF IInv, View, SymbolView, ArgsView, Private
    <3>2. QED
      BY <1>1, <3>1, SymPoolAssumption
  <2>2. \A u \in Thread \ {t} : mine'[u] = mine[u] /\ (Private(u)' <=> Private(u))
    BY <1>3 DEF Guarantee, Private
  <2>3. QED
    BY <1>4, <2>1, <2>2 DEF IInv, Apart
<1>8. QED
  BY <1>2, <1>3, <1>5, <1>6, <1>7, Combine

LEMMA LockStep ==
  ASSUME IInv, NEW t \in Thread, Lock(t)
  PROVE  IInv'
<1> USE DEF Lock, Goto, args
<1>0. TypeOK /\ View(t) /\ at[t] \in Pool
  BY DEF IInv, View, ArgsView
<1>1. TypeOK'
  BY <1>0 DEF TypeOK, PC
<1>2. Guarantee(t)
  BY <1>0, SymPoolAssumption DEF TypeOK, Guarantee
<1>3. pc'[t] = "insert" /\ writer'[at[t]] = t
  BY <1>0 DEF TypeOK
<1>4. View(t)'
  BY <1>0, <1>3 DEF View, ArgsView, LockView, SymbolView, SearchView, Private, Holds, InChain
<1>5. Shared'
  BY <1>2, PoolsKept, TornKept DEF Shared
<1>6. Apart'
  BY <1>2, <1>3, ApartKept DEF Private
<1>7. QED
  BY <1>1, <1>2, <1>4, <1>5, <1>6, Combine

LEMMA InsertStep ==
  ASSUME IInv, NEW t \in Thread, Insert(t)
  PROVE  IInv'
<1> USE DEF Insert, Goto, args
<1>0. TypeOK /\ View(t) /\ at[t] \in Pool /\ writer[at[t]] = t
  BY DEF IInv, View, ArgsView, LockView
<1>1. at[t] \notin torn
  BY <1>0 DEF IInv, Shared, TornByWriter
<1>2. PICK s \in Ptr \cup {NULL} :
        /\ s \in Named(at[t], name[t]) \/ (s = NULL /\ Named(at[t], name[t]) = {})
        /\ sym' = [sym EXCEPT ![t] = s]
  BY <1>1
<1>3. TypeOK'
  BY <1>0, <1>2 DEF TypeOK, PC
<1>4. Guarantee(t)
  BY <1>0, <1>2 DEF TypeOK, Guarantee
<1>5. pc'[t] = "relink" /\ sym'[t] = s
  BY <1>0, <1>2 DEF TypeOK
<1>6. View(t)'
  BY <1>0, <1>2, <1>5, SymPoolAssumption
  DEF View, ArgsView, LockView, SymbolView, SearchView, Private, Holds, Named, InChain, TypeOK
<1>7. TornByWriter'
  <2>1. ASSUME NEW p \in torn
        PROVE  writer[p] \in Thread \ {t} /\ pc[writer[p]] = "relink" /\ at[writer[p]] = p
    BY DEF IInv, Shared, TornByWriter
  <2>2. QED
    BY <1>0, <1>5, <2>1 DEF TornByWriter, TypeOK
<1>8. Shared'
  BY <1>4, <1>7, PoolsKept DEF Shared
<1>9. Apart'
  BY <1>4, <1>5, ApartKept DEF Private
<1>10. QED
  BY <1>3, <1>4, <1>6, <1>8, <1>9, Combine

LEMMA UnlockExistsStep ==
  ASSUME IInv, NEW t \in Thread, UnlockExists(t)
  PROVE  IInv'
<1> USE DEF UnlockExists, Goto, args
<1>0. TypeOK /\ View(t) /\ at[t] \in Pool
  BY DEF IInv, View, ArgsView
<1>1. TypeOK'
  BY <1>0 DEF TypeOK, PC
<1>2. Guarantee(t)
  BY <1>0 DEF TypeOK, Guarantee, View, LockView
<1>3. pc'[t] = "free"
  BY <1>0 DEF TypeOK
<1>4. View(t)'
  BY <1>0, <1>3 DEF View, ArgsView, LockView, SymbolView, SearchView, Private, Holds, InChain
<1>5. Shared'
  BY <1>2, PoolsKept, TornKept DEF Shared
<1>6. Apart'
  BY <1>2, <1>3, ApartKept DEF Private
<1>7. QED
  BY <1>1, <1>2, <1>4, <1>5, <1>6, Combine

LEMMA RelinkStep ==
  ASSUME IInv, NEW t \in Thread, Relink(t)
  PROVE  IInv'
<1> USE DEF Relink, Goto, args
<1>0. /\ TypeOK /\ View(t) /\ at[t] \in Pool /\ writer[at[t]] = t /\ name[t] \in Name
      /\ Private(t) /\ mine[t] \in Ptr /\ header[mine[t]] = name[t]
      /\ \A p \in Pool : mine[t] \notin tree[p]
  BY DEF IInv, View, ArgsView, LockView, SymbolView, Private
<1>1. TypeOK'
  BY <1>0 DEF TypeOK, PC
<1>2. Guarantee(t)
  BY <1>0 DEF TypeOK, Guarantee
<1>3. pc'[t] = "unlock" /\ (sym[t] # NULL => sym'[t] = sym[t])
      /\ (sym[t] = NULL => sym'[t] = mine[t] /\ mine[t] \in tree'[at[t]])
  BY <1>0 DEF TypeOK
<1>4. View(t)'
  <2>1. ArgsView(t)' /\ LockView(t)' /\ SearchView(t)'
    BY <1>0, <1>3 DEF View, ArgsView, LockView, SearchView, InChain
  <2>2. CASE sym[t] = NULL
    <3>1. ~Private(t)' /\ sym'[t] = mine[t]
      BY <1>3, <2>2 DEF Private
    <3>2. SymbolView(t)'
      BY <1>0, <1>3, <2>2, <3>1 DEF SymbolView
    <3>3. QED
      BY <2>1, <3>2 DEF View
  <2>3. CASE sym[t] # NULL
    BY <1>0, <1>3, <2>1, <2>3 DEF View, SymbolView, Private, Holds
  <2>4. QED
    BY <2>2, <2>3
<1>5. Shared'
  <2>1. TornByWriter'
    <3>1. ASSUME NEW p \in torn \ {at[t]}
          PROVE  writer[p] \in Thread \ {t} /\ pc[writer[p]] = "relink" /\ at[writer[p]] = p
      BY DEF IInv, Shared, TornByWriter
    <3>2. QED
      BY <1>0, <3>1 DEF TornByWriter, TypeOK
  <2>2. CASE sym[t] # NULL
    BY <1>2, <2>1, <2>2, PoolsKept DEF Shared
  <2>3. CASE sym[t] = NULL
    <3>1. tree' = [tree EXCEPT ![at[t]] = @ \cup {mine[t]}] /\ header' = header
      BY <2>3
    <3>2. \A q \in tree[at[t]] : header[q] # name[t]
      BY <1>0, <2>3 DEF View, SearchView, Named
    <3>3. Allocated'
      BY <1>0, <3>1, SymPoolAssumption DEF IInv, Shared, Allocated, TypeOK
    <3>4. Unique'
      <4>1. ASSUME NEW p \in Pool, NEW a \in tree'[p], NEW b \in tree'[p], header[a] = header[b]
            PROVE  a = b
        <5>1. CASE p = at[t]
          BY <1>0, <3>1, <3>2, <4>1, <5>1 DEF IInv, Shared, Unique, TypeOK
        <5>2. CASE p # at[t]
          BY <1>0, <3>1, <4>1, <5>2 DEF IInv, Shared, Unique, TypeOK
        <5>3. QED
          BY <5>1, <5>2
      <4>2. QED
        BY <3>1, <4>1 DEF Unique
    <3>5. ASSUME NEW g \in given
          PROVE  header[g[3]] = g[2] /\ \E r \in Pool : InChain(r, g[1]) /\ g[3] \in tree'[r]
      BY <1>0, <3>1 DEF IInv, Shared, Given, TypeOK
    <3>6. Given'
      BY <3>1, <3>5 DEF Given, InChain
    <3>7. QED
      BY <2>1, <3>3, <3>4, <3>6 DEF Shared
  <2>4. QED
    BY <2>2, <2>3
<1>6. Apart'
  BY <1>0, <1>2, <1>3, ApartKept DEF Private
<1>7. QED
  BY <1>1, <1>2, <1>4, <1>5, <1>6, Combine

-----------------------------------------------------------------------------
(* The theorems                                                             *)

\* The pools are built with unique names and nobody is inside.
LEMMA Initially == Init => IInv
<1> SUFFICES ASSUME Init PROVE IInv
  OBVIOUS
<1> USE DEF Init
<1>1. TypeOK
  BY SymPoolAssumption DEF TypeOK, PC
<1>2. TornByWriter /\ Given
  BY DEF TornByWriter, Given
<1>3. Allocated /\ Unique
  BY SymPoolAssumption DEF Allocated, Unique
<1>4. \A t \in Thread : View(t) /\ ~Private(t)
  BY DEF View, ArgsView, LockView, SymbolView, SearchView, Private, Holds
<1>5. QED
  BY <1>1, <1>2, <1>3, <1>4 DEF IInv, Shared, Apart

LEMMA Inductive == IInv /\ [Next]_vars => IInv'
<1> SUFFICES ASSUME IInv, [Next]_vars PROVE IInv'
  OBVIOUS
<1>1. ASSUME NEW t \in Thread, Step(t)
      PROVE  IInv'
  <2>1. CASE SymGet(t)
    BY <2>1, StartStep, SymPoolAssumption DEF SymGet
  <2>2. CASE SymFind(t)
    BY <2>2, StartStep DEF SymFind
  <2>3. CASE SymAdd(t)
    BY <2>3, StartStep, SymPoolAssumption DEF SymAdd
  <2>4. CASE RLock(t) \/ Lookup(t) \/ Found(t) \/ NextBase(t) \/ NotFound(t)
    BY <2>4, RLockStep, LookupStep, FoundStep, NextBaseStep, NotFoundStep
  <2>5. CASE Alloc(t) \/ Lock(t) \/ Insert(t) \/ Relink(t)
    BY <2>5, AllocStep, LockStep, InsertStep, RelinkStep
  <2>6. CASE UnlockAdded(t) \/ UnlockExists(t) \/ Free(t)
    BY <2>6, UnlockAddedStep, UnlockExistsStep, FreeStep
  <2>7. QED
    BY <1>1, <2>1, <2>2, <2>3, <2>4, <2>5, <2>6 DEF Step
<1>2. CASE UNCHANGED vars
  <2>1. TypeOK' /\ Apart'
    BY <1>2 DEF vars, IInv, TypeOK, Apart, Private
  <2>2. Shared'
    BY <1>2 DEF vars, IInv, Shared, TornByWriter, Allocated, Unique, Given, InChain
  <2>3. ASSUME NEW t \in Thread
        PROVE  View(t)'
    <3>1. View(t)
      BY DEF IInv
    <3>2. ArgsView(t)' /\ LockView(t)' /\ SymbolView(t)'
      BY <1>2, <3>1 DEF vars, View, ArgsView, LockView, SymbolView, Private, Holds, InChain
    <3>3. SearchView(t)'
      BY <1>2, <3>1 DEF vars, View, SearchView, Known, Named, InChain
    <3>4. QED
      BY <3>2, <3>3 DEF View
  <2>4. QED
    BY <2>1, <2>2, <2>3 DEF IInv
<1>3. QED
  BY <1>1, <1>2 DEF Next

\* Whatever threads do, the variables keep their types and the lock excludes.
THEOREM TypeCorrect == Spec => []TypeOK
<1>1. IInv => TypeOK
  BY DEF IInv
<1>2. QED
  BY <1>1, Initially, Inductive, PTL DEF Spec

\* No pool ever has two symbols of one name.
THEOREM UniqueNames == Spec => []Unique
<1>1. IInv => Unique
  BY DEF IInv, Shared
<1>2. QED
  BY <1>1, Initially, Inductive, PTL DEF Spec

\* A symbol that was returned keeps its address and its name.
THEOREM SymbolsStay == Spec => []NeverDangling
<1>1. IInv => NeverDangling
  BY DEF IInv, Shared, Given, NeverDangling
<1>2. QED
  BY <1>1, Initially, Inductive, PTL DEF Spec

\* What was returned is found by every later search.
THEOREM SymbolsFound == Spec => NeverMissed
<1>1. ASSUME IInv, [Next]_vars, NEW t \in Thread,
             pc[t] = "runlock", pc'[t] = "idle", due[t], sym[t] = NULL
      PROVE  FALSE
  <2>1. at[t] \in Pool /\ Known(at[t], name[t], {at[t]})
    BY <1>1 DEF IInv, View, ArgsView, SearchView
  <2>2. Base[at[t]] # NULL
    BY <2>1, ChainSplit DEF Known
  <2>3. QED
    BY <1>1, <2>2
    DEF IInv, TypeOK, vars, Next, Step, Goto, SymGet, SymFind, SymAdd, Start, RLock, Lookup, Found, NextBase,
        NotFound, Alloc, Lock, Insert, Relink, UnlockAdded, UnlockExists, Free, Return, RUnlock, args
<1>2. IInv /\ [Next]_vars =>
        [\A t \in Thread : pc[t] = "runlock" /\ pc'[t] = "idle" /\ due[t] => sym[t] # NULL]_vars
  BY <1>1
<1>3. QED
  BY <1>2, Initially, Inductive, PTL DEF Spec, NeverMissed
-----------------------------------------------------------------------------
(* One symbol for a name that symadd is not given.  Only the pools that grow *)
(* change, and they are nobody's base: which pool a search finds a name in   *)
(* is settled by how the pools were built.                                   *)

HasPreset(p, n) == \E q \in Ptr : Preset[q] = p /\ PresetName[q] = n

\* r is p, or a base of p before which no pool was built with n.
Reaches(p, n, r) ==
  \A S \in SUBSET Pool :
    p \in S /\ (\A s \in S : ~HasPreset(s, n) /\ Base[s] # NULL => Base[s] \in S) => r \in S

NoPreset(p, n) == \A r \in Pool : Reaches(p, n, r) => ~HasPreset(r, n)

\* What the pools were built with is still there, ...
Built == \A q \in Ptr : Preset[q] # NULL => q \in tree[Preset[q]] /\ header[q] = PresetName[q]

\* ... and anything else was added to a pool that grows, by symadd or because
\* the name was in none of the pools searched.
Grown ==
  \A p \in Pool : \A q \in tree[p] :
    \/ Preset[q] = p
    \/ p \in Growing /\ (\/ header[q] \in Added
                         \/ NoPreset(p, header[q]))

\* How far the search of t has come.
Path(t) ==
  /\ pc[t] \in {"rlock", "lookup", "runlock"} => Reaches(pool[t], name[t], at[t])
  /\ pc[t] = "runlock" /\ sym[t] = NULL => ~HasPreset(at[t], name[t])
  /\ pc[t] # "idle" /\ op[t] \in {"symget", "symadd"} => pool[t] \in Growing
  /\ pc[t] \in {"alloc", "lock", "insert", "relink", "unlock", "free"} =>
       /\ op[t] \in {"symget", "symadd"}
       /\ \/ name[t] \in Added
          \/ NoPreset(pool[t], name[t])

\* Where a symbol that was returned is.
Home(p, n, s) ==
  \/ Preset[s] \in Pool /\ Reaches(p, n, Preset[s])
  \/ s \in tree[p] /\ NoPreset(p, n)

Homes == \A g \in given : g[2] \in Added \/ Home(g[1], g[2], g[3])

Settled == IInv /\ Built /\ Grown /\ Homes /\ \A t \in Thread : Path(t)

LEMMA ReachesNext ==
  ASSUME NEW p \in Pool, NEW n, NEW r \in Pool, Reaches(p, n, r), ~HasPreset(r, n), Base[r] # NULL
  PROVE  Reaches(p, n, Base[r])
BY DEF Reaches

LEMMA ReachesSplit ==
  ASSUME NEW p \in Pool, NEW n, NEW r \in Pool, Reaches(p, n, r), r # p
  PROVE  Base[p] # NULL /\ ~HasPreset(p, n) /\ Reaches(Base[p], n, r)
<1>1. Base[p] # NULL /\ ~HasPreset(p, n)
  <2>1. SUFFICES ASSUME Base[p] = NULL \/ HasPreset(p, n) PROVE r \in {p}
    OBVIOUS
  <2>2. {p} \in SUBSET Pool /\ p \in {p}
        /\ \A s \in {p} : ~HasPreset(s, n) /\ Base[s] # NULL => Base[s] \in {p}
    BY <2>1
  <2>3. QED
    BY <2>2 DEF Reaches
<1>2. ASSUME NEW S \in SUBSET Pool, Base[p] \in S,
             \A s \in S : ~HasPreset(s, n) /\ Base[s] # NULL => Base[s] \in S
      PROVE  r \in S
  <2>1. S \cup {p} \in SUBSET Pool /\ p \in S \cup {p}
        /\ \A s \in S \cup {p} : ~HasPreset(s, n) /\ Base[s] # NULL => Base[s] \in S \cup {p}
    BY <1>2
  <2>2. r \in S \cup {p}
    BY <2>1 DEF Reaches
  <2>3. QED
    BY <2>2
<1>3. QED
  BY <1>1, <1>2 DEF Reaches

\* Of two pools that are reached, one is reached from the other.
LEMMA ReachesOrder ==
  ASSUME NEW p \in Pool, NEW n, NEW r \in Pool, NEW s \in Pool,
         Reaches(p, n, r), Reaches(p, n, s), HasPreset(r, n)
  PROVE  Reaches(s, n, r)
<1> DEFINE S == {x \in Pool : Reaches(x, n, r)}
<1>1. S \in SUBSET Pool /\ p \in S
  OBVIOUS
<1>2. ASSUME NEW x \in S, ~HasPreset(x, n), Base[x] # NULL
      PROVE  Base[x] \in S
  <2>1. x # r /\ x \in Pool /\ Reaches(x, n, r)
    BY <1>2
  <2>2. Reaches(Base[x], n, r)
    BY <2>1, ReachesSplit
  <2>3. Base[x] \in Pool
    BY <1>2, <2>1, SymPoolAssumption
  <2>4. QED
    BY <2>2, <2>3
<1>3. s \in S
  <2> HIDE DEF S
  <2>1. QED
    BY <1>1, <1>2 DEF Reaches
<1>4. QED
  BY <1>3

\* A search ends at the first pool that was built with the name.
LEMMA ReachesOne ==
  ASSUME NEW p \in Pool, NEW n, NEW r \in Pool, NEW s \in Pool,
         Reaches(p, n, r), Reaches(p, n, s), HasPreset(r, n),
         HasPreset(s, n) \/ Base[s] = NULL
  PROVE  r = s
<1>1. Reaches(s, n, r)
  BY ReachesOrder
<1>2. QED
  BY <1>1, ReachesSplit

\* A pool that grows is the first one of a search.
LEMMA GrowingFirst ==
  ASSUME NEW p \in Pool, NEW n, NEW r \in Growing, Reaches(p, n, r)
  PROVE  r = p
<1> DEFINE S == {p} \cup (Pool \ Growing)
<1>1. S \in SUBSET Pool /\ p \in S
  OBVIOUS
<1>2. \A s \in S : Base[s] # NULL => Base[s] \in S
  BY SymPoolAssumption
<1>3. r \in S
  <2> HIDE DEF S
  <2>1. QED
    BY <1>1, <1>2 DEF Reaches
<1>4. QED
  BY <1>3

\* No symbol leaves a tree or changes its name, and one comes by Relink.
LEMMA TreesGrow ==
  ASSUME IInv, NEW t \in Thread, Step(t)
  PROVE  /\ \A p \in Pool : \A q \in tree[p] : q \in tree'[p] /\ header'[q] = header[q]
         /\ \A p \in Pool : \A q \in tree'[p] \ tree[p] :
              /\ p = at[t] /\ header'[q] = name[t]
              /\ pc[t] = "relink"
<1> USE DEF Goto, args
<1>0. TypeOK /\ View(t)
  BY DEF IInv
<1>1. CASE Alloc(t)
  <2>1. \A p \in Pool : \A q \in tree[p] : header[q] # NULL
    BY DEF IInv, Shared, Allocated
  <2>2. QED
    BY <1>0, <1>1, <2>1 DEF Alloc, TypeOK
<1>2. CASE Relink(t)
  <2>1. at[t] \in Pool /\ mine[t] \in Ptr /\ header[mine[t]] = name[t]
    BY <1>0, <1>2 DEF Relink, View, ArgsView, SymbolView, Private
  <2>2. QED
    BY <1>0, <1>2, <2>1 DEF Relink, TypeOK
<1>3. CASE Free(t)
  <2>1. \A p \in Pool : mine[t] \notin tree[p]
    BY <1>0, <1>3 DEF Free, View, SymbolView, Private
  <2>2. QED
    BY <1>0, <1>3, <2>1 DEF Free, Return, TypeOK
<1>4. CASE ~(Alloc(t) \/ Relink(t) \/ Free(t))
  <2>1. UNCHANGED <<header, tree>>
    BY <1>4 DEF Step, SymGet, SymFind, SymAdd, Start, RLock, Lookup, Found, NextBase, NotFound,
                Lock, Insert, UnlockAdded, UnlockExists, Return, RUnlock
  <2>2. QED
    BY <2>1
<1>5. QED
  BY <1>1, <1>2, <1>3, <1>4

LEMMA BuiltStep ==
  ASSUME Settled, NEW t \in Thread, Step(t)
  PROVE  Built'
<1>1. \A p \in Pool : \A q \in tree[p] : q \in tree'[p] /\ header'[q] = header[q]
  BY TreesGrow DEF Settled
<1>2. \A q \in Ptr : Preset[q] # NULL => Preset[q] \in Pool
  BY SymPoolAssumption
<1>3. QED
  BY <1>1, <1>2 DEF Settled, Built

LEMMA GrownStep ==
  ASSUME Settled, NEW t \in Thread, Step(t)
  PROVE  Grown'
<1>1. ASSUME NEW p \in Pool, NEW q \in tree'[p]
      PROVE  \/ Preset[q] = p
             \/ p \in Growing /\ (\/ header'[q] \in Added
                                  \/ NoPreset(p, header'[q]))
  <2>1. CASE q \in tree[p]
    <3>1. header'[q] = header[q]
      BY <2>1, TreesGrow DEF Settled
    <3>2. QED
      BY <2>1, <3>1 DEF Settled, Grown
  <2>2. CASE q \notin tree[p]
    <3>1. p = at[t] /\ header'[q] = name[t] /\ pc[t] = "relink"
      BY <2>2, TreesGrow DEF Settled
    <3>2. at[t] = pool[t]
      BY <3>1 DEF Settled, IInv, View, ArgsView
    <3>3. QED
      BY <3>1, <3>2 DEF Settled, Path
  <2>3. QED
    BY <2>1, <2>2
<1>2. QED
  BY <1>1 DEF Grown, NoPreset, Reaches, HasPreset

\* What t has found is where a search for the name ends.
LEMMA FoundHome ==
  ASSUME Settled, NEW t \in Thread, Holds(t), name[t] \notin Added
  PROVE  Home(pool[t], name[t], sym[t])
<1>1. /\ at[t] \in Pool /\ pool[t] \in Pool /\ name[t] \in Name
      /\ sym[t] \in tree[at[t]] /\ header[sym[t]] = name[t]
      /\ pc[t] # "runlock" => at[t] = pool[t]
  BY DEF Settled, IInv, View, ArgsView, SymbolView, Holds
<1>2. Path(t) /\ Grown
  BY DEF Settled
<1>3. CASE pc[t] = "runlock"
  <2>1. Reaches(pool[t], name[t], at[t])
    BY <1>2, <1>3 DEF Path
  <2>2. CASE Preset[sym[t]] = at[t]
    BY <1>1, <2>1, <2>2 DEF Home
  <2>3. CASE Preset[sym[t]] # at[t]
    <3>1. at[t] \in Growing /\ NoPreset(at[t], name[t])
      BY <1>1, <1>2, <2>3 DEF Grown
    <3>2. at[t] = pool[t]
      BY <1>1, <2>1, <3>1, GrowingFirst
    <3>3. QED
      BY <1>1, <3>1, <3>2 DEF Home
  <2>4. QED
    BY <2>2, <2>3
<1>4. CASE pc[t] # "runlock"
  BY <1>1, <1>2, <1>4 DEF Path, Holds, Home
<1>5. QED
  BY <1>3, <1>4

LEMMA HomesStep ==
  ASSUME Settled, NEW t \in Thread, Step(t)
  PROVE  Homes'
<1>1. TypeOK
  BY DEF Settled, IInv
<1>2. ASSUME NEW g \in given, g[2] \notin Added
      PROVE  Home(g[1], g[2], g[3])'
  <2>1. Home(g[1], g[2], g[3]) /\ g[1] \in Pool
    BY <1>1, <1>2 DEF Settled, Homes, TypeOK
  <2>2. g[3] \in tree[g[1]] => g[3] \in tree'[g[1]]
    BY <2>1, TreesGrow DEF Settled
  <2>3. QED
    BY <2>1, <2>2 DEF Home, NoPreset, Reaches, HasPreset
<1>3. CASE given' = given
  BY <1>2, <1>3 DEF Homes
<1>4. CASE given' # given
  <2>1. /\ given' = given \cup {<<pool[t], name[t], sym[t]>>}
        /\ Holds(t) /\ tree' = tree
    BY <1>4 DEF Step, SymGet, SymFind, SymAdd, Start, RLock, Lookup, Found, NextBase, NotFound,
                Alloc, Lock, Insert, Relink, UnlockAdded, UnlockExists, Free, Return, RUnlock, Holds
  <2>2. ASSUME NEW g \in given', g[2] \notin Added
        PROVE  Home(g[1], g[2], g[3])'
    <3>1. CASE g \in given
      BY <1>2, <2>2, <3>1
    <3>2. CASE g = <<pool[t], name[t], sym[t]>>
      <4>1. Home(pool[t], name[t], sym[t])
        BY <2>1, <2>2, <3>2, FoundHome
      <4>2. g[1] = pool[t] /\ g[2] = name[t] /\ g[3] = sym[t]
        BY <3>2
      <4>3. QED
        BY <2>1, <4>1, <4>2 DEF Home, NoPreset, Reaches, HasPreset
    <3>3. QED
      BY <2>1, <2>2, <3>1, <3>2
  <2>3. QED
    BY <2>2 DEF Homes
<1>5. QED
  BY <1>3, <1>4

LEMMA PathStep ==
  ASSUME Settled, NEW t \in Thread, Step(t)
  PROVE  Path(t)'
<1> USE DEF Goto, args
<1>0. TypeOK /\ Path(t)
  BY DEF Settled, IInv
<1>1. ASSUME NEW f, NEW p \in Pool, NEW b \in Name, NEW l, Start(t, f, p, b, l),
             /\ f \in {"symget", "symadd"} => p \in Growing
             /\ l \in {"rlock", "alloc"}
             /\ l = "alloc" => f = "symadd" /\ b \in Added
      PROVE  Path(t)'
  <2>1. pc'[t] = l /\ op'[t] = f /\ pool'[t] = p /\ name'[t] = b /\ at'[t] = p
    BY <1>0, <1>1 DEF Start, TypeOK
  <2>2. Reaches(p, b, p)
    BY DEF Reaches
  <2>3. QED
    BY <1>1, <2>1, <2>2 DEF Path, Reaches, HasPreset
<1>2. CASE SymGet(t) \/ SymFind(t) \/ SymAdd(t)
  <2>1. CASE SymGet(t)
    BY <1>1, <2>1, SymPoolAssumption DEF SymGet
  <2>2. CASE SymFind(t)
    BY <1>1, <2>2 DEF SymFind
  <2>3. CASE SymAdd(t)
    BY <1>1, <2>3, SymPoolAssumption DEF SymAdd
  <2>4. QED
    BY <1>2, <2>1, <2>2, <2>3
<1>3. ASSUME UNCHANGED <<op, pool, name>>, pc[t] # "idle",
             /\ pc'[t] \in {"rlock", "lookup", "runlock"} =>
                  Reaches(pool[t], name[t], at'[t])
             /\ pc'[t] = "runlock" /\ sym'[t] = NULL => ~HasPreset(at'[t], name[t])
             /\ pc'[t] \in {"alloc", "lock", "insert", "relink", "unlock", "free"} =>
                  /\ op[t] \in {"symget", "symadd"}
                  /\ \/ name[t] \in Added
                     \/ NoPreset(pool[t], name[t])
      PROVE  Path(t)'
  BY <1>0, <1>3 DEF Path, NoPreset, Reaches, HasPreset
<1>4. CASE RLock(t)
  <2>1. pc'[t] = "lookup" /\ at' = at /\ UNCHANGED <<op, pool, name>> /\ pc[t] = "rlock"
    BY <1>0, <1>4 DEF RLock, TypeOK
  <2>2. QED
    BY <1>0, <1>3, <2>1 DEF Path
<1>5. CASE Lookup(t)
  <2>1. /\ pc'[t] = "runlock" /\ at' = at /\ UNCHANGED <<op, pool, name>> /\ pc[t] = "lookup"
        /\ sym'[t] = NULL => Named(at[t], name[t]) = {} \/ at[t] \in torn
    <3>1. PICK s \in Ptr \cup {NULL} :
            /\ \/ s \in Named(at[t], name[t])
               \/ s = NULL /\ (Named(at[t], name[t]) = {} \/ at[t] \in torn)
            /\ sym' = [sym EXCEPT ![t] = s]
      BY <1>5 DEF Lookup
    <3>2. at[t] \in Pool
      BY <1>5 DEF Settled, IInv, View, ArgsView, Lookup
    <3>3. NULL \notin Named(at[t], name[t])
      BY <1>0, <3>2, SymPoolAssumption DEF TypeOK, Named
    <3>4. sym'[t] = s
      BY <1>0, <3>1 DEF TypeOK
    <3>5. pc'[t] = "runlock" /\ at' = at /\ UNCHANGED <<op, pool, name>> /\ pc[t] = "lookup"
      BY <1>0, <1>5 DEF Lookup, TypeOK
    <3>6. QED
      BY <3>1, <3>3, <3>4, <3>5
  <2>2. at[t] \in Pool /\ t \in readers[at[t]]
    BY <2>1 DEF Settled, IInv, View, ArgsView, LockView
  <2>3. at[t] \notin torn
    <3>1. SUFFICES ASSUME at[t] \in torn PROVE FALSE
      OBVIOUS
    <3>2. writer[at[t]] \in Thread
      BY <3>1 DEF Settled, IInv, Shared, TornByWriter
    <3>3. writer[at[t]] # NULL
      BY <3>2, SymPoolAssumption
    <3>4. QED
      BY <1>0, <2>2, <3>3 DEF TypeOK
  <2>4. sym'[t] = NULL => ~HasPreset(at[t], name[t])
    BY <2>1, <2>2, <2>3, SymPoolAssumption DEF Settled, Built, HasPreset, Named
  <2>5. QED
    BY <1>0, <1>3, <2>1, <2>4 DEF Path
<1>6. CASE NextBase(t)
  <2>1. /\ pc'[t] = "rlock" /\ at'[t] = Base[at[t]] /\ UNCHANGED <<op, pool, name>>
        /\ pc[t] = "runlock" /\ sym[t] = NULL /\ Base[at[t]] # NULL
    BY <1>0, <1>6 DEF NextBase, TypeOK
  <2>2. at[t] \in Pool /\ pool[t] \in Pool
    BY <2>1 DEF Settled, IInv, View, ArgsView
  <2>3. Reaches(pool[t], name[t], Base[at[t]])
    BY <1>0, <2>1, <2>2, ReachesNext DEF Path
  <2>4. QED
    BY <1>3, <2>1, <2>3
<1>7. CASE NotFound(t) /\ op[t] = "symget"
  <2>1. /\ pc'[t] = "alloc" /\ UNCHANGED <<op, pool, name>>
        /\ pc[t] = "runlock" /\ sym[t] = NULL /\ Base[at[t]] = NULL
    BY <1>0, <1>7 DEF NotFound, TypeOK
  <2>2. at[t] \in Pool /\ pool[t] \in Pool
    BY <2>1 DEF Settled, IInv, View, ArgsView
  <2>3. Reaches(pool[t], name[t], at[t]) /\ ~HasPreset(at[t], name[t])
    BY <1>0, <2>1 DEF Path
  <2>4. NoPreset(pool[t], name[t])
    BY <2>1, <2>2, <2>3, ReachesOne DEF NoPreset
  <2>5. QED
    BY <1>3, <1>7, <2>1, <2>4
<1>8. CASE Alloc(t) \/ Lock(t) \/ Insert(t) \/ Relink(t) \/ UnlockExists(t)
  <2>1. /\ pc'[t] \in {"lock", "insert", "relink", "unlock", "free"}
        /\ UNCHANGED <<op, pool, name>>
        /\ pc[t] \in {"alloc", "lock", "insert", "relink", "unlock", "free"}
    BY <1>0, <1>8 DEF Alloc, Lock, Insert, Relink, UnlockExists, TypeOK
  <2>2. QED
    BY <1>0, <1>3, <2>1 DEF Path
<1>9. CASE Found(t) \/ (NotFound(t) /\ op[t] # "symget") \/ UnlockAdded(t) \/ Free(t)
  <2>1. pc'[t] = "idle"
    BY <1>0, <1>9 DEF Found, NotFound, UnlockAdded, Free, Return, RUnlock, TypeOK
  <2>2. QED
    BY <2>1 DEF Path
<1>10. QED
  BY <1>2, <1>4, <1>5, <1>6, <1>7, <1>8, <1>9 DEF Step

\* The path of a thread is its own.
LEMMA PathStill ==
  ASSUME NEW t \in Thread, Path(t), NEW u,
         /\ pc'[t] = pc[t] /\ op'[t] = op[t] /\ pool'[t] = pool[t] /\ name'[t] = name[t]
         /\ at'[t] = at[t] /\ sym'[t] = sym[t]
  PROVE  Path(t)'
BY DEF Path, NoPreset, Reaches, HasPreset

LEMMA SettledInitially == Init => Settled
<1> SUFFICES ASSUME Init PROVE Settled
  OBVIOUS
<1>1. IInv
  BY Initially
<1>2. Built /\ Grown /\ Homes
  BY SymPoolAssumption DEF Init, Built, Grown, Homes
<1>3. \A t \in Thread : Path(t)
  BY DEF Init, Path
<1>4. QED
  BY <1>1, <1>2, <1>3 DEF Settled

LEMMA SettledInductive == Settled /\ [Next]_vars => Settled'
<1> SUFFICES ASSUME Settled, [Next]_vars PROVE Settled'
  OBVIOUS
<1>0. IInv' /\ TypeOK
  BY Inductive DEF Settled, IInv
<1>1. ASSUME NEW t \in Thread, Step(t)
      PROVE  Settled'
  <2>1. Built' /\ Grown' /\ Homes' /\ Path(t)'
    BY <1>1, BuiltStep, GrownStep, HomesStep, PathStep
  <2>2. ASSUME NEW u \in Thread \ {t}
        PROVE  Path(u)'
    <3>1. /\ pc'[u] = pc[u] /\ op'[u] = op[u] /\ pool'[u] = pool[u] /\ name'[u] = name[u]
          /\ at'[u] = at[u] /\ sym'[u] = sym[u]
      BY <1>0, <1>1
      DEF TypeOK, Step, Goto, SymGet, SymFind, SymAdd, Start, RLock, Lookup, Found, NextBase,
          NotFound, Alloc, Lock, Insert, Relink, UnlockAdded, UnlockExists, Free, Return, RUnlock, args
    <3>2. QED
      BY <3>1, PathStill DEF Settled
  <2>3. QED
    BY <1>0, <2>1, <2>2 DEF Settled
<1>2. CASE UNCHANGED vars
  <2>1. Built' /\ Grown' /\ Homes'
    BY <1>2 DEF Settled, vars, Built, Grown, Homes, Home, NoPreset, Reaches, HasPreset
  <2>2. \A t \in Thread : Path(t)'
    BY <1>2, PathStill DEF Settled, vars
  <2>3. QED
    BY <1>0, <2>1, <2>2 DEF Settled
<1>3. QED
  BY <1>1, <1>2 DEF Next

\* Whichever threads look a name up at once, the users of a pool get one symbol
\* for it, so that names may be compared by their addresses.
THEOREM NamesAreInterned == Spec => []Interned
<1>1. ASSUME Settled, NEW g \in given, NEW h \in given,
             g[1] = h[1], g[2] = h[2], g[2] \notin Added
      PROVE  g[3] = h[3]
  <2>1. /\ g[1] \in Pool /\ g[3] \in Ptr /\ h[3] \in Ptr
        /\ header[g[3]] = g[2] /\ header[h[3]] = g[2]
    BY <1>1 DEF Settled, IInv, TypeOK, Shared, Given
  <2>2. Home(g[1], g[2], g[3]) /\ Home(g[1], g[2], h[3])
    BY <1>1 DEF Settled, Homes
  <2>3. ASSUME NEW s \in {g[3], h[3]}, Preset[s] \in Pool, Reaches(g[1], g[2], Preset[s])
        PROVE  HasPreset(Preset[s], g[2]) /\ ~NoPreset(g[1], g[2])
    <3>1. PresetName[s] = g[2]
      BY <1>1, <2>1, <2>3, SymPoolAssumption DEF Settled, Built
    <3>2. QED
      BY <2>1, <2>3, <3>1 DEF HasPreset, NoPreset
  <2>4. CASE NoPreset(g[1], g[2])
    <3>1. g[3] \in tree[g[1]] /\ h[3] \in tree[g[1]]
      BY <2>2, <2>3, <2>4 DEF Home
    <3>2. QED
      BY <1>1, <2>1, <3>1 DEF Settled, IInv, Shared, Unique
  <2>5. CASE ~NoPreset(g[1], g[2])
    <3>1. /\ Preset[g[3]] \in Pool /\ Reaches(g[1], g[2], Preset[g[3]])
          /\ Preset[h[3]] \in Pool /\ Reaches(g[1], g[2], Preset[h[3]])
      BY <2>2, <2>5 DEF Home
    <3>2. HasPreset(Preset[g[3]], g[2]) /\ HasPreset(Preset[h[3]], g[2])
      BY <2>3, <3>1
    <3>3. Preset[g[3]] = Preset[h[3]]
      BY <2>1, <3>1, <3>2, ReachesOne
    <3>4. PresetName[g[3]] = g[2] /\ PresetName[h[3]] = g[2]
      BY <1>1, <2>1, <3>1, SymPoolAssumption DEF Settled, Built
    <3>5. QED
      BY <2>1, <3>1, <3>3, <3>4, SymPoolAssumption
  <2>6. QED
    BY <2>4, <2>5
<1>2. Settled => Interned
  BY <1>1 DEF Interned
<1>3. QED
  BY <1>2, SettledInitially, SettledInductive, PTL DEF Spec
=============================================================================
