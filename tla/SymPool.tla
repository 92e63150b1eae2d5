------------------------------ MODULE SymPool ------------------------------
(***************************************************************************)
(* The interning of symbols (src/src/co/util/sym.c): pools of unique        *)
(* strings, each with a search tree behind a read-write lock and an         *)
(* optional base pool that is searched after it.  A thread looks a name up  *)
(* under the read lock, lets go of it, and only then allocates a symbol and *)
(* asks for the write lock: another may have added the name meanwhile.      *)
(*                                                                         *)
(* A tree is the set of the symbols in it (what it does to stay balanced is *)
(* rbtree.c.h).  While it is being relinked, a lookup may miss any of them. *)
(***************************************************************************)
EXTENDS Naturals, FiniteSets

CONSTANTS Thread, Name, NULL,
          Ptr,      \* addresses of symbols; a freed one may be used again
          Pool,
          Base,     \* [Pool -> Pool or NULL]
          Growing,  \* pools that symbols are added to: a base is read-only
          Added,    \* names given to symadd
          Preset,   \* [Ptr -> the pool built with that symbol, or NULL]
          PresetName

ASSUME SymPoolAssumption ==
  /\ NULL \notin Ptr \cup Thread \cup Pool \cup Name
  /\ Base \in [Pool -> Pool \cup {NULL}] /\ Added \subseteq Name
  /\ Growing \subseteq {p \in Pool : \A q \in Pool : Base[q] # p}
  /\ Preset \in [Ptr -> Pool \cup {NULL}]
  /\ PresetName \in [Ptr -> Name \cup {NULL}]
  /\ \A q \in Ptr : Preset[q] = NULL <=> PresetName[q] = NULL
  /\ \A a, b \in Ptr : /\ Preset[a] # NULL /\ Preset[a] = Preset[b]
                       /\ PresetName[a] = PresetName[b]
                       => a = b

VARIABLES header,   \* [Ptr -> Name, or NULL if not allocated]
          tree,     \* [Pool -> SUBSET Ptr]
          torn,     \* pools whose tree is being relinked
          readers,  \* [Pool -> SUBSET Thread], holders of the read lock
          writer,   \* [Pool -> Thread or NULL], holder of the write lock
          pc,
          op,       \* the function that a thread has called
          pool,     \* ... its argument p
          name,     \* ... and data
          at,       \* rp, the pool whose turn it is
          sym,      \* s, the symbol found
          mine,     \* hp, the symbol allocated
          given,    \* history: <<pool, name, symbol>> returned
          due       \* history: the name had been returned before the call

vars == <<header, tree, torn, readers, writer, pc, op, pool, name, at, sym, mine, given, due>>
args == <<op, pool, name, due>>

Init ==
  /\ header = PresetName
  /\ tree = [p \in Pool |-> {q \in Ptr : Preset[q] = p}]
  /\ torn = {}
  /\ readers = [p \in Pool |-> {}]
  /\ writer = [p \in Pool |-> NULL]
  /\ pc = [t \in Thread |-> "idle"]
  /\ op = [t \in Thread |-> NULL]
  /\ pool = [t \in Thread |-> NULL]
  /\ name = [t \in Thread |-> NULL]
  /\ at = [t \in Thread |-> NULL]
  /\ sym = [t \in Thread |-> NULL]
  /\ mine = [t \in Thread |-> NULL]
  /\ given = {}
  /\ due = [t \in Thread |-> FALSE]

Goto(t, l) == pc' = [pc EXCEPT ![t] = l]

\* The symbols that symlookup may find; RBCmp and symlookup compare alike.
Named(p, n) == {q \in tree[p] : header[q] = n}

Start(t, f, p, n, l) ==
  /\ pc[t] = "idle"
  /\ op' = [op EXCEPT ![t] = f]
  /\ pool' = [pool EXCEPT ![t] = p]
  /\ name' = [name EXCEPT ![t] = n]
  /\ at' = [at EXCEPT ![t] = p]
  /\ due' = [due EXCEPT ![t] = \E q \in Ptr : <<p, n, q>> \in given]
  /\ Goto(t, l)
  /\ UNCHANGED <<header, tree, torn, readers, writer, sym, mine, given>>

\* s is returned; the frame of the call is gone.
Return(t, s) ==
  /\ given' = IF s = NULL THEN given ELSE given \cup {<<pool[t], name[t], s>>}
  /\ Goto(t, "idle")
  /\ op' = [op EXCEPT ![t] = NULL]
  /\ pool' = [pool EXCEPT ![t] = NULL]
  /\ name' = [name EXCEPT ![t] = NULL]
  /\ at' = [at EXCEPT ![t] = NULL]
  /\ sym' = [sym EXCEPT ![t] = NULL]
  /\ mine' = [mine EXCEPT ![t] = NULL]
  /\ due' = [due EXCEPT ![t] = FALSE]

-----------------------------------------------------------------------------
(* symget, symfind: the pool and its bases, each under its read lock        *)

SymGet(t) == \E p \in Growing, n \in Name : Start(t, "symget", p, n, "rlock")
SymFind(t) == \E p \in Pool, n \in Name : Start(t, "symfind", p, n, "rlock")

\* Mutation of RLock: readers do not wait for a writer.
RLockShared(t) ==
  /\ pc[t] = "rlock"
  /\ readers' = [readers EXCEPT ![at[t]] = @ \cup {t}]
  /\ Goto(t, "lookup")
  /\ UNCHANGED <<header, tree, torn, writer, args, at, sym, mine, given>>

RLock(t) ==
  /\ pc[t] = "rlock"
  /\ writer[at[t]] = NULL
  /\ readers' = [readers EXCEPT ![at[t]] = @ \cup {t}]
  /\ Goto(t, "lookup")
  /\ UNCHANGED <<header, tree, torn, writer, args, at, sym, mine, given>>

Lookup(t) ==
  LET found == Named(at[t], name[t])
  IN /\ pc[t] = "lookup"
     /\ \E s \in Ptr \cup {NULL} :
          /\ \/ s \in found
             \/ s = NULL /\ (found = {} \/ at[t] \in torn)
          /\ sym' = [sym EXCEPT ![t] = s]
     /\ Goto(t, "runlock")
     /\ UNCHANGED <<header, tree, torn, readers, writer, args, at, mine, given>>

RUnlock(t) ==
  /\ readers' = [readers EXCEPT ![at[t]] = @ \ {t}]
  /\ UNCHANGED <<header, tree, torn, writer>>

Found(t) ==
  /\ pc[t] = "runlock" /\ sym[t] # NULL
  /\ RUnlock(t)
  /\ Return(t, sym[t])

\* Mutation of NextBase: symget does not search the bases.
NextBaseFind(t) ==
  /\ pc[t] = "runlock" /\ sym[t] = NULL /\ Base[at[t]] # NULL
  /\ RUnlock(t)
  /\ IF op[t] = "symget"
     THEN Goto(t, "alloc") /\ UNCHANGED at
     ELSE Goto(t, "rlock") /\ at' = [at EXCEPT ![t] = Base[at[t]]]
  /\ UNCHANGED <<args, sym, mine, given>>

NextBase(t) ==
  /\ pc[t] = "runlock" /\ sym[t] = NULL /\ Base[at[t]] # NULL
  /\ RUnlock(t)
  /\ at' = [at EXCEPT ![t] = Base[at[t]]]
  /\ Goto(t, "rlock")
  /\ UNCHANGED <<args, sym, mine, given>>

NotFound(t) ==
  /\ pc[t] = "runlock" /\ sym[t] = NULL /\ Base[at[t]] = NULL
  /\ RUnlock(t)
  /\ IF op[t] = "symget"
     THEN /\ at' = [at EXCEPT ![t] = pool[t]]
          /\ Goto(t, "alloc")
          /\ UNCHANGED <<args, sym, mine, given>>
     ELSE Return(t, NULL)

-----------------------------------------------------------------------------
(* symadd, and symaddh, which symget ends with                              *)

SymAdd(t) == \E p \in Growing, n \in Added : Start(t, "symadd", p, n, "alloc")

Alloc(t) ==
  /\ pc[t] = "alloc"
  /\ \E q \in Ptr : /\ header[q] = NULL
                    /\ header' = [header EXCEPT ![q] = name[t]]
                    /\ mine' = [mine EXCEPT ![t] = q]
  /\ Goto(t, "lock")
  /\ UNCHANGED <<tree, torn, readers, writer, args, at, sym, given>>

\* Mutation of Lock: it waits for readers only.
LockShared(t) ==
  /\ pc[t] = "lock"
  /\ readers[at[t]] = {}
  /\ writer' = [writer EXCEPT ![at[t]] = t]
  /\ Goto(t, "insert")
  /\ UNCHANGED <<header, tree, torn, readers, args, at, sym, mine, given>>

Lock(t) ==
  /\ pc[t] = "lock"
  /\ readers[at[t]] = {} /\ writer[at[t]] = NULL
  /\ writer' = [writer EXCEPT ![at[t]] = t]
  /\ Goto(t, "insert")
  /\ UNCHANGED <<header, tree, torn, readers, args, at, sym, mine, given>>

\* RBInsert goes down the tree to where the name is or belongs, ...
Insert(t) ==
  LET found == Named(at[t], name[t])
  IN /\ pc[t] = "insert"
     /\ \E s \in Ptr \cup {NULL} :
          /\ \/ s \in found
             \/ s = NULL /\ (found = {} \/ at[t] \in torn)
          /\ sym' = [sym EXCEPT ![t] = s]
     /\ torn' = torn \cup {at[t]}
     /\ Goto(t, "relink")
     /\ UNCHANGED <<header, tree, readers, writer, args, at, mine, given>>

\* Mutation of Relink: the symbol is added even if the name was there.
RelinkAlways(t) ==
  /\ pc[t] = "relink"
  /\ tree' = [tree EXCEPT ![at[t]] = @ \cup {mine[t]}]
  /\ sym' = [sym EXCEPT ![t] = mine[t]]
  /\ torn' = torn \ {at[t]}
  /\ Goto(t, "unlock")
  /\ UNCHANGED <<header, readers, writer, args, at, mine, given>>

\* ... and relinks it on its way up, with the new node if it was not there
\* (added); if it was, symlookup finds it again.
Relink(t) ==
  /\ pc[t] = "relink"
  /\ IF sym[t] = NULL
     THEN /\ tree' = [tree EXCEPT ![at[t]] = @ \cup {mine[t]}]
          /\ sym' = [sym EXCEPT ![t] = mine[t]]
     ELSE UNCHANGED <<tree, sym>>
  /\ torn' = torn \ {at[t]}
  /\ Goto(t, "unlock")
  /\ UNCHANGED <<header, readers, writer, args, at, mine, given>>

\* Added: the symbol is returned as soon as the lock is let go.
UnlockAdded(t) ==
  /\ pc[t] = "unlock" /\ sym[t] = mine[t]
  /\ writer' = [writer EXCEPT ![at[t]] = NULL]
  /\ Return(t, sym[t])
  /\ UNCHANGED <<header, tree, torn, readers>>

UnlockExists(t) ==
  /\ pc[t] = "unlock" /\ sym[t] # mine[t]
  /\ writer' = [writer EXCEPT ![at[t]] = NULL]
  /\ Goto(t, "free")
  /\ UNCHANGED <<header, tree, torn, readers, args, at, sym, mine, given>>

\* Mutation of Free: the symbol that was freed is returned.
FreeReturned(t) ==
  /\ pc[t] = "free"
  /\ header' = [header EXCEPT ![mine[t]] = NULL]
  /\ Return(t, mine[t])
  /\ UNCHANGED <<tree, torn, readers, writer>>

\* "Another thread managed to insert the same symbol before we did."
Free(t) ==
  /\ pc[t] = "free"
  /\ header' = [header EXCEPT ![mine[t]] = NULL]
  /\ Return(t, sym[t])
  /\ UNCHANGED <<tree, torn, readers, writer>>

-----------------------------------------------------------------------------
(* Specification                                                            *)

Step(t) == \/ SymGet(t) \/ SymFind(t) \/ RLock(t) \/ Lookup(t) \/ Found(t)
           \/ NextBase(t) \/ NotFound(t)
           \/ SymAdd(t) \/ Alloc(t) \/ Lock(t) \/ Insert(t) \/ Relink(t)
           \/ UnlockAdded(t) \/ UnlockExists(t) \/ Free(t)

Next == \E t \in Thread : Step(t)

Spec == Init /\ [][Next]_vars

-----------------------------------------------------------------------------
(* Properties                                                               *)

PC == {"idle", "rlock", "lookup", "runlock", "alloc", "lock", "insert", "relink", "unlock", "free"}

\* The types of the variables; the lock excludes readers while it has a writer.
TypeOK ==
  /\ header \in [Ptr -> Name \cup {NULL}]
  /\ tree \in [Pool -> SUBSET Ptr]
  /\ torn \subseteq Pool
  /\ readers \in [Pool -> SUBSET Thread]
  /\ writer \in [Pool -> Thread \cup {NULL}]
  /\ \A p \in Pool : writer[p] = NULL \/ readers[p] = {}
  /\ pc \in [Thread -> PC]
  /\ op \in [Thread -> {"symget", "symfind", "symadd", NULL}]
  /\ pool \in [Thread -> Pool \cup {NULL}]
  /\ name \in [Thread -> Name \cup {NULL}]
  /\ at \in [Thread -> Pool \cup {NULL}]
  /\ sym \in [Thread -> Ptr \cup {NULL}]
  /\ mine \in [Thread -> Ptr \cup {NULL}]
  /\ given \subseteq Pool \X Name \X Ptr
  /\ due \in [Thread -> BOOLEAN]

\* "SymPool holds a set of syms unique to the pool": no name is in a tree
\* twice, whichever threads add it at the same time.
Unique ==
  \A p \in Pool : \A a, b \in tree[p] : header[a] = header[b] => a = b

\* A symbol that was returned is never freed, reused for another name or
\* missing from the pools: threads keep it and compare it by its address.
NeverDangling ==
  \A g \in given : header[g[3]] = g[2] /\ \E p \in Pool : g[3] \in tree[p]

\* "To check equality of syms, simply compare their pointer values": one name
\* has one symbol for the users of a pool, unless symadd hid that of a base.
Interned ==
  \A g, h \in given :
    g[1] = h[1] /\ g[2] = h[2] /\ g[2] \notin Added => g[3] = h[3]

\* What symget or symadd has returned, a later symfind finds: no lookup passes
\* by a name because a thread is relinking the tree.
NeverMissed ==
  [][\A t \in Thread : pc[t] = "runlock" /\ pc'[t] = "idle" /\ due[t] => sym[t] # NULL]_vars
=============================================================================
