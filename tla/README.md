# Verification of co: the scheduler and the compiler's core

TLA+ modules, TLC runs and TLAPS proofs about the programming language `co`: its runtime
(`src/src/rt`, coroutines scheduled over OS threads) and its compiler (`src/src/co`).
`PROJECT.json` maps every definition to the lines it stands for; this file says what the
system is, how it is modelled, what is checked, what is proved and what is left.

Paths below are relative to `src/src/`.

## 1. The system

### Runtime (`rt/`)

A port of Go's scheduler to C11 atomics. *T* is a coroutine, *M* an OS thread, *P* a
processor: the right to run coroutines, with a queue of runnable ones.

| component | state | operations | interacts through |
|---|---|---|---|
| local run queues (`sched.c:1195-1360`) | `P.runqhead`, `runqtail`, `runq[256]`, `runnext` | `p_runqput`, `p_runqget`, `p_runqgrab`, `p_runqsteal`, `p_runqempty` | owner and thieves race on atomics, no lock |
| M:P:T scheduler (`sched.c`) | `S.pidle`, `npidle`, `nmspinning`, `idlepMask`; `M.p`, `M.spinning`, `M.nextp`, `M.locks`; `P.m`, `P.status`; `T.status` | `sched_spawn`, `t_yield`, `t_exit`, `schedule`, `s_findrunnable`, `s_stealwork`, `p_wake`, `p_startm`, `s_newm`, `m_start` | `S.lock`, two atomic counters, the queues, the idle list |
| task lists | `P.tfree`, `tfreecount`, `S.tfree`, `T.schedlink`, `allt` | `p_tfree_get/put/purge`, `TQueue*`, `TList*`, `t_alloc`, `t_free`, `allt_add` | batches move between a P and the scheduler under `S.tfree.lock`, and the list is looked at without it |
| steal order, bitmaps | `stealOrder`, `idlepMask`, `timerpMask` | `randord_*`, `randenum_*`, `vbm_*`, `array_*` | read by every stealing M |
| parking | `M.park`, `S.midle` | `note_*`, `m_park`, `m_stop`, `s_midleput`, `s_checkdeadlock` | `TODO_IMPL` on every path |
| channels (`chan-wip/`) | buffer, wait queues | `chansend`; `chanrecv` is a stub | not built |
| contexts and stacks | registers, mmap | `exectx_*`, `stack_*` | assembly |

Hard behaviour: every access to a queue interleaves with the owner's and with other
thieves'; the counters are read outside the lock that guards the list they count; an M that
goes to sleep races with an M that makes a task runnable and may decide that nobody needs
waking.  What makes it correct: no task is lost, duplicated or run by two Ms; a P belongs to
one M; an idle P has no work; the counters match what they count; a dead task is on one list; a
round of stealing passes by no P with work; and no runnable task is left behind while a P is idle.

### Compiler (`co/`)

`co.c` runs a pipeline: scan the sources, parse, resolve symbols, resolve types, emit LLVM IR
and link.  It is sequential but for the interning of symbols, which is written to be shared by
threads.

| component | state | operations | what makes it correct |
|---|---|---|---|
| hash maps (`util/hashmap.c.h`) | buckets of 8 entries, `len`, `cap` | `Get`, `Set`, `Del`, `mapGrow` | behaves as a map; `len` is the number of keys |
| symbol pool (`util/sym.c`, `rbtree.c.h`) | a tree per pool, base pools, a read-write lock | `symget`, `symadd`, `symaddh` | one symbol per name, whatever the threads do; the tree stays ordered and balanced |
| scanner (`parse/scan.c`) | input, indentation stack, implicit-semicolon flag | `ScannerNext` | blocks opened by indentation are closed, one token per input position, it ends |
| parser, AST (`parse/parse.c`) | token stream, scope stack, tree | `Parse`, `P*`, `scopestack*`, `lookupsym*`, `defsym` | a name means its innermost definition; only top-level definitions reach the package; a mark "unresolved" reaches every node above |
| symbol resolution (`parse/resolve_sym.c`) | the marks and targets of nodes | `ResolveSym` | everything marked is visited and resolved or reported; the walk ends |
| type resolution (`parse/resolve_type.c`, `convlit.c`, `eval.c`, `typeid.c`) | type context, stack of functions, types of nodes, ids of types | `ResolveType`, `convlit`, `NodeEval`, `TypeEquals` | what is accepted is well typed; a literal converts only if it fits; the context is put back |
| IR builder (`ir/irbuilder.c`, `ir.c`) | current function and block, `vars`, `defvars`, `funstack`, the graph | `ast_add_*`, `startBlock`, `endBlock`, `startFun`, `endFun`, `var_read`, `IRFunMoveBlockToEnd`, `IRBlockDiscard` | edges agree, a value is computed wherever it is used, the graph means what the program means |
| constants (`ir/constcache.c`) | a bitmap of types, a tree of values per type | `IRConstCacheGet`, `IRConstCacheAdd` | one value per constant and function |
| positions, diagnostics (`pos.c`, `build.c`) | packed u64 positions, error count | `pos_make`, `b_mkdiag` | fields do not overflow into each other |
| LLVM back end (`llvm/llvm.c`) | values cached at nodes (`irval`), memory reserved for the next value (`varalloc`), `noload`, the current block; the module is the library's | `build_*` | the code means what the program means |
| Binaryen back end (`bn/bn.c`) | the library's | `emit*` | experimental; out of scope |

`PROJECT.json` lists each component with its status, and under `hazards` what is hard to test
in this code, at its line.

## 2. Plan

1. `RunQueue`, `WorkQueues`, `RunQueueProofs` (done): the
   lock-free queues, what they promise, and that they keep it for any number of processors.
2. `Sched`, `SchedProofs`, `WorkQueuesProofs` (done): the M:P:T protocol over the
   promised queues, with all its safety properties proved.
3. `HashMap`, `HashMapProofs`, `SymPool`, `SymPoolProofs` (done): the compiler's shared data structures,
   against the last value put and against unique names.
4. `ScopeStack`, `Parser`, `ResolveSym`, `ResolveSymProofs` (done): what a source does to the
   scopes, the tree and its marks, and the walk that resolves the rest; for every source, that the array of cells is a
   stack of scopes.
5. `Ast`, `Syntax`, `TypeResolver`, `LLVMBuilder`, `LLVMModule`, `Meaning`, `Compiler` (done): the
   passes from the terms of a program to LLVM code, against what the program means.
6. `IR`, `IRBuilder`, `IRGraph`, `IROps`, `IROpsMeaning` (done): Co's own graph of blocks and values, as a reader may
   take it, and the generated tables of its operations.
7. `TaskLists`, `TaskListsProofs`, `StealOrder`, `StealOrderProofs`, `RBTree`, `Scanner` (done): the parts of the scheduler and of the
   compiler that meet nothing else, each explored by itself in one run, `parts`, with `HashMap`.
8. Proofs that are left: what `WarnedIsUnused`, `MarksCounted`, `AllResolved` and `OnlySelfNamedEndless` say of the parser and
   the resolver, which need an invariant over paths of the tree and not only over the stack of scopes.

No module that carries theorems, or is used by one, has a RECURSIVE operator.  The runs stay
at most twelve: one question each.

## 3. The models

### RunQueue

One action per access of shared memory.  `pc[p]` is where the M that owns `p` is; what it does
between two accesses touches only its locals and is folded into the access before it.  The
owner's reads of its own tail need no step: nobody else writes it.

| code | actions |
|---|---|
| `p_runqput` | `Spawn` or `Yield` (the first load), `PutNext`, `KickNext`, `CasNextFail`, `PutHead`, `PutSlot`, `PutFull`, `PutTail` |
| `p_runqget` | `GetNext`, `GetNextCas`, `GetHead`, `GetHeadCas` |
| `p_runqsteal`, `p_runqgrab` | `Steal`, `GrabHead`, `GrabTail`, `Copy`, `GrabCas`, `GrabNext`, `GrabNextCas`, `StealDone` |
| `p_runqempty` | `EmptyHead`, `EmptyTail`, `EmptyNext`, `EmptyReport`, `EmptyRetry` |

A thief steals only after its own queue was found empty, as `schedule()` and `s_findrunnable`
do; an `Observer` is an M without a P that calls `p_runqempty` (the second look of
`s_findrunnable`).  Copying is one step per task, so that the owner can wrap the ring under the
thief.  Loads and stores are sequentially consistent here.  The code uses relaxed and
acquire/release orders: what those add is out of TLC's reach and is not claimed.

Counters are natural numbers; in the code they are `u32`.  `RunQueueProofs!WrapSound` proves
that the differences and slots computed modulo 2^32 are the ones of the unwrapped counters as
long as head and tail are less than 2^32 apart, which `RingsInBounds` gives.

`WorkQueues` is the promise: FIFO queues with a slot that jumps the queue, whose operations
are atomic, and where a steal takes the oldest tasks, at most half (rounded up).  The refinement
maps a ring to the sequence of tasks between head and tail; the linearization points are the
store of the tail, the CAS of the head and the CAS of runnext.

### Sched

The queues are those of `WorkQueues`: `UsesWorkQueues` shows that `Sched` uses them as `RunQueue`
assumes (the owner puts, and steals only with an empty queue).  Its mapping gives a P the tasks in the hands of
the M that has it by `M.p`, which holds with and without assertions, and not by `P.m`, which only
builds with assertions keep.  One action per
read or update of `npidle` and `nmspinning`; the sections under `S.lock` that change both the
idle list and its count are two steps, because the count and the masks are read without the
lock.

* `TODO_IMPL` is modelled as what it does: `Abort` stops the program.  An M that finds nothing
  therefore ends the program as soon as it has taken its second look; the properties are about
  everything before.
* The global run queue and the list of idle Ms are always empty in the present code
  (`s_procresize` runs once, `s_midleput` aborts), so `s_runqget` and the branch of `p_startm` that
  wakes an idle M have no action.
* The order of stealing is arbitrary and `StealNothing` is always possible: what
  `randenum_next` reads of the coprimes is not what `randord_init` wrote (hazard at `sched.c:210`).
* `idlepMask` follows `pidle`; `timerpMask` only decides which `TODO_IMPL` is reached.
* The rings never fill: `|T|` is far below 256 (RunQueue deals with full rings).
* `Debug` says whether assertions are compiled in, because one of them releases a P.
* `gaveup` is a history variable: some `p_startm` found no idle P.

### HashMap

One action per branch of `Set` (`SetReplace`, `SetReuse`, `SetNew`, `SetGrow`), `Del` and `Clear`;
`Get` is the operator `Lookup`, and what `Iter` visits `LiveSlots`.  A bucket is the sequence of
its entries with a key: entries are filled from the front and deleting one leaves its key.
`mapGrow` copies into buckets of a multiple of the capacity, so that new bucket `i` gets entries
of old bucket `i % cap` only: an entry always fits, and the branch that doubles again is
never taken (`NothingIsRehashed`); that `Set` comes back and doubles again is (`Room`).  `put` and `due` remember
what was put and what the operation should return.  `shadowed` is set when a key is put into the
slot of a deleted one while its bucket still has it further on: from then on the map has the key
twice.  Nothing but the tests deletes keys.

Keys are numbers that hash to themselves, so the cfg chooses which collide; `Word` stands for 2^32.

### TaskLists

A dead task with memory of the default size is kept for the next `sched_spawn`: by the P (at most 63),
or by the scheduler, to which a P gives batches and from which it refills to 32.  All lists go through
`T.schedlink`, so a task left on two lists would run twice.  What is done under `S.tfree.lock` is one step, the
look at the shared list without the lock (`Spawn`), the refill (`Refill`), and what follows it (`GetFree`, `GetNew`)
are steps of their own; `p_tfree_put` takes the batch off its own list (`ExitSpill`) and puts it on the
shared one under the lock (`Spill`).  `batch` is the queue in between.  Popping and pushing turn the links
around, which `Turned` says for a whole batch; `TListPushAll` links the end of a queue to what the list held.
Which fresh memory a new task gets makes no difference: the first free name is taken.

`SpawnTooSmall` is the error of `sched_spawn` that leaves the M locked: the assertion of the next
`schedule()` fails (`aborted`).  `allt` has the length, the capacity and the bytes written of the table of all
tasks: `allt_add` writes the ninth entry past an allocation of 64 bytes.  Both are modelled as
they are; neither has a property, as what the code says of them is only what it does.

### StealOrder

The order in which `s_stealwork` tries the Ps: `randord_reset` appends the coprimes of the number of Ps with
`array_append`, one byte each at the end, and `array_get` reads the byte at four times the index.  What was not
written reads as `junk`.  `enum` is the `RandomEnum`, `read` whether its increment was read where it was written.
Other Ms put Ps on the idle list and take them off meanwhile (`s_pidleput`, `s_pidleget`, with both masks).
`tried` and `busy` remember the round.  A mask is the set of its bits, each a word and a bit of it.

### RBTree

The left-leaning red-black tree of `rbtree.c.h`, as a value: a node with its two subtrees.  An operation is one
action, since the pool's lock is held around it (`SymPool` has the threads and the torn tree).  `RBCmp` is the comparison
the tree is built with and `symlookup` the one that `symget` and `symfind` write out by hand.
`failed` says that an assertion failed or a null pointer was followed.

`RBDelete` has no caller in the repository.  It is modelled with what it promises, and it does not
keep the tree as it finds it: after one deletion a red may lean right, after an insertion that
follows two reds may be in a row, and a second deletion may then fail `assert(node->right == NULL)` of
`rbDeleteMin` (keys of hashes 1, 2, 3 and 3, 4 in that order, without the first and then the third) or go through a
null pointer; a key that is not there fails an assertion, although the comment says "removes k if found"
(`rbtree.c.h:111`).  The properties are about trees without deletions, and the blacks, the search and the
count also after one (`MaxDeletes`).

### Scanner

One action is one pass of `ScannerNext`, up to a token or to `scan_again`.  A source is a sequence of characters, one
for each kind that the scanner tells apart (`w` for all letters, `k` for a keyword, `u` for all
beyond ASCII); `Source` are the sources of a run.  `Unwound` is the level after the one that a
pass closes first, `Settled` the level of the line.  `toks` has the tokens, those of the source
with the place of their first character.

The property has its own reading of a source, by lines: which lines open a block (further in than the
line before, which ends a statement) and which are in it.  It is stated for lines that are
`Regular`: what the scanner does otherwise is in "What the code does not do".

### SymPool

A thread calls `symget`, `symfind` or `symadd` and goes through the pool and its bases, one step
for each lock operation, lookup, allocation and free.  `rwmtx_t` is a submodule that is not in the
repository: the lock is modelled by what its users expect of it.  An insertion is two steps, the
way down the tree (`Insert`) and the relinking on the way up (`Relink`); in between the tree is
`torn` and a lookup may miss anything, which is what the lock must prevent.  Addresses of freed
symbols may be allocated again at once.  `given` remembers what was returned to whom.

Base pools are not added to: sym.h calls them read-only (line 35), and the compiler's only
base is the universe, which is built statically.  `Added` are the names given to `symadd`, which by
design hides a base's symbol.

### ScopeStack, Parser, ResolveSym

`ScopeStack` has the operators on the one array that holds all open scopes of a file (`pushScope`,
`popScope`, the walks of `lookupsym` and `lookupsymShallow`, the bindings of the package that
`lookupsymPkg` leaves in the current scope), cell by cell.  `scopestackGrow` doubles the
allocation, which starts at `Storage` cells.

`Parser` is the recursive descent.  Its call stack is `todo`: an entry waits for the one above it to
return, and `val` is the node that was returned.  A parselet is an action for what it does before
it parses a subexpression and one for each thing it does after, with the name of what it waits for:

| code | actions |
|---|---|
| `PId`, `PIntLit`, `PAuto`, `PVarOrConst`, `pArrayLit`, `PBlockOrStructType`, `PIf`, `PFun`, `PStructType`, `PTypeDef` | `PId`, `PLiteral`, `PVarOrConst`, `pArrayLit`, `PBlock`, `PIf`, `PFun`, `PStructType`, `PTypeDef` |
| `PRefPrefix`, `PPrefixOp`; `pRefType`, `pArrayType`; `PReturn` | `PPrefixOp` (by the kind of node); `pRefType`; `PReturn` |
| `PIdTrailing`, `pAssignToId`, `PInfixOp`, `PLBrackInfix`, `pAssignToBase`, `PPostfixOp`, `PSelector`, `PCall`, `PAs` | `PIdTrailing`, `pAssignToId`, `PInfixOp`, `PPostfixOp`, `PCall`, `PAs` |
| the rest of `PVarOrConst`, `make_var` | `VarType`, `MakeVar` |
| `pBlock`, `popScopeAndCheckUnused` | `BlockMember`, `EndBlock` |
| `pParams`, the rest of `PFun` | `Param`, `Signature`, `FunBody`, `EndFun` |
| `pField`, `pStructType` | `Field`, `FieldDefined`, `FieldEnd`, `EndStruct` |
| the rest of `PIf`, `pArgs`, `PCall`, `PAs`, and of parselets with one operand | `ThenBranch`, `List`, `Convert`, `As`, `Child` |
| `Parse` | `ParseInit`, `FileMember` |

`ast` is the tree: a node has its kind, its name, the children it owns, its type, its target and
the flags that matter here (`unres` NodeFlagUnresolved, `const` NodeFlagConst, `used` nrefs > 0).
Nodes without state of their own are shared: `Prim` stands for all basic types and constants of the
universe, `Lit` for all literals.  The source is chosen while it is read, so that a behaviour is a
source with its parse; `next` remembers what a parselet has seen of the next token.  Any infix
parselet may follow an expression and none need: parentheses allow it.  A syntax error stops the
program (`DEBUG_PANIC_ON_PARSE_ERROR`, status `panic`), other errors set `errors`.

`ResolveSym` is the walk over marked children, and uses `todo` for its own calls; `Enter` and `Leave`
are the two ends of a call of `_resolve_sym`, `LookUp` the part of `resolve_id` that asks the package.

History variables: `env` has the bindings as a stack of scopes, which is what the array must agree
with (`ScopesAgree`); `warned` the variables that were reported as unused; `leaked` says that a scope
was pushed on an empty stack.  Then its base is 0, the base of the top level, and its definitions go
to the package.  The properties about scopes are claimed for sources that do not do that.

### Compiler, Ast, Syntax, TypeResolver, LLVMBuilder, LLVMModule, Meaning

The passes after the scanner, on whole programs.  A program is a sequence of declarations, each a
term (`<<"fun", "f", parameters, type, body>>`, `<<"set", "x", e>>` and so on) as the tokens would
spell it, and `Programs` the set of them a run explores.  The store `s` is the compiler's memory: `n`
the table of nodes, whose numbers stand for addresses (negative ones for the static nodes of
`universe.c`), the parser's bindings, the type context and the stack of functions of the resolver, the
diagnostics, the state `b` of the back end and its module `m`.  A pass is a recursive operator from
a store to a store, with the node that the function returns in `s.r`; `stop` is set where the code
would end (a failed assertion, `panic`, a null pointer), and nothing happens after that.

| module | code | what it keeps |
|---|---|---|
| `Ast` | `ast.c`, `ast.h`, `typeid.c`, `convlit.c`, `eval.c`, `ast_visit.c` | nodes and flags, type ids with their cache, conversion of literals, evaluation |
| `Syntax` | `parse.c` | what parsing a term leaves: nodes, flags, bindings, replaced names.  Names and marks cell by cell are `Parser`'s |
| `TypeResolver` | `resolve_type.c` | one operator per resolver |
| `LLVMBuilder` | `llvm.c` | one operator per builder; calls of the LLVM C API append to the module |
| `LLVMModule` | (external) | the verifier: blocks end once, operands fit, definitions dominate uses; and what instructions do when run |
| `Meaning` | (none) | what a program means: an evaluator of terms over places in memory, the abstract specification |
| `IR` | `ir.c`, `ir.h`, `constcache.c` | the graph in tables of functions, blocks and values; edges, uses, the cache of constants |
| `IRBuilder` | `irbuilder.c` | one operator per builder |
| `IRGraph` | (none) | the graph as its readers may take it: edges, order, dominance, uses; and running it |
| `Compiler` | `co.c` | the phases: `ParseDecl`, `Link`, `ResolveDecl`, `Validate`, `AddDecl`, `BuildGlobal`, `BuildFunction`, `Verify` |

`Link` is `ResolveSym` by its result only; `ResolveSym` is where its walk is.  A step of
`Compiler` is one declaration of one pass: it is sequential, and the hard part is the composition of
the passes and what they leave to each other in nodes.  Integers are scaled: `int` and `uint` are 16 bits
wide (the interpreter of the code, the limits of literals and `Meaning` agree on it), `i8` 8 bits,
and compile-time values 30 bits for 64.  Undefined memory, a missing return value or a
division by zero makes a run of the code undefined (`ub`).  Programs on which the
back end gives up (it panics on casts, slices, booleans and many nestings) end there and
mean nothing: the property is about what is emitted and passes the verifier.

`AddDecl` is the pass that a build with `ENABLE_CO_IR` has (`Ssa`): Co's own intermediate
representation, in static single assignment form.  Its values are numbers into the tables of `s.u`; its
types have lost the sign, `int` being the one of 32 bits.  The trees of the cache of constants are maps.
Nothing in the repository reads the graph but the printer, so `IRGraph` says what `ir.h` promises a
reader, and runs it.

### IROps, IROpsMeaning

`IROps` has the tables that `gen_ops.py` generates (`ir/op.h`, `ir/op.c`, `ir/ir-ast.c`): which operation stands for an operator
and the types of its operands, for a conversion or a constant, and what type its result has.  The rows differ in names only, so
each table is one operator over classes of operations, signs and widths.  `IROpsMeaning` has what the comments of `op.h` say an
operation computes, and what the operators of the language mean.  A state is one question to the tables, and `OperationsMean`
compares the answer with the meaning for all words.  Widths of 8, 16, 32 and 64 bits are scaled to 2, 3, 5 and 7 and significands of
floats to 3 and 5, which keeps which integers a float can hold.  Conversions between integers that change the sign are left
out of the comparison: the tables look up `u8` to `i16` as `i8` to `i16`, and what the number becomes is not said anywhere.

## 4. Runs

| run | question | bounds |
|---|---|---|
| `runq_steal` | is a task lost or duplicated; do the queues implement `WorkQueues` | 2 P, 4 T, ring of 4, 3 puts: batches of two, both directions of stealing, stale heads |
| `runq_ring` | does the ring stay within its slots | ring of 2, 3 puts: fills, wraps, a put that waits for a thief |
| `runq_empty` | does `p_runqempty` ever say empty spuriously | 2 P, one observer, 3 T |
| `runq_live` | does `p_runqget` end although thieves race | fairness of each M |
| `runq_full` | does a put on a full ring end (it does not) | 1 P: no thief comes |
| `sched_safe` | ownership, counts, idle Ps, the second look | 3 P, 3 M, 3 T, symmetric |
| `sched_stranded` | can a runnable task be left behind (it can) | the same |
| `parts` | six parts, each alone: does the map behave as a map; is a dead task on one list; does a round of stealing try all Ps; is the tree balanced and ordered; do blocks follow the indentation; do the operations of the IR compute what the operators mean | 5 keys, buckets of 2, up to 8 buckets, all keys deleted at will; 4 tasks and 2 Ps, refills of 1, spills at 2; 1 to 7 Ps, 3 moves; 9 symbols of 6 hashes, 1 deletion; some 2000 sources; every operator, conversion and pair of types |
| `sympool` | one symbol per name, for ever, and found | 2 threads, 3 names, a pool over a base with two of them, 4 spare addresses |
| `resolve` | do the scopes nest, do marks reach the resolver, does it end | all sources of 4 parselets over a primitive's and one other name, an earlier file with that name or without |
| `compile` | is what the resolver accepts well typed and the code emitted for it right | 6253 programs of nine families, with and without checked references, and with and without Co's own IR |
| `compile_copies` | are arrays copied and their elements stored (they are not) | 4 programs |

Bounds.  `MaxPuts` caps the tasks put to rings, so that the unbounded counters stay finite; it
is larger than the ring in the runs about wrapping.  `Size` is 2 or 4 for 256: the smallest
rings in which a batch of one, a batch of more than one, wrapping and an inconsistent pair of
head and tail exist.  Two Ps suffice for races of one owner and one thief; for a third thief the
theorems hold for any number.  Three Ps and three Ms are the fewest for a lost wakeup: one M gives
up, one goes idle, one spawns.  With two Ps no task is stranded.  `M` also bounds the threads
that can be created.  In `parts` every behaviour chooses one part and moves only that.  In the map the keys 0, 4 and 8 share a bucket with two entries until the
third doubling, when 4 leaves it, and 1 and 3 another: buckets overflow beside buckets with deleted
entries, one doubling is not enough, and entries stay and move.  Four tasks
with refills of one and spills at two (`Low`, `High`) are the fewest with which a batch of two is put in front of a shared
list that is not empty while the other P refills.  Seven Ps have enough coprimes for an increment that is
read from the second written place; with three or five it may come from memory that was not written.  Nine symbols, four of which
share a hash and differ in length, in bytes or in both, make trees of four levels, so that a split below
a split and both rotations on the way up occur.  The sources are all of four lines under a first at columns 0 to 3 that
end statements or go on, three lines with comments and empty ones, and every operator before
every kind of end.  In `sympool` two threads are one more than the lock admits as writers, and every race
is between two; the theorems hold for any number.  Symmetry is used for safety only; `View` in `MCRunQueue` merges
states that differ in locals that will not be read again.

In `resolve`, `MaxSource` counts the parselets and fields of a source, and a function without a
body twice.  Four are enough for a struct with two fields, the second of which names a type the
first has remembered; for a definition after its use in a block, a function or a struct; for a
function that names itself inside its parameter's or result's type; and for scopes three deep with
shadowing.  Unary operators and `BinOp` are left out of `Grammar` there (`Ref` and `Index` do the same
to scopes and marks).  `Storage` is 2, so that the array grows at the first
scope.  `MaxCalls` is above the longest
walk that does not go around for ever (one of `const foo = fun int { foo; foo }` visits the same
nodes three times, as it clears one more mark each time).

In `compile` the programs come from nine families, each the product of a few statements and
expressions of one corner of the language: scalars and globals, arrays, references, tuples and
structs, conditions and returns, widths, functions before and after their callers, and what the back
end refuses.  Functions have two parameters and two or three statements: enough for a value that is
cached before an assignment and used after it, for a branch that is not taken, for literals on either
side of an operator and for a call before its function is typed.  Every function over numbers that
is emitted is run on all arguments from `Samples`.  `Fuel` bounds the depth of calls.  The ninth family,
`Ssas`, is for the graph: conditions of conditions, an `if` as, in and before every branch of another,
branches that make no value, that return, that define a variable of the name of one outside; callees
before and after their callers, three deep; and constants of every type in every order.

Fairness.  Each M keeps taking steps: the operating system runs its threads.  Nothing is assumed
of `Steal` itself.

### What the code does not do

Three runs show that the code differs from what it says (details under `findings`):

* a put on a full ring loops for ever, as `p_runqputslow` is a stub (`sched.c:1217`);
* `p_startm` undoes its increment of `nmspinning` after it has released `S.lock`; a task
  spawned in between wakes nobody although a P has just become idle (`sched.c:1139`).
  `OnlyGivingUpStrands` shows that this is the only hole of the second look;
* an array that is indexed by a variable shares the memory of the array it was copied from, and an
  array literal with elements that vary stores them past its end (`llvm.c:2006`, `llvm.c:882`).

More have no run of their own:

* `assert(p_release() == _p_)` releases the P only if assertions are compiled (`sched.c:2274`;
  `IdleHasNoM` fails with `Debug = FALSE`);
* an identifier without a definition may be left in a tree that was resolved without errors: in the
  type of a variable, arguments, elements, casts, the value of a block and else branches
  (`parse.c:735`, `resolve_sym.c:248`; `NothingLeft` fails).  `MarksCounted` and `AllResolved` show that
  there are no others;
* a constructor that is given all fields by position keeps the arguments as they were before they
  were resolved (`resolve_type.c:914`; the exception `AllFields` of `WellTyped`);
* the name of a struct as the type of a variable is never resolved (the exception of `Validates`);
* `const B i8 = 3` sets flags on the static node of `i8`, which a build may put in read-only memory
  (`Builds` with `TRUE`);
* errors that the back end reports do not stop it: the module is emitted all the same (`co.c`);
* `PtrMapGet` truncates the hash, `PtrMapSet` does not: with a number of buckets that is no power of
  two a key is looked for in another bucket than it was put (`hashmap.c.h:187`; `AnswersUnshadowed`
  fails with `InitBuckets = 3`);
* the resolver recurses for ever on a struct with a field of a type that is not yet defined and a
  later field that names the struct itself (`struct T { y U; x &T }`; `resolve_sym.c:48`, the exception
  of `OnlySelfNamedEndless`), although pStructType allows only references to earlier definitions "to
  enforce no cycles" (`parse.c:1471`);
* a function that is built in the middle of its caller finds the caller's variables under its own
  names, and the caller has none left afterwards (`irbuilder.c:131`; the exception `OfACaller`);
* in Co's own IR the operands of the phi after an `if` without an else are in the other order than the
  edges (`irbuilder.c:679`; `Side`), a return in an else that makes no value is dropped with it, a value
  that follows a return replaces it, and unsigned numbers are divided as signed (the exceptions
  of `SsaMeans`).  Every typed condition is reported as not boolean, as its type is compared with the
  number 0 (`irbuilder.c:566`), and comparisons of numbers fail an assertion;
* a line that closes an indentation which continues a statement, together with blocks around it, has its first
  token put in the inner block if it is not at column 0 (`docs-src/index.md:64-72` has one `}` for each recorded block);
  after a return to a column between two levels the next line at that column opens a block of its own; and after three
  continuations, each further in than the last, a block is left open at the end (`scan.c:357`; the exceptions of `Regular`);
* `nextc` sees the next character only if another one follows (`scan.c:418`): an operator of two characters, or the
  `//` of a comment, at the very end of a source is read as two.  `+` and `-` are characters of names, so that `a+b` is
  one; `>=` is the token of `<=`; a block comment that does not end is accepted;
* with three Ps or more `array_get` reads memory that `array_append` has not written (`sched.c:210`; `read` in
  `TriesEveryBusyP`): a round of stealing may then try one P again and again;
* `RBDelete` leaves a tree that is no longer a left-leaning red-black tree (above, under RBTree).

## 5. Proofs

`RunQueueProofs`: for any sets of processors, observers and tasks, any even ring size and any
number of puts, from `SizeAssumption` and `ConstAssumption`:

* `TypeCorrect`: every variable keeps its type;
* `RingsInBounds`: heads do not pass tails, rings are not overfilled, a stolen batch fits;
* `EmptyIsTrue`: `p_runqempty` returns true only if the queue was empty at an instant of the call.

None of them is inductive.  The invariant `IInv` says for each M, given where it is, what
it may rely on: its own ring (`RingView`), what it remembers of its own queue (`OwnerView`), of its
victim's (`ThiefView`), what it has copied (`CopyView`), its hands (`TaskView`), and for an observer
the snapshot it has read so far (`ObserverView`).  The proof is by rely and guarantee: `Guarantee(p)` is
what a step of `p` does at most to the others (heads and tails only grow, only its own tail and
slots change and no slot that stays in use), `Rely` and `Watched` show once that this preserves every
other M's view and every observer's, and each action then has a lemma for its own view.

It also has `EveryTaskInOnePlace`, that no task is lost or run twice (`NoTaskLost`), from the same
assumptions.  `Held` says at which places a task is: a hand, a slot, an index of a ring
between head and tail, what a thief has taken and not yet published.  `AllAlone` is that each task has
exactly one, and each step moves one task, or a batch, from one place to another.  Taking a batch is the interesting one: the copies are no places until the CAS of the
head, and at the CAS `CopyView` gives that what was copied is what is still between the old head and the new.

Its last part has `RunQueuesAreWorkQueues`, that `RunQueue` implements `WorkQueues`: the initial states
map to initial states and each step to one step or a stutter.  The linearization points are the store of the tail,
the CAS of the head and the CAS of runnext; for every other access the lemma is that the mapped ring does not change
although slots outside of head and tail are written.

`WorkQueuesProofs` has `EachTaskOnce` for the abstract queues, whatever operations are used in
whatever order: each task is dead, in a hand, in a slot, or at one index of one queue or one batch.

`SchedProofs`: for any sets of tasks and any finite sets of Ps and Ms (the counters count them), from the assumptions of
`Sched`, about one invariant `IInv`:

* `TypeCorrect`; both counters stay within their ranges;
* `OneOwnerPerP`: each P is idle, one M's, or on its way to one.  Here `Debug` is assumed, as `p_release` is
  inside an assertion; every other theorem is about both builds;
* `SpinningIsCounted`, `OneStartAtATime`: `nmspinning` is the number of Ms that spin or are being started,
  and of those being started there is one at most;
* `IdlePsAreEmpty`: what is on the idle list has no work, nor has the P of an M that is still spinning;
* `NoTaskForgotten` (`OnlyGivingUpStrands`): as long as no `p_startm` has given up, no task is left
  behind while Ps are idle.

`IInv` has a view of each M by where it is (`Views`: what it holds, whether it spins, whether its queue is empty, what it is about
to do with the lock); `Apart`, that the Ps held, carried and idle are different; `Empty`, what is known to have no work;
`BackLinks`, between `P.m` and `M.p`; `IdleCounted`, with the step by which the holder of the lock is ahead of or behind
the count (`Pending`); `SpinningCounted` and `OneStart`; and `NoneForgotten`: if there is work and an idle P, some M is
`Hopeful`, on its way to a place where it will find the work or wake somebody.  TLC checked all of them over 317 183
states with assertions and 2 782 686 without before they were proved.  Each has a lemma for each group of
actions, most of which leave alone what it is about (`LinksStay`, `IdleStay`, `SpinStay`).

Its last part: in both builds, `SchedUsesWorkQueues` (`UsesWorkQueues`): every step of the scheduler is one operation of
`WorkQueues` by the M that has the P, or none; and, with `EachTaskOnce`, `TaskInOnePlace`: in the scheduler as a whole a task
is dead, in the hands of one M, in one slot, or at one index of one queue or of what one M stole.
`Loads` says what an M holds in its hands where it is.

The three layers fit together: `RunQueue` implements the queues that `Sched` is shown to use, and a
task that the scheduler sees in one place is in one place of the lock-free memory.  The composition is by
hand: `Sched` is over `WorkQueues`, not over `RunQueue`.

`SymPoolProofs`: for any sets of threads, names, pools and addresses, any chain of bases and any
preset trees, from `SymPoolAssumption`:

* `TypeCorrect`, with the exclusion of readers and writers;
* `UniqueNames`: no pool has two symbols of one name;
* `SymbolsStay`: what was returned is never freed, nor its address reused;
* `SymbolsFound`: a search does not pass by a name that had been returned before it began;
* `NamesAreInterned` (`Interned`): who asks a pool for a name, at whatever time, gets the same symbol, unless
  `symadd` hides that of a base.

The invariant again has a view per thread (`View`: its arguments, the lock it holds, the symbol it
allocated or found, what its search may still expect) and facts about the pools (`Shared`).  A
writer that has found nothing relies on the lock for the name to stay absent (`SearchView`), and
the address of a new symbol is nobody else's (`Apart`) because allocated addresses have a name.
`Known` says where an awaited name still is: in the chain of bases from the pool whose turn it is
(`InChain`, the least set closed under `Base`).

`NamesAreInterned` needs more: pools that grow are nobody's base, and what is added to them was in no pool of the chain (`Grown`),
so that a name is either in the first base that was built with it or in the pool itself (`Home`), and a search
has come no farther than that base (`Path`, `Reaches`).  `Settled` is the whole
invariant; TLC checked it over the 194 568 states of `sympool`.

`TaskListsProofs`: `DeadTasksOnOneList` (`EachOnOneList`), for any finite set of tasks, any Ps, and any bounds with 0 < `Low` <= `High`,
from `TaskListsAssumption`.  The property speaks of walks through the links, which no induction over
their length is at hand for.  The invariant `ListInv` says it without walks: there are contents `e[x][r]` and heights `c[x]` with
which the links are stacks (`Stacks`: every task links to the one under it, no task has two places), each head is the top
of its stack, and the tail of a queue is its bottom (`Held`); with it go the facts that let a spill and a refill go on
after the lock was waited for (`UnderWay`: only a P that spills has a queue, and the list of a P that refills is empty).  Four lemmas say what the list
operations do to stacks: `PushTask`, `PopTask`, `MoveTasks` (popping n and pushing each) and `AppendTasks`
(`TListPushAll`).  `NthAt` connects a stack with a walk: two walks that agree at the start agree everywhere, since otherwise they
would part at a least step.  `ChainIsStack` gives the property back, with the counters as cardinalities.

`StealOrderProofs`: `RoundTriesEveryBusyP` (`TriesEveryBusyP`), for any numbers of Ps up to `COMAXPROCS_MAX`, any sizes of
elements and words, any junk in memory and any random numbers, from `StealOrderAssumption`.  What carries it is arithmetic: the
least number of steps of size `a` that lead back to where they began divides the number `n` of Ps, and what remains of
`n` divides `a` too, so that it is 1 if `a` and `n` are coprime (`NoReturn`); fewer than `n` steps then meet no P twice (`StepsApart`) and
`n` steps, by the pigeonhole principle, meet all (`AllReached`).  `ResetGives` says that `randord_reset` appends coprimes only, and at
least one, so that the remainder by their number is defined.  `OrderInv` has for a round where it began and that it tried, of the
Ps it came to, each that was busy all the while (`Under`), which needs that bits are set for Ps on the idle list only (`Marked`)
and that no two Ps share a bit (`BitsDiffer`).  TLC checked `OrderInv` over the states of up to 8 Ps, with
elements of one byte and of four, before it was proved.

`HashMapProofs`: for any keys, values, hashes, number of entries of a bucket, first number of buckets and number of doublings,
from `HashMapAssumption`:

* `TypeCorrect`: no bucket is overfull and every entry is in the bucket of its key;
* `EntriesAreCounted` (`OneEntryPerKey`): each key that has a value is there once, and counted once;
* `AnswersAreRight` (`AnswersUnshadowed`): `Get` finds what was put last.  Its hypothesis, that every number of
  buckets divides `Word`, holds where the first number is a power of two; the code does not see to that (`bn.c:635`);
* `NothingIsRehashed`: `mapGrow` never finds a new bucket full, so its branch "need to grow further" is dead.

`Inv` says that the table is `Filled` as it should be and counted; and, until a key is shadowed, that no bucket has a key twice
(`UniqueIn`) and that a bucket gives for each of its keys the value that was put, and NULL for those it lacks
(`Holds`).  A change of one slot disturbs this for one key only (`ReplacedGives`, `AppendedGives`, `HoldsAfter`): this is where
the reuse of a deleted slot needs that the key is not further on.  Growing is the hard step.  `Moved` copies
one bucket by recursion over its length, so that its facts, too, come from a least counterexample (`MovedPicks`), and
so does that the numbers of buckets are multiples of each other (`CapsDivide`), which brings the entries of new
bucket `i` all from old bucket `i % cap` (`RemainderOfMultiple`).  `Draws` is what remains of a copy: which
entry came from where, each once; from it follow the keys, the values and, by a bijection between the live slots
(`DrawnBijection`), the number of the entries.  Another bijection, from live slots to keys, gives `OneEntryPerKey` (`LiveKeys`).

`ResolveSymProofs`: for any names, any universe, any first size of the array and
sources of any length, from `ParserAssumption` and `ResolveAssumption`:

* `TypeCorrect`: nodes own and refer to nodes, and the cells in use fit the allocation;
* `ArrayIsScopes` (`ScopesAgree`): what a lookup finds in the one array of cells is the innermost binding of the name;
* `PackageKeepsItsOwn` (`PackageScope`): the package gets what the top level defines and nothing else.

Its first part, about the scope stack, is about the operators alone.  The walk is a recursive function of two arguments, and the library's induction
over data cannot be used; so it is shown to be defined (`WalkFixpoint`) by the union of its finite parts (`WalksTo`), of which
a least one that does not exist or disagrees leads to a contradiction (`LeastOf`).  From its equation (`WalkAt`) it follows that it does not
depend on cells above where it starts (`WalkLocal`).  `Scopes(s, names, bs, depth)` says that an array is `depth` scopes, one in the
other, that begin at `bs[1]` to `bs[depth]`, each with the base of the one around it in its first cell; and each operation keeps such bases
and changes what the walk finds from each of them (`Found`) by the one binding it adds (`BoundScopes`, `OpenedScopes`, `ClosedScopes`).
`ScopesMean` connects that with the bindings of the open scopes (`Nested`), and is what the parser's invariant uses:
`MeansDefine`, `MeansOpen`, `MeansClose` and `MeansRemember` say that it is kept.  The interesting one is
`MeansRemember`: a package's binding may be kept in an inner scope only because no open scope binds that name, and this stays
right when the scope is popped or binds the name itself.

The parser's `IInv` adds `Control`: the tree is typed (`Tree`), the call stack has the file at its bottom and an entry that
ends a scope for each scope that is open (`Stacked`), an entry that uses the value returned last has one (`Given`), the calls of the
resolver are of identifiers that name something (`Calls`), and the package means the outermost scope (`PackageMeans`).  That the call stack
matches the scopes is what rules out a pop without a push.  TLC checked `Control` over the states of
`resolve` before it was proved.  There is a lemma per action (`StepPId`, ...) over a few about entries that are pushed and
values that are returned (`Goes`, `GoQuiet`, `ThenQuiet`, `GoScopes`, `StepCloses`).

What is only model-checked:

* liveness, as TLAPS has no fairness: `GetCompletes`, and the three findings;
* `RBTree` and the passes of `Compiler` (`Ast`, `Syntax`, `TypeResolver`, `LLVMBuilder`, `IRBuilder`, `Meaning`), which are
  RECURSIVE operators over trees; tlapm has no backend for them;
* `Scanner` and `IROps`: what they promise is about particular sources and tables, and
  a bounded exploration of all small ones says most of it;
* of the parser and resolver, `WarnedIsUnused`, `MarksCounted`, `AllResolved` and `OnlySelfNamedEndless`: they speak of
  nodes that can be reached from the file, a recursion over sets of nodes, and their invariants are about which
  marks are still on their way up through the call stack.

## 6. Not modelled

In the parser: tuples and assignments to them, macros, named arguments, `mut`, recovery after syntax
errors, and everything about the types of expressions; in the resolver the same kinds of nodes.
In the scanner: lines and columns of tokens, the list of comments, decoding of UTF-8, the names of keywords and
the warning about mixed blanks.  In the driver: several files, the directory of a package, the cache of objects.
Memory orders weaker than sequential consistency; the memory of bitmaps; `p_tfree_purge`, as Ps are never
removed, and `s_tfree_purge`, which has no caller; floating-point literals and constants;
parking, on whose paths every call ends in `TODO_IMPL`; channels, which are not built; timers, signals,
stacks and context switches; the Binaryen back end, whose state is the library's; LLVM's
optimisation, object files and linking; formatting and command line.  `PROJECT.json` gives the reason per component.
