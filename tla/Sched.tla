------------------------------- MODULE Sched -------------------------------
(***************************************************************************)
(* The M:P:T scheduler (src/src/rt/sched.c): OS threads M that run tasks T *)
(* while they own a processor P, the idle processors, and the protocol by  *)
(* which a task made runnable finds an M: p_wake, p_startm, the spinning   *)
(* Ms and the second look of s_findrunnable.                               *)
(*                                                                         *)
(* The local run queues are those of WorkQueues, which RunQueue shows that *)
(* the lock-free ones implement.  The loads, stores and atomic updates of  *)
(* S.npidle and S.nmspinning are steps of their own; so are the sections   *)
(* under S.lock in which both a list and a counter change.  The global run *)
(* queue and the list of idle Ms stay empty: only s_procresize, which runs *)
(* once, would fill the first, and s_midleput aborts.                      *)
(***************************************************************************)
EXTENDS Integers, Sequences, FiniteSets

CONSTANTS P,         \* processors, S.allp
          M,         \* OS threads that the program may have
          T,         \* tasks
          NULL,      \* the null pointer
          Debug      \* the build has assertions (not built with -fast)

ASSUME SchedAssumption == /\ Debug \in BOOLEAN
                          /\ NULL \notin P \cup M \cup T
                          /\ IsFiniteSet(P) /\ IsFiniteSet(M)

VARIABLES
  queue, next,    \* [P -> Seq(T)], [P -> T or NULL], the local run queues
  dead,           \* tasks in TDead
  pidle, npidle,  \* S.pidle, which idlepMask follows, and its count
  nmspinning,     \* S.nmspinning
  lock,           \* the M in S.lock, or NULL
  owner,          \* [P -> M or NULL], P.m; PIdle is the status of the unowned
  p,              \* [M -> P or NULL], M.p
  spinning,       \* [M -> BOOLEAN], M.spinning
  cur, tp, batch, \* [M -> T or NULL], M.curt or about to be; a task being
                  \* put; tasks stolen but not yet in the queue
  hand,           \* [M -> P or NULL], a P taken from pidle, or M.nextp
  seen,           \* [M -> Nat], nmspinning as s_findrunnable read it
  was, todo,      \* [M -> BOOLEAN], wasSpinning; queues left to look at again
  pc, halted,     \* where M is; the program has aborted
  gaveup          \* history: some p_startm found no idle P

taskVars == <<queue, next, dead, cur, tp, batch>>
idleVars == <<pidle, npidle, lock, hand>>
ownVars  == <<owner, p>>
spinVars == <<nmspinning, spinning>>
ended    == <<halted, gaveup>>
vars == <<taskVars, idleVars, ownVars, spinVars, seen, was, todo, pc, halted, gaveup>>

Label == {"none", "start", "sched", "find", "check", "busy", "spin", "steal", "stolen",
          "reset", "run", "putnext", "kick", "wake", "wakecas", "startm", "idleget",
          "newm", "giveup", "stop", "idleput", "unspin", "recheck", "reget", "reidle",
          "respin", "out"}

Goto(m, from, to) == ~halted /\ pc[m] = from /\ pc' = [pc EXCEPT ![m] = to]

HasWork(x) == queue[x] # <<>> \/ next[x] # NULL

-----------------------------------------------------------------------------
(* A task runs: sched_spawn, t_yield1, t_exit                               *)

Spawn(m, t) ==
  /\ t \in dead
  /\ Goto(m, "run", "putnext")
  /\ dead' = dead \ {t}
  /\ tp' = [tp EXCEPT ![m] = t]
  /\ UNCHANGED <<queue, next, cur, batch, idleVars, ownVars, spinVars, seen, was, todo, ended>>

\* p_runqput with next = true.
PutNext(m) ==
  /\ Goto(m, "putnext", IF next[p[m]] = NULL THEN "wake" ELSE "kick")
  /\ next' = [next EXCEPT ![p[m]] = tp[m]]
  /\ tp' = [tp EXCEPT ![m] = next[p[m]]]
  /\ UNCHANGED <<queue, dead, cur, batch, idleVars, ownVars, spinVars, seen, was, todo, ended>>

Kick(m) ==
  /\ Goto(m, "kick", "wake")
  /\ queue' = [queue EXCEPT ![p[m]] = Append(@, tp[m])]
  /\ tp' = [tp EXCEPT ![m] = NULL]
  /\ UNCHANGED <<next, dead, cur, batch, idleVars, ownVars, spinVars, seen, was, todo, ended>>

Yield(m) ==
  /\ Goto(m, "run", "sched")
  /\ queue' = [queue EXCEPT ![p[m]] = Append(@, cur[m])]
  /\ cur' = [cur EXCEPT ![m] = NULL]
  /\ UNCHANGED <<next, dead, tp, batch, idleVars, ownVars, spinVars, seen, was, todo, ended>>

Exit(m) ==
  /\ Goto(m, "run", "sched")
  /\ dead' = dead \cup {cur[m]}
  /\ cur' = [cur EXCEPT ![m] = NULL]
  /\ UNCHANGED <<queue, next, tp, batch, idleVars, ownVars, spinVars, seen, was, todo, ended>>

-----------------------------------------------------------------------------
(* p_wake and p_startm, after a spawn or from m_resetspinning.  They return *)
(* to the task, or to schedule() which executes the one it found.           *)

WakeIdle(m) ==
  /\ Goto(m, "wake", IF npidle = 0 THEN "run" ELSE "wakecas")
  /\ UNCHANGED <<taskVars, idleVars, ownVars, spinVars, seen, was, todo, ended>>

\* Mutation of WakeCas: the number of spinning Ms is not looked at.
WakeAlways(m) ==
  /\ Goto(m, "wakecas", "startm")
  /\ nmspinning' = nmspinning + 1
  /\ UNCHANGED <<taskVars, idleVars, ownVars, spinning, seen, was, todo, ended>>

\* "be conservative about spinning threads": one is enough.
WakeCas(m) ==
  /\ Goto(m, "wakecas", IF nmspinning = 0 THEN "startm" ELSE "run")
  /\ nmspinning' = IF nmspinning = 0 THEN 1 ELSE nmspinning
  /\ UNCHANGED <<taskVars, idleVars, ownVars, spinning, seen, was, todo, ended>>

\* Mutation of IdleGet: the P stays on the list.
IdlePeek(m, x) ==
  /\ lock = NULL
  /\ x \in pidle
  /\ hand' = [hand EXCEPT ![m] = x]
  /\ lock' = m
  /\ UNCHANGED <<pidle, npidle>>

\* s_pidleget: first half, the list.  The second is the count.
IdleGet(m, x) ==
  /\ lock = NULL
  /\ x \in pidle
  /\ pidle' = pidle \ {x}
  /\ hand' = [hand EXCEPT ![m] = x]
  /\ lock' = m
  /\ UNCHANGED npidle

IdleCount(m, change) ==
  /\ npidle' = npidle + change
  /\ lock' = NULL
  /\ UNCHANGED pidle

StartM(m, x) ==
  /\ Goto(m, "startm", "idleget")
  /\ IdleGet(m, x)
  /\ UNCHANGED <<taskVars, ownVars, spinVars, seen, was, todo, ended>>

\* Mutation of StartMReserve: s_pidleget does not count.
ReserveUncounted(m) ==
  /\ Goto(m, "idleget", "newm")
  /\ IdleCount(m, 0)
  /\ UNCHANGED <<taskVars, hand, ownVars, spinVars, seen, was, todo, ended>>

StartMReserve(m) ==
  /\ Goto(m, "idleget", "newm")
  /\ IdleCount(m, -1)
  /\ UNCHANGED <<taskVars, hand, ownVars, spinVars, seen, was, todo, ended>>

NoIdleP(m) ==
  /\ Goto(m, "startm", "giveup")
  /\ lock = NULL
  /\ pidle = {}
  /\ UNCHANGED <<taskVars, idleVars, ownVars, spinVars, seen, was, todo, ended>>

\* Mutation of GiveUp: the increment of p_wake is not undone.
GiveUpKept(m) ==
  /\ Goto(m, "giveup", "run")
  /\ UNCHANGED <<taskVars, idleVars, ownVars, spinVars, seen, was, todo, ended>>

GiveUp(m) ==
  /\ Goto(m, "giveup", "run")
  /\ nmspinning' = nmspinning - 1
  /\ gaveup' = TRUE
  /\ UNCHANGED <<taskVars, idleVars, ownVars, spinning, seen, was, todo, halted>>

\* s_newm: a thread starts with the P, and with mstartfn p_startm_mspinning.
\* m_init takes S.lock to set the new M's id.
NewM(m, new) ==
  /\ ~halted /\ pc[m] = "newm" /\ pc[new] = "none"
  /\ lock = NULL
  /\ pc' = [pc EXCEPT ![m] = "run", ![new] = "start"]
  /\ hand' = [hand EXCEPT ![m] = NULL, ![new] = hand[m]]
  /\ UNCHANGED <<taskVars, pidle, npidle, lock, ownVars, spinVars, seen, was, todo, ended>>

\* p_acquire
Acquire(m) ==
  /\ p' = [p EXCEPT ![m] = hand[m]]
  /\ owner' = [owner EXCEPT ![hand[m]] = m]
  /\ hand' = [hand EXCEPT ![m] = NULL]

\* m_start1 of the new thread.
Start(m) ==
  /\ Goto(m, "start", "sched")
  /\ spinning' = [spinning EXCEPT ![m] = TRUE]
  /\ Acquire(m)
  /\ UNCHANGED <<taskVars, pidle, npidle, lock, nmspinning, seen, was, todo, ended>>

-----------------------------------------------------------------------------
(* schedule() and s_findrunnable                                            *)

\* Mutation of GetFrom: only runnext is looked at.
GetNextOnly(m, from, else) ==
  LET x == p[m]
  IN /\ Goto(m, from, IF next[x] = NULL THEN else ELSE IF spinning[m] THEN "reset" ELSE "run")
     /\ next' = [next EXCEPT ![x] = NULL]
     /\ cur' = [cur EXCEPT ![m] = next[x]]
     /\ UNCHANGED <<queue, dead, tp, batch, idleVars, ownVars, spinVars, seen, was, todo, ended>>

\* p_runqget, and t_execute if it finds a task.
GetFrom(m, from, else) ==
  LET x == p[m]
  IN /\ Goto(m, from, IF ~HasWork(x) THEN else ELSE IF spinning[m] THEN "reset" ELSE "run")
     /\ \/ /\ next[x] # NULL
           /\ next' = [next EXCEPT ![x] = NULL]
           /\ cur' = [cur EXCEPT ![m] = next[x]]
           /\ UNCHANGED queue
        \/ /\ next[x] = NULL /\ queue[x] # <<>>
           /\ queue' = [queue EXCEPT ![x] = Tail(@)]
           /\ cur' = [cur EXCEPT ![m] = Head(queue[x])]
           /\ UNCHANGED next
        \/ /\ ~HasWork(x)
           /\ UNCHANGED <<queue, next, cur>>
     /\ UNCHANGED <<dead, tp, batch, idleVars, ownVars, spinVars, seen, was, todo, ended>>

Schedule(m) == GetFrom(m, "sched", "find")

FindLocal(m) == GetFrom(m, "find", "check")

\* "If number of spinning M's >= number of busy P's, block."
LoadSpinning(m) ==
  /\ Goto(m, "check", IF spinning[m] THEN "steal" ELSE "busy")
  /\ seen' = [seen EXCEPT ![m] = IF spinning[m] THEN 0 ELSE nmspinning]
  /\ UNCHANGED <<taskVars, idleVars, ownVars, spinVars, was, todo, ended>>

CheckBusy(m) ==
  /\ Goto(m, "busy", IF 2 * seen[m] >= Cardinality(P) - npidle THEN "stop" ELSE "spin")
  /\ seen' = [seen EXCEPT ![m] = 0]
  /\ UNCHANGED <<taskVars, idleVars, ownVars, spinVars, was, todo, ended>>

\* s_stealwork marks the M as spinning ...
Spin(m) ==
  /\ Goto(m, "spin", "steal")
  /\ spinning' = [spinning EXCEPT ![m] = TRUE]
  /\ nmspinning' = nmspinning + 1
  /\ UNCHANGED <<taskVars, idleVars, ownVars, seen, was, todo, ended>>

\* Mutation of Half: all of them.
Whole(n) == n

\* Half of n tasks, rounded up.
Half(n) == n - n \div 2

\* ... and tries the other Ps that are not idle.  In which order, and whether
\* it comes to each of them, is left open: randenum_next steps by what
\* array_get reads of the coprimes, which need not be what array_append wrote.
Steal(m, v) ==
  LET n == Len(queue[v])
      k == Half(n)
  IN /\ v \notin pidle \cup {p[m]}
     /\ k > 0
     /\ Goto(m, "steal", "stolen")
     /\ batch' = [batch EXCEPT ![m] = SubSeq(queue[v], 1, k)]
     /\ queue' = [queue EXCEPT ![v] = SubSeq(@, k + 1, n)]
     /\ UNCHANGED <<next, dead, cur, tp, idleVars, ownVars, spinVars, seen, was, todo, ended>>

StealNext(m, v) ==
  /\ v \notin pidle \cup {p[m]}
  /\ next[v] # NULL
  /\ Goto(m, "steal", "stolen")
  /\ batch' = [batch EXCEPT ![m] = <<next[v]>>]
  /\ next' = [next EXCEPT ![v] = NULL]
  /\ UNCHANGED <<queue, dead, cur, tp, idleVars, ownVars, spinVars, seen, was, todo, ended>>

StealNothing(m) ==
  /\ Goto(m, "steal", "stop")
  /\ UNCHANGED <<taskVars, idleVars, ownVars, spinVars, seen, was, todo, ended>>

\* The last task stolen is executed, the others become the local queue.
StealDone(m) ==
  LET k == Len(batch[m])
  IN /\ Goto(m, "stolen", "reset")
     /\ cur' = [cur EXCEPT ![m] = batch[m][k]]
     /\ queue' = [queue EXCEPT ![p[m]] = @ \o SubSeq(batch[m], 1, k - 1)]
     /\ batch' = [batch EXCEPT ![m] = <<>>]
     /\ UNCHANGED <<next, dead, tp, idleVars, ownVars, spinVars, seen, was, todo, ended>>

\* m_resetspinning: another M may be needed in its place.
ResetSpinning(m) ==
  /\ Goto(m, "reset", "wake")
  /\ spinning' = [spinning EXCEPT ![m] = FALSE]
  /\ nmspinning' = nmspinning - 1
  /\ UNCHANGED <<taskVars, idleVars, ownVars, seen, was, todo, ended>>

\* No work: p_release, which is inside an assertion, and s_pidleput.
Stop(m) ==
  /\ Goto(m, "stop", "idleput")
  /\ lock = NULL
  /\ lock' = m
  /\ pidle' = pidle \cup {p[m]}
  /\ IF Debug THEN /\ p' = [p EXCEPT ![m] = NULL]
                   /\ owner' = [owner EXCEPT ![p[m]] = NULL]
              ELSE UNCHANGED ownVars
  /\ UNCHANGED <<taskVars, npidle, hand, spinVars, seen, was, todo, ended>>

StopCount(m) ==
  /\ Goto(m, "idleput", "unspin")
  /\ IdleCount(m, 1)
  /\ UNCHANGED <<taskVars, hand, ownVars, spinVars, seen, was, todo, ended>>

\* "We must drop nmspinning first and then check all per-P queues again."
Unspin(m) ==
  /\ Goto(m, "unspin", "recheck")
  /\ was' = [was EXCEPT ![m] = spinning[m]]
  /\ todo' = [todo EXCEPT ![m] = P]
  /\ spinning' = [spinning EXCEPT ![m] = FALSE]
  /\ nmspinning' = IF spinning[m] THEN nmspinning - 1 ELSE nmspinning
  /\ UNCHANGED <<taskVars, idleVars, ownVars, seen, ended>>

\* Mutation of Recheck: the queues are not looked at again.
RecheckNothing(m, x) ==
  /\ x \in todo[m]
  /\ Goto(m, "recheck", "out")
  /\ todo' = [todo EXCEPT ![m] = {}]
  /\ UNCHANGED <<taskVars, idleVars, ownVars, spinVars, seen, was, ended>>

Recheck(m, x) ==
  /\ x \in todo[m]
  /\ LET found == x \notin pidle /\ HasWork(x)
         rest == todo[m] \ {x}
     IN /\ Goto(m, "recheck", CASE found -> "reget"
                                [] ~found /\ rest = {} -> "out"
                                [] OTHER -> "recheck")
        /\ todo' = [todo EXCEPT ![m] = IF found THEN {} ELSE rest]
  /\ UNCHANGED <<taskVars, idleVars, ownVars, spinVars, seen, was, ended>>

\* Work was found: take an idle P, if there still is one, and start over.
Reget(m, x) ==
  /\ Goto(m, "reget", "reidle")
  /\ IdleGet(m, x)
  /\ UNCHANGED <<taskVars, ownVars, spinVars, seen, was, todo, ended>>

RegetNone(m) ==
  /\ Goto(m, "reget", "out")
  /\ lock = NULL
  /\ pidle = {}
  /\ UNCHANGED <<taskVars, idleVars, ownVars, spinVars, seen, was, todo, ended>>

RegetCount(m) ==
  /\ Goto(m, "reidle", IF was[m] THEN "respin" ELSE "find")
  /\ IdleCount(m, -1)
  /\ Acquire(m)
  /\ UNCHANGED <<taskVars, spinVars, seen, was, todo, ended>>

Respin(m) ==
  /\ Goto(m, "respin", "find")
  /\ spinning' = [spinning EXCEPT ![m] = TRUE]
  /\ nmspinning' = nmspinning + 1
  /\ UNCHANGED <<taskVars, idleVars, ownVars, seen, was, todo, ended>>

\* Nothing to do: a timer check for a P that runs, or s_checkdeadlock on the
\* way to m_park, is TODO_IMPL and aborts the program.
Abort(m) ==
  /\ ~halted /\ pc[m] = "out"
  /\ halted' = TRUE
  /\ UNCHANGED <<taskVars, idleVars, ownVars, spinVars, seen, was, todo, pc, gaveup>>

Halted == halted /\ UNCHANGED vars

-----------------------------------------------------------------------------
(* Specification                                                            *)

\* sched_main: m0 owns the first P and runs the main task; the other Ps are
\* idle, put there by s_procresize.
Init ==
  /\ queue = [x \in P |-> <<>>]
  /\ next = [x \in P |-> NULL]
  /\ \E m0 \in M, p0 \in P, t1 \in T :
       /\ cur = [m \in M |-> IF m = m0 THEN t1 ELSE NULL]
       /\ dead = T \ {t1}
       /\ pidle = P \ {p0}
       /\ owner = [x \in P |-> IF x = p0 THEN m0 ELSE NULL]
       /\ p = [m \in M |-> IF m = m0 THEN p0 ELSE NULL]
       /\ pc = [m \in M |-> IF m = m0 THEN "run" ELSE "none"]
  /\ npidle = Cardinality(P) - 1
  /\ nmspinning = 0
  /\ lock = NULL
  /\ spinning = [m \in M |-> FALSE]
  /\ tp = [m \in M |-> NULL]
  /\ batch = [m \in M |-> <<>>]
  /\ hand = [m \in M |-> NULL]
  /\ seen = [m \in M |-> 0]
  /\ was = [m \in M |-> FALSE]
  /\ todo = [m \in M |-> {}]
  /\ halted = FALSE
  /\ gaveup = FALSE

TaskStep(m) == \/ \E t \in T : Spawn(m, t)
               \/ PutNext(m) \/ Kick(m) \/ Yield(m) \/ Exit(m)
WakeStep(m) == \/ WakeIdle(m) \/ WakeCas(m) \/ StartMReserve(m) \/ NoIdleP(m) \/ GiveUp(m)
               \/ \E x \in P : StartM(m, x)
               \/ \E new \in M : NewM(m, new)
FindStep(m) == \/ Start(m) \/ Schedule(m) \/ FindLocal(m) \/ LoadSpinning(m) \/ CheckBusy(m)
               \/ Spin(m) \/ StealNothing(m) \/ StealDone(m) \/ ResetSpinning(m)
               \/ \E v \in P : Steal(m, v) \/ StealNext(m, v)
StopStep(m) == \/ Stop(m) \/ StopCount(m) \/ Unspin(m) \/ RegetNone(m) \/ RegetCount(m)
               \/ Respin(m) \/ Abort(m)
               \/ \E x \in P : Recheck(m, x) \/ Reget(m, x)

Next == (\E m \in M : TaskStep(m) \/ WakeStep(m) \/ FindStep(m) \/ StopStep(m)) \/ Halted

Spec == Init /\ [][Next]_vars

-----------------------------------------------------------------------------
(* Properties                                                               *)

TypeOK ==
  /\ queue \in [P -> Seq(T)]
  /\ next \in [P -> T \cup {NULL}]
  /\ dead \subseteq T
  /\ pidle \subseteq P
  /\ npidle \in 0 .. Cardinality(P)
  /\ nmspinning \in 0 .. Cardinality(M)
  /\ lock \in M \cup {NULL}
  /\ owner \in [P -> M \cup {NULL}]
  /\ p \in [M -> P \cup {NULL}]
  /\ spinning \in [M -> BOOLEAN]
  /\ cur \in [M -> T \cup {NULL}]
  /\ tp \in [M -> T \cup {NULL}]
  /\ batch \in [M -> Seq(T)]
  /\ hand \in [M -> P \cup {NULL}]
  /\ seen \in [M -> Nat]
  /\ was \in [M -> BOOLEAN]
  /\ todo \in [M -> SUBSET P]
  /\ pc \in [M -> Label]
  /\ halted \in BOOLEAN
  /\ gaveup \in BOOLEAN

\* A P is idle, owned by one M, or on its way to one: what the assertions of
\* p_acquire and p_release, and the invalid P state they report, rest on.
OneOwner ==
  \A x \in P :
    /\ \A m \in M : p[m] = x <=> owner[x] = m
    /\ Cardinality({m \in M : p[m] = x \/ hand[m] = x}) = IF x \in pidle THEN 0 ELSE 1

\* An M that was counted but has not been marked as spinning.
Starting(m) == pc[m] \in {"startm", "idleget", "newm", "giveup", "start"}

\* S.nmspinning counts the spinning Ms and the one being started: it is never
\* negative, and every decrement matches an increment.
SpinningCounted == nmspinning = Cardinality({m \in M : spinning[m] \/ Starting(m)})

\* However many tasks are spawned at once, one M at a time is being started.
OneStart == \A m1, m2 \in M : Starting(m1) /\ Starting(m2) => m1 = m2

\* An idle P has no work (the assertion of s_pidleput), nor has the P of an M
\* that enters schedule() as spinning (its panic).
IdleIsEmpty ==
  /\ \A x \in pidle : ~HasWork(x)
  /\ \A m \in M : pc[m] = "sched" /\ spinning[m] => ~HasWork(p[m])

\* Every M runs a task, is about to abort, or does not exist; yet a task
\* waits in a queue while a P is idle: nobody will look at it.
Stranded == /\ ~halted /\ \A m \in M : pc[m] \in {"none", "run", "out"}
            /\ pidle # {} /\ \E x \in P : HasWork(x)

\* The "delicate dance" of s_findrunnable: whatever interleaves with the last
\* look at the queues, no task that was spawned is left without an M while a
\* P is idle, unless a p_startm gave up its search for an idle P.
OnlyGivingUpStrands == Stranded => gaveup

\* p_startm, when there are no idle Ps: "it's okay to just undo the increment
\* and give up."
NoTaskStranded == ~Stranded

\* P.m is the "back-link to associated m (nil if idle)".
IdleHasNoM == \A x \in pidle : owner[x] = NULL

-----------------------------------------------------------------------------
\* What the Ms that have P x, or left it last, stole and have not published:
\* one batch at most.
Stolen(x) == {batch[m] : m \in {o \in M : p[o] = x}} \ {<<>>}

OnlyOne(s) == IF s = {} THEN <<>> ELSE CHOOSE b \in s : TRUE

Work == INSTANCE WorkQueues WITH
  hand  <- [x \in P |-> {t \in T : \E m \in M : p[m] = x /\ t \in {cur[m], tp[m]}}],
  batch <- [x \in P |-> OnlyOne(Stolen(x))]

\* The scheduler uses the run queues as WorkQueues allows: a P is put to and
\* taken from by its owner only, and steals only when it has nothing to run.
UsesWorkQueues == Work!Spec
=============================================================================
