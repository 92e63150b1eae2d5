------------------------------ MODULE RunQueue ------------------------------
(***************************************************************************)
(* The local run queues of the coroutine scheduler (src/src/rt/sched.c):   *)
(* per processor P a ring of P_RUNQSIZE runnable tasks and one "runnext"   *)
(* slot, accessed without a lock.  Only the M that owns P appends to the   *)
(* ring and fills runnext; any other M may steal from either.              *)
(*                                                                         *)
(* Every action below performs one access to shared memory: a load, a      *)
(* store or a compare-and-swap.  What one thread does in between touches   *)
(* only its locals and is folded into that access.  The callers are the    *)
(* ones of the source: sched_spawn and t_yield1 put, schedule() gets and   *)
(* then steals.  Head and tail are u32 counters in the code; here they are *)
(* the unwrapped counts (RunQueueProofs!WrapSound relates the two).        *)
(***************************************************************************)
EXTENDS Integers

CONSTANTS P,        \* processors, each owned by one M throughout
          Observer, \* Ms that call p_runqempty while owning no P
          T,        \* tasks
          NULL,     \* the null pointer
          Size,     \* P_RUNQSIZE
          MaxPuts   \* bound: tasks the program puts to the rings

ASSUME SizeAssumption == Size \in Nat \ {0} /\ Size % 2 = 0

ASSUME ConstAssumption == /\ MaxPuts \in Nat
                          /\ NULL \notin T
                          /\ NULL \notin P

VARIABLES
  runqhead, runqtail,  \* [P -> Nat], P.runqhead and P.runqtail
  runq,                \* [P -> [0..Size-1 -> T or NULL]], P.runq
  runnext,             \* [P -> T or NULL], P.runnext
  cur,                 \* [P -> T or NULL], the task M.curt running on P
  dead,                \* tasks in TDead, free to be spawned
  puts,                \* tasks put to the rings so far
  pc,                  \* [P -> Label], where the M that owns P is
  old, tp,             \* its locals: last value read of a runnext; task to put
  victim, last,        \* p2 and stealRunNextT of p_runqsteal
  h, n, k,             \* head read; number of tasks to grab; copied so far
  ov, opc, oh, ot, on, \* an observer: whose queue, where, what it has read
  empty                \* history: the queue was empty when it looked

queueVars == <<runqhead, runqtail, runq, runnext>>
taskVars  == <<cur, dead, puts>>
locals    == <<old, tp, victim, last, h, n, k>>
obsVars   == <<ov, opc, oh, ot, on, empty>>
vars      == <<queueVars, taskVars, pc, locals, obsVars>>

Label == {"run", "casnext", "puthead", "put", "puttail",
          "getnext", "getnextcas", "gethead", "getheadcas", "hungry",
          "grabhead", "grabtail", "copy", "grabcas", "grabnext", "grabnextcas",
          "stolen"}
OLabel == {"idle", "tail", "next", "check", "empty", "nonempty"}

Slot(i) == i % Size

\* The ring and runnext of p hold nothing.
QueueEmpty(p) == runqhead[p] = runqtail[p] /\ runnext[p] = NULL

Goto(p, from, to) == pc[p] = from /\ pc' = [pc EXCEPT ![p] = to]

-----------------------------------------------------------------------------
(* p_runqput, called by sched_spawn (next = true) and t_yield1 (false)      *)

\* The running task creates t: t goes to runnext, whose old value is read.
Spawn(p, t) ==
  /\ t \in dead
  /\ Goto(p, "run", "casnext")
  /\ dead' = dead \ {t}
  /\ IF runnext[p] = NULL THEN UNCHANGED puts
                          ELSE puts < MaxPuts /\ puts' = puts + 1
  /\ tp' = [tp EXCEPT ![p] = t]
  /\ old' = [old EXCEPT ![p] = runnext[p]]
  /\ UNCHANGED <<queueVars, cur, victim, last, h, n, k, obsVars>>

\* The CAS on runnext succeeds on an empty slot: the spawn is complete.
PutNext(p) ==
  /\ Goto(p, "casnext", "run")
  /\ runnext[p] = old[p]
  /\ old[p] = NULL
  /\ runnext' = [runnext EXCEPT ![p] = tp[p]]
  /\ tp' = [tp EXCEPT ![p] = NULL]
  /\ UNCHANGED <<runqhead, runqtail, runq, taskVars, old, victim, last, h, n, k, obsVars>>

\* The CAS succeeds on an occupied slot: the old task is kicked to the ring.
KickNext(p) ==
  /\ Goto(p, "casnext", "puthead")
  /\ runnext[p] = old[p]
  /\ old[p] # NULL
  /\ runnext' = [runnext EXCEPT ![p] = tp[p]]
  /\ tp' = [tp EXCEPT ![p] = old[p]]
  /\ UNCHANGED <<runqhead, runqtail, runq, taskVars, old, victim, last, h, n, k, obsVars>>

\* The CAS fails, which reloads the expected value.
CasNextFail(p) ==
  /\ pc[p] = "casnext"
  /\ runnext[p] # old[p]
  /\ old' = [old EXCEPT ![p] = runnext[p]]
  /\ UNCHANGED <<queueVars, taskVars, pc, tp, victim, last, h, n, k, obsVars>>

\* The running task gives way: it is put at the tail, starting with the head.
Yield(p) ==
  /\ puts < MaxPuts
  /\ Goto(p, "run", "put")
  /\ puts' = puts + 1
  /\ tp' = [tp EXCEPT ![p] = cur[p]]
  /\ cur' = [cur EXCEPT ![p] = NULL]
  /\ h' = [h EXCEPT ![p] = runqhead[p]]
  /\ UNCHANGED <<queueVars, dead, old, victim, last, n, k, obsVars>>

PutHead(p) ==
  /\ Goto(p, "puthead", "put")
  /\ h' = [h EXCEPT ![p] = runqhead[p]]
  /\ UNCHANGED <<queueVars, taskVars, old, tp, victim, last, n, k, obsVars>>

\* Mutation of PutSlot: off by one in the test for room.
PutSlotOverfull(p) ==
  /\ Goto(p, "put", "puttail")
  /\ runqtail[p] - h[p] <= Size
  /\ runq' = [runq EXCEPT ![p][Slot(runqtail[p])] = tp[p]]
  /\ UNCHANGED <<runqhead, runqtail, runnext, taskVars, locals, obsVars>>

\* Room in the ring: write the slot at the tail.
PutSlot(p) ==
  /\ Goto(p, "put", "puttail")
  /\ runqtail[p] - h[p] < Size
  /\ runq' = [runq EXCEPT ![p][Slot(runqtail[p])] = tp[p]]
  /\ UNCHANGED <<runqhead, runqtail, runnext, taskVars, locals, obsVars>>

\* The ring looks full: p_runqputslow does nothing and reports false, so the
\* loop starts again.
PutFull(p) ==
  /\ Goto(p, "put", "puthead")
  /\ ~(runqtail[p] - h[p] < Size)
  /\ UNCHANGED <<queueVars, taskVars, locals, obsVars>>

\* Publish the slot.  t_yield1 goes on to schedule(), sched_spawn returns.
PutTail(p) ==
  /\ pc[p] = "puttail"
  /\ pc' = [pc EXCEPT ![p] = IF cur[p] = NULL THEN "getnext" ELSE "run"]
  /\ runqtail' = [runqtail EXCEPT ![p] = @ + 1]
  /\ tp' = [tp EXCEPT ![p] = NULL]
  /\ UNCHANGED <<runqhead, runq, runnext, taskVars, old, victim, last, h, n, k, obsVars>>

-----------------------------------------------------------------------------
(* t_exit, and p_runqget, called by schedule() and s_findrunnable           *)

\* The running task ends and its M looks for another one.
Exit(p) ==
  /\ Goto(p, "run", "getnext")
  /\ dead' = dead \cup {cur[p]}
  /\ cur' = [cur EXCEPT ![p] = NULL]
  /\ UNCHANGED <<queueVars, puts, locals, obsVars>>

GetNext(p) ==
  /\ pc[p] = "getnext"
  /\ old' = [old EXCEPT ![p] = runnext[p]]
  /\ pc' = [pc EXCEPT ![p] = IF runnext[p] = NULL THEN "gethead" ELSE "getnextcas"]
  /\ UNCHANGED <<queueVars, taskVars, tp, victim, last, h, n, k, obsVars>>

GetNextCas(p) ==
  \/ /\ Goto(p, "getnextcas", "run")
     /\ runnext[p] = old[p]
     /\ runnext' = [runnext EXCEPT ![p] = NULL]
     /\ cur' = [cur EXCEPT ![p] = old[p]]
     /\ UNCHANGED <<runqhead, runqtail, runq, dead, puts, locals, obsVars>>
  \/ /\ Goto(p, "getnextcas", "getnext")
     /\ runnext[p] # old[p]
     /\ UNCHANGED <<queueVars, taskVars, locals, obsVars>>

\* Mutation of GetHead: the empty queue is not noticed.
GetHeadUnchecked(p) ==
  /\ Goto(p, "gethead", "getheadcas")
  /\ h' = [h EXCEPT ![p] = runqhead[p]]
  /\ UNCHANGED <<queueVars, taskVars, old, tp, victim, last, n, k, obsVars>>

GetHead(p) ==
  /\ pc[p] = "gethead"
  /\ h' = [h EXCEPT ![p] = runqhead[p]]
  /\ pc' = [pc EXCEPT ![p] = IF runqtail[p] = runqhead[p] THEN "hungry" ELSE "getheadcas"]
  /\ UNCHANGED <<queueVars, taskVars, old, tp, victim, last, n, k, obsVars>>

\* Mutation of GetHeadCas: a failed CAS is tried again without reading the head.
GetHeadStale(p) ==
  \/ /\ Goto(p, "getheadcas", "run")
     /\ runqhead[p] = h[p]
     /\ runqhead' = [runqhead EXCEPT ![p] = h[p] + 1]
     /\ cur' = [cur EXCEPT ![p] = runq[p][Slot(h[p])]]
     /\ UNCHANGED <<runqtail, runq, runnext, dead, puts, locals, obsVars>>
  \/ /\ Goto(p, "getheadcas", "getheadcas")
     /\ runqhead[p] # h[p]
     /\ UNCHANGED <<queueVars, taskVars, locals, obsVars>>

\* The slot read before the CAS cannot have changed: only this M writes it.
GetHeadCas(p) ==
  \/ /\ Goto(p, "getheadcas", "run")
     /\ runqhead[p] = h[p]
     /\ runqhead' = [runqhead EXCEPT ![p] = h[p] + 1]
     /\ cur' = [cur EXCEPT ![p] = runq[p][Slot(h[p])]]
     /\ UNCHANGED <<runqtail, runq, runnext, dead, puts, locals, obsVars>>
  \/ /\ Goto(p, "getheadcas", "gethead")
     /\ runqhead[p] # h[p]
     /\ UNCHANGED <<queueVars, taskVars, locals, obsVars>>

-----------------------------------------------------------------------------
(* p_runqsteal and p_runqgrab, called by s_stealwork once the local queue   *)
(* was found empty                                                          *)

\* Start on p2 = v; stealRunNextT is set on the last round only.
Steal(p, v, stealRunNextT) ==
  /\ v # p
  /\ Goto(p, "hungry", "grabtail")
  /\ victim' = [victim EXCEPT ![p] = v]
  /\ last' = [last EXCEPT ![p] = stealRunNextT]
  /\ h' = [h EXCEPT ![p] = runqhead[v]]
  /\ UNCHANGED <<queueVars, taskVars, old, tp, n, k, obsVars>>

GrabHead(p) ==
  /\ Goto(p, "grabhead", "grabtail")
  /\ h' = [h EXCEPT ![p] = runqhead[victim[p]]]
  /\ UNCHANGED <<queueVars, taskVars, old, tp, victim, last, n, k, obsVars>>

\* Mutation of Half: everything is grabbed.
Whole(d) == d

\* Half of the tasks seen, rounded up.
Half(d) == d - d \div 2

GrabTail(p) ==
  LET m == Half(runqtail[victim[p]] - h[p])
  IN /\ pc[p] = "grabtail"
     /\ \/ /\ m = 0
           /\ pc' = [pc EXCEPT ![p] = IF last[p] THEN "grabnext" ELSE "hungry"]
           /\ UNCHANGED <<n, k>>
        \/ /\ m > Size \div 2           \* read inconsistent h and t
           /\ pc' = [pc EXCEPT ![p] = "grabhead"]
           /\ UNCHANGED <<n, k>>
        \/ /\ m \in 1 .. (Size \div 2)
           /\ pc' = [pc EXCEPT ![p] = "copy"]
           /\ n' = [n EXCEPT ![p] = m]
           /\ k' = [k EXCEPT ![p] = 0]
     /\ UNCHANGED <<queueVars, taskVars, old, tp, victim, last, h, obsVars>>

\* Copy one task to the free part of the thief's own ring.
Copy(p) ==
  /\ pc[p] = "copy"
  /\ pc' = [pc EXCEPT ![p] = IF k[p] + 1 = n[p] THEN "grabcas" ELSE "copy"]
  /\ runq' = [runq EXCEPT ![p][Slot(runqtail[p] + k[p])]
                = runq[victim[p]][Slot(h[p] + k[p])]]
  /\ k' = [k EXCEPT ![p] = @ + 1]
  /\ UNCHANGED <<runqhead, runqtail, runnext, taskVars, old, tp, victim, last, h, n, obsVars>>

\* Mutation of GrabCas: the head is stored without comparing it first.
GrabStore(p) ==
  /\ Goto(p, "grabcas", "stolen")
  /\ runqhead' = [runqhead EXCEPT ![victim[p]] = h[p] + n[p]]
  /\ UNCHANGED <<runqtail, runq, runnext, taskVars, locals, obsVars>>

\* Commit: the victim's head moves past the n tasks, or all is redone.
GrabCas(p) ==
  \/ /\ Goto(p, "grabcas", "stolen")
     /\ runqhead[victim[p]] = h[p]
     /\ runqhead' = [runqhead EXCEPT ![victim[p]] = h[p] + n[p]]
     /\ UNCHANGED <<runqtail, runq, runnext, taskVars, locals, obsVars>>
  \/ /\ Goto(p, "grabcas", "grabhead")
     /\ runqhead[victim[p]] # h[p]
     /\ UNCHANGED <<queueVars, taskVars, locals, obsVars>>

GrabNext(p) ==
  /\ pc[p] = "grabnext"
  /\ old' = [old EXCEPT ![p] = runnext[victim[p]]]
  /\ pc' = [pc EXCEPT ![p] = IF runnext[victim[p]] = NULL THEN "hungry" ELSE "grabnextcas"]
  /\ UNCHANGED <<queueVars, taskVars, tp, victim, last, h, n, k, obsVars>>

GrabNextCas(p) ==
  \/ /\ Goto(p, "grabnextcas", "stolen")
     /\ runnext[victim[p]] = old[p]
     /\ runnext' = [runnext EXCEPT ![victim[p]] = NULL]
     /\ runq' = [runq EXCEPT ![p][Slot(runqtail[p])] = old[p]]
     /\ n' = [n EXCEPT ![p] = 1]
     /\ UNCHANGED <<runqhead, runqtail, taskVars, old, tp, victim, last, h, k, obsVars>>
  \/ /\ Goto(p, "grabnextcas", "grabhead")
     /\ runnext[victim[p]] # old[p]
     /\ UNCHANGED <<queueVars, taskVars, locals, obsVars>>

\* Run the last task grabbed and publish the others (none, if it was alone).
\* The code panics when they do not fit: RingBounds says that they do.
StealDone(p) ==
  LET m == n[p] - 1
  IN /\ Goto(p, "stolen", "run")
     /\ cur' = [cur EXCEPT ![p] = runq[p][Slot(runqtail[p] + m)]]
     /\ runqtail' = [runqtail EXCEPT ![p] = @ + m]
     /\ UNCHANGED <<runqhead, runq, runnext, dead, puts, locals, obsVars>>

-----------------------------------------------------------------------------
(* p_runqempty, called by an M that has given up its P                      *)

EmptyHead(m, p) ==
  /\ opc[m] \in {"idle", "empty", "nonempty"}
  /\ opc' = [opc EXCEPT ![m] = "tail"]
  /\ ov' = [ov EXCEPT ![m] = p]
  /\ oh' = [oh EXCEPT ![m] = runqhead[p]]
  /\ empty' = [empty EXCEPT ![m] = QueueEmpty(p)]
  /\ UNCHANGED <<queueVars, taskVars, pc, locals, ot, on>>

EmptyTail(m) ==
  /\ opc[m] = "tail"
  /\ opc' = [opc EXCEPT ![m] = "next"]
  /\ ot' = [ot EXCEPT ![m] = runqtail[ov[m]]]
  /\ empty' = [empty EXCEPT ![m] = @ \/ QueueEmpty(ov[m])]
  /\ UNCHANGED <<queueVars, taskVars, pc, locals, ov, oh, on>>

EmptyNext(m) ==
  /\ opc[m] = "next"
  /\ opc' = [opc EXCEPT ![m] = "check"]
  /\ on' = [on EXCEPT ![m] = runnext[ov[m]]]
  /\ empty' = [empty EXCEPT ![m] = @ \/ QueueEmpty(ov[m])]
  /\ UNCHANGED <<queueVars, taskVars, pc, locals, ov, oh, ot>>

\* Mutation of EmptyReport: the tail is not read again.
EmptyUnchecked(m) ==
  /\ opc[m] = "check"
  /\ opc' = [opc EXCEPT ![m] = IF oh[m] = ot[m] /\ on[m] = NULL THEN "empty" ELSE "nonempty"]
  /\ UNCHANGED <<queueVars, taskVars, pc, locals, ov, oh, ot, on, empty>>

\* The tail did not move: report.
EmptyReport(m) ==
  /\ opc[m] = "check"
  /\ runqtail[ov[m]] = ot[m]
  /\ opc' = [opc EXCEPT ![m] = IF oh[m] = ot[m] /\ on[m] = NULL THEN "empty" ELSE "nonempty"]
  /\ UNCHANGED <<queueVars, taskVars, pc, locals, ov, oh, ot, on, empty>>

\* The tail moved: read all three again.
EmptyRetry(m) ==
  /\ opc[m] = "check"
  /\ runqtail[ov[m]] # ot[m]
  /\ opc' = [opc EXCEPT ![m] = "tail"]
  /\ oh' = [oh EXCEPT ![m] = runqhead[ov[m]]]
  /\ empty' = [empty EXCEPT ![m] = QueueEmpty(ov[m])]
  /\ UNCHANGED <<queueVars, taskVars, pc, locals, ov, ot, on>>

-----------------------------------------------------------------------------
(* Specification                                                            *)

\* The main task t runs on p0; every other P has an M looking for work.
Init ==
  /\ runqhead = [p \in P |-> 0]
  /\ runqtail = [p \in P |-> 0]
  /\ runq = [p \in P |-> [i \in 0 .. Size-1 |-> NULL]]
  /\ runnext = [p \in P |-> NULL]
  /\ \E p0 \in P, t \in T :
       /\ cur = [p \in P |-> IF p = p0 THEN t ELSE NULL]
       /\ dead = T \ {t}
       /\ pc = [p \in P |-> IF p = p0 THEN "run" ELSE "getnext"]
       /\ victim = [p \in P |-> p0]
       /\ ov = [m \in Observer |-> p0]
  /\ puts = 0
  /\ old = [p \in P |-> NULL]
  /\ tp = [p \in P |-> NULL]
  /\ last = [p \in P |-> FALSE]
  /\ h = [p \in P |-> 0]
  /\ n = [p \in P |-> 0]
  /\ k = [p \in P |-> 0]
  /\ opc = [m \in Observer |-> "idle"]
  /\ oh = [m \in Observer |-> 0]
  /\ ot = [m \in Observer |-> 0]
  /\ on = [m \in Observer |-> NULL]
  /\ empty = [m \in Observer |-> FALSE]

PutStep(p) == \/ PutNext(p) \/ KickNext(p) \/ CasNextFail(p)
              \/ PutHead(p) \/ PutSlot(p) \/ PutFull(p) \/ PutTail(p)
GetStep(p) == \/ GetNext(p) \/ GetNextCas(p) \/ GetHead(p) \/ GetHeadCas(p)
StealStep(p) == \/ GrabHead(p) \/ GrabTail(p) \/ Copy(p) \/ GrabCas(p)
                \/ GrabNext(p) \/ GrabNextCas(p) \/ StealDone(p)
TaskStep(p) == \/ \E t \in T : Spawn(p, t)
               \/ Yield(p)
               \/ Exit(p)
ObserverStep(m) == \/ \E p \in P : EmptyHead(m, p)
                   \/ EmptyTail(m) \/ EmptyNext(m) \/ EmptyReport(m) \/ EmptyRetry(m)

Next ==
  \/ \E p \in P : \/ TaskStep(p) \/ PutStep(p) \/ GetStep(p) \/ StealStep(p)
                  \/ \E v \in P, b \in BOOLEAN : Steal(p, v, b)
  \/ \E m \in Observer : ObserverStep(m)

Spec == Init /\ [][Next]_vars

\* An M keeps executing: the operating system runs every thread.  Nothing is
\* assumed of Steal, as an M without work may also give up its P.
Fairness == \A p \in P : WF_vars(TaskStep(p) \/ PutStep(p) \/ GetStep(p) \/ StealStep(p))

FairSpec == Spec /\ Fairness

-----------------------------------------------------------------------------
(* Properties                                                               *)

TypeOK ==
  /\ runqhead \in [P -> Nat]
  /\ runqtail \in [P -> Nat]
  /\ runq \in [P -> [0 .. Size-1 -> T \cup {NULL}]]
  /\ runnext \in [P -> T \cup {NULL}]
  /\ cur \in [P -> T \cup {NULL}]
  /\ dead \subseteq T
  /\ puts \in Nat
  /\ pc \in [P -> Label]
  /\ old \in [P -> T \cup {NULL}]
  /\ tp \in [P -> T \cup {NULL}]
  /\ victim \in [P -> P]
  /\ last \in [P -> BOOLEAN]
  /\ h \in [P -> Nat]
  /\ n \in [P -> Nat]
  /\ k \in [P -> Nat]
  /\ ov \in [Observer -> P]
  /\ opc \in [Observer -> OLabel]
  /\ oh \in [Observer -> Nat]
  /\ ot \in [Observer -> Nat]
  /\ on \in [Observer -> T \cup {NULL}]
  /\ empty \in [Observer -> BOOLEAN]

\* The places at which t is: a ring slot counts from head to tail, and the
\* slots a thief grabbed count from its tail until it has published them.
Places(t) ==
  {<<"dead", t, 0>> : x \in dead \cap {t}}
  \cup {<<"cur", p, 0>> : p \in {q \in P : cur[q] = t}}
  \cup {<<"put", p, 0>> : p \in {q \in P : tp[q] = t}}
  \cup {<<"next", p, 0>> : p \in {q \in P : runnext[q] = t}}
  \cup (UNION {{<<"ring", p, i>> : i \in {j \in runqhead[p] .. runqtail[p] - 1 :
                                            runq[p][Slot(j)] = t}} : p \in P})
  \cup (UNION {{<<"batch", p, i>> : i \in {j \in runqtail[p] .. runqtail[p] + n[p] - 1 :
                                            runq[p][Slot(j)] = t}} :
                 p \in {q \in P : pc[q] = "stolen"}})

\* Whatever puts, gets and steals interleave, a task is neither lost nor run
\* twice: it is dead, running, being put, or in one place of one queue.
NoTaskLost == \A t \in T : /\ Places(t) # {}
                           /\ \A a, b \in Places(t) : a = b

\* The head never passes the tail, the ring never holds more than its slots,
\* and the tasks that p_runqsteal publishes fit (its "runq overflow" panic).
RingBounds ==
  \A p \in P :
    /\ runqhead[p] <= runqtail[p]
    /\ runqtail[p] <= runqhead[p] + Size
    /\ pc[p] = "stolen" /\ n[p] > 1 => runqtail[p] - runqhead[p] + (n[p] - 1) < Size

\* p_runqempty "never returns true spuriously": when it returns true there was
\* an instant during the call at which the queue was empty.
EmptyNeverSpurious == \A m \in Observer : opc[m] = "empty" => empty[m]

\* The tasks of p's ring from position i on, m of them.
Tasks(p, i, m) == [j \in 1 .. m |-> runq[p][Slot(i + j - 1)]]

Work == INSTANCE WorkQueues WITH
  queue <- [p \in P |-> Tasks(p, runqhead[p], runqtail[p] - runqhead[p])],
  next  <- runnext,
  hand  <- [p \in P |-> {cur[p], tp[p]} \ {NULL}],
  batch <- [p \in P |-> Tasks(p, runqtail[p], IF pc[p] = "stolen" THEN n[p] ELSE 0)]

\* The lock-free queues implement FIFO queues with atomic operations: whatever
\* interleaves, tasks leave in the order in which they were put, a steal takes
\* the oldest tasks in one instant, and at most half of those that are there.
ImplementsWorkQueues == Work!Spec

\* p_runqget ends, however often thieves win the races for the head and for
\* runnext: its M gets a task or finds the queue empty.
GetCompletes == \A p \in P : pc[p] = "getnext" ~> pc[p] \in {"run", "hungry"}

\* "If the run queue is full, runnext puts T on the global queue."
PutCompletes == \A p \in P : pc[p] = "put" ~> pc[p] # "put" /\ pc[p] # "puthead"
=============================================================================
