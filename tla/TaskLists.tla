----------------------------- MODULE TaskLists -----------------------------
(***************************************************************************)
(* Where tasks come from and go to (src/src/rt/sched.c): the lists of dead *)
(* tasks that every P keeps and the list they share, linked through the    *)
(* tasks themselves, and the table of all tasks.                           *)
(*                                                                         *)
(* A P's own list is touched by the M that runs it only, and the shared    *)
(* list under its lock: a section under the lock is one step.  The shared  *)
(* list is also looked at without the lock.                                *)
(***************************************************************************)
EXTENDS Integers, FiniteSets

CONSTANTS Task, Proc, NoTask,
          Low, High,    \* 32 and 64: what a refill fills up to, when a put spills
          AlltGrow,     \* 64: what the table grows by
          PtrSize,      \* sizeof(T*)
          MaxAllt       \* bound: entries of the table

ASSUME TaskListsAssumption ==
  /\ IsFiniteSet(Task) /\ NoTask \notin Task
  /\ Low \in Nat /\ High \in Nat /\ 0 < Low /\ Low <= High
  /\ AlltGrow \in Nat \ {0} /\ PtrSize \in Nat \ {0} /\ MaxAllt \in Nat

VARIABLES link,      \* T.schedlink
          status,    \* "none" before it is allocated and after it is freed, "live", "dead"
          stack,     \* what memory it has: default, custom, or the user's
          ptop,      \* P.tfree
          pcount,    \* P.tfreecount
          stop,      \* S.tfree.l
          scount,    \* S.tfree.n
          batch,     \* the queue q of p_tfree_put, and inc
          at,        \* where the M that runs a P is
          mlocks,    \* M.locks of that M
          allt,      \* the table: its length, its capacity, how many bytes were written
          aborted    \* an assertion has failed

listVars == <<link, status, stack, ptop, pcount, stop, scount, batch, at, mlocks, allt, aborted>>

-----------------------------------------------------------------------------
(* TQueue and TList, as functions of the links                              *)

EmptyQueue == [head |-> NoTask, tail |-> NoTask, n |-> 0]

\* The first n tasks of a list, or all of it: Nth(l, h, i) is task number i.
Nth(l, h, n) ==
  LET f[i \in 0 .. n] == IF i = 0 THEN h ELSE IF f[i-1] = NoTask THEN NoTask ELSE l[f[i-1]]
  IN f[n]

Chain(l, h) == {Nth(l, h, i) : i \in 0 .. Cardinality(Task)} \ {NoTask}

\* Popping n tasks and pushing each reverses them: the links among them turn.
Turned(l, h, n, onto) ==
  [t \in Task |-> IF \E i \in 0 .. n-1 : Nth(l, h, i) = t
                  THEN LET i == CHOOSE j \in 0 .. n-1 : Nth(l, h, j) = t
                       IN IF i = 0 THEN onto ELSE Nth(l, h, i-1)
                  ELSE l[t]]

\* Mutation of TListPushAll: what the list held is not linked.
TListPushAllLost(l, h, q) == l

\* The links after q is put in front of the list that begins with h.
TListPushAll(l, h, q) == IF q.head = NoTask THEN l ELSE [l EXCEPT ![q.tail] = h]

-----------------------------------------------------------------------------
(* sched_spawn                                                              *)

\* The entry is written where the pointer belongs; the memory has cap bytes.
allt_add ==
  /\ allt.len < MaxAllt
  /\ LET cap == IF allt.len = allt.cap THEN allt.cap + AlltGrow ELSE allt.cap
     IN allt' = [len |-> allt.len + 1, cap |-> cap, written |-> (allt.len + 1) * PtrSize]

\* The status changes from the old one only; here nobody else changes it meanwhile.
t_casstatus(t, old, new) == status[t] = old /\ status' = [status EXCEPT ![t] = new]

\* A task in fresh memory: which one it is makes no difference.
t_alloc(t, size) ==
  /\ status[t] = "none" /\ t = (CHOOSE u \in Task : status[u] = "none")
  /\ status' = [status EXCEPT ![t] = "live"]
  /\ stack' = [stack EXCEPT ![t] = size]
  /\ link' = [link EXCEPT ![t] = NoTask]
  /\ allt_add

SpawnUser(p, t) ==
  /\ at[p] = "run"
  /\ t_alloc(t, "user")
  /\ UNCHANGED <<ptop, pcount, stop, scount, batch, at, mlocks, aborted>>

SpawnCustom(p, t) ==
  /\ at[p] = "run"
  /\ t_alloc(t, "custom")
  /\ UNCHANGED <<ptop, pcount, stop, scount, batch, at, mlocks, aborted>>

\* A stack of the user's that is too small: an error, and the M stays locked.
SpawnTooSmall(p) ==
  /\ at[p] = "run" /\ mlocks[p] = 0
  /\ mlocks' = [mlocks EXCEPT ![p] = @ + 1]
  /\ UNCHANGED <<link, status, stack, ptop, pcount, stop, scount, batch, at, allt, aborted>>

\* Of the default size: the shared list is looked at without its lock.
Spawn(p) ==
  /\ at[p] \in {"run", "look"}
  /\ at' = [at EXCEPT ![p] = IF ptop[p] = NoTask /\ stop # NoTask THEN "refill" ELSE "get"]
  /\ UNCHANGED <<link, status, stack, ptop, pcount, stop, scount, batch, mlocks, allt, aborted>>

\* p_tfree_get under the lock: as many as there are, up to Low; then it looks again.
Refill(p) ==
  LET missing == {n \in 0 .. Low : n = Low - pcount[p] \/ Nth(link, stop, n) = NoTask}
      n == CHOOSE i \in missing : \A j \in missing : i <= j
  IN /\ at[p] = "refill"
     /\ link' = Turned(link, stop, n, ptop[p])
     /\ ptop' = [ptop EXCEPT ![p] = IF n = 0 THEN @ ELSE Nth(link, stop, n-1)]
     /\ pcount' = [pcount EXCEPT ![p] = @ + n]
     /\ stop' = Nth(link, stop, n)
     /\ scount' = scount - n
     /\ at' = [at EXCEPT ![p] = "look"]
     /\ UNCHANGED <<status, stack, batch, mlocks, allt, aborted>>

\* A task from the list, as it was left.
GetFree(p) ==
  /\ at[p] = "get" /\ ptop[p] # NoTask
  /\ t_casstatus(ptop[p], "dead", "live")
  /\ ptop' = [ptop EXCEPT ![p] = link[ptop[p]]]
  /\ pcount' = [pcount EXCEPT ![p] = @ - 1]
  /\ at' = [at EXCEPT ![p] = "run"]
  /\ UNCHANGED <<link, stack, stop, scount, batch, mlocks, allt, aborted>>

\* None on the list: a new one.
GetNew(p, t) ==
  /\ at[p] = "get" /\ ptop[p] = NoTask
  /\ t_alloc(t, "default")
  /\ at' = [at EXCEPT ![p] = "run"]
  /\ UNCHANGED <<ptop, pcount, stop, scount, batch, mlocks, aborted>>

-----------------------------------------------------------------------------
(* t_exit                                                                   *)

\* schedule() runs with no lock held.
schedule(p) == aborted' = (mlocks[p] # 0)

\* The task and its stack are one piece of memory.
t_free(t) ==
  /\ status' = [status EXCEPT ![t] = "none"]
  /\ stack' = [stack EXCEPT ![t] = "default"]
  /\ link' = [link EXCEPT ![t] = NoTask]

\* Memory of another size is given back; that of the user is the user's to reuse.
ExitFreed(p, t) ==
  /\ at[p] = "run" /\ status[t] = "live" /\ stack[t] # "default"
  /\ t_free(t)
  /\ schedule(p)
  /\ UNCHANGED <<ptop, pcount, stop, scount, batch, at, mlocks, allt>>

\* p_tfree_put: kept by the P.
ExitKept(p, t) ==
  /\ at[p] = "run" /\ stack[t] = "default"
  /\ pcount[p] + 1 < High
  /\ t_casstatus(t, "live", "dead")
  /\ link' = [link EXCEPT ![t] = ptop[p]]
  /\ ptop' = [ptop EXCEPT ![p] = t]
  /\ pcount' = [pcount EXCEPT ![p] = @ + 1]
  /\ schedule(p)
  /\ UNCHANGED <<stack, stop, scount, batch, at, mlocks, allt>>

\* Too many: all but Low - 1 leave for a queue of their own.
ExitSpill(p, t) ==
  LET l == [link EXCEPT ![t] = ptop[p]]
      n == pcount[p] + 2 - Low
  IN /\ at[p] = "run" /\ stack[t] = "default"
     /\ pcount[p] + 1 >= High
     /\ t_casstatus(t, "live", "dead")
     /\ link' = Turned(l, t, n, NoTask)
     /\ ptop' = [ptop EXCEPT ![p] = Nth(l, t, n)]
     /\ pcount' = [pcount EXCEPT ![p] = Low - 1]
     /\ batch' = [batch EXCEPT ![p] = [head |-> Nth(l, t, n-1), tail |-> t, n |-> n]]
     /\ at' = [at EXCEPT ![p] = "spill"]
     /\ UNCHANGED <<stack, stop, scount, mlocks, allt, aborted>>

\* The queue is put in front of the shared list, under the lock.
Spill(p) ==
  /\ at[p] = "spill"
  /\ link' = TListPushAll(link, stop, batch[p])
  /\ stop' = batch[p].head
  /\ scount' = scount + batch[p].n
  /\ batch' = [batch EXCEPT ![p] = EmptyQueue]
  /\ at' = [at EXCEPT ![p] = "run"]
  /\ schedule(p)
  /\ UNCHANGED <<status, stack, ptop, pcount, mlocks, allt>>

-----------------------------------------------------------------------------
ListInit ==
  /\ link = [t \in Task |-> NoTask]
  /\ status = [t \in Task |-> "none"]
  /\ stack = [t \in Task |-> "default"]
  /\ ptop = [p \in Proc |-> NoTask] /\ pcount = [p \in Proc |-> 0]
  /\ stop = NoTask /\ scount = 0
  /\ batch = [p \in Proc |-> EmptyQueue]
  /\ at = [p \in Proc |-> "run"]
  /\ mlocks = [p \in Proc |-> 0]
  /\ allt = [len |-> 0, cap |-> 0, written |-> 0]
  /\ aborted = FALSE

ListNext ==
  /\ ~aborted
  /\ \E p \in Proc :
       \/ Spawn(p) \/ SpawnTooSmall(p) \/ Refill(p) \/ GetFree(p) \/ Spill(p)
       \/ \E t \in Task : \/ SpawnUser(p, t) \/ SpawnCustom(p, t) \/ GetNew(p, t)
                          \/ ExitFreed(p, t) \/ ExitKept(p, t) \/ ExitSpill(p, t)

ListSpec == ListInit /\ [][ListNext]_listVars

-----------------------------------------------------------------------------
(* Properties                                                               *)

\* The lists: those of the Ps, the shared one, and the queues under way.
Heads == {<<"P", p>> : p \in Proc} \cup {<<"Q", p>> : p \in Proc} \cup {<<"S", 0>>}
HeadOf(x) == IF x[1] = "P" THEN ptop[x[2]] ELSE IF x[1] = "Q" THEN batch[x[2]].head ELSE stop
CountOf(x) == IF x[1] = "P" THEN pcount[x[2]] ELSE IF x[1] = "Q" THEN batch[x[2]].n ELSE scount

\* "A T can only be on one TQueue or TList at a time": however refills, puts
\* and spills of several Ps interleave, every dead task with memory of the
\* default size is on exactly one list, live tasks are on none, no list runs
\* in circles, and the counters that decide about spills and refills count
\* what the lists hold.
EachOnOneList ==
  /\ \A x \in Heads : /\ Nth(link, HeadOf(x), Cardinality(Task)) = NoTask
                      /\ CountOf(x) = Cardinality(Chain(link, HeadOf(x)))
  /\ \A x, y \in Heads : x # y => Chain(link, HeadOf(x)) \cap Chain(link, HeadOf(y)) = {}
  /\ UNION {Chain(link, HeadOf(x)) : x \in Heads} = {t \in Task : status[t] = "dead"}
=============================================================================
