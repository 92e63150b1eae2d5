----------------------------- MODULE StealOrder -----------------------------
(***************************************************************************)
(* Which Ps a thief tries (s_stealwork of src/src/rt/sched.c): the order   *)
(* that randord_* make of the coprimes of the number of Ps, and the masks  *)
(* of idle Ps.  Both are arrays in memory: array_append writes the byte    *)
(* after the last, array_get reads the byte at elemsize times the index.   *)
(*                                                                         *)
(* Ps are their ids.  One M steals while others put Ps on the idle list    *)
(* and take them off, each under S.lock.                                   *)
(***************************************************************************)
EXTENDS Integers, Sequences, FiniteSets, SequencesExt

CONSTANTS Counts,      \* the numbers of Ps (COMAXPROCS or the number of processors)
          ElemSize,    \* sizeof(u32)
          WordSize,    \* sizeof(size_t), by which the masks are indexed
          Junk,        \* what memory that was not written may hold
          MaxRand,     \* bound: random numbers
          MaxMoves     \* bound: how often a P becomes idle or is taken

\* The most Ps there are, so that an increment is a byte.
COMAXPROCS_MAX == 256

ASSUME StealOrderAssumption ==
  /\ Counts \subseteq 1 .. COMAXPROCS_MAX /\ Counts # {}
  /\ ElemSize \in Nat \ {0} /\ WordSize \in Nat \ {0}
  /\ Junk \subseteq 0 .. 255 /\ Junk # {}
  /\ MaxRand \in Nat /\ MaxMoves \in Nat

VARIABLES maxprocs,    \* S.maxprocs, 0 before s_procresize
          junk,        \* the bytes that were not written
          coprimes,    \* the bytes of stealOrder.coprimes that were
          idlemask,    \* bits of idlepMask that are set, each a word and a bit of it
          timermask,   \* the same of timerpMask
          pidle,       \* S.pidle, from its head
          enum,        \* the RandomEnum of the thief: i, pos, inc
          tried,       \* history: the Ps it has tried, in order
          busy,        \* history: the Ps that were not idle since it began
          moves

orderVars == <<maxprocs, junk, coprimes, idlemask, timermask, pidle, enum, tried, busy, moves>>

-----------------------------------------------------------------------------
(* The masks                                                                *)

Bit(id) == <<id \div WordSize, id % WordSize>>
vbm_read(m, id) == Bit(id) \in m
vbm_set(m, id) == m \cup {Bit(id)}

\* Mutation of vbm_clear: the word is cleared.
vbm_clearWord(m, id) == {b \in m : b[1] # id \div WordSize}
vbm_clear(m, id) == m \ {Bit(id)}

-----------------------------------------------------------------------------
(* The order                                                                *)

gcd(a, b) == LET D == {d \in 1 .. a : a % d = 0 /\ b % d = 0}
             IN CHOOSE d \in D : \A e \in D : e <= d

\* Mutation of randord_reset: every increment is taken.
randord_resetAll(n) == [i \in 1 .. n |-> i]
randord_reset(n) ==
  LET c[i \in 0 .. n] == IF i = 0 THEN <<>>
                         ELSE IF gcd(i, n) = 1 THEN Append(c[i-1], i) ELSE c[i-1]
  IN c[n]

Written(i) == ElemSize * i < Len(coprimes)
array_get(i) == IF Written(i) THEN coprimes[ElemSize * i + 1] ELSE junk

\* One of the numbers that the generator of an M makes.
m_fastrand == 0 .. MaxRand

Off == [i |-> 0, pos |-> 0, inc |-> 0, read |-> TRUE]
randord_start(r) == LET i == r % Len(coprimes)
                    IN [i |-> 0, pos |-> r % maxprocs, inc |-> array_get(i), read |-> Written(i)]
randenum_next(e) == [e EXCEPT !.i = @ + 1, !.pos = (@ + e.inc) % maxprocs]

-----------------------------------------------------------------------------
\* s_procresize, as sched_init calls it: P 0 runs, the others are idle, the
\* lowest first.  Every bit that is read later is written here.
s_procresize(n) ==
  /\ maxprocs = 0
  /\ maxprocs' = n
  /\ coprimes' = randord_reset(n)
  /\ idlemask' = {Bit(id) : id \in 1 .. n-1}
  /\ timermask' = {Bit(0)}
  /\ pidle' = [i \in 1 .. n-1 |-> i]
  /\ UNCHANGED <<junk, enum, tried, busy, moves>>

\* A P is put on the idle list.  P 0 is the thief's.
s_pidleput(id) ==
  /\ moves < MaxMoves /\ id \in 1 .. maxprocs-1 /\ id \notin {pidle[i] : i \in DOMAIN pidle}
  /\ idlemask' = vbm_set(idlemask, id)
  /\ timermask' = vbm_clear(timermask, id)
  /\ pidle' = <<id>> \o pidle
  /\ busy' = busy \ {id}
  /\ moves' = moves + 1
  /\ UNCHANGED <<maxprocs, junk, coprimes, enum, tried>>

s_pidleget ==
  /\ moves < MaxMoves /\ pidle # <<>>
  /\ idlemask' = vbm_clear(idlemask, pidle[1])
  /\ timermask' = vbm_set(timermask, pidle[1])
  /\ pidle' = Tail(pidle)
  /\ moves' = moves + 1
  /\ UNCHANGED <<maxprocs, junk, coprimes, enum, tried, busy>>

\* A round of s_stealwork begins.  It ends early if a task is stolen; here none is.
StealStart(r) ==
  /\ maxprocs > 0 /\ enum = Off
  /\ enum' = randord_start(r)
  /\ tried' = <<>>
  /\ busy' = (1 .. maxprocs-1) \ {pidle[i] : i \in DOMAIN pidle}
  /\ UNCHANGED <<maxprocs, junk, coprimes, idlemask, timermask, pidle, moves>>

\* Its own P and those whose bit is set are passed by.
StealTry ==
  /\ enum # Off /\ enum.i < maxprocs
  /\ tried' = IF enum.pos = 0 \/ vbm_read(idlemask, enum.pos) THEN tried ELSE Append(tried, enum.pos)
  /\ enum' = randenum_next(enum)
  /\ UNCHANGED <<maxprocs, junk, coprimes, idlemask, timermask, pidle, busy, moves>>

\* Nothing was found in this round.
StealEnd ==
  /\ enum # Off /\ enum.i = maxprocs
  /\ enum' = Off /\ tried' = <<>> /\ busy' = {}
  /\ UNCHANGED <<maxprocs, junk, coprimes, idlemask, timermask, pidle, moves>>

OrderInit ==
  /\ maxprocs = 0
  /\ junk \in Junk
  /\ coprimes = <<>>
  /\ idlemask = {} /\ timermask = {} /\ pidle = <<>>
  /\ enum = Off /\ tried = <<>> /\ busy = {}
  /\ moves = 0

OrderNext ==
  \/ \E n \in Counts : s_procresize(n)
  \/ \E id \in 1 .. maxprocs-1 : s_pidleput(id)
  \/ s_pidleget
  \/ \E r \in m_fastrand : StealStart(r)
  \/ StealTry \/ StealEnd

OrderSpec == OrderInit /\ [][OrderNext]_orderVars

-----------------------------------------------------------------------------
(* Properties                                                               *)

\* A round of stealing ends with every P tried that had work to steal all the
\* while, and none tried twice, whatever the order and the Ps that become
\* idle or busy meanwhile; unless the increment was read where array_append
\* has not written, as with three Ps.
TriesEveryBusyP ==
  enum # Off /\ enum.i = maxprocs /\ enum.read =>
    /\ \A id \in busy : \E j \in DOMAIN tried : tried[j] = id
    /\ IsInjective(tried)
=============================================================================
