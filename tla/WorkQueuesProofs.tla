-------------------------- MODULE WorkQueuesProofs --------------------------
(* What the run queues promise includes that a task is in one place: the    *)
(* operations of WorkQueues move tasks and copy none, whatever the order in *)
(* which they are used.                                                     *)
EXTENDS WorkQueues, SequenceTheorems, TLAPS

Typed ==
  /\ queue \in [P -> Seq(T)]
  /\ next \in [P -> T \cup {NULL}]
  /\ hand \in [P -> SUBSET T]
  /\ batch \in [P -> Seq(T)]
  /\ dead \subseteq T

\* t is at the place <<s, x, i>>.
Held(t, s, x, i) ==
  \/ s = "dead" /\ x = t /\ i = 0 /\ t \in dead
  \/ /\ x \in P
     /\ \/ s = "hand" /\ i = t /\ t \in hand[x]
        \/ s = "next" /\ i = 0 /\ next[x] = t
        \/ /\ i \in Nat \ {0}
           /\ \/ s = "queue" /\ i <= Len(queue[x]) /\ queue[x][i] = t
              \/ s = "batch" /\ i <= Len(batch[x]) /\ batch[x][i] = t

\* ... and at no other.
At(t, s, x, i) ==
  /\ Held(t, s, x, i)
  /\ \A s2, x2, i2 : Held(t, s2, x2, i2) => s2 = s /\ x2 = x /\ i2 = i

Alone(t) == \E s, x, i : At(t, s, x, i)

AllAlone == \A t \in T : Alone(t)

\* What was at one place is at another one.
Moved(s0, x0, i0, s1, x1, i1) ==
  \A t \in T : \A s, x, i :
    Held(t, s, x, i)' <=>
      \/ Held(t, s, x, i) /\ ~(s = s0 /\ x = x0 /\ i = i0)
      \/ s = s1 /\ x = x1 /\ i = i1 /\ Held(t, s0, x0, i0)

LEMMA MoveAlone ==
  ASSUME AllAlone, NEW s0, NEW x0, NEW i0, NEW s1, NEW x1, NEW i1,
         Moved(s0, x0, i0, s1, x1, i1)
  PROVE  AllAlone'
<1> SUFFICES ASSUME NEW t \in T PROVE Alone(t)'
  BY DEF AllAlone
<1>1. PICK s, x, i : At(t, s, x, i)
  BY DEF AllAlone, Alone
<1>2. CASE s = s0 /\ x = x0 /\ i = i0
  <2>1. At(t, s1, x1, i1)'
    BY <1>1, <1>2 DEF Moved, At
  <2>2. QED
    BY <2>1 DEF Alone
<1>3. CASE ~(s = s0 /\ x = x0 /\ i = i0)
  <2>1. At(t, s, x, i)'
    BY <1>1, <1>3 DEF Moved, At
  <2>2. QED
    BY <2>1 DEF Alone
<1>4. QED
  BY <1>2, <1>3

LEMMA StillAlone == ASSUME AllAlone, UNCHANGED vars PROVE AllAlone'
<1>1. \A t, s, x, i : Held(t, s, x, i)' <=> Held(t, s, x, i)
  BY DEF vars, Held
<1>2. \A t, s, x, i : At(t, s, x, i)' <=> At(t, s, x, i)
  BY <1>1 DEF At
<1>3. QED
  BY <1>2 DEF AllAlone, Alone

-----------------------------------------------------------------------------
(* One task moves                                                           *)

LEMMA SpawnAlone ==
  ASSUME Typed, AllAlone, NEW y \in P, NEW t \in T, Spawn(y, t) PROVE Typed' /\ AllAlone'
<1>1. ASSUME NEW u \in T, NEW s, NEW x, NEW i
      PROVE  Held(u, s, x, i)' <=>
               \/ Held(u, s, x, i) /\ ~(s = "dead" /\ x = t /\ i = 0)
               \/ s = "hand" /\ x = y /\ i = t /\ Held(u, "dead", t, 0)
  BY DEF Spawn, Held, Typed
<1>2. Moved("dead", t, 0, "hand", y, t)
  BY <1>1 DEF Moved
<1>3. Typed'
  BY DEF Spawn, Typed
<1>4. QED
  BY <1>2, <1>3, MoveAlone

LEMMA ExitAlone ==
  ASSUME Typed, AllAlone, NEW y \in P, NEW t \in T, Exit(y, t) PROVE Typed' /\ AllAlone'
<1>1. ASSUME NEW u \in T, NEW s, NEW x, NEW i
      PROVE  Held(u, s, x, i)' <=>
               \/ Held(u, s, x, i) /\ ~(s = "hand" /\ x = y /\ i = t)
               \/ s = "dead" /\ x = t /\ i = 0 /\ Held(u, "hand", y, t)
  BY DEF Exit, Held, Typed
<1>2. Moved("hand", y, t, "dead", t, 0)
  BY <1>1 DEF Moved
<1>3. Typed'
  BY DEF Exit, Typed
<1>4. QED
  BY <1>2, <1>3, MoveAlone

LEMMA TakeNextAlone ==
  ASSUME NULL \notin T, Typed, AllAlone, NEW y \in P, TakeNext(y) PROVE Typed' /\ AllAlone'
<1>1. next[y] \in T
  BY DEF TakeNext, Typed
<1>2. ASSUME NEW u \in T, NEW s, NEW x, NEW i
      PROVE  Held(u, s, x, i)' <=>
               \/ Held(u, s, x, i) /\ ~(s = "next" /\ x = y /\ i = 0)
               \/ s = "hand" /\ x = y /\ i = next[y] /\ Held(u, "next", y, 0)
  BY <1>1 DEF TakeNext, Held, Typed
<1>3. Moved("next", y, 0, "hand", y, next[y])
  BY <1>2 DEF Moved
<1>4. Typed'
  BY <1>1 DEF TakeNext, Typed
<1>5. QED
  BY <1>3, <1>4, MoveAlone

LEMMA PutTailAlone ==
  ASSUME Typed, AllAlone, NEW y \in P, NEW t \in T, PutTail(y, t) PROVE Typed' /\ AllAlone'
<1>1. PICK q \in Seq(T), n \in Nat :
        /\ q = Append(queue[y], t) /\ n = Len(queue[y]) /\ Len(q) = n + 1
        /\ q[n + 1] = t /\ \A i \in 1 .. n : q[i] = queue[y][i]
  <2>1. PICK r \in Seq(T) : r = queue[y]
    BY DEF Typed
  <2>2. /\ Append(r, t) \in Seq(T) /\ Len(r) \in Nat /\ Len(Append(r, t)) = Len(r) + 1
        /\ Append(r, t)[Len(r) + 1] = t /\ \A i \in 1 .. Len(r) : Append(r, t)[i] = r[i]
    BY AppendProperties, LenProperties
  <2>3. QED
    BY <2>1, <2>2
<1>2. queue' = [queue EXCEPT ![y] = q] /\ hand' = [hand EXCEPT ![y] = @ \ {t}] /\ t \in hand[y]
      /\ UNCHANGED <<next, batch, dead>>
  BY <1>1 DEF PutTail
<1>3. Typed'
  BY <1>2 DEF Typed
<1>4. ASSUME NEW u \in T, NEW s, NEW x, NEW i
      PROVE  Held(u, s, x, i)' <=>
               \/ Held(u, s, x, i) /\ ~(s = "hand" /\ x = y /\ i = t)
               \/ s = "queue" /\ x = y /\ i = n + 1 /\ Held(u, "hand", y, t)
  <2>1. CASE s = "queue" /\ x = y
    <3>1. queue'[y] = q
      BY <1>2 DEF Typed
    <3>2. Held(u, s, x, i)' <=> i \in Nat \ {0} /\ i <= n + 1 /\ q[i] = u
      BY <1>1, <2>1, <3>1 DEF Held
    <3>3. Held(u, s, x, i) <=> i \in Nat \ {0} /\ i <= n /\ q[i] = u
      BY <1>1, <2>1 DEF Held
    <3>4. Held(u, "hand", y, t) <=> u = t
      BY <1>2 DEF Held
    <3>5. QED
      BY <1>1, <2>1, <3>2, <3>3, <3>4
  <2>2. CASE ~(s = "queue" /\ x = y)
    BY <1>2, <2>2 DEF Held, Typed
  <2>3. QED
    BY <2>1, <2>2
<1>5. Moved("hand", y, t, "queue", y, n + 1)
  BY <1>4 DEF Moved
<1>6. QED
  BY <1>3, <1>5, MoveAlone

LEMMA StealNextAlone ==
  ASSUME NULL \notin T, Typed, AllAlone, NEW y \in P, NEW v \in P, StealNext(y, v)
  PROVE  Typed' /\ AllAlone'
<1>1. PICK t \in T : t = next[v]
  BY DEF StealNext, Typed
<1>2. <<t>> \in Seq(T) /\ Len(<<t>>) = 1 /\ <<t>>[1] = t /\ Len(<<>>) = 0
  OBVIOUS
<1>3. batch[y] = <<>> /\ batch' = [batch EXCEPT ![y] = <<t>>] /\ next' = [next EXCEPT ![v] = NULL]
      /\ UNCHANGED <<queue, hand, dead>>
  BY <1>1 DEF StealNext
<1>4. Typed'
  BY <1>2, <1>3 DEF Typed
<1>5. ASSUME NEW u \in T, NEW s, NEW x, NEW i
      PROVE  Held(u, s, x, i)' <=>
               \/ Held(u, s, x, i) /\ ~(s = "next" /\ x = v /\ i = 0)
               \/ s = "batch" /\ x = y /\ i = 1 /\ Held(u, "next", v, 0)
  <2>1. CASE s = "batch" /\ x = y
    <3>1. batch'[y] = <<t>>
      BY <1>3 DEF Typed
    <3>2. Held(u, s, x, i)' <=> i = 1 /\ t = u
      BY <1>2, <2>1, <3>1 DEF Held
    <3>3. ~Held(u, s, x, i)
      BY <1>2, <1>3, <2>1 DEF Held
    <3>4. QED
      BY <1>1, <2>1, <3>2, <3>3 DEF Held
  <2>2. CASE ~(s = "batch" /\ x = y)
    BY <1>1, <1>3, <2>2 DEF Held, Typed
  <2>3. QED
    BY <2>1, <2>2
<1>6. Moved("next", v, 0, "batch", y, 1)
  BY <1>5 DEF Moved
<1>7. QED
  BY <1>4, <1>6, MoveAlone

\* Two tasks change places.
LEMMA PutNextAlone ==
  ASSUME NULL \notin T, Typed, AllAlone, NEW y \in P, NEW t \in T, PutNext(y, t)
  PROVE  Typed' /\ AllAlone'
<1>1. /\ t \in hand[y] /\ next' = [next EXCEPT ![y] = t]
      /\ hand' = [hand EXCEPT ![y] = (@ \ {t}) \cup ({next[y]} \ {NULL})]
      /\ UNCHANGED <<queue, batch, dead>>
  BY DEF PutNext
<1>2. Typed'
  BY <1>1 DEF Typed
<1>3. ASSUME NEW u \in T, NEW s, NEW x, NEW i
      PROVE  Held(u, s, x, i)' <=>
               \/ /\ Held(u, s, x, i)
                  /\ ~(s = "hand" /\ x = y /\ i = t) /\ ~(s = "next" /\ x = y /\ i = 0)
               \/ s = "next" /\ x = y /\ i = 0 /\ Held(u, "hand", y, t)
               \/ s = "hand" /\ x = y /\ i = u /\ Held(u, "next", y, 0)
  BY <1>1 DEF Held, Typed
<1>4. SUFFICES ASSUME NEW u \in T PROVE Alone(u)'
  BY <1>2 DEF AllAlone
<1>5. PICK s, x, i : At(u, s, x, i)
  BY DEF AllAlone, Alone
<1>6. CASE s = "hand" /\ x = y /\ i = t
  <2>1. At(u, "next", y, 0)'
    BY <1>3, <1>5, <1>6 DEF At
  <2>2. QED
    BY <2>1 DEF Alone
<1>7. CASE s = "next" /\ x = y /\ i = 0
  <2>1. At(u, "hand", y, u)'
    BY <1>3, <1>5, <1>7 DEF At
  <2>2. QED
    BY <2>1 DEF Alone
<1>8. CASE ~(s = "hand" /\ x = y /\ i = t) /\ ~(s = "next" /\ x = y /\ i = 0)
  <2>1. At(u, s, x, i)'
    BY <1>3, <1>5, <1>8 DEF At
  <2>2. QED
    BY <2>1 DEF Alone
<1>9. QED
  BY <1>6, <1>7, <1>8

-----------------------------------------------------------------------------
(* Tasks move up in a queue                                                 *)

LEMMA TakeHeadAlone ==
  ASSUME Typed, AllAlone, NEW y \in P, TakeHead(y) PROVE Typed' /\ AllAlone'
<1>1. PICK q \in Seq(T), n \in Nat, h \in T :
        /\ queue' = [queue EXCEPT ![y] = q] /\ hand' = [hand EXCEPT ![y] = @ \cup {h}]
        /\ Len(queue[y]) = n + 1 /\ Len(q) = n
        /\ h = queue[y][1] /\ \A i \in 1 .. n : q[i] = queue[y][i + 1]
        /\ UNCHANGED <<next, batch, dead>>
  <2>1. PICK r \in Seq(T) : r = queue[y] /\ r # <<>>
    BY DEF Typed, TakeHead
  <2>2. /\ Head(r) \in T /\ Tail(r) \in Seq(T) /\ Len(Tail(r)) = Len(r) - 1 /\ Len(r) \in Nat \ {0}
        /\ Head(r) = r[1] /\ \A i \in 1 .. Len(Tail(r)) : Tail(r)[i] = r[i + 1]
    BY <2>1, HeadTailProperties, EmptySeq
  <2>3. Len(Tail(r)) \in Nat /\ Len(r) = Len(Tail(r)) + 1
    BY <2>2
  <2>4. queue' = [queue EXCEPT ![y] = Tail(r)] /\ hand' = [hand EXCEPT ![y] = @ \cup {Head(r)}]
        /\ UNCHANGED <<next, batch, dead>>
    BY <2>1 DEF TakeHead
  <2>5. QED
    BY <2>1, <2>2, <2>3, <2>4
<1>2. Typed'
  BY <1>1 DEF Typed
<1>3. ASSUME NEW u \in T, NEW s, NEW x, NEW i
      PROVE  Held(u, s, x, i)' <=>
               \/ Held(u, s, x, i) /\ ~(s = "queue" /\ x = y)
               \/ s = "queue" /\ x = y /\ i \in Nat \ {0} /\ Held(u, "queue", y, i + 1)
               \/ s = "hand" /\ x = y /\ i = h /\ Held(u, "queue", y, 1)
  <2>1. CASE s = "queue" /\ x = y
    <3>1. queue'[y] = q
      BY <1>1 DEF Typed
    <3>2. Held(u, s, x, i)' <=> i \in Nat \ {0} /\ i <= n /\ queue[y][i + 1] = u
      BY <1>1, <2>1, <3>1 DEF Held
    <3>3. i \in Nat \ {0} => (Held(u, "queue", y, i + 1) <=> i <= n /\ queue[y][i + 1] = u)
      BY <1>1 DEF Held
    <3>4. QED
      BY <2>1, <3>2, <3>3
  <2>2. CASE s = "hand" /\ x = y
    <3>1. hand'[y] = hand[y] \cup {h}
      BY <1>1 DEF Typed
    <3>2. Held(u, "queue", y, 1) <=> u = h
      BY <1>1 DEF Held
    <3>3. QED
      BY <2>2, <3>1, <3>2 DEF Held
  <2>3. CASE ~(s = "queue" /\ x = y) /\ ~(s = "hand" /\ x = y)
    BY <1>1, <2>3 DEF Held, Typed
  <2>4. QED
    BY <2>1, <2>2, <2>3
<1>4. SUFFICES ASSUME NEW u \in T PROVE Alone(u)'
  BY <1>2 DEF AllAlone
<1>5. PICK s, x, i : At(u, s, x, i)
  BY DEF AllAlone, Alone
<1>6. CASE s = "queue" /\ x = y /\ i = 1
  <2>1. \A j \in Nat \ {0} : j + 1 # 1
    OBVIOUS
  <2>2. At(u, "hand", y, h)'
    BY <1>3, <1>5, <1>6, <2>1 DEF At
  <2>3. QED
    BY <2>2 DEF Alone
<1>7. CASE s = "queue" /\ x = y /\ i # 1
  <2>1. PICK j \in Nat \ {0} : i = j + 1 /\ \A k \in Nat \ {0} : k + 1 = i => k = j
    <3>1. i \in Nat \ {0}
      BY <1>5, <1>7 DEF At, Held
    <3>2. i - 1 \in Nat \ {0} /\ i = (i - 1) + 1
      BY <1>7, <3>1
    <3>3. QED
      BY <3>1, <3>2
  <2>2. At(u, "queue", y, j)'
    BY <1>3, <1>5, <1>7, <2>1 DEF At
  <2>3. QED
    BY <2>2 DEF Alone
<1>8. CASE ~(s = "queue" /\ x = y)
  <2>1. At(u, s, x, i)'
    BY <1>3, <1>5, <1>8 DEF At
  <2>2. QED
    BY <2>1 DEF Alone
<1>9. QED
  BY <1>6, <1>7, <1>8

LEMMA StealHalfAlone ==
  ASSUME Typed, AllAlone, NEW y \in P, NEW v \in P, NEW k \in 1 .. Len(queue[v]), StealHalf(y, v, k)
  PROVE  Typed' /\ AllAlone'
<1>1. PICK b \in Seq(T), q \in Seq(T), n \in Nat :
        /\ batch[y] = <<>> /\ batch' = [batch EXCEPT ![y] = b] /\ queue' = [queue EXCEPT ![v] = q]
        /\ Len(queue[v]) = n + k /\ Len(b) = k /\ Len(q) = n /\ k \in Nat
        /\ \A i \in 1 .. k : b[i] = queue[v][i]
        /\ \A i \in 1 .. n : q[i] = queue[v][i + k]
        /\ UNCHANGED <<next, hand, dead>>
  <2>1. PICK r \in Seq(T), l \in Nat :
          /\ r = queue[v] /\ l = Len(r) /\ k \in Nat /\ k >= 1 /\ k <= l
          /\ \A i \in 1 .. l : r[i] \in T
    BY LenProperties, ElementOfSeq DEF Typed
  <2>2. /\ SubSeq(r, 1, k) \in Seq(T) /\ Len(SubSeq(r, 1, k)) = k
        /\ \A i \in 1 .. k : SubSeq(r, 1, k)[i] = r[i]
    <3>1. \A i \in 1 .. k : r[i] \in T
      BY <2>1
    <3>2. 1 \in Int /\ k \in Int /\ k - 1 + 1 = k
      BY <2>1
    <3>3. /\ SubSeq(r, 1, k) \in Seq(T) /\ Len(SubSeq(r, 1, k)) = k
          /\ \A i \in 1 .. k : SubSeq(r, 1, k)[i] = r[1 + i - 1]
      BY <2>1, <3>1, <3>2, SubSeqProperties
    <3>4. \A i \in 1 .. k : 1 + i - 1 = i
      OBVIOUS
    <3>5. QED
      BY <3>3, <3>4
  <2>3. /\ SubSeq(r, k + 1, l) \in Seq(T) /\ Len(SubSeq(r, k + 1, l)) = l - k
        /\ \A i \in 1 .. l - k : SubSeq(r, k + 1, l)[i] = r[i + k]
    <3>1. (\A i \in k + 1 .. l : r[i] \in T) /\ k + 1 \in Int /\ l \in Int
      BY <2>1
    <3>2. /\ SubSeq(r, k + 1, l) \in Seq(T)
          /\ Len(SubSeq(r, k + 1, l)) = IF k + 1 <= l THEN l - (k + 1) + 1 ELSE 0
          /\ \A i \in 1 .. l - (k + 1) + 1 : SubSeq(r, k + 1, l)[i] = r[(k + 1) + i - 1]
      BY <3>1, SubSeqProperties
    <3>3. l - (k + 1) + 1 = l - k /\ \A i \in 1 .. l - k : (k + 1) + i - 1 = i + k
      BY <2>1
    <3>4. Len(SubSeq(r, k + 1, l)) = l - k
      BY <2>1, <3>2
    <3>5. QED
      BY <3>2, <3>3, <3>4
  <2>4. /\ batch[y] = <<>> /\ batch' = [batch EXCEPT ![y] = SubSeq(r, 1, k)]
        /\ queue' = [queue EXCEPT ![v] = SubSeq(r, k + 1, l)] /\ UNCHANGED <<next, hand, dead>>
    BY <2>1 DEF StealHalf
  <2>5. l - k \in Nat /\ l = (l - k) + k
    BY <2>1
  <2>6. QED
    BY <2>1, <2>2, <2>3, <2>4, <2>5, ZenonT(60)
<1>2. Typed'
  BY <1>1 DEF Typed
<1>3. ASSUME NEW u \in T, NEW s, NEW x, NEW i
      PROVE  Held(u, s, x, i)' <=>
               \/ Held(u, s, x, i) /\ ~(s = "queue" /\ x = v)
               \/ s = "queue" /\ x = v /\ i \in Nat \ {0} /\ Held(u, "queue", v, i + k)
               \/ s = "batch" /\ x = y /\ i \in 1 .. k /\ Held(u, "queue", v, i)
  <2>1. CASE s = "queue" /\ x = v
    <3>1. queue'[v] = q
      BY <1>1 DEF Typed
    <3>2. Held(u, s, x, i)' <=> i \in Nat \ {0} /\ i <= n /\ queue[v][i + k] = u
      BY <1>1, <2>1, <3>1 DEF Held
    <3>3. i \in Nat \ {0} => (Held(u, "queue", v, i + k) <=> i <= n /\ queue[v][i + k] = u)
      BY <1>1 DEF Held
    <3>4. QED
      BY <2>1, <3>2, <3>3
  <2>2. CASE s = "batch" /\ x = y
    <3>1. batch'[y] = b /\ Len(<<>>) = 0
      BY <1>1 DEF Typed
    <3>2. ~Held(u, s, x, i)
      BY <1>1, <2>2, <3>1 DEF Held
    <3>3. Held(u, s, x, i)' <=> i \in 1 .. k /\ queue[v][i] = u
      BY <1>1, <2>2, <3>1 DEF Held
    <3>4. i \in 1 .. k => (Held(u, "queue", v, i) <=> queue[v][i] = u)
      BY <1>1 DEF Held
    <3>5. QED
      BY <2>2, <3>2, <3>3, <3>4
  <2>3. CASE ~(s = "queue" /\ x = v) /\ ~(s = "batch" /\ x = y)
    BY <1>1, <2>3 DEF Held, Typed
  <2>4. QED
    BY <2>1, <2>2, <2>3
<1>4. SUFFICES ASSUME NEW u \in T PROVE Alone(u)'
  BY <1>2 DEF AllAlone
<1>5. PICK s, x, i : At(u, s, x, i)
  BY DEF AllAlone, Alone
<1>6. CASE s = "queue" /\ x = v /\ i \in 1 .. k
  <2>1. \A j \in Nat \ {0} : j + k # i
    BY <1>1, <1>6
  <2>2. At(u, "batch", y, i)'
    BY <1>3, <1>5, <1>6, <2>1 DEF At
  <2>3. QED
    BY <2>2 DEF Alone
<1>7. CASE s = "queue" /\ x = v /\ i \notin 1 .. k
  <2>1. PICK j \in Nat \ {0} : i = j + k /\ \A l \in Nat \ {0} : l + k = i => l = j
    <3>1. i \in Nat \ {0}
      BY <1>5, <1>7 DEF At, Held
    <3>2. i - k \in Nat \ {0} /\ i = (i - k) + k
      BY <1>1, <1>7, <3>1
    <3>3. QED
      BY <1>1, <3>1, <3>2
  <2>2. At(u, "queue", v, j)'
    BY <1>3, <1>5, <1>7, <2>1 DEF At
  <2>3. QED
    BY <2>2 DEF Alone
<1>8. CASE ~(s = "queue" /\ x = v)
  <2>1. At(u, s, x, i)'
    BY <1>3, <1>5, <1>8 DEF At
  <2>2. QED
    BY <2>1 DEF Alone
<1>9. QED
  BY <1>6, <1>7, <1>8

LEMMA PublishAlone ==
  ASSUME Typed, AllAlone, NEW y \in P, Publish(y) PROVE Typed' /\ AllAlone'
<1>1. PICK q \in Seq(T), n \in Nat, k \in Nat, h \in T :
        /\ Len(queue[y]) = n /\ Len(batch[y]) = k + 1 /\ h = batch[y][k + 1]
        /\ hand' = [hand EXCEPT ![y] = @ \cup {h}]
        /\ queue' = [queue EXCEPT ![y] = q] /\ Len(q) = n + k
        /\ \A i \in 1 .. n + k : q[i] = IF i <= n THEN queue[y][i] ELSE batch[y][i - n]
        /\ batch' = [batch EXCEPT ![y] = <<>>]
        /\ UNCHANGED <<next, dead>>
  <2>1. PICK r \in Seq(T), b \in Seq(T), n \in Nat, l \in Nat :
          /\ r = queue[y] /\ b = batch[y] /\ n = Len(r) /\ l = Len(b) /\ l >= 1
          /\ \A i \in 1 .. l : b[i] \in T
    BY LenProperties, ElementOfSeq DEF Typed, Publish
  <2>2. PICK k \in Nat : l = k + 1 /\ k = l - 1
    <3>1. l - 1 \in Nat /\ l = (l - 1) + 1
      BY <2>1
    <3>2. QED
      BY <3>1
  <2>3. PICK c \in Seq(T) : /\ c = SubSeq(b, 1, k) /\ Len(c) = k
                            /\ \A i \in 1 .. k : c[i] = b[i]
    <3>1. (\A i \in 1 .. k : b[i] \in T) /\ 1 \in Int /\ k \in Int /\ k - 1 + 1 = k
      BY <2>1, <2>2
    <3>2. /\ SubSeq(b, 1, k) \in Seq(T)
          /\ Len(SubSeq(b, 1, k)) = IF 1 <= k THEN k - 1 + 1 ELSE 0
          /\ \A i \in 1 .. k - 1 + 1 : SubSeq(b, 1, k)[i] = b[1 + i - 1]
      BY <3>1, SubSeqProperties
    <3>3. Len(SubSeq(b, 1, k)) = k
      BY <2>2, <3>2
    <3>4. \A i \in 1 .. k : 1 + i - 1 = i
      OBVIOUS
    <3>5. QED
      BY <3>1, <3>2, <3>3, <3>4
  <2>4. /\ r \o c \in Seq(T) /\ Len(r \o c) = n + k
        /\ \A i \in 1 .. n + k : (r \o c)[i] = IF i <= n THEN r[i] ELSE c[i - n]
    BY <2>1, <2>3, ConcatProperties
  <2>5. \A i \in 1 .. n + k : ~(i <= n) => c[i - n] = b[i - n]
    <3>1. \A i \in 1 .. n + k : ~(i <= n) => i - n \in 1 .. k
      BY <2>1, <2>2
    <3>2. QED
      BY <2>3, <3>1
  <2>6. /\ hand' = [hand EXCEPT ![y] = @ \cup {b[k + 1]}] /\ b[k + 1] \in T
        /\ queue' = [queue EXCEPT ![y] = r \o c]
        /\ batch' = [batch EXCEPT ![y] = <<>>]
        /\ UNCHANGED <<next, dead>>
    BY <2>1, <2>2, <2>3 DEF Publish
  <2>7. \A i \in 1 .. n + k : (r \o c)[i] = IF i <= n THEN r[i] ELSE b[i - n]
    BY <2>4, <2>5
  <2>8. Len(r) = n /\ Len(b) = k + 1
    BY <2>1, <2>2
  <2> HIDE <2>3
  <2>9. QED
    BY <2>1, <2>4, <2>6, <2>7, <2>8
<1>2. Typed'
  BY <1>1, EmptySeq DEF Typed
<1>3. ASSUME NEW u \in T, NEW s, NEW x, NEW i
      PROVE  Held(u, s, x, i)' <=>
               \/ Held(u, s, x, i) /\ ~(s = "batch" /\ x = y)
               \/ s = "queue" /\ x = y /\ i \in n + 1 .. n + k /\ Held(u, "batch", y, i - n)
               \/ s = "hand" /\ x = y /\ i = h /\ Held(u, "batch", y, k + 1)
  <2>1. CASE s = "queue" /\ x = y
    <3>1. queue'[y] = q
      BY <1>1 DEF Typed
    <3>2. Held(u, s, x, i)' <=> i \in 1 .. n + k /\ q[i] = u
      BY <1>1, <2>1, <3>1 DEF Held
    <3>3. Held(u, s, x, i) <=> i \in 1 .. n /\ queue[y][i] = u
      BY <1>1, <2>1 DEF Held
    <3>4. i \in n + 1 .. n + k => (Held(u, "batch", y, i - n) <=> batch[y][i - n] = u)
      BY <1>1 DEF Held
    <3>5. CASE i \in 1 .. n
      <4>1. i \in 1 .. n + k /\ i <= n /\ i \notin n + 1 .. n + k
        BY <1>1, <3>5
      <4>2. q[i] = queue[y][i]
        BY <1>1, <4>1
      <4>3. QED
        BY <2>1, <3>2, <3>3, <3>5, <4>1, <4>2
    <3>6. CASE i \in n + 1 .. n + k
      <4>1. i \in 1 .. n + k /\ ~(i <= n)
        BY <1>1, <3>6
      <4>2. q[i] = batch[y][i - n]
        BY <1>1, <4>1
      <4>3. QED
        BY <2>1, <3>2, <3>3, <3>4, <3>6, <4>1, <4>2
    <3>7. CASE i \notin 1 .. n /\ i \notin n + 1 .. n + k
      <4>1. i \notin 1 .. n + k
        BY <1>1, <3>7
      <4>2. QED
        BY <2>1, <3>2, <3>3, <3>7, <4>1
    <3>8. QED
      BY <3>5, <3>6, <3>7
  <2>2. CASE s = "hand" /\ x = y
    <3>1. hand'[y] = hand[y] \cup {h}
      BY <1>1 DEF Typed
    <3>2. Held(u, "batch", y, k + 1) <=> u = h
      BY <1>1 DEF Held
    <3>3. QED
      BY <2>2, <3>1, <3>2 DEF Held
  <2>3. CASE s = "batch" /\ x = y
    <3>1. batch'[y] = <<>> /\ Len(<<>>) = 0
      BY <1>1 DEF Typed
    <3>2. QED
      BY <2>3, <3>1 DEF Held
  <2>4. CASE ~(s \in {"queue", "hand", "batch"} /\ x = y)
    BY <1>1, <2>4 DEF Held, Typed
  <2>5. QED
    BY <2>1, <2>2, <2>3, <2>4
<1>4. SUFFICES ASSUME NEW u \in T PROVE Alone(u)'
  BY <1>2 DEF AllAlone
<1>5. PICK s, x, i : At(u, s, x, i)
  BY DEF AllAlone, Alone
<1>6. CASE s = "batch" /\ x = y /\ i = k + 1
  <2>1. \A j \in n + 1 .. n + k : j - n # i
    BY <1>1, <1>6
  <2>2. At(u, "hand", y, h)'
    BY <1>3, <1>5, <1>6, <2>1 DEF At
  <2>3. QED
    BY <2>2 DEF Alone
<1>7. CASE s = "batch" /\ x = y /\ i # k + 1
  <2>1. PICK j \in n + 1 .. n + k : i = j - n /\ \A l \in n + 1 .. n + k : l - n = i => l = j
    <3>1. i \in Nat \ {0} /\ i <= k + 1
      BY <1>1, <1>5, <1>7 DEF At, Held
    <3>2. n + i \in n + 1 .. n + k /\ i = (n + i) - n
      BY <1>1, <1>7, <3>1
    <3>3. QED
      BY <1>1, <3>1, <3>2
  <2>2. At(u, "queue", y, j)'
    BY <1>3, <1>5, <1>7, <2>1 DEF At
  <2>3. QED
    BY <2>2 DEF Alone
<1>8. CASE ~(s = "batch" /\ x = y)
  <2>1. At(u, s, x, i)'
    BY <1>3, <1>5, <1>8 DEF At
  <2>2. QED
    BY <2>1 DEF Alone
<1>9. QED
  BY <1>6, <1>7, <1>8

-----------------------------------------------------------------------------
(* The theorem                                                              *)

\* At the start one task is in a hand and the others are dead.
LEMMA InitAlone == ASSUME NULL \notin T, Init PROVE Typed /\ AllAlone
<1>1. PICK y \in P, t \in T : /\ hand = [x \in P |-> IF x = y THEN {t} ELSE {}]
                              /\ dead = T \ {t}
  BY DEF Init
<1>2. Typed
  BY <1>1, EmptySeq DEF Init, Typed
<1>3. ASSUME NEW u \in T PROVE Alone(u)
  <2>1. \A s, x, i : Held(u, s, x, i) <=> \/ s = "dead" /\ x = u /\ i = 0 /\ u # t
                                          \/ s = "hand" /\ x = y /\ i = u /\ u = t
    BY <1>1 DEF Init, Held
  <2>2. At(u, "dead", u, 0) \/ At(u, "hand", y, u)
    BY <2>1 DEF At
  <2>3. QED
    BY <2>2 DEF Alone
<1>4. QED
  BY <1>2, <1>3 DEF AllAlone

LEMMA NextAlone == ASSUME NULL \notin T, Typed, AllAlone, [Next]_vars PROVE Typed' /\ AllAlone'
<1>1. CASE Next
  <2>1. PICK y \in P :
          \/ \E t \in T : Spawn(y, t) \/ Exit(y, t) \/ PutNext(y, t) \/ PutTail(y, t)
          \/ TakeNext(y) \/ TakeHead(y) \/ Publish(y)
          \/ \E v \in P : \/ StealNext(y, v)
                          \/ \E k \in 1 .. Len(queue[v]) : StealHalf(y, v, k)
    BY <1>1 DEF Next
  <2>2. QED
    BY <2>1, SpawnAlone, ExitAlone, PutNextAlone, PutTailAlone, TakeNextAlone, TakeHeadAlone,
       PublishAlone, StealNextAlone, StealHalfAlone
<1>2. CASE UNCHANGED vars
  BY <1>2, StillAlone DEF vars, Typed
<1>3. QED
  BY <1>1, <1>2

\* Whoever puts, takes and steals, a task is dead, in a hand, in a slot, or at
\* one index of one queue or batch: queues that keep this promise neither lose
\* a task nor run it twice.
THEOREM EachTaskOnce == ASSUME NULL \notin T PROVE Spec => []AllAlone
<1>1. Init => Typed /\ AllAlone
  BY InitAlone
<1>2. Typed /\ AllAlone /\ [Next]_vars => (Typed /\ AllAlone)'
  BY NextAlone
<1>3. QED
  BY <1>1, <1>2, PTL DEF Spec
=============================================================================
