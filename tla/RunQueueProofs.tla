--------------------------- MODULE RunQueueProofs ---------------------------
(* Theorems about the local run queues, for any number of processors, tasks *)
(* and observers, any even ring size and any number of puts.                *)
EXTENDS RunQueue, SequenceTheorems, TLAPS

-----------------------------------------------------------------------------
(* Arithmetic of the ring                                                   *)

LEMMA SizeNat == Size \in Nat /\ Size > 0
BY SizeAssumption

\* A slot number is an index of the ring.
LEMMA SlotRange == \A i \in Nat : Slot(i) \in 0 .. Size-1
BY SizeAssumption DEF Slot

\* Two tasks less than the ring's size apart are in different slots.
LEMMA SlotDistinct ==
  ASSUME NEW i \in Nat, NEW j \in Nat, i < j, j < i + Size
  PROVE  Slot(i) # Slot(j)
<1> SUFFICES ASSUME i % Size = j % Size PROVE FALSE
  BY DEF Slot
<1> DEFINE q == (j \div Size) - (i \div Size)
<1>1. /\ i = Size * (i \div Size) + (i % Size) /\ i \div Size \in Int
      /\ j = Size * (j \div Size) + (j % Size) /\ j \div Size \in Int
  BY SizeNat
<1>2. j - i = Size * q /\ q \in Int
  BY <1>1, SizeNat
<1> HIDE DEF q
<1>3. 0 < Size * q /\ Size * q < Size
  BY <1>2, SizeNat
<1>4. CASE q <= 0
  BY <1>2, <1>3, <1>4, SizeNat
<1>5. CASE q >= 1
  BY <1>2, <1>3, <1>5, SizeNat
<1>6. QED
  BY <1>2, <1>4, <1>5

\* Half of the ring is at least one slot, and less than all of it.
LEMMA HalfRing == Size \div 2 \in Nat /\ 1 <= Size \div 2 /\ Size \div 2 < Size
BY SizeAssumption

\* Storing a number keeps a function to the naturals one.
LEMMA StoreNat ==
  \A f \in [P -> Nat], p \in P, x \in Nat : [f EXCEPT ![p] = x] \in [P -> Nat]
OBVIOUS

\* A number has one quotient and one remainder.
LEMMA ModUnique ==
  ASSUME NEW d \in Nat, d > 0, NEW q \in Int, NEW r \in Nat, r < d
  PROVE  (d * q + r) % d = r
<1> DEFINE x == d * q + r
           q2 == x \div d
           r2 == x % d
           e == q - q2
<1>1. x \in Int /\ q2 \in Int /\ r2 \in Nat /\ r2 < d /\ x = d * q2 + r2
  BY SMT
<1>2. d * e = r2 - r /\ e \in Int
  BY <1>1
<1> HIDE DEF e
<1>3. -d < d * e /\ d * e < d
  BY <1>1, <1>2
<1>4. CASE e >= 1
  BY <1>2, <1>3, <1>4
<1>5. CASE e <= -1
  BY <1>2, <1>3, <1>5
<1>6. CASE e = 0
  BY <1>1, <1>2, <1>6
<1>7. QED
  BY <1>2, <1>4, <1>5, <1>6

\* The u32 counters of the code lose nothing: when the ring's size divides
\* M = 2^32, and head and tail are less than M apart, the wrapped difference is
\* the difference and the wrapped counter has the same slot.
LEMMA WrapSound ==
  ASSUME NEW c \in Nat, c > 0, NEW M \in Nat, M = Size * c,
         NEW head \in Nat, NEW tail \in Nat, head <= tail, tail < head + M
  PROVE  /\ ((tail % M) - (head % M)) % M = tail - head
         /\ (tail % M) % Size = tail % Size
<1> DEFINE qt == tail \div M
           qh == head \div M
           rt == tail % M
           rh == head % M
<1>0. M > 0 /\ Size \in Nat /\ Size > 0
  BY SizeNat
<1>1. /\ tail = M * qt + rt /\ head = M * qh + rh /\ qt \in Int /\ qh \in Int
      /\ rt \in Nat /\ rh \in Nat
  BY <1>0
<1> HIDE DEF qt, qh, rt, rh
<1>2. rt - rh = M * (qh - qt) + (tail - head)
  BY <1>1
<1>3. (rt - rh) % M = tail - head
  <2>1. qh - qt \in Int /\ tail - head \in Nat /\ tail - head < M
    BY <1>1
  <2>2. (M * (qh - qt) + (tail - head)) % M = tail - head
    BY <1>0, <2>1, ModUnique
  <2>3. QED
    BY <1>2, <2>2
<1>4. rt % Size = tail % Size
  <2> DEFINE s == rt % Size
             e == rt \div Size
  <2>1. rt = Size * e + s /\ s \in Nat /\ s < Size /\ e \in Int
    BY <1>0, <1>1
  <2> HIDE DEF s, e
  <2>2. M * qt = Size * (c * qt)
    BY <1>0, <1>1
  <2>3. tail = Size * (c * qt + e) + s /\ c * qt + e \in Int
    BY <1>0, <1>1, <2>1, <2>2
  <2>4. tail % Size = s
    BY <1>0, <2>1, <2>3, ModUnique
  <2>5. QED
    BY <2>4 DEF s
<1>5. QED
  BY <1>3, <1>4 DEF rt, rh

-----------------------------------------------------------------------------
(* The inductive invariant: what each M may rely on about the queues, given *)
(* where it is in the code.                                                 *)

\* Labels at which p's own queue was found empty, and the ones at which it is
\* looking for a task at all.
Stealing == {"hungry", "grabhead", "grabtail", "copy", "grabcas",
             "grabnext", "grabnextcas", "stolen"}
Looking == Stealing \cup {"getnext", "getnextcas", "gethead", "getheadcas"}

\* The slots of p that are in use hold tasks, and a slot p has written but not
\* yet published holds what it wrote.
RingView(p) ==
  /\ runqhead[p] <= runqtail[p] /\ runqtail[p] <= runqhead[p] + Size
  /\ \A i \in Nat : runqhead[p] <= i /\ i < runqtail[p] => runq[p][Slot(i)] \in T
  /\ pc[p] = "puttail" => runq[p][Slot(runqtail[p])] = tp[p]
  /\ pc[p] = "stolen" =>
       \A i \in Nat : runqtail[p] <= i /\ i < runqtail[p] + n[p] => runq[p][Slot(i)] \in T

\* What the owner of p remembers of its own queue: a head it has read is never
\* ahead of the head (only thieves move it meanwhile), so there is room for a
\* slot it is publishing, and the queue it found empty stays so, because only
\* the owner puts.
OwnerView(p) ==
  /\ pc[p] \in {"put", "getheadcas"} => h[p] <= runqhead[p]
  /\ pc[p] = "getheadcas" => h[p] < runqtail[p]
  /\ pc[p] = "puttail" => runqtail[p] < runqhead[p] + Size
  /\ pc[p] \in Stealing => runqhead[p] = runqtail[p]

\* What a thief remembers of its victim's: n tasks from h on were put there.
ThiefView(p) ==
  /\ pc[p] \in {"grabtail", "copy", "grabcas"} => h[p] <= runqhead[victim[p]]
  /\ pc[p] \in {"copy", "grabcas"} => h[p] + n[p] <= runqtail[victim[p]]
  /\ pc[p] \in {"copy", "grabcas", "stolen"} => n[p] >= 1 /\ n[p] < Size
  /\ pc[p] \in Stealing \ {"hungry", "stolen"} => victim[p] # p
  /\ pc[p] = "copy" => k[p] < n[p]
  /\ pc[p] = "grabcas" => k[p] = n[p]

\* What a thief has copied is what its victim's slots hold, as long as the
\* victim's head is where the thief read it.
CopyView(p) ==
  pc[p] \in {"copy", "grabcas"} /\ runqhead[victim[p]] = h[p] =>
    \A j \in Nat : j < k[p] =>
      runq[p][Slot(runqtail[p] + j)] = runq[victim[p]][Slot(h[p] + j)]

\* Which of its two hands the M that owns p has a task in.
TaskView(p) ==
  /\ pc[p] \in {"run", "casnext"} => cur[p] \in T
  /\ pc[p] \in {"casnext", "puthead", "put", "puttail"} => tp[p] \in T
  /\ pc[p] \in Looking \cup {"run"} => tp[p] = NULL
  /\ pc[p] \in Looking => cur[p] = NULL
  /\ pc[p] \in {"getnextcas", "grabnextcas"} => old[p] \in T

View(p) == RingView(p) /\ OwnerView(p) /\ ThiefView(p) /\ CopyView(p) /\ TaskView(p)

\* An observer's values are a snapshot as long as the tail has not moved.
ObserverView(m) ==
  /\ opc[m] \in {"tail", "next", "check"} => oh[m] <= runqhead[ov[m]]
  /\ opc[m] \in {"next", "check"} => ot[m] <= runqtail[ov[m]]
  /\ opc[m] = "check" /\ oh[m] = ot[m] /\ on[m] = NULL /\ runqtail[ov[m]] = ot[m]
       => empty[m]
  /\ opc[m] = "empty" => empty[m]

IInv == TypeOK /\ (\A p \in P : View(p)) /\ (\A m \in Observer : ObserverView(m))

\* What a step of p guarantees to the others: heads and tails only grow, only
\* its own tail and slots change, and of those no slot that stays in use.
Guarantee(p) ==
  /\ \A q \in P : /\ runqhead[q] <= runqhead'[q] /\ runqhead'[q] <= runqtail'[q]
                  /\ runqtail[q] <= runqtail'[q]
  /\ \A q \in P \ {p} : /\ runqtail'[q] = runqtail[q] /\ runq'[q] = runq[q]
                        /\ pc'[q] = pc[q] /\ cur'[q] = cur[q] /\ tp'[q] = tp[q]
                        /\ old'[q] = old[q] /\ victim'[q] = victim[q]
                        /\ h'[q] = h[q] /\ n'[q] = n[q] /\ k'[q] = k[q]
  /\ \A i \in Nat : runqhead'[p] <= i /\ i < runqtail[p] =>
                      runq'[p][Slot(i)] = runq[p][Slot(i)]

-----------------------------------------------------------------------------
\* The scheduler starts with every queue empty.
LEMMA InitInv == Init => IInv
<1> SUFFICES ASSUME Init PROVE IInv
  OBVIOUS
<1> USE SizeNat, ConstAssumption DEF Init
<1>1. TypeOK
  BY DEF TypeOK, Label, OLabel
<1>2. ASSUME NEW p \in P PROVE View(p)
  <2>1. pc[p] \in {"run", "getnext"} /\ tp[p] = NULL
        /\ (pc[p] = "run" => cur[p] \in T) /\ (pc[p] = "getnext" => cur[p] = NULL)
    OBVIOUS
  <2>2. runqhead[p] = 0 /\ runqtail[p] = 0
    OBVIOUS
  <2>3. QED
    BY <2>1, <2>2
       DEF View, RingView, OwnerView, ThiefView, CopyView, TaskView, Stealing, Looking
<1>3. ASSUME NEW m \in Observer PROVE ObserverView(m)
  BY DEF ObserverView
<1>4. QED
  BY <1>1, <1>2, <1>3 DEF IInv

\* What the type invariant says of one processor.
Typed(p) ==
  /\ runqhead[p] \in Nat /\ runqtail[p] \in Nat
  /\ h[p] \in Nat /\ n[p] \in Nat /\ k[p] \in Nat /\ victim[p] \in P

\* What p guarantees is all the others rely on.
LEMMA Rely ==
  ASSUME IInv, TypeOK', NEW p \in P, Guarantee(p), NEW q \in P, q # p
  PROVE  View(q)'
<1> DEFINE v == victim[q]
<1>1. View(q) /\ Typed(q) /\ Typed(q)' /\ Typed(v) /\ v \in P /\ Typed(v)'
  BY DEF IInv, TypeOK, Typed
<1>2. /\ runqhead[q] <= runqhead'[q] /\ runqhead'[q] <= runqtail'[q]
      /\ runqhead[v] <= runqhead'[v] /\ runqtail[v] <= runqtail'[v]
      /\ runqtail'[q] = runqtail[q] /\ runq'[q] = runq[q]
      /\ pc'[q] = pc[q] /\ cur'[q] = cur[q] /\ tp'[q] = tp[q]
      /\ old'[q] = old[q] /\ victim'[q] = v
      /\ h'[q] = h[q] /\ n'[q] = n[q] /\ k'[q] = k[q]
  BY <1>1 DEF Guarantee
<1>3. RingView(q)' /\ OwnerView(q)'
  BY <1>1, <1>2, SizeNat DEF View, RingView, OwnerView, Typed
<1>4. ThiefView(q)' /\ TaskView(q)'
  BY <1>1, <1>2 DEF View, ThiefView, TaskView, Typed
<1>5. CopyView(q)'
  <2> SUFFICES ASSUME pc[q] \in {"copy", "grabcas"}, runqhead'[v] = h[q],
                      NEW j \in Nat, j < k[q]
               PROVE  runq[q][Slot(runqtail[q] + j)] = runq'[v][Slot(h[q] + j)]
    BY <1>2 DEF CopyView
  <2>1. /\ h[q] <= runqhead[v] /\ h[q] + n[q] <= runqtail[v] /\ k[q] <= n[q]
        /\ runqhead[v] <= runqhead'[v]
    BY <1>1, <1>2 DEF View, ThiefView, Typed
  <2> runqhead[v] = h[q] /\ h[q] + j < runqtail[v] /\ h[q] + j \in Nat
    BY <1>1, <2>1 DEF Typed
  <2>2. runq[q][Slot(runqtail[q] + j)] = runq[v][Slot(h[q] + j)]
    BY <1>1 DEF View, CopyView
  <2>3. runq'[v][Slot(h[q] + j)] = runq[v][Slot(h[q] + j)]
    BY <1>1 DEF Guarantee, Typed
  <2>4. QED
    BY <2>2, <2>3
<1>6. QED
  BY <1>3, <1>4, <1>5 DEF View

\* A step of p touches no observer, and a snapshot only expires.
LEMMA Watched ==
  ASSUME IInv, TypeOK', NEW p \in P, Guarantee(p), UNCHANGED obsVars, NEW m \in Observer
  PROVE  ObserverView(m)'
<1> DEFINE v == ov[m]
<1>1. v \in P /\ ObserverView(m) /\ oh[m] \in Nat /\ ot[m] \in Nat
  BY DEF IInv, TypeOK
<1>2. Typed(v) /\ Typed(v)'
  BY <1>1 DEF IInv, TypeOK, Typed
<1>3. runqhead[v] <= runqhead'[v] /\ runqtail[v] <= runqtail'[v]
  BY <1>1 DEF Guarantee
<1>4. QED
  BY <1>1, <1>2, <1>3 DEF ObserverView, obsVars, Typed

\* The obligation that is left for each step of a processor.
LEMMA StepInv ==
  ASSUME IInv, NEW p \in P, TypeOK', Guarantee(p), View(p)', UNCHANGED obsVars
  PROVE  IInv'
BY Rely, Watched DEF IInv

\* The steps of sched_spawn, t_yield1 and p_runqput other than the store to the
\* ring (PutSlotInv).
LEMMA PutInv ==
  ASSUME IInv, NEW p \in P,
         \/ \E t \in T : Spawn(p, t)
         \/ PutNext(p)
         \/ KickNext(p)
         \/ CasNextFail(p)
         \/ Yield(p)
         \/ PutHead(p)
         \/ PutFull(p)
         \/ PutTail(p)
  PROVE  IInv'
<1>0. TypeOK /\ View(p) /\ Typed(p) /\ \A q \in P : runqhead[q] <= runqtail[q] /\ Typed(q)
  BY DEF IInv, TypeOK, Typed, View, RingView
<1> USE DEF Goto, queueVars, taskVars, locals, obsVars
<1>1. ASSUME NEW t \in T, Spawn(p, t) PROVE IInv'
  <2>1. TypeOK'
    BY <1>0, <1>1, ConstAssumption DEF Spawn, TypeOK, Label
  <2>2. Guarantee(p)
    BY <1>0, <1>1 DEF Spawn, TypeOK, Guarantee
  <2>3. RingView(p)' /\ CopyView(p)'
    BY <1>0, <1>1, SizeNat DEF Spawn, TypeOK, Typed, View, RingView, OwnerView, CopyView
  <2>4. OwnerView(p)' /\ ThiefView(p)'
    BY <1>0, <1>1, SizeNat DEF Spawn, TypeOK, Typed, View, RingView, OwnerView, ThiefView, Stealing
  <2>5. TaskView(p)'
    BY <1>0, <1>1, ConstAssumption DEF Spawn, TypeOK, View, TaskView, Looking, Stealing
  <2>6. QED
    BY <1>1, <2>1, <2>2, <2>3, <2>4, <2>5, StepInv DEF Spawn, View
<1>2. ASSUME PutNext(p) PROVE IInv'
  <2>1. TypeOK'
    BY <1>0, <1>2, ConstAssumption DEF PutNext, TypeOK, Label
  <2>2. Guarantee(p)
    BY <1>0, <1>2 DEF PutNext, TypeOK, Guarantee
  <2>3. RingView(p)' /\ CopyView(p)'
    BY <1>0, <1>2, SizeNat DEF PutNext, TypeOK, Typed, View, RingView, OwnerView, CopyView
  <2>4. OwnerView(p)' /\ ThiefView(p)'
    BY <1>0, <1>2, SizeNat DEF PutNext, TypeOK, Typed, View, RingView, OwnerView, ThiefView, Stealing
  <2>5. TaskView(p)'
    BY <1>0, <1>2, ConstAssumption DEF PutNext, TypeOK, View, TaskView, Looking, Stealing
  <2>6. QED
    BY <1>2, <2>1, <2>2, <2>3, <2>4, <2>5, StepInv DEF PutNext, View
<1>3. ASSUME KickNext(p) PROVE IInv'
  <2>1. TypeOK'
    BY <1>0, <1>3, ConstAssumption DEF KickNext, TypeOK, Label
  <2>2. Guarantee(p)
    BY <1>0, <1>3 DEF KickNext, TypeOK, Guarantee
  <2>3. RingView(p)' /\ CopyView(p)'
    BY <1>0, <1>3, SizeNat DEF KickNext, TypeOK, Typed, View, RingView, OwnerView, CopyView
  <2>4. OwnerView(p)' /\ ThiefView(p)'
    BY <1>0, <1>3, SizeNat DEF KickNext, TypeOK, Typed, View, RingView, OwnerView, ThiefView, Stealing
  <2>5. TaskView(p)'
    BY <1>0, <1>3, ConstAssumption DEF KickNext, TypeOK, View, TaskView, Looking, Stealing
  <2>6. QED
    BY <1>3, <2>1, <2>2, <2>3, <2>4, <2>5, StepInv DEF KickNext, View
<1>4. ASSUME CasNextFail(p) PROVE IInv'
  <2>1. TypeOK'
    BY <1>0, <1>4, ConstAssumption DEF CasNextFail, TypeOK, Label
  <2>2. Guarantee(p)
    BY <1>0, <1>4 DEF CasNextFail, TypeOK, Guarantee
  <2>3. RingView(p)' /\ CopyView(p)'
    BY <1>0, <1>4, SizeNat DEF CasNextFail, TypeOK, Typed, View, RingView, OwnerView, CopyView
  <2>4. OwnerView(p)' /\ ThiefView(p)'
    BY <1>0, <1>4, SizeNat DEF CasNextFail, TypeOK, Typed, View, RingView, OwnerView, ThiefView, Stealing
  <2>5. TaskView(p)'
    BY <1>0, <1>4, ConstAssumption DEF CasNextFail, TypeOK, View, TaskView, Looking, Stealing
  <2>6. QED
    BY <1>4, <2>1, <2>2, <2>3, <2>4, <2>5, StepInv DEF CasNextFail, View
<1>5. ASSUME Yield(p) PROVE IInv'
  <2>1. TypeOK'
    BY <1>0, <1>5, ConstAssumption DEF Yield, TypeOK, Label
  <2>2. Guarantee(p)
    BY <1>0, <1>5 DEF Yield, TypeOK, Guarantee
  <2>3. RingView(p)' /\ CopyView(p)'
    BY <1>0, <1>5, SizeNat DEF Yield, TypeOK, Typed, View, RingView, OwnerView, CopyView
  <2>4. OwnerView(p)' /\ ThiefView(p)'
    BY <1>0, <1>5, SizeNat DEF Yield, TypeOK, Typed, View, RingView, OwnerView, ThiefView, Stealing
  <2>5. TaskView(p)'
    BY <1>0, <1>5, ConstAssumption DEF Yield, TypeOK, View, TaskView, Looking, Stealing
  <2>6. QED
    BY <1>5, <2>1, <2>2, <2>3, <2>4, <2>5, StepInv DEF Yield, View
<1>6. ASSUME PutHead(p) PROVE IInv'
  <2>1. TypeOK'
    BY <1>0, <1>6, ConstAssumption DEF PutHead, TypeOK, Label
  <2>2. Guarantee(p)
    BY <1>0, <1>6 DEF PutHead, TypeOK, Guarantee
  <2>3. RingView(p)' /\ CopyView(p)'
    BY <1>0, <1>6, SizeNat DEF PutHead, TypeOK, Typed, View, RingView, OwnerView, CopyView
  <2>4. OwnerView(p)' /\ ThiefView(p)'
    BY <1>0, <1>6, SizeNat DEF PutHead, TypeOK, Typed, View, RingView, OwnerView, ThiefView, Stealing
  <2>5. TaskView(p)'
    BY <1>0, <1>6, ConstAssumption DEF PutHead, TypeOK, View, TaskView, Looking, Stealing
  <2>6. QED
    BY <1>6, <2>1, <2>2, <2>3, <2>4, <2>5, StepInv DEF PutHead, View
<1>7. ASSUME PutFull(p) PROVE IInv'
  <2>1. TypeOK'
    BY <1>0, <1>7, ConstAssumption DEF PutFull, TypeOK, Label
  <2>2. Guarantee(p)
    BY <1>0, <1>7 DEF PutFull, TypeOK, Guarantee
  <2>3. RingView(p)' /\ CopyView(p)'
    BY <1>0, <1>7, SizeNat DEF PutFull, TypeOK, Typed, View, RingView, OwnerView, CopyView
  <2>4. OwnerView(p)' /\ ThiefView(p)'
    BY <1>0, <1>7, SizeNat DEF PutFull, TypeOK, Typed, View, RingView, OwnerView, ThiefView, Stealing
  <2>5. TaskView(p)'
    BY <1>0, <1>7, ConstAssumption DEF PutFull, TypeOK, View, TaskView, Looking, Stealing
  <2>6. QED
    BY <1>7, <2>1, <2>2, <2>3, <2>4, <2>5, StepInv DEF PutFull, View
<1>8. ASSUME PutTail(p) PROVE IInv'
  <2>1. TypeOK'
    BY <1>0, <1>8, ConstAssumption DEF PutTail, TypeOK, Label
  <2>2. Guarantee(p)
    BY <1>0, <1>8 DEF PutTail, TypeOK, Guarantee
  <2>3. RingView(p)' /\ CopyView(p)'
    <3>1. /\ runqtail'[p] = runqtail[p] + 1 /\ pc'[p] \in {"getnext", "run"}
          /\ runqhead' = runqhead /\ runq' = runq /\ pc[p] = "puttail"
      BY <1>0, <1>8 DEF PutTail, TypeOK
    <3>2. runq[p][Slot(runqtail[p])] \in T /\ runqtail[p] < runqhead[p] + Size
      BY <1>0, <3>1 DEF View, RingView, OwnerView, TaskView
    <3>3. \A i \in Nat : i < runqtail[p] + 1 => i < runqtail[p] \/ i = runqtail[p]
      BY <1>0 DEF Typed
    <3>4. QED
      BY <1>0, <3>1, <3>2, <3>3, SizeNat DEF View, RingView, CopyView, Typed
  <2>4. OwnerView(p)' /\ ThiefView(p)'
    BY <1>0, <1>8, SizeNat DEF PutTail, TypeOK, Typed, View, RingView, OwnerView, ThiefView, Stealing
  <2>5. TaskView(p)'
    BY <1>0, <1>8, ConstAssumption DEF PutTail, TypeOK, View, TaskView, Looking, Stealing
  <2>6. QED
    BY <1>8, <2>1, <2>2, <2>3, <2>4, <2>5, StepInv DEF PutTail, View
<1>9. QED
  BY <1>1, <1>2, <1>3, <1>4, <1>5, <1>6, <1>7, <1>8

\* The steps of t_exit and p_runqget other than the one that takes from the
\* ring (GetHeadCasInv).
LEMMA GetInv ==
  ASSUME IInv, NEW p \in P,
         \/ Exit(p)
         \/ GetNext(p)
         \/ GetNextCas(p)
         \/ GetHead(p)
  PROVE  IInv'
<1>0. TypeOK /\ View(p) /\ Typed(p) /\ \A q \in P : runqhead[q] <= runqtail[q] /\ Typed(q)
  BY DEF IInv, TypeOK, Typed, View, RingView
<1> USE DEF Goto, queueVars, taskVars, locals, obsVars
<1>1. ASSUME Exit(p) PROVE IInv'
  <2>1. TypeOK'
    BY <1>0, <1>1, ConstAssumption DEF Exit, TypeOK, Label, View, TaskView
  <2>2. Guarantee(p)
    BY <1>0, <1>1 DEF Exit, TypeOK, Guarantee
  <2>3. RingView(p)' /\ CopyView(p)'
    BY <1>0, <1>1, SizeNat DEF Exit, TypeOK, Typed, View, RingView, OwnerView, CopyView
  <2>4. OwnerView(p)' /\ ThiefView(p)'
    BY <1>0, <1>1, SizeNat DEF Exit, TypeOK, Typed, View, RingView, OwnerView, ThiefView, Stealing
  <2>5. TaskView(p)'
    BY <1>0, <1>1, ConstAssumption DEF Exit, TypeOK, View, TaskView, Looking, Stealing
  <2>6. QED
    BY <1>1, <2>1, <2>2, <2>3, <2>4, <2>5, StepInv DEF Exit, View
<1>2. ASSUME GetNext(p) PROVE IInv'
  <2>1. TypeOK'
    BY <1>0, <1>2, ConstAssumption DEF GetNext, TypeOK, Label
  <2>2. Guarantee(p)
    BY <1>0, <1>2 DEF GetNext, TypeOK, Guarantee
  <2>3. RingView(p)' /\ CopyView(p)'
    BY <1>0, <1>2, SizeNat DEF GetNext, TypeOK, Typed, View, RingView, OwnerView, CopyView
  <2>4. OwnerView(p)' /\ ThiefView(p)'
    BY <1>0, <1>2, SizeNat DEF GetNext, TypeOK, Typed, View, RingView, OwnerView, ThiefView, Stealing
  <2>5. TaskView(p)'
    BY <1>0, <1>2, ConstAssumption DEF GetNext, TypeOK, View, TaskView, Looking, Stealing
  <2>6. QED
    BY <1>2, <2>1, <2>2, <2>3, <2>4, <2>5, StepInv DEF GetNext, View
<1>3. ASSUME GetNextCas(p) PROVE IInv'
  <2>1. TypeOK'
    <3>1. CASE runnext[p] = old[p]
      <4>1. /\ pc' = [pc EXCEPT ![p] = "run"]
            /\ runnext' = [runnext EXCEPT ![p] = NULL]
            /\ cur' = [cur EXCEPT ![p] = old[p]]
            /\ UNCHANGED <<runqhead, runqtail, runq, dead, puts, locals, obsVars>>
        BY <1>3, <3>1 DEF GetNextCas
      <4>2. QED
        BY <1>0, <4>1 DEF TypeOK, Label
    <3>2. CASE runnext[p] # old[p]
      <4>1. /\ pc' = [pc EXCEPT ![p] = "getnext"]
            /\ UNCHANGED <<queueVars, taskVars, locals, obsVars>>
        BY <1>3, <3>2 DEF GetNextCas
      <4>2. QED
        BY <1>0, <4>1 DEF TypeOK, Label
    <3>3. QED
      BY <3>1, <3>2
  <2>2. Guarantee(p)
    BY <1>0, <1>3 DEF GetNextCas, TypeOK, Guarantee
  <2>3. RingView(p)' /\ CopyView(p)'
    BY <1>0, <1>3, SizeNat DEF GetNextCas, TypeOK, Typed, View, RingView, OwnerView, CopyView
  <2>4. OwnerView(p)' /\ ThiefView(p)'
    <3>1. pc'[p] \in {"run", "getnext"}
      BY <1>0, <1>3 DEF GetNextCas, TypeOK
    <3>2. QED
      BY <3>1 DEF OwnerView, ThiefView, Stealing
  <2>5. TaskView(p)'
    BY <1>0, <1>3, ConstAssumption DEF GetNextCas, TypeOK, View, TaskView, Looking, Stealing
  <2>6. QED
    BY <1>3, <2>1, <2>2, <2>3, <2>4, <2>5, StepInv DEF GetNextCas, View
<1>4. ASSUME GetHead(p) PROVE IInv'
  <2>1. TypeOK'
    BY <1>0, <1>4, ConstAssumption DEF GetHead, TypeOK, Label
  <2>2. Guarantee(p)
    BY <1>0, <1>4 DEF GetHead, TypeOK, Guarantee
  <2>3. RingView(p)' /\ CopyView(p)'
    BY <1>0, <1>4, SizeNat DEF GetHead, TypeOK, Typed, View, RingView, OwnerView, CopyView
  <2>4. OwnerView(p)' /\ ThiefView(p)'
    <3>1. /\ h'[p] = runqhead[p] /\ runqhead' = runqhead /\ runqtail' = runqtail
          /\ pc'[p] = IF runqtail[p] = runqhead[p] THEN "hungry" ELSE "getheadcas"
      BY <1>0, <1>4 DEF GetHead, TypeOK
    <3>2. runqtail[p] # runqhead[p] => runqhead[p] < runqtail[p]
      BY <1>0 DEF Typed
    <3>3. QED
      BY <1>0, <3>1, <3>2 DEF OwnerView, ThiefView, Stealing, Typed
  <2>5. TaskView(p)'
    BY <1>0, <1>4, ConstAssumption DEF GetHead, TypeOK, View, TaskView, Looking, Stealing
  <2>6. QED
    BY <1>4, <2>1, <2>2, <2>3, <2>4, <2>5, StepInv DEF GetHead, View
<1>5. QED
  BY <1>1, <1>2, <1>3, <1>4

\* The steps of a thief that only read.
LEMMA StealInv ==
  ASSUME IInv, NEW p \in P,
         \/ \E v \in P, b \in BOOLEAN : Steal(p, v, b)
         \/ GrabHead(p)
         \/ GrabNext(p)
  PROVE  IInv'
<1>0. TypeOK /\ View(p) /\ Typed(p) /\ \A q \in P : runqhead[q] <= runqtail[q] /\ Typed(q)
  BY DEF IInv, TypeOK, Typed, View, RingView
<1> USE DEF Goto, queueVars, taskVars, locals, obsVars
<1>1. ASSUME NEW v \in P, NEW b \in BOOLEAN, Steal(p, v, b) PROVE IInv'
  <2>1. TypeOK'
    BY <1>0, <1>1, ConstAssumption DEF Steal, TypeOK, Label
  <2>2. Guarantee(p)
    BY SMTT(30), <1>0, <1>1 DEF Steal, TypeOK, Guarantee
  <2>3. RingView(p)' /\ CopyView(p)'
    BY <1>0, <1>1, SizeNat DEF Steal, TypeOK, Typed, View, RingView, OwnerView, CopyView
  <2>4. OwnerView(p)' /\ ThiefView(p)'
    BY <1>0, <1>1, SizeNat DEF Steal, TypeOK, Typed, View, RingView, OwnerView, ThiefView, Stealing
  <2>5. TaskView(p)'
    BY <1>0, <1>1, ConstAssumption DEF Steal, TypeOK, View, TaskView, Looking, Stealing
  <2>6. QED
    BY <1>1, <2>1, <2>2, <2>3, <2>4, <2>5, StepInv DEF Steal, View
<1>2. ASSUME GrabHead(p) PROVE IInv'
  <2>1. TypeOK'
    BY <1>0, <1>2, ConstAssumption DEF GrabHead, TypeOK, Label
  <2>2. Guarantee(p)
    BY <1>0, <1>2 DEF GrabHead, TypeOK, Guarantee
  <2>3. RingView(p)' /\ CopyView(p)'
    BY <1>0, <1>2, SizeNat DEF GrabHead, TypeOK, Typed, View, RingView, OwnerView, CopyView
  <2>4. OwnerView(p)' /\ ThiefView(p)'
    BY <1>0, <1>2, SizeNat DEF GrabHead, TypeOK, Typed, View, RingView, OwnerView, ThiefView, Stealing
  <2>5. TaskView(p)'
    BY <1>0, <1>2, ConstAssumption DEF GrabHead, TypeOK, View, TaskView, Looking, Stealing
  <2>6. QED
    BY <1>2, <2>1, <2>2, <2>3, <2>4, <2>5, StepInv DEF GrabHead, View
<1>3. ASSUME GrabNext(p) PROVE IInv'
  <2>1. TypeOK'
    BY <1>0, <1>3, ConstAssumption DEF GrabNext, TypeOK, Label
  <2>2. Guarantee(p)
    BY <1>0, <1>3 DEF GrabNext, TypeOK, Guarantee
  <2>3. RingView(p)' /\ CopyView(p)'
    BY <1>0, <1>3, SizeNat DEF GrabNext, TypeOK, Typed, View, RingView, OwnerView, CopyView
  <2>4. OwnerView(p)' /\ ThiefView(p)'
    BY <1>0, <1>3, SizeNat DEF GrabNext, TypeOK, Typed, View, RingView, OwnerView, ThiefView, Stealing
  <2>5. TaskView(p)'
    BY <1>0, <1>3, ConstAssumption DEF GrabNext, TypeOK, View, TaskView, Looking, Stealing
  <2>6. QED
    BY <1>3, <2>1, <2>2, <2>3, <2>4, <2>5, StepInv DEF GrabNext, View
<1>4. QED
  BY <1>1, <1>2, <1>3

\* What one store to the ring of p changes, and what it leaves alone.
Store(p, i, x) == runq' = [runq EXCEPT ![p][Slot(i)] = x]

LEMMA RingStore ==
  ASSUME TypeOK, NEW p \in P, NEW i \in Nat, NEW x \in T \cup {NULL}, Store(p, i, x)
  PROVE  /\ runq' \in [P -> [0 .. Size-1 -> T \cup {NULL}]]
         /\ runq'[p][Slot(i)] = x
         /\ \A q \in P \ {p} : runq'[q] = runq[q]
         /\ \A j \in Nat : Slot(j) # Slot(i) => runq'[p][Slot(j)] = runq[p][Slot(j)]
BY SlotRange DEF TypeOK, Store

LEMMA PutSlotInv ==
  ASSUME IInv, NEW p \in P, PutSlot(p) PROVE IInv'
<1>1. TypeOK /\ View(p) /\ Typed(p) /\ \A q \in P : runqhead[q] <= runqtail[q]
  BY DEF IInv, TypeOK, Typed, View, RingView
<1>2. runqhead[p] <= runqtail[p] /\ runqtail[p] < runqhead[p] + Size
  BY <1>1, SizeNat DEF PutSlot, Goto, View, RingView, OwnerView, Typed
<1>3. /\ tp[p] \in T
      /\ Store(p, runqtail[p], tp[p])
      /\ runqhead' = runqhead /\ runqtail' = runqtail /\ tp' = tp
      /\ pc[p] = "put" /\ pc'[p] = "puttail"
  BY <1>1 DEF PutSlot, Goto, locals, TypeOK, View, TaskView, Store
<1>4. \A i \in Nat : runqhead[p] <= i /\ i < runqtail[p] => Slot(runqtail[p]) # Slot(i)
  BY <1>1, <1>2, SlotDistinct, SizeNat DEF Typed
<1>5. /\ runq' \in [P -> [0 .. Size-1 -> T \cup {NULL}]]
      /\ runq'[p][Slot(runqtail[p])] = tp[p]
      /\ \A q \in P \ {p} : runq'[q] = runq[q]
      /\ \A i \in Nat : runqhead[p] <= i /\ i < runqtail[p] =>
                          runq'[p][Slot(i)] = runq[p][Slot(i)]
  <2>1. runqtail[p] \in Nat /\ tp[p] \in T \cup {NULL}
    BY <1>1, <1>3 DEF Typed
  <2>2. QED
    BY <1>1, <1>3, <1>4, <2>1, RingStore
<1> HIDE <1>4
<1>6. TypeOK'
  BY <1>1, <1>5 DEF PutSlot, Goto, taskVars, locals, obsVars, TypeOK, Label
<1>7. Guarantee(p)
  BY <1>1, <1>3, <1>5 DEF PutSlot, Goto, taskVars, locals, TypeOK, Guarantee
<1>8. RingView(p)'
  BY <1>1, <1>2, <1>3, <1>5 DEF View, RingView, Typed
<1>9. OwnerView(p)' /\ ThiefView(p)' /\ CopyView(p)' /\ TaskView(p)'
  BY <1>1, <1>2, <1>3 DEF OwnerView, ThiefView, CopyView, TaskView, Stealing, Looking
<1>10. QED
  BY <1>6, <1>7, <1>8, <1>9, StepInv DEF PutSlot, View

LEMMA GetHeadCasInv ==
  ASSUME IInv, NEW p \in P, GetHeadCas(p) PROVE IInv'
<1>1. TypeOK /\ View(p) /\ Typed(p) /\ \A q \in P : runqhead[q] <= runqtail[q]
  BY DEF IInv, TypeOK, Typed, View, RingView
<1> USE DEF Goto, queueVars, taskVars, locals, obsVars
<1>2. CASE runqhead[p] = h[p]
  <2> DEFINE x == runq[p][Slot(h[p])]
  <2>1. x \in T /\ h[p] < runqtail[p] /\ pc[p] = "getheadcas"
    BY <1>1, <1>2 DEF GetHeadCas, View, RingView, OwnerView, Typed
  <2>2. /\ pc' = [pc EXCEPT ![p] = "run"]
        /\ runqhead' = [runqhead EXCEPT ![p] = h[p] + 1]
        /\ cur' = [cur EXCEPT ![p] = x]
        /\ UNCHANGED <<runqtail, runq, runnext, dead, puts, locals, obsVars>>
    BY <1>2, <2>1 DEF GetHeadCas
  <2> HIDE DEF x
  <2>3. TypeOK'
    <3>1. h[p] + 1 \in Nat
      BY <1>1 DEF Typed
    <3>2. QED
      BY <1>1, <2>1, <2>2, <3>1 DEF TypeOK, Label
  <2>4. /\ pc'[p] = "run" /\ runqhead'[p] = h[p] + 1 /\ cur'[p] = x
        /\ \A q \in P \ {p} : /\ pc'[q] = pc[q] /\ cur'[q] = cur[q]
                              /\ runqhead'[q] = runqhead[q]
    BY <1>1, <2>2 DEF TypeOK
  <2>5. Guarantee(p)
    BY <1>1, <1>2, <2>1, <2>2, <2>4 DEF Guarantee, Typed, TypeOK
  <2>6. RingView(p)'
    BY <1>1, <1>2, <2>1, <2>2, <2>4, SizeNat DEF View, RingView, Typed
  <2>7. OwnerView(p)' /\ ThiefView(p)' /\ CopyView(p)' /\ TaskView(p)'
    BY <1>1, <2>1, <2>2, <2>4
       DEF View, OwnerView, ThiefView, CopyView, TaskView, Stealing, Looking
  <2>8. QED
    BY <2>2, <2>3, <2>5, <2>6, <2>7, StepInv DEF View
<1>3. CASE runqhead[p] # h[p]
  <2>1. /\ pc[p] = "getheadcas" /\ pc' = [pc EXCEPT ![p] = "gethead"]
        /\ UNCHANGED <<queueVars, taskVars, locals, obsVars>>
    BY <1>3 DEF GetHeadCas
  <2>2. TypeOK' /\ Guarantee(p)
    BY <1>1, <2>1 DEF TypeOK, Label, Guarantee
  <2>3. View(p)'
    BY <1>1, <2>1 DEF TypeOK, View, RingView, OwnerView, ThiefView, CopyView, TaskView, Stealing, Looking
  <2>4. QED
    BY <2>1, <2>2, <2>3, StepInv
<1>4. QED
  BY <1>2, <1>3

LEMMA GrabTailInv ==
  ASSUME IInv, NEW p \in P, GrabTail(p) PROVE IInv'
<1> DEFINE v == victim[p]
           m == Half(runqtail[v] - h[p])
<1>1. TypeOK /\ View(p) /\ Typed(p) /\ Typed(v) /\ \A q \in P : runqhead[q] <= runqtail[q]
  BY DEF IInv, TypeOK, Typed, View, RingView
<1>2. /\ pc[p] = "grabtail" /\ v # p /\ h[p] <= runqhead[v] /\ runqhead[p] = runqtail[p]
      /\ tp[p] = NULL /\ cur[p] = NULL
  BY <1>1 DEF GrabTail, View, ThiefView, OwnerView, TaskView, Stealing, Looking
<1>3. m \in Nat /\ h[p] + m <= runqtail[v]
  BY <1>1, <1>2 DEF Half, Typed
<1>4. /\ pc'[p] \in {"grabnext", "hungry", "grabhead", "copy"}
      /\ pc' = [pc EXCEPT ![p] = pc'[p]]
      /\ \/ pc'[p] # "copy" /\ UNCHANGED <<n, k>>
         \/ /\ m >= 1 /\ m < Size
            /\ n' = [n EXCEPT ![p] = m] /\ k' = [k EXCEPT ![p] = 0]
      /\ UNCHANGED <<queueVars, taskVars, old, tp, victim, last, h, obsVars>>
  <2> HIDE DEF m
  <2>1. m \in 1 .. (Size \div 2) => m >= 1 /\ m < Size
    BY <1>3, HalfRing, SizeNat
  <2>2. QED
    BY <1>1, <1>2, <2>1 DEF GrabTail, TypeOK, m
<1> HIDE DEF m
<1> USE DEF queueVars, taskVars, obsVars
<1>5. TypeOK'
  <2>0. n \in [P -> Nat] /\ k \in [P -> Nat]
    BY <1>1 DEF TypeOK
  <2>1. n' \in [P -> Nat] /\ k' \in [P -> Nat]
    BY <2>0, <1>3, <1>4, StoreNat
  <2>2. pc' \in [P -> Label]
    BY <1>1, <1>4 DEF TypeOK, Label
  <2>3. QED
    BY <1>1, <1>4, <2>1, <2>2 DEF TypeOK
<1>6. Guarantee(p)
  BY SMTT(30), <1>1, <1>4 DEF Guarantee, TypeOK
<1>7. RingView(p)' /\ OwnerView(p)' /\ TaskView(p)'
  BY <1>1, <1>2, <1>4 DEF View, RingView, OwnerView, TaskView, Stealing, Looking
<1>8. ThiefView(p)' /\ CopyView(p)'
  BY <1>1, <1>2, <1>3, <1>4 DEF TypeOK, ThiefView, CopyView, Stealing
<1>9. QED
  BY <1>4, <1>5, <1>6, <1>7, <1>8, StepInv DEF View

LEMMA CopyInv ==
  ASSUME IInv, NEW p \in P, Copy(p) PROVE IInv'
<1> DEFINE v == victim[p]
           x == runq[v][Slot(h[p] + k[p])]
           i == runqtail[p] + k[p]
<1>1. TypeOK /\ View(p) /\ Typed(p) /\ Typed(v) /\ \A q \in P : runqhead[q] <= runqtail[q]
  BY DEF IInv, TypeOK, Typed, View, RingView
<1>2. /\ pc[p] = "copy" /\ v # p /\ k[p] < n[p] /\ n[p] < Size /\ n[p] >= 1
      /\ runqhead[p] = runqtail[p] /\ h[p] <= runqhead[v] /\ h[p] + n[p] <= runqtail[v]
      /\ tp[p] = NULL /\ cur[p] = NULL
  BY <1>1 DEF Copy, View, ThiefView, OwnerView, TaskView, Stealing, Looking
<1>3. i \in Nat /\ x \in T \cup {NULL} /\ v \in P
  <2>1. i \in Nat /\ v \in P /\ h[p] + k[p] \in Nat
    BY <1>1 DEF Typed
  <2>2. QED
    BY <1>1, <2>1, SlotRange DEF TypeOK
<1>4. /\ pc'[p] = IF k[p] + 1 = n[p] THEN "grabcas" ELSE "copy"
      /\ pc' = [pc EXCEPT ![p] = pc'[p]]
      /\ Store(p, i, x)
      /\ k' = [k EXCEPT ![p] = k[p] + 1] /\ k'[p] = k[p] + 1
      /\ UNCHANGED <<runqhead, runqtail, runnext, taskVars, old, tp, victim, last, h, n, obsVars>>
  BY <1>1 DEF Copy, TypeOK, Store
<1> HIDE DEF x, i
<1>5. /\ runq' \in [P -> [0 .. Size-1 -> T \cup {NULL}]]
      /\ runq'[p][Slot(i)] = x
      /\ \A q \in P \ {p} : runq'[q] = runq[q]
      /\ \A j \in Nat : Slot(j) # Slot(i) => runq'[p][Slot(j)] = runq[p][Slot(j)]
  BY <1>1, <1>3, <1>4, RingStore
<1> USE DEF taskVars, obsVars
<1>6. TypeOK'
  <2>1. k[p] + 1 \in Nat
    BY <1>1 DEF Typed
  <2>2. pc'[p] \in Label
    BY <1>4 DEF Label
  <2>3. pc' \in [P -> Label] /\ k' \in [P -> Nat]
    BY <1>1, <1>4, <2>1, <2>2 DEF TypeOK
  <2>4. QED
    BY <1>1, <1>4, <1>5, <2>3 DEF TypeOK
<1>7. Guarantee(p)
  <2>1. \A q \in P \ {p} : pc'[q] = pc[q] /\ k'[q] = k[q]
    BY <1>1, <1>4 DEF TypeOK
  <2>2. \A q \in P : runqhead[q] \in Nat /\ runqtail[q] \in Nat
    BY <1>1 DEF TypeOK
  <2>3. QED
    BY <1>1, <1>2, <1>4, <1>5, <2>1, <2>2 DEF Guarantee
<1>8. RingView(p)' /\ OwnerView(p)' /\ ThiefView(p)' /\ TaskView(p)'
  <2>1. RingView(p)'
    BY <1>1, <1>2, <1>4, SizeNat DEF RingView, Typed
  <2>2. OwnerView(p)' /\ TaskView(p)'
    BY <1>2, <1>4 DEF OwnerView, TaskView, Stealing, Looking
  <2>3. ThiefView(p)'
    BY <1>1, <1>2, <1>4 DEF ThiefView, Stealing, Typed
  <2>4. QED
    BY <2>1, <2>2, <2>3
<1>9. CopyView(p)'
  <2> SUFFICES ASSUME runqhead[v] = h[p], NEW j \in Nat, j < k[p] + 1
               PROVE  runq'[p][Slot(runqtail[p] + j)] = runq'[v][Slot(h[p] + j)]
    BY <1>4 DEF CopyView
  <2>1. runq'[v] = runq[v]
    BY <1>2, <1>3, <1>5
  <2>2. CASE j = k[p]
    BY <1>5, <2>1, <2>2 DEF x, i
  <2>3. CASE j < k[p]
    <3>1. runq[p][Slot(runqtail[p] + j)] = runq[v][Slot(h[p] + j)]
      BY <1>1, <1>2, <2>3 DEF View, CopyView
    <3>2. /\ runqtail[p] + j \in Nat /\ runqtail[p] + j < i
          /\ i < (runqtail[p] + j) + Size
      BY <1>1, <1>2, <2>3, SizeNat DEF Typed, i
    <3>3. Slot(runqtail[p] + j) # Slot(i)
      BY <1>3, <3>2, SlotDistinct
    <3>4. QED
      BY <1>5, <2>1, <3>1, <3>2, <3>3
  <2>4. QED
    BY <1>1, <2>2, <2>3 DEF Typed
<1>10. QED
  BY <1>4, <1>6, <1>7, <1>8, <1>9, StepInv DEF View

LEMMA GrabCasInv ==
  ASSUME IInv, NEW p \in P, GrabCas(p) PROVE IInv'
<1> DEFINE v == victim[p]
<1>1. /\ TypeOK /\ View(p) /\ Typed(p) /\ View(v) /\ Typed(v) /\ v \in P
      /\ \A q \in P : runqhead[q] <= runqtail[q]
  BY DEF IInv, TypeOK, Typed, View, RingView
<1>2. /\ pc[p] = "grabcas" /\ v # p /\ k[p] = n[p] /\ n[p] < Size /\ n[p] >= 1
      /\ runqhead[p] = runqtail[p] /\ h[p] + n[p] <= runqtail[v]
      /\ tp[p] = NULL /\ cur[p] = NULL
  BY <1>1 DEF GrabCas, Goto, View, ThiefView, OwnerView, TaskView, Stealing, Looking
<1> USE DEF taskVars, locals, obsVars, queueVars
<1>3. CASE runqhead[v] = h[p]
  <2>1. /\ pc' = [pc EXCEPT ![p] = "stolen"]
        /\ runqhead' = [runqhead EXCEPT ![v] = h[p] + n[p]]
        /\ UNCHANGED <<runqtail, runq, runnext, taskVars, locals, obsVars>>
    BY <1>3 DEF GrabCas, Goto
  <2>2. /\ pc'[p] = "stolen" /\ runqhead'[v] = h[p] + n[p]
        /\ \A q \in P \ {p} : pc'[q] = pc[q]
        /\ \A q \in P \ {v} : runqhead'[q] = runqhead[q]
    BY <1>1, <2>1 DEF TypeOK
  <2>3. TypeOK'
    <3>1. h[p] + n[p] \in Nat
      BY <1>1 DEF Typed
    <3>2. QED
      BY <1>1, <2>1, <3>1 DEF TypeOK, Label
  <2>4. Guarantee(p)
    BY SMTT(30), <1>1, <1>2, <1>3, <2>1, <2>2 DEF Guarantee, TypeOK, Typed
  <2>5. ASSUME NEW i \in Nat, runqtail[p] <= i, i < runqtail[p] + n[p]
        PROVE  runq[p][Slot(i)] \in T
    <3> DEFINE j == i - runqtail[p]
    <3>1. j \in Nat /\ j < k[p] /\ i = runqtail[p] + j
      BY <1>1, <1>2, <2>5 DEF Typed
    <3> HIDE DEF j
    <3>2. runq[p][Slot(i)] = runq[v][Slot(h[p] + j)]
      BY <1>1, <1>2, <1>3, <3>1 DEF View, CopyView
    <3>3. h[p] + j \in Nat /\ runqhead[v] <= h[p] + j /\ h[p] + j < runqtail[v]
      BY <1>1, <1>2, <1>3, <3>1 DEF Typed
    <3>4. QED
      BY <1>1, <3>2, <3>3 DEF View, RingView
  <2>6. RingView(p)'
    BY <1>1, <1>2, <2>1, <2>2, <2>5, SizeNat DEF RingView, Typed
  <2>7. OwnerView(p)' /\ ThiefView(p)' /\ CopyView(p)' /\ TaskView(p)'
    BY <1>2, <2>1, <2>2 DEF OwnerView, ThiefView, CopyView, TaskView, Stealing, Looking
  <2>8. QED
    BY <2>1, <2>3, <2>4, <2>6, <2>7, StepInv DEF View
<1>4. CASE runqhead[v] # h[p]
  <2>1. /\ pc' = [pc EXCEPT ![p] = "grabhead"]
        /\ UNCHANGED <<queueVars, taskVars, locals, obsVars>>
    BY <1>4 DEF GrabCas, Goto
  <2>2. TypeOK' /\ Guarantee(p)
    BY SMTT(30), <1>1, <2>1 DEF TypeOK, Label, Guarantee
  <2>3. pc'[p] = "grabhead"
    BY <1>1, <2>1 DEF TypeOK
  <2>4. View(p)'
    BY <1>1, <1>2, <2>1, <2>3
       DEF View, RingView, OwnerView, ThiefView, CopyView, TaskView, Stealing, Looking
  <2>5. QED
    BY <2>1, <2>2, <2>4, StepInv
<1>5. QED
  BY <1>3, <1>4

LEMMA GrabNextCasInv ==
  ASSUME IInv, NEW p \in P, GrabNextCas(p) PROVE IInv'
<1> DEFINE v == victim[p]
<1>1. /\ TypeOK /\ View(p) /\ Typed(p) /\ v \in P
      /\ \A q \in P : runqhead[q] <= runqtail[q]
  BY DEF IInv, TypeOK, Typed, View, RingView
<1>2. /\ pc[p] = "grabnextcas" /\ v # p /\ old[p] \in T
      /\ runqhead[p] = runqtail[p] /\ tp[p] = NULL /\ cur[p] = NULL
  BY <1>1 DEF GrabNextCas, Goto, View, ThiefView, OwnerView, TaskView, Stealing, Looking
<1> USE DEF taskVars, locals, obsVars, queueVars
<1>3. CASE runnext[v] = old[p]
  <2>1. /\ pc' = [pc EXCEPT ![p] = "stolen"]
        /\ runnext' = [runnext EXCEPT ![v] = NULL]
        /\ Store(p, runqtail[p], old[p])
        /\ n' = [n EXCEPT ![p] = 1]
        /\ UNCHANGED <<runqhead, runqtail, taskVars, old, tp, victim, last, h, k, obsVars>>
    BY <1>3 DEF GrabNextCas, Goto, Store
  <2>2. /\ runq' \in [P -> [0 .. Size-1 -> T \cup {NULL}]]
        /\ runq'[p][Slot(runqtail[p])] = old[p]
        /\ \A q \in P \ {p} : runq'[q] = runq[q]
    <3>1. runqtail[p] \in Nat /\ old[p] \in T \cup {NULL}
      BY <1>1, <1>2 DEF Typed
    <3>2. QED
      BY <1>1, <2>1, <3>1, RingStore
  <2>3. /\ pc'[p] = "stolen" /\ n'[p] = 1
        /\ \A q \in P \ {p} : pc'[q] = pc[q] /\ n'[q] = n[q]
    BY <1>1, <2>1 DEF TypeOK
  <2>4. TypeOK'
    BY <1>1, <2>1, <2>2 DEF TypeOK, Label
  <2>5. Guarantee(p)
    BY <1>1, <1>2, <2>1, <2>2, <2>3 DEF Guarantee, Typed, TypeOK
  <2>6. RingView(p)'
    <3>1. \A i \in Nat : runqtail[p] <= i /\ i < runqtail[p] + 1 => i = runqtail[p]
      BY <1>1 DEF Typed
    <3>2. QED
      BY <1>1, <1>2, <2>1, <2>2, <2>3, <3>1, SizeNat DEF RingView, Typed
  <2>7. OwnerView(p)' /\ ThiefView(p)' /\ CopyView(p)' /\ TaskView(p)'
    BY <1>2, <2>1, <2>3, SizeNat, HalfRing
       DEF OwnerView, ThiefView, CopyView, TaskView, Stealing, Looking
  <2>8. QED
    BY <2>1, <2>4, <2>5, <2>6, <2>7, StepInv DEF View
<1>4. CASE runnext[v] # old[p]
  <2>1. /\ pc' = [pc EXCEPT ![p] = "grabhead"]
        /\ UNCHANGED <<queueVars, taskVars, locals, obsVars>>
    BY <1>4 DEF GrabNextCas, Goto
  <2>2. TypeOK' /\ Guarantee(p)
    BY SMTT(30), <1>1, <2>1 DEF TypeOK, Label, Guarantee
  <2>3. pc'[p] = "grabhead"
    BY <1>1, <2>1 DEF TypeOK
  <2>4. View(p)'
    BY <1>1, <1>2, <2>1, <2>3
       DEF View, RingView, OwnerView, ThiefView, CopyView, TaskView, Stealing, Looking
  <2>5. QED
    BY <2>1, <2>2, <2>4, StepInv
<1>5. QED
  BY <1>3, <1>4

LEMMA StealDoneInv ==
  ASSUME IInv, NEW p \in P, StealDone(p) PROVE IInv'
<1> DEFINE m == n[p] - 1
           x == runq[p][Slot(runqtail[p] + m)]
<1>1. /\ TypeOK /\ View(p) /\ Typed(p) /\ \A q \in P : runqhead[q] <= runqtail[q]
  BY DEF IInv, TypeOK, Typed, View, RingView
<1>2. /\ pc[p] = "stolen" /\ n[p] < Size /\ n[p] >= 1 /\ m \in Nat
      /\ runqhead[p] = runqtail[p] /\ tp[p] = NULL
  BY <1>1 DEF StealDone, Goto, View, ThiefView, OwnerView, TaskView, Stealing, Looking, Typed
<1>3. /\ x \in T
      /\ \A i \in Nat : runqtail[p] <= i /\ i < runqtail[p] + m => runq[p][Slot(i)] \in T
  BY <1>1, <1>2 DEF View, RingView, Typed
<1>4. /\ pc' = [pc EXCEPT ![p] = "run"]
      /\ cur' = [cur EXCEPT ![p] = x]
      /\ runqtail' = [runqtail EXCEPT ![p] = runqtail[p] + m]
      /\ UNCHANGED <<runqhead, runq, runnext, dead, puts, locals, obsVars>>
  BY DEF StealDone, Goto
<1> HIDE DEF m, x
<1>5. /\ pc'[p] = "run" /\ cur'[p] = x /\ runqtail'[p] = runqtail[p] + m
      /\ \A q \in P \ {p} : pc'[q] = pc[q] /\ cur'[q] = cur[q] /\ runqtail'[q] = runqtail[q]
  BY <1>1, <1>4 DEF TypeOK
<1>6. TypeOK'
  <2>1. runqtail[p] + m \in Nat
    BY <1>1, <1>2 DEF Typed
  <2>2. QED
    BY <1>1, <1>3, <1>4, <2>1 DEF TypeOK, Label, locals, obsVars
<1>7. Guarantee(p)
  BY <1>1, <1>2, <1>4, <1>5 DEF Guarantee, TypeOK, Typed, locals
<1>8. RingView(p)'
  <2>1. m < Size
    BY <1>1, <1>2, SizeNat DEF m, Typed
  <2>2. QED
    BY <1>1, <1>2, <1>3, <1>4, <1>5, <2>1, SizeNat DEF RingView, Typed
<1>9. OwnerView(p)' /\ ThiefView(p)' /\ CopyView(p)' /\ TaskView(p)'
  BY <1>2, <1>3, <1>4, <1>5 DEF OwnerView, ThiefView, CopyView, TaskView, Stealing, Looking, locals
<1>10. QED
  BY <1>4, <1>6, <1>7, <1>8, <1>9, StepInv DEF View, locals

\* The steps of p_runqempty.
LEMMA EmptyInv ==
  ASSUME IInv, NEW m \in Observer, ObserverStep(m)
  PROVE  IInv'
<1>1. TypeOK /\ \A p \in P : runqhead[p] <= runqtail[p] /\ Typed(p)
  BY DEF IInv, TypeOK, Typed, View, RingView
<1>2. ov[m] \in P /\ ot[m] \in Nat /\ oh[m] \in Nat /\ ObserverView(m)
  BY DEF IInv, TypeOK
<1>3. UNCHANGED <<queueVars, taskVars, pc, locals>>
  BY DEF ObserverStep, EmptyHead, EmptyTail, EmptyNext, EmptyReport, EmptyRetry
<1>4. \A o \in Observer \ {m} : /\ opc'[o] = opc[o] /\ ov'[o] = ov[o] /\ oh'[o] = oh[o]
                                /\ ot'[o] = ot[o] /\ on'[o] = on[o] /\ empty'[o] = empty[o]
  BY <1>1 DEF ObserverStep, EmptyHead, EmptyTail, EmptyNext, EmptyReport, EmptyRetry, TypeOK
<1> USE DEF queueVars, taskVars, locals
<1>5. TypeOK'
  <2>1. ov' \in [Observer -> P] /\ opc' \in [Observer -> OLabel]
    <3>1. PICK l \in OLabel : opc' = [opc EXCEPT ![m] = l]
      BY SMT DEF ObserverStep, EmptyHead, EmptyTail, EmptyNext, EmptyReport, EmptyRetry, OLabel
    <3>2. ov' \in [Observer -> P]
      BY <1>1 DEF ObserverStep, EmptyHead, EmptyTail, EmptyNext, EmptyReport, EmptyRetry, TypeOK
    <3>3. QED
      BY <1>1, <3>1, <3>2 DEF TypeOK
  <2>2. /\ oh' \in [Observer -> Nat] /\ ot' \in [Observer -> Nat]
        /\ on' \in [Observer -> T \cup {NULL}]
    BY <1>1, <1>2 DEF ObserverStep, EmptyHead, EmptyTail, EmptyNext, EmptyReport, EmptyRetry,
                      TypeOK, Typed
  <2>3. empty' \in [Observer -> BOOLEAN]
    <3>1. \A p \in P : /\ QueueEmpty(p) \in BOOLEAN
                       /\ (empty[m] \/ QueueEmpty(p)) \in BOOLEAN
      BY DEF QueueEmpty
    <3>2. PICK x \in BOOLEAN : empty' = [empty EXCEPT ![m] = x] \/ empty' = empty
      BY <1>1, <1>2, <3>1, Zenon
         DEF ObserverStep, EmptyHead, EmptyTail, EmptyNext, EmptyReport, EmptyRetry
    <3>3. QED
      BY <1>1, <3>2 DEF TypeOK
  <2>4. QED
    BY <1>1, <1>3, <2>1, <2>2, <2>3 DEF TypeOK
<1>6. ASSUME NEW p \in P PROVE View(p)'
  BY <1>3 DEF IInv, View, RingView, OwnerView, ThiefView, CopyView, TaskView
<1>7. ASSUME NEW o \in Observer, o # m PROVE ObserverView(o)'
  BY <1>3, <1>4, <1>7 DEF IInv, ObserverView
<1>8. ObserverView(m)'
  <2>1. ASSUME NEW p \in P, EmptyHead(m, p) PROVE ObserverView(m)'
    BY <1>1, <1>3, <2>1 DEF EmptyHead, ObserverView, TypeOK, Typed
  <2>2. CASE EmptyTail(m)
    BY <1>1, <1>2, <1>3, <2>2 DEF EmptyTail, ObserverView, TypeOK, Typed
  <2>3. CASE EmptyNext(m)
    <3>1. /\ opc[m] = "next" /\ opc'[m] = "check"
          /\ on'[m] = runnext[ov[m]] /\ ov' = ov /\ oh' = oh /\ ot' = ot
          /\ empty'[m] = (empty[m] \/ QueueEmpty(ov[m]))
      BY <1>1, <2>3 DEF EmptyNext, TypeOK
    <3>2. oh[m] = ot[m] /\ runqtail[ov[m]] = ot[m] => runqhead[ov[m]] = runqtail[ov[m]]
      BY <1>1, <1>2, <3>1 DEF ObserverView, Typed
    <3>3. QED
      BY <1>2, <1>3, <3>1, <3>2 DEF ObserverView, QueueEmpty
  <2>4. CASE EmptyReport(m)
    BY <1>1, <1>2, <1>3, <2>4 DEF EmptyReport, ObserverView, TypeOK
  <2>5. CASE EmptyRetry(m)
    BY <1>1, <1>2, <1>3, <2>5 DEF EmptyRetry, ObserverView, TypeOK, Typed
  <2>6. QED
    BY <2>1, <2>2, <2>3, <2>4, <2>5 DEF ObserverStep
<1>9. QED
  BY <1>5, <1>6, <1>7, <1>8 DEF IInv

LEMMA NextInv == IInv /\ [Next]_vars => IInv'
<1> SUFFICES ASSUME IInv, [Next]_vars PROVE IInv'
  OBVIOUS
<1>1. ASSUME NEW p \in P,
             \/ TaskStep(p) \/ PutStep(p) \/ GetStep(p) \/ StealStep(p)
             \/ \E v \in P, b \in BOOLEAN : Steal(p, v, b)
      PROVE  IInv'
  BY <1>1, PutInv, PutSlotInv, GetInv, GetHeadCasInv, StealInv, GrabTailInv, CopyInv,
     GrabCasInv, GrabNextCasInv, StealDoneInv
     DEF TaskStep, PutStep, GetStep, StealStep
<1>2. ASSUME NEW m \in Observer, ObserverStep(m) PROVE IInv'
  BY <1>2, EmptyInv
<1>3. CASE UNCHANGED vars
  BY <1>3 DEF vars, queueVars, taskVars, locals, obsVars, IInv, TypeOK, View, RingView,
              OwnerView, ThiefView, CopyView, TaskView, ObserverView
<1>4. QED
  BY <1>1, <1>2, <1>3 DEF Next

LEMMA Invariance == Spec => []IInv
BY InitInv, NextInv, PTL DEF Spec

-----------------------------------------------------------------------------
(* Theorems                                                                 *)

\* The variables always have their types; in particular what is read from the
\* slots in use is a task.
THEOREM TypeCorrect == Spec => []TypeOK
<1>1. IInv => TypeOK
  BY DEF IInv
<1>2. QED
  BY <1>1, Invariance, PTL

\* Heads never pass tails, no ring ever holds more than its slots, and the
\* panic "p_runqsteal: runq overflow" cannot happen.
THEOREM RingsInBounds == Spec => []RingBounds
<1>1. IInv => RingBounds
  <2> SUFFICES ASSUME IInv, NEW p \in P
               PROVE  /\ runqhead[p] <= runqtail[p] /\ runqtail[p] <= runqhead[p] + Size
                      /\ pc[p] = "stolen" /\ n[p] > 1 =>
                           runqtail[p] - runqhead[p] + (n[p] - 1) < Size
    BY DEF RingBounds
  <2>1. View(p) /\ Typed(p)
    BY DEF IInv, TypeOK, Typed
  <2>2. QED
    BY <2>1, SizeNat DEF View, RingView, OwnerView, ThiefView, Stealing, Typed
<1>2. QED
  BY <1>1, Invariance, PTL

\* p_runqempty never returns true spuriously, whoever puts, gets and steals
\* while it reads the head, the tail and runnext one after the other.
THEOREM EmptyIsTrue == Spec => []EmptyNeverSpurious
<1>1. IInv => EmptyNeverSpurious
  BY DEF IInv, ObserverView, EmptyNeverSpurious
<1>2. QED
  BY <1>1, Invariance, PTL

-----------------------------------------------------------------------------
(* No task is lost and none is run twice: the run queues keep every task in *)
(* exactly one place, whatever their Ms interleave.  The argument is an     *)
(* image: each step moves what is at one place to another place, so the     *)
(* places of a task remain one.  What makes the moves of a thief work is    *)
(* CopyView: its copies are good if its CAS succeeds.                       *)

\* t is at the place <<s, q, i>>.
Held(t, s, q, i) ==
  \/ s = "dead" /\ q = t /\ i = 0 /\ t \in dead
  \/ /\ q \in P
     /\ \/ s = "cur"  /\ i = 0 /\ cur[q] = t
        \/ s = "put"  /\ i = 0 /\ tp[q] = t
        \/ s = "next" /\ i = 0 /\ runnext[q] = t
        \/ /\ i \in Nat
           /\ runq[q][Slot(i)] = t
           /\ \/ s = "ring" /\ runqhead[q] <= i /\ i < runqtail[q]
              \/ s = "batch" /\ pc[q] = "stolen"
                 /\ runqtail[q] <= i /\ i < runqtail[q] + n[q]

\* t is at exactly one place.
Alone(t) ==
  \E s, q, i : /\ Held(t, s, q, i)
               /\ \A s2, q2, i2 : Held(t, s2, q2, i2) => s2 = s /\ q2 = q /\ i2 = i

AllAlone == \A t \in T : Alone(t)

\* Held enumerates Places.
LEMMA HeldPlaces ==
  ASSUME TypeOK, NEW t \in T
  PROVE  /\ \A s, q, i : Held(t, s, q, i) => <<s, q, i>> \in Places(t)
         /\ \A a \in Places(t) : \E s, q, i : a = <<s, q, i>> /\ Held(t, s, q, i)
<1> USE SizeNat
<1>1. ASSUME NEW s, NEW q, NEW i, Held(t, s, q, i) PROVE <<s, q, i>> \in Places(t)
  <2>1. CASE s = "dead"
    BY <1>1, <2>1 DEF Held, Places
  <2>2. CASE s = "cur" \/ s = "put" \/ s = "next"
    BY <1>1, <2>2 DEF Held, Places
  <2>3. CASE s = "ring"
    <3>1. q \in P /\ i \in runqhead[q] .. runqtail[q] - 1 /\ runq[q][Slot(i)] = t
      BY <1>1, <2>3 DEF Held, TypeOK
    <3>2. QED
      BY <2>3, <3>1 DEF Places
  <2>4. CASE s = "batch"
    <3>1. /\ q \in P /\ pc[q] = "stolen" /\ runq[q][Slot(i)] = t
          /\ i \in runqtail[q] .. runqtail[q] + n[q] - 1
      BY <1>1, <2>4 DEF Held, TypeOK
    <3>2. QED
      BY <2>4, <3>1 DEF Places
  <2>5. QED
    BY <1>1, <2>1, <2>2, <2>3, <2>4 DEF Held
<1>2. ASSUME NEW a \in Places(t) PROVE \E s, q, i : a = <<s, q, i>> /\ Held(t, s, q, i)
  <2>1. CASE a \in {<<"dead", t, 0>> : x \in dead \cap {t}}
    BY <2>1 DEF Held
  <2>2. CASE a \in {<<"cur", p, 0>> : p \in {q \in P : cur[q] = t}}
    BY <2>2 DEF Held
  <2>3. CASE a \in {<<"put", p, 0>> : p \in {q \in P : tp[q] = t}}
    BY <2>3 DEF Held
  <2>4. CASE a \in {<<"next", p, 0>> : p \in {q \in P : runnext[q] = t}}
    BY <2>4 DEF Held
  <2>5. ASSUME NEW p \in P, NEW i \in runqhead[p] .. runqtail[p] - 1,
               runq[p][Slot(i)] = t, a = <<"ring", p, i>>
        PROVE  Held(t, "ring", p, i)
    <3>1. runqhead[p] \in Nat /\ runqtail[p] \in Nat
      BY DEF TypeOK
    <3>2. i \in Nat /\ runqhead[p] <= i /\ i < runqtail[p]
      BY <3>1
    <3>3. QED
      BY <2>5, <3>2 DEF Held
  <2>6. ASSUME NEW p \in P, pc[p] = "stolen", NEW i \in runqtail[p] .. runqtail[p] + n[p] - 1,
               runq[p][Slot(i)] = t, a = <<"batch", p, i>>
        PROVE  Held(t, "batch", p, i)
    <3>1. runqtail[p] \in Nat /\ n[p] \in Nat
      BY DEF TypeOK
    <3>2. i \in Nat /\ runqtail[p] <= i /\ i < runqtail[p] + n[p]
      BY <3>1
    <3>3. QED
      BY <2>6, <3>2 DEF Held
  <2>7. QED
    BY <2>1, <2>2, <2>3, <2>4, <2>5, <2>6 DEF Places
<1>3. QED
  BY <1>1, <1>2

LEMMA AloneInOnePlace == TypeOK /\ AllAlone => NoTaskLost
<1> SUFFICES ASSUME TypeOK, AllAlone, NEW t \in T
             PROVE  Places(t) # {} /\ \A a, b \in Places(t) : a = b
  BY DEF NoTaskLost
<1>1. PICK s, q, i : /\ Held(t, s, q, i)
                     /\ \A s2, q2, i2 : Held(t, s2, q2, i2) => s2 = s /\ q2 = q /\ i2 = i
  BY DEF AllAlone, Alone
<1>2. <<s, q, i>> \in Places(t)
  BY <1>1, HeldPlaces
<1>3. \A a \in Places(t) : a = <<s, q, i>>
  BY <1>1, HeldPlaces
<1>4. QED
  BY <1>2, <1>3

-----------------------------------------------------------------------------
(* The four ways in which a step changes where tasks are                    *)

\* The step moves nothing: it writes at most slots that are not in use.
Still ==
  /\ UNCHANGED <<dead, cur, tp, runnext, runqhead, runqtail>>
  /\ \A q \in P : /\ pc'[q] = "stolen" <=> pc[q] = "stolen"
                  /\ pc[q] = "stolen" => n'[q] = n[q] /\ runq'[q] = runq[q]
                  /\ \A i \in Nat : runqhead[q] <= i /\ i < runqtail[q] =>
                                      runq'[q][Slot(i)] = runq[q][Slot(i)]

LEMMA StillAlone == ASSUME AllAlone, Still PROVE AllAlone'
<1> SUFFICES ASSUME NEW t \in T PROVE Alone(t)'
  BY DEF AllAlone
<1>1. \A s, q, i : Held(t, s, q, i)' <=> Held(t, s, q, i)
  BY DEF Still, Held
<1>2. QED
  BY <1>1 DEF AllAlone, Alone

\* What was at one place is at another one.
Moved(s0, q0, i0, s1, q1, i1) ==
  \A t \in T : \A s, q, i :
    Held(t, s, q, i)' <=>
      \/ Held(t, s, q, i) /\ ~(s = s0 /\ q = q0 /\ i = i0)
      \/ s = s1 /\ q = q1 /\ i = i1 /\ Held(t, s0, q0, i0)

LEMMA MoveAlone ==
  ASSUME AllAlone, NEW s0, NEW q0, NEW i0, NEW s1, NEW q1, NEW i1,
         Moved(s0, q0, i0, s1, q1, i1)
  PROVE  AllAlone'
<1> SUFFICES ASSUME NEW t \in T PROVE Alone(t)'
  BY DEF AllAlone
<1>1. PICK s, q, i : /\ Held(t, s, q, i)
                     /\ \A s2, q2, i2 : Held(t, s2, q2, i2) => s2 = s /\ q2 = q /\ i2 = i
  BY DEF AllAlone, Alone
<1>2. CASE s = s0 /\ q = q0 /\ i = i0
  <2>1. /\ Held(t, s1, q1, i1)'
        /\ \A s2, q2, i2 : Held(t, s2, q2, i2)' => s2 = s1 /\ q2 = q1 /\ i2 = i1
    BY <1>1, <1>2 DEF Moved
  <2>2. QED
    BY <2>1 DEF Alone
<1>3. CASE ~(s = s0 /\ q = q0 /\ i = i0)
  <2>1. /\ Held(t, s, q, i)'
        /\ \A s2, q2, i2 : Held(t, s2, q2, i2)' => s2 = s /\ q2 = q /\ i2 = i
    BY <1>1, <1>3 DEF Moved
  <2>2. QED
    BY <2>1 DEF Alone
<1>4. QED
  BY <1>2, <1>3

-----------------------------------------------------------------------------
(* The steps                                                                *)

\* Steps that read, that fail, or that write a slot nobody looks at yet.
LEMMA ReadStill ==
  ASSUME IInv, NEW p \in P,
         \/ CasNextFail(p) \/ PutHead(p) \/ PutFull(p)
         \/ GetNext(p) \/ GetHead(p) \/ GrabHead(p) \/ GrabTail(p) \/ GrabNext(p)
         \/ \E v \in P, b \in BOOLEAN : Steal(p, v, b)
  PROVE  Still
<1> USE DEF Goto, queueVars, taskVars, locals, obsVars
<1>1. pc \in [P -> Label] /\ n \in [P -> Nat]
  BY DEF IInv, TypeOK
<1>2. UNCHANGED <<dead, cur, tp, runnext, runqhead, runqtail, runq>>
  BY DEF CasNextFail, PutHead, PutFull, GetNext, GetHead, GrabHead, GrabTail, GrabNext, Steal
<1>3. /\ pc[p] # "stolen" /\ pc'[p] # "stolen"
      /\ \A q \in P \ {p} : pc'[q] = pc[q] /\ n'[q] = n[q]
  <2>1. CASE GrabTail(p)
    BY <1>1, <2>1 DEF GrabTail
  <2>2. CASE ~GrabTail(p)
    BY <1>1, <2>2 DEF CasNextFail, PutHead, PutFull, GetNext, GetHead, GrabHead, GrabNext, Steal
  <2>3. QED
    BY <2>1, <2>2
<1>4. QED
  BY <1>2, <1>3 DEF Still

\* A compare-and-swap that finds another value than the one it expects.
LEMMA FailStill ==
  ASSUME IInv, NEW p \in P,
         \/ GetNextCas(p) /\ runnext[p] # old[p]
         \/ GetHeadCas(p) /\ runqhead[p] # h[p]
         \/ GrabCas(p) /\ runqhead[victim[p]] # h[p]
         \/ GrabNextCas(p) /\ runnext[victim[p]] # old[p]
  PROVE  Still
<1>1. pc \in [P -> Label]
  BY DEF IInv, TypeOK
<1>2. UNCHANGED <<dead, cur, tp, runnext, runqhead, runqtail, runq, n>>
  BY DEF GetNextCas, GetHeadCas, GrabCas, GrabNextCas, queueVars, taskVars, locals
<1>3. /\ pc[p] # "stolen" /\ pc'[p] # "stolen"
      /\ \A q \in P \ {p} : pc'[q] = pc[q]
  BY <1>1 DEF GetNextCas, GetHeadCas, GrabCas, GrabNextCas, Goto
<1>4. QED
  BY <1>2, <1>3 DEF Still

\* A store to a slot of p from the tail on, while p has stolen nothing yet.
LEMMA WriteStill ==
  ASSUME IInv, NEW p \in P, PutSlot(p) \/ Copy(p)
  PROVE  Still
<1> DEFINE i0 == IF PutSlot(p) THEN runqtail[p] ELSE runqtail[p] + k[p]
           x == IF PutSlot(p) THEN tp[p] ELSE runq[victim[p]][Slot(h[p] + k[p])]
<1>1. TypeOK /\ View(p) /\ Typed(p) /\ Typed(victim[p])
  BY DEF IInv, TypeOK, Typed
<1>2. /\ i0 \in Nat /\ x \in T \cup {NULL}
      /\ Store(p, i0, x)
      /\ runqtail[p] <= i0 /\ i0 < runqhead[p] + Size
      /\ pc[p] # "stolen" /\ pc'[p] # "stolen"
      /\ pc' = [pc EXCEPT ![p] = pc'[p]]
      /\ UNCHANGED <<dead, cur, tp, runnext, runqhead, runqtail, n>>
  <2>1. CASE PutSlot(p)
    BY <1>1, <2>1, SizeNat, SMTT(30)
       DEF PutSlot, Goto, Store, TypeOK, Typed, View, OwnerView, RingView, taskVars, locals
  <2>2. CASE Copy(p) /\ ~PutSlot(p)
    <3>1. /\ pc[p] = "copy" /\ runqtail[p] = runqhead[p] /\ k[p] < n[p] /\ n[p] < Size
      BY <1>1, <2>2 DEF Copy, View, OwnerView, ThiefView, Stealing
    <3>2. x \in T \cup {NULL} /\ i0 \in Nat
      <4>1. victim[p] \in P /\ h[p] + k[p] \in Nat
        BY <1>1 DEF Typed
      <4>2. Slot(h[p] + k[p]) \in 0 .. Size-1
        BY <4>1, SlotRange
      <4>3. runq[victim[p]][Slot(h[p] + k[p])] \in T \cup {NULL}
        BY <1>1, <4>1, <4>2, ZenonT(60) DEF TypeOK
      <4>4. runqtail[p] + k[p] \in Nat
        BY <1>1 DEF Typed
      <4>5. QED
        BY <2>2, <4>3, <4>4
    <3>3. runqtail[p] <= i0 /\ i0 < runqhead[p] + Size
      BY <1>1, <2>2, <3>1, SizeNat DEF Typed
    <3>4. QED
      BY <1>1, <2>2, <3>1, <3>2, <3>3 DEF Copy, Store, TypeOK, taskVars
  <2>3. QED
    BY <2>1, <2>2
<1> HIDE DEF x, i0
<1>3. ASSUME NEW i \in Nat, runqhead[p] <= i, i < runqtail[p]
      PROVE  runq'[p][Slot(i)] = runq[p][Slot(i)]
  <2>1. i < i0 /\ i0 < i + Size
    BY <1>1, <1>2, <1>3, SizeNat DEF Typed
  <2>2. Slot(i0) # Slot(i)
    BY <1>2, <2>1, SlotDistinct
  <2>3. QED
    BY <1>1, <1>2, <2>2, RingStore
<1>4. \A q \in P \ {p} : runq'[q] = runq[q] /\ pc'[q] = pc[q]
  BY <1>1, <1>2, RingStore DEF TypeOK
<1>5. QED
  BY <1>2, <1>3, <1>4 DEF Still

\* The reads of p_runqempty, and no step at all.
LEMMA IdleStill ==
  ASSUME (\E m \in Observer : ObserverStep(m)) \/ UNCHANGED vars
  PROVE  Still
BY DEF ObserverStep, EmptyHead, EmptyTail, EmptyNext, EmptyReport, EmptyRetry,
       vars, queueVars, taskVars, locals, Still

\* sched_spawn takes a task that is dead.
LEMMA SpawnAlone ==
  ASSUME IInv, AllAlone, NEW p \in P, NEW t \in T, Spawn(p, t)
  PROVE  AllAlone'
<1>1. TypeOK /\ tp[p] = NULL /\ t \in dead
  BY DEF IInv, View, TaskView, Spawn, Goto
<1>2. /\ dead' = dead \ {t} /\ tp' = [tp EXCEPT ![p] = t]
      /\ UNCHANGED <<runqhead, runqtail, runq, runnext, cur, n>>
      /\ \A q \in P : pc'[q] = "stolen" <=> pc[q] = "stolen"
  BY <1>1 DEF Spawn, Goto, queueVars, TypeOK
<1>3. ASSUME NEW u \in T, NEW s, NEW q, NEW i
      PROVE  Held(u, s, q, i)' <=>
               \/ Held(u, s, q, i) /\ ~(s = "dead" /\ q = t /\ i = 0)
               \/ s = "put" /\ q = p /\ i = 0 /\ Held(u, "dead", t, 0)
  BY <1>1, <1>2, ConstAssumption DEF Held, TypeOK
<1>4. Moved("dead", t, 0, "put", p, 0)
  BY <1>3 DEF Moved
<1>5. QED
  BY <1>4, MoveAlone

\* The running task exits, or is taken off to be put to the ring.
LEMMA ExitAlone ==
  ASSUME IInv, AllAlone, NEW p \in P, Exit(p)
  PROVE  AllAlone'
<1>1. TypeOK /\ cur[p] \in T
  BY DEF IInv, View, TaskView, Exit, Goto
<1>2. /\ dead' = dead \cup {cur[p]} /\ cur' = [cur EXCEPT ![p] = NULL]
      /\ UNCHANGED <<runqhead, runqtail, runq, runnext, tp, n>>
      /\ \A q \in P : pc'[q] = "stolen" <=> pc[q] = "stolen"
  BY <1>1 DEF Exit, Goto, queueVars, locals, TypeOK
<1>3. ASSUME NEW u \in T, NEW s, NEW q, NEW i
      PROVE  Held(u, s, q, i)' <=>
               \/ Held(u, s, q, i) /\ ~(s = "cur" /\ q = p /\ i = 0)
               \/ s = "dead" /\ q = cur[p] /\ i = 0 /\ Held(u, "cur", p, 0)
  BY <1>1, <1>2, ConstAssumption DEF Held, TypeOK
<1>4. Moved("cur", p, 0, "dead", cur[p], 0)
  BY <1>3 DEF Moved
<1>5. QED
  BY <1>4, MoveAlone

LEMMA YieldAlone ==
  ASSUME IInv, AllAlone, NEW p \in P, Yield(p)
  PROVE  AllAlone'
<1>1. TypeOK /\ cur[p] \in T /\ tp[p] = NULL
  BY DEF IInv, View, TaskView, Yield, Goto
<1>2. /\ tp' = [tp EXCEPT ![p] = cur[p]] /\ cur' = [cur EXCEPT ![p] = NULL]
      /\ UNCHANGED <<runqhead, runqtail, runq, runnext, dead, n>>
      /\ \A q \in P : pc'[q] = "stolen" <=> pc[q] = "stolen"
  BY <1>1 DEF Yield, Goto, queueVars, TypeOK
<1>3. ASSUME NEW u \in T, NEW s, NEW q, NEW i
      PROVE  Held(u, s, q, i)' <=>
               \/ Held(u, s, q, i) /\ ~(s = "cur" /\ q = p /\ i = 0)
               \/ s = "put" /\ q = p /\ i = 0 /\ Held(u, "cur", p, 0)
  BY <1>1, <1>2, ConstAssumption DEF Held, TypeOK
<1>4. Moved("cur", p, 0, "put", p, 0)
  BY <1>3 DEF Moved
<1>5. QED
  BY <1>4, MoveAlone

\* The CAS on runnext succeeds: the task put is next ...
LEMMA PutNextAlone ==
  ASSUME IInv, AllAlone, NEW p \in P, PutNext(p)
  PROVE  AllAlone'
<1>1. TypeOK /\ tp[p] \in T /\ runnext[p] = NULL
  BY DEF IInv, View, TaskView, PutNext, Goto
<1>2. /\ runnext' = [runnext EXCEPT ![p] = tp[p]] /\ tp' = [tp EXCEPT ![p] = NULL]
      /\ UNCHANGED <<runqhead, runqtail, runq, cur, dead, n>>
      /\ \A q \in P : pc'[q] = "stolen" <=> pc[q] = "stolen"
  BY <1>1 DEF PutNext, Goto, taskVars, TypeOK
<1>3. ASSUME NEW u \in T, NEW s, NEW q, NEW i
      PROVE  Held(u, s, q, i)' <=>
               \/ Held(u, s, q, i) /\ ~(s = "put" /\ q = p /\ i = 0)
               \/ s = "next" /\ q = p /\ i = 0 /\ Held(u, "put", p, 0)
  BY <1>1, <1>2, ConstAssumption DEF Held, TypeOK
<1>4. Moved("put", p, 0, "next", p, 0)
  BY <1>3 DEF Moved
<1>5. QED
  BY <1>4, MoveAlone

\* ... and the task it replaces is put instead: the two change places.
LEMMA KickNextAlone ==
  ASSUME IInv, AllAlone, NEW p \in P, KickNext(p)
  PROVE  AllAlone'
<1>1. TypeOK /\ tp[p] \in T /\ old[p] = runnext[p]
  BY DEF IInv, View, TaskView, KickNext, Goto
<1>2. /\ runnext' = [runnext EXCEPT ![p] = tp[p]] /\ tp' = [tp EXCEPT ![p] = runnext[p]]
      /\ UNCHANGED <<runqhead, runqtail, runq, cur, dead, n>>
      /\ \A q \in P : pc'[q] = "stolen" <=> pc[q] = "stolen"
  BY <1>1 DEF KickNext, Goto, taskVars, TypeOK
<1> SUFFICES ASSUME NEW u \in T PROVE Alone(u)'
  BY DEF AllAlone
<1>3. ASSUME NEW s, NEW q, NEW i
      PROVE  Held(u, s, q, i)' <=>
               \/ Held(u, s, q, i) /\ ~(s \in {"put", "next"} /\ q = p /\ i = 0)
               \/ s = "next" /\ q = p /\ i = 0 /\ Held(u, "put", p, 0)
               \/ s = "put" /\ q = p /\ i = 0 /\ Held(u, "next", p, 0)
  BY <1>1, <1>2, ConstAssumption DEF Held, TypeOK
<1>4. QED
  BY <1>3 DEF AllAlone, Alone

\* The tail is stored: the task put is in the ring.
LEMMA PutTailAlone ==
  ASSUME IInv, AllAlone, NEW p \in P, PutTail(p)
  PROVE  AllAlone'
<1>1. /\ TypeOK /\ tp[p] \in T /\ runq[p][Slot(runqtail[p])] = tp[p]
      /\ \A q \in P : Typed(q) /\ runqhead[q] <= runqtail[q]
  BY DEF IInv, View, RingView, TaskView, PutTail, TypeOK, Typed
<1>2. /\ runqtail' = [runqtail EXCEPT ![p] = runqtail[p] + 1] /\ tp' = [tp EXCEPT ![p] = NULL]
      /\ UNCHANGED <<runqhead, runnext, runq, cur, dead, n>>
      /\ pc[p] # "stolen" /\ \A q \in P : pc'[q] = "stolen" <=> pc[q] = "stolen"
  BY <1>1 DEF PutTail, taskVars, TypeOK
<1>3. ASSUME NEW u \in T, NEW s, NEW q, NEW i
      PROVE  Held(u, s, q, i)' <=>
               \/ Held(u, s, q, i) /\ ~(s = "put" /\ q = p /\ i = 0)
               \/ s = "ring" /\ q = p /\ i = runqtail[p] /\ Held(u, "put", p, 0)
  <2>0. /\ \A q2 \in P : runqtail'[q2] = IF q2 = p THEN runqtail[p] + 1 ELSE runqtail[q2]
        /\ tp'[p] = NULL /\ runqhead[p] \in Nat /\ runqtail[p] \in Nat
    BY <1>1, <1>2 DEF TypeOK
  <2>1. CASE s = "ring"
    <3>1. CASE i \in Nat /\ q \in P
      BY <1>1, <1>2, <2>0, <2>1, <3>1 DEF Held, Typed
    <3>2. CASE ~(i \in Nat /\ q \in P)
      BY <2>0, <2>1, <3>2 DEF Held
    <3>3. QED
      BY <3>1, <3>2
  <2>2. CASE s # "ring"
    BY <1>1, <1>2, <2>2, ConstAssumption DEF Held, TypeOK
  <2>3. QED
    BY <2>1, <2>2
<1>4. Moved("put", p, 0, "ring", p, runqtail[p])
  BY <1>3 DEF Moved
<1>5. QED
  BY <1>4, MoveAlone

\* The owner takes runnext, or the head of its ring.
LEMMA GetNextCasAlone ==
  ASSUME IInv, AllAlone, NEW p \in P, GetNextCas(p)
  PROVE  AllAlone'
<1>1. TypeOK /\ old[p] \in T /\ cur[p] = NULL
  BY DEF IInv, View, TaskView, GetNextCas, Goto, Looking
<1>2. CASE runnext[p] = old[p]
  <2>1. /\ runnext' = [runnext EXCEPT ![p] = NULL] /\ cur' = [cur EXCEPT ![p] = runnext[p]]
        /\ UNCHANGED <<runqhead, runqtail, runq, tp, dead, n>>
        /\ \A q \in P : pc'[q] = "stolen" <=> pc[q] = "stolen"
    BY <1>1, <1>2 DEF GetNextCas, Goto, locals, TypeOK
  <2>2. ASSUME NEW u \in T, NEW s, NEW q, NEW i
        PROVE  Held(u, s, q, i)' <=>
                 \/ Held(u, s, q, i) /\ ~(s = "next" /\ q = p /\ i = 0)
                 \/ s = "cur" /\ q = p /\ i = 0 /\ Held(u, "next", p, 0)
    BY <1>1, <2>1, ConstAssumption DEF Held, TypeOK
  <2>3. Moved("next", p, 0, "cur", p, 0)
    BY <2>2 DEF Moved
  <2>4. QED
    BY <2>3, MoveAlone
<1>3. CASE runnext[p] # old[p]
  BY <1>3, FailStill, StillAlone
<1>4. QED
  BY <1>2, <1>3

LEMMA GetHeadCasAlone ==
  ASSUME IInv, AllAlone, NEW p \in P, GetHeadCas(p)
  PROVE  AllAlone'
<1>1. /\ TypeOK /\ cur[p] = NULL /\ h[p] < runqtail[p]
      /\ \A q \in P : Typed(q) /\ runqhead[q] <= runqtail[q]
  BY DEF IInv, View, RingView, OwnerView, TaskView, GetHeadCas, Goto, Looking, TypeOK, Typed
<1>2. CASE runqhead[p] = h[p]
  <2>1. /\ runqhead' = [runqhead EXCEPT ![p] = runqhead[p] + 1]
        /\ cur' = [cur EXCEPT ![p] = runq[p][Slot(runqhead[p])]]
        /\ UNCHANGED <<runnext, runqtail, runq, tp, dead, n>>
        /\ \A q \in P : pc'[q] = "stolen" <=> pc[q] = "stolen"
    BY <1>1, <1>2 DEF GetHeadCas, Goto, locals, TypeOK
  <2>2. ASSUME NEW u \in T, NEW s, NEW q, NEW i
        PROVE  Held(u, s, q, i)' <=>
                 \/ Held(u, s, q, i) /\ ~(s = "ring" /\ q = p /\ i = runqhead[p])
                 \/ s = "cur" /\ q = p /\ i = 0 /\ Held(u, "ring", p, runqhead[p])
    <3>1. /\ runqhead[p] \in Nat /\ runqtail[p] \in Nat /\ runqhead[p] < runqtail[p]
          /\ runqhead'[p] = runqhead[p] + 1 /\ cur'[p] = runq[p][Slot(runqhead[p])]
          /\ \A q2 \in P \ {p} : runqhead'[q2] = runqhead[q2] /\ cur'[q2] = cur[q2]
      BY <1>1, <1>2, <2>1 DEF TypeOK
    <3>2. Held(u, "ring", p, runqhead[p]) <=> runq[p][Slot(runqhead[p])] = u
      BY <3>1 DEF Held
    <3>3. CASE s = "ring"
      <4>1. CASE i \in Nat /\ q = p
        BY <1>1, <2>1, <3>1, <3>3, <4>1 DEF Held
      <4>2. CASE q # p
        BY <1>1, <2>1, <3>1, <3>3, <4>2 DEF Held
      <4>3. CASE i \notin Nat
        BY <3>1, <3>3, <4>3 DEF Held
      <4>4. QED
        BY <4>1, <4>2, <4>3
    <3>4. CASE s = "cur"
      BY <1>1, <2>1, <3>1, <3>2, <3>4, ConstAssumption DEF Held
    <3>5. CASE s # "ring" /\ s # "cur"
      BY <2>1, <3>5 DEF Held
    <3>6. QED
      BY <3>3, <3>4, <3>5
  <2>3. Moved("ring", p, runqhead[p], "cur", p, 0)
    BY <2>2 DEF Moved
  <2>4. QED
    BY <2>3, MoveAlone
<1>3. CASE runqhead[p] # h[p]
  BY <1>3, FailStill, StillAlone
<1>4. QED
  BY <1>2, <1>3

\* A thief's CAS on the head of v succeeds: the n tasks from h on are no longer
\* in v's ring but in the slots of p that it copied them to.
LEMMA GrabCasAlone ==
  ASSUME IInv, AllAlone, NEW p \in P, GrabCas(p)
  PROVE  AllAlone'
<1> DEFINE v == victim[p]
<1>1. /\ TypeOK /\ v \in P /\ v # p /\ Typed(p) /\ Typed(v)
      /\ pc[p] = "grabcas" /\ k[p] = n[p]
      /\ h[p] + n[p] <= runqtail[v] /\ CopyView(p)
  BY DEF IInv, View, ThiefView, GrabCas, Goto, Stealing, TypeOK, Typed
<1>2. CASE runqhead[v] = h[p]
  <2>1. /\ runqhead'[v] = h[p] + n[p] /\ \A q \in P \ {v} : runqhead'[q] = runqhead[q]
        /\ UNCHANGED <<runnext, runqtail, runq, cur, tp, dead, n>>
        /\ pc'[p] = "stolen" /\ \A q \in P \ {p} : pc'[q] = pc[q]
    <3>1. /\ pc' = [pc EXCEPT ![p] = "stolen"]
          /\ runqhead' = [runqhead EXCEPT ![v] = h[p] + n[p]]
          /\ UNCHANGED <<runqtail, runq, runnext, taskVars, locals>>
      BY <1>2 DEF GrabCas, Goto
    <3>2. QED
      BY <1>1, <3>1 DEF TypeOK, taskVars, locals
  <2>2. ASSUME NEW j \in Nat, j < n[p]
        PROVE  runq[p][Slot(runqtail[p] + j)] = runq[v][Slot(h[p] + j)]
    BY <1>1, <1>2, <2>2 DEF CopyView
  <2> DEFINE From(i) == h[p] + (i - runqtail[p])
  <2>3. ASSUME NEW u \in T, NEW s, NEW q, NEW i
        PROVE  Held(u, s, q, i)' <=>
                 \/ Held(u, s, q, i) /\ ~(s = "ring" /\ q = v /\ i < h[p] + n[p])
                 \/ /\ s = "batch" /\ q = p /\ i \in Nat
                    /\ runqtail[p] <= i /\ i < runqtail[p] + n[p]
                    /\ Held(u, "ring", v, From(i))
    <3>1. CASE s = "ring"
      <4>1. CASE i \in Nat /\ q = v
        BY <1>1, <1>2, <2>1, <3>1, <4>1 DEF Held, Typed
      <4>2. CASE ~(i \in Nat /\ q = v)
        BY <2>1, <3>1, <4>2 DEF Held
      <4>3. QED
        BY <4>1, <4>2
    <3>2. CASE s = "batch"
      <4>1. CASE i \in Nat /\ q = p /\ runqtail[p] <= i /\ i < runqtail[p] + n[p]
        <5>1. /\ i - runqtail[p] \in Nat /\ i - runqtail[p] < n[p]
              /\ i = runqtail[p] + (i - runqtail[p])
              /\ From(i) \in Nat /\ runqhead[v] <= From(i) /\ From(i) < runqtail[v]
          BY <1>1, <1>2, <4>1 DEF Typed
        <5>2. runq[p][Slot(i)] = runq[v][Slot(From(i))]
          BY <2>2, <5>1
        <5> HIDE DEF From
        <5>3. QED
          BY <1>1, <2>1, <3>2, <4>1, <5>1, <5>2 DEF Held
      <4>2. CASE ~(i \in Nat /\ q = p /\ runqtail[p] <= i /\ i < runqtail[p] + n[p])
        BY <1>1, <2>1, <3>2, <4>2 DEF Held
      <4>3. QED
        BY <4>1, <4>2
    <3>3. CASE s # "ring" /\ s # "batch"
      BY <2>1, <3>3 DEF Held
    <3>4. QED
      BY <3>1, <3>2, <3>3
  <2> SUFFICES ASSUME NEW u \in T PROVE Alone(u)'
    BY DEF AllAlone
  <2>4. PICK s, q, i : /\ Held(u, s, q, i)
                       /\ \A s2, q2, i2 : Held(u, s2, q2, i2) => s2 = s /\ q2 = q /\ i2 = i
    BY DEF AllAlone, Alone
  <2>5. CASE s = "ring" /\ q = v /\ i < h[p] + n[p]
    <3>1. PICK i1 \in Nat : From(i1) = i /\ runqtail[p] <= i1 /\ i1 < runqtail[p] + n[p]
      <4> DEFINE x == runqtail[p] + (i - h[p])
      <4>1. x \in Nat /\ From(x) = i /\ runqtail[p] <= x /\ x < runqtail[p] + n[p]
        BY <1>1, <1>2, <2>4, <2>5 DEF Held, Typed
      <4>2. QED
        BY <4>1
    <3>2. \A i2 \in Nat : From(i2) = i => i2 = i1
      BY <1>1, <3>1 DEF Typed
    <3> HIDE DEF From
    <3>3. Held(u, "batch", p, i1)'
      BY <2>3, <2>4, <2>5, <3>1
    <3>4. \A s2, q2, i2 : Held(u, s2, q2, i2)' => s2 = "batch" /\ q2 = p /\ i2 = i1
      BY <2>3, <2>4, <2>5, <3>2
    <3>5. QED
      BY <3>3, <3>4 DEF Alone
  <2>6. CASE ~(s = "ring" /\ q = v /\ i < h[p] + n[p])
    <3>1. Held(u, s, q, i)'
      BY <2>3, <2>4, <2>6
    <3>2. ASSUME NEW s2, NEW q2, NEW i2, Held(u, s2, q2, i2)'
          PROVE  s2 = s /\ q2 = q /\ i2 = i
      <4>1. CASE Held(u, s2, q2, i2)
        BY <2>4, <4>1
      <4>2. CASE /\ i2 \in Nat /\ runqtail[p] <= i2 /\ i2 < runqtail[p] + n[p]
                 /\ Held(u, "ring", v, From(i2))
        <5>1. From(i2) < h[p] + n[p]
          BY <1>1, <4>2 DEF Typed
        <5>2. QED
          BY <2>4, <2>6, <4>2, <5>1
      <4>3. QED
        BY <2>3, <3>2, <4>1, <4>2
    <3>3. QED
      BY <3>1, <3>2 DEF Alone
  <2>7. QED
    BY <2>5, <2>6
<1>3. CASE runqhead[v] # h[p]
  BY <1>3, FailStill, StillAlone
<1>4. QED
  BY <1>2, <1>3

\* A thief's CAS on the runnext of v succeeds.
LEMMA GrabNextCasAlone ==
  ASSUME IInv, AllAlone, NEW p \in P, GrabNextCas(p)
  PROVE  AllAlone'
<1> DEFINE v == victim[p]
<1>1. /\ TypeOK /\ v \in P /\ v # p /\ old[p] \in T /\ runqhead[p] = runqtail[p]
      /\ pc[p] = "grabnextcas" /\ runqtail[p] \in Nat
  BY DEF IInv, View, OwnerView, ThiefView, TaskView, GrabNextCas, Goto, Stealing, TypeOK
<1>2. CASE runnext[v] = old[p]
  <2>1. /\ Store(p, runqtail[p], old[p])
        /\ runnext'[v] = NULL /\ \A q \in P \ {v} : runnext'[q] = runnext[q]
        /\ n'[p] = 1 /\ \A q \in P \ {p} : n'[q] = n[q]
        /\ pc'[p] = "stolen" /\ \A q \in P \ {p} : pc'[q] = pc[q]
        /\ UNCHANGED <<runqhead, runqtail, cur, tp, dead>>
    BY <1>1, <1>2 DEF GrabNextCas, Goto, Store, taskVars, TypeOK
  <2>2. /\ runq'[p][Slot(runqtail[p])] = old[p]
        /\ \A q \in P \ {p} : runq'[q] = runq[q]
    BY <1>1, <2>1, RingStore
  <2>3. ASSUME NEW u \in T, NEW s, NEW q, NEW i
        PROVE  Held(u, s, q, i)' <=>
                 \/ Held(u, s, q, i) /\ ~(s = "next" /\ q = v /\ i = 0)
                 \/ s = "batch" /\ q = p /\ i = runqtail[p] /\ Held(u, "next", v, 0)
    <3>1. Held(u, "next", v, 0) <=> old[p] = u
      BY <1>1, <1>2 DEF Held
    <3>2. CASE s = "batch" /\ q = p
      <4>1. i \in Nat /\ runqtail[p] <= i /\ i < runqtail[p] + 1 <=> i = runqtail[p]
        BY <1>1
      <4>2. QED
        BY <1>1, <2>1, <2>2, <3>1, <3>2, <4>1 DEF Held
    <3>3. CASE s = "ring" /\ q = p
      BY <1>1, <2>1, <3>3 DEF Held
    <3>4. CASE s \in {"batch", "ring"} /\ q # p
      BY <2>1, <2>2, <3>4 DEF Held
    <3>5. CASE s \notin {"batch", "ring"}
      BY <1>1, <2>1, <3>5, ConstAssumption DEF Held
    <3>6. QED
      BY <3>2, <3>3, <3>4, <3>5
  <2>4. Moved("next", v, 0, "batch", p, runqtail[p])
    BY <2>3 DEF Moved
  <2>5. QED
    BY <2>4, MoveAlone
<1>3. CASE runnext[v] # old[p]
  BY <1>3, FailStill, StillAlone
<1>4. QED
  BY <1>2, <1>3

\* The thief runs the last task it grabbed and its tail moves past the others.
LEMMA StealDoneAlone ==
  ASSUME IInv, AllAlone, NEW p \in P, StealDone(p)
  PROVE  AllAlone'
<1> DEFINE e == runqtail[p] + (n[p] - 1)
<1>1. /\ TypeOK /\ Typed(p) /\ cur[p] = NULL /\ pc[p] = "stolen" /\ n[p] >= 1
      /\ runqhead[p] = runqtail[p]
  BY DEF IInv, View, OwnerView, ThiefView, TaskView, StealDone, Goto, Stealing, Looking,
         TypeOK, Typed
<1>2. /\ cur'[p] = runq[p][Slot(e)] /\ \A q \in P \ {p} : cur'[q] = cur[q]
      /\ runqtail'[p] = e /\ \A q \in P \ {p} : runqtail'[q] = runqtail[q]
      /\ pc'[p] = "run" /\ \A q \in P \ {p} : pc'[q] = pc[q]
      /\ UNCHANGED <<runqhead, runq, runnext, tp, dead, n>>
  BY <1>1 DEF StealDone, Goto, locals, TypeOK
<1>3. e \in Nat /\ runqtail[p] <= e /\ e < runqtail[p] + n[p]
      /\ \A i \in Nat : i < runqtail[p] + n[p] <=> i < e \/ i = e
  BY <1>1 DEF Typed
<1> HIDE DEF e
<1>4. ASSUME NEW u \in T, NEW s, NEW q, NEW i
      PROVE  Held(u, s, q, i)' <=>
               \/ Held(u, s, q, i) /\ ~(s = "batch" /\ q = p)
               \/ s = "ring" /\ q = p /\ i < e /\ Held(u, "batch", p, i)
               \/ s = "cur" /\ q = p /\ i = 0 /\ Held(u, "batch", p, e)
  <2>1. CASE s = "ring" /\ q = p
    BY <1>1, <1>2, <1>3, <2>1 DEF Held, Typed
  <2>2. CASE s = "batch" /\ q = p
    BY <1>2, <2>2 DEF Held
  <2>3. CASE s = "cur" /\ q = p
    BY <1>1, <1>2, <1>3, <2>3, ConstAssumption DEF Held
  <2>4. CASE s \notin {"ring", "batch", "cur"} \/ q # p
    BY <1>2, <2>4 DEF Held
  <2>5. QED
    BY <2>1, <2>2, <2>3, <2>4
<1> SUFFICES ASSUME NEW u \in T PROVE Alone(u)'
  BY DEF AllAlone
<1>5. PICK s, q, i : /\ Held(u, s, q, i)
                     /\ \A s2, q2, i2 : Held(u, s2, q2, i2) => s2 = s /\ q2 = q /\ i2 = i
  BY DEF AllAlone, Alone
<1>6. CASE s = "batch" /\ q = p /\ i = e
  <2>1. Held(u, "cur", p, 0)'
    BY <1>4, <1>5, <1>6
  <2>2. ASSUME NEW s2, NEW q2, NEW i2, Held(u, s2, q2, i2)'
        PROVE  s2 = "cur" /\ q2 = p /\ i2 = 0
    <3>1. ~(i2 < e /\ Held(u, "batch", p, i2))
      BY <1>3, <1>5, <1>6
    <3>2. QED
      BY <1>4, <1>5, <1>6, <2>2, <3>1
  <2>3. QED
    BY <2>1, <2>2 DEF Alone
<1>7. CASE s = "batch" /\ q = p /\ i # e
  <2>1. i < e
    BY <1>3, <1>5, <1>7, <1>1 DEF Held
  <2>2. Held(u, "ring", p, i)'
    BY <1>4, <1>5, <1>7, <2>1
  <2>3. \A s2, q2, i2 : Held(u, s2, q2, i2)' => s2 = "ring" /\ q2 = p /\ i2 = i
    BY <1>4, <1>5, <1>7
  <2>4. QED
    BY <2>2, <2>3 DEF Alone
<1>8. CASE ~(s = "batch" /\ q = p)
  <2>1. /\ Held(u, s, q, i)'
        /\ \A s2, q2, i2 : Held(u, s2, q2, i2)' => s2 = s /\ q2 = q /\ i2 = i
    BY <1>4, <1>5, <1>8
  <2>2. QED
    BY <2>1 DEF Alone
<1>9. QED
  BY <1>6, <1>7, <1>8

-----------------------------------------------------------------------------
\* At the start one task runs and the others are dead.
LEMMA InitAlone == Init => AllAlone
<1> SUFFICES ASSUME Init, NEW t \in T PROVE Alone(t)
  BY DEF AllAlone
<1>1. PICK p0 \in P, t0 \in T : /\ cur = [p \in P |-> IF p = p0 THEN t0 ELSE NULL]
                                /\ dead = T \ {t0}
  BY DEF Init
<1>2. \A q \in P : /\ runqhead[q] = 0 /\ runqtail[q] = 0 /\ runnext[q] = NULL
                   /\ tp[q] = NULL /\ pc[q] # "stolen"
  BY DEF Init
<1>3. \A s, q, i : Held(t, s, q, i) <=> \/ s = "dead" /\ q = t /\ i = 0 /\ t # t0
                                        \/ s = "cur" /\ q = p0 /\ i = 0 /\ t = t0
  BY <1>1, <1>2, ConstAssumption DEF Held
<1>4. CASE t = t0
  BY <1>3, <1>4 DEF Alone
<1>5. CASE t # t0
  BY <1>3, <1>5 DEF Alone
<1>6. QED
  BY <1>4, <1>5

LEMMA NextAlone == IInv /\ AllAlone /\ [Next]_vars => AllAlone'
<1> SUFFICES ASSUME IInv, AllAlone, [Next]_vars PROVE AllAlone'
  OBVIOUS
<1>1. ASSUME NEW p \in P,
             \/ TaskStep(p) \/ PutStep(p) \/ GetStep(p) \/ StealStep(p)
             \/ \E v \in P, b \in BOOLEAN : Steal(p, v, b)
      PROVE  AllAlone'
  BY <1>1, ReadStill, WriteStill, StillAlone, SpawnAlone, ExitAlone, YieldAlone,
     PutNextAlone, KickNextAlone, PutTailAlone, GetNextCasAlone, GetHeadCasAlone,
     GrabCasAlone, GrabNextCasAlone, StealDoneAlone
     DEF TaskStep, PutStep, GetStep, StealStep
<1>2. CASE (\E m \in Observer : ObserverStep(m)) \/ UNCHANGED vars
  BY <1>2, IdleStill, StillAlone
<1>3. QED
  BY <1>1, <1>2 DEF Next

LEMMA AloneInvariance == Spec => []AllAlone
BY Invariance, InitAlone, NextAlone, PTL DEF Spec

\* Whatever puts, gets and steals interleave, a task is neither lost nor run
\* twice: it is dead, running, being put, or in one place of one queue.
THEOREM EveryTaskInOnePlace == Spec => []NoTaskLost
<1>1. TypeOK /\ AllAlone => NoTaskLost
  BY AloneInOnePlace
<1>2. QED
  BY <1>1, AloneInvariance, TypeCorrect, PTL

-----------------------------------------------------------------------------
(* The lock-free run queues implement the atomic queues of WorkQueues, for  *)
(* any number of processors and tasks and any even ring size.  A step that  *)
(* reads, that loses a race or that writes a slot not yet in use is a       *)
(* stutter; every other step is one operation of WorkQueues:                *)
(*   Spawn, Exit             the same                                       *)
(*   PutNext, KickNext       PutNext, at the CAS on runnext                 *)
(*   PutTail                 PutTail, at the store to runqtail              *)
(*   GetNextCas, GetHeadCas  TakeNext, TakeHead                             *)
(*   GrabCas, GrabNextCas    StealHalf, StealNext                           *)
(*   StealDone               Publish                                        *)

(* Slices of a ring as sequences                                            *)

\* The m tasks of the ring f from position i on.
Slice(f, i, m) == [j \in 1 .. m |-> f[Slot(i + j - 1)]]

\* The slots of f from position i on, m of them, hold tasks.
Filled(f, i, m) == \A j \in Nat : i <= j /\ j < i + m => f[Slot(j)] \in T

LEMMA SliceSeq ==
  ASSUME NEW f, NEW i \in Nat, NEW m \in Nat, Filled(f, i, m)
  PROVE  /\ Slice(f, i, m) \in Seq(T)
         /\ Len(Slice(f, i, m)) = m
         /\ \A j \in 1 .. m : Slice(f, i, m)[j] = f[Slot(i + j - 1)]
<1> DEFINE s == Slice(f, i, m)
<1>1. \A j \in 1 .. m : f[Slot(i + j - 1)] \in T
  BY DEF Filled
<1>2. s \in [1 .. m -> T] /\ \A j \in 1 .. m : s[j] = f[Slot(i + j - 1)]
  BY <1>1 DEF Slice
<1> HIDE DEF s
<1>3. s \in Seq(T)
  BY <1>2, SeqDef
<1>4. Len(s) \in Nat /\ 1 .. m = 1 .. Len(s)
  BY <1>2, <1>3, LenProperties
<1>5. Len(s) = m
  BY <1>4
<1>6. QED
  BY <1>2, <1>3, <1>5 DEF s

LEMMA SliceEmpty == ASSUME NEW f, NEW i \in Nat PROVE Slice(f, i, 0) = <<>>
<1>1. Filled(f, i, 0)
  BY DEF Filled
<1>2. Slice(f, i, 0) \in Seq(T) /\ Len(Slice(f, i, 0)) = 0
  BY <1>1, SliceSeq
<1>3. QED
  BY <1>2, EmptySeq

\* The m slots of f from i on hold what those of g from l on do.
Copied(f, i, g, l, m) == \A j \in Nat : j < m => f[Slot(i + j)] = g[Slot(l + j)]

LEMMA SliceSame ==
  ASSUME NEW f, NEW g, NEW i \in Nat, NEW l \in Nat, NEW m \in Nat, Copied(f, i, g, l, m)
  PROVE  Slice(f, i, m) = Slice(g, l, m)
<1>1. ASSUME NEW j \in 1 .. m PROVE f[Slot(i + j - 1)] = g[Slot(l + j - 1)]
  <2>1. j - 1 \in Nat /\ j - 1 < m /\ i + (j - 1) = i + j - 1 /\ l + (j - 1) = l + j - 1
    OBVIOUS
  <2>2. QED
    BY <2>1 DEF Copied
<1>2. QED
  BY <1>1 DEF Slice

LEMMA SliceAppend ==
  ASSUME NEW f, NEW i \in Nat, NEW m \in Nat, Filled(f, i, m + 1)
  PROVE  Slice(f, i, m + 1) = Append(Slice(f, i, m), f[Slot(i + m)])
<1> DEFINE a == Slice(f, i, m)
           b == Slice(f, i, m + 1)
           x == f[Slot(i + m)]
<1>1. x \in T /\ Filled(f, i, m)
  BY DEF Filled
<1>2. /\ a \in Seq(T) /\ Len(a) = m /\ \A j \in 1 .. m : a[j] = f[Slot(i + j - 1)]
      /\ b \in Seq(T) /\ Len(b) = m + 1 /\ \A j \in 1 .. m + 1 : b[j] = f[Slot(i + j - 1)]
  BY <1>1, SliceSeq
<1>3. b[m + 1] = x
  BY <1>2
<1> HIDE DEF a, b, x
<1>4. /\ Append(a, x) \in Seq(T) /\ Len(Append(a, x)) = m + 1
      /\ \A j \in 1 .. m : Append(a, x)[j] = a[j] 
      /\ Append(a, x)[m + 1] = x
  BY <1>1, <1>2, AppendProperties
<1>5. \A j \in 1 .. m + 1 : b[j] = Append(a, x)[j]
  BY <1>2, <1>3, <1>4
<1>6. b = Append(a, x)
  BY <1>2, <1>4, <1>5, SeqEqual
<1>7. QED
  BY <1>6 DEF a, b, x

\* A subsequence of a slice is a slice.  The operator keeps SubSeq folded where
\* the lemma is cited.
Cut(s, lo, hi) == SubSeq(s, lo, hi)

LEMMA SliceSub ==
  ASSUME NEW f, NEW i \in Nat, NEW m \in Nat, Filled(f, i, m),
         NEW lo \in Nat, NEW hi \in Nat, NEW b \in Nat, NEW c \in Nat,
         lo > 0, hi <= m, c = hi - lo + 1, b = i + lo - 1
  PROVE  Cut(Slice(f, i, m), lo, hi) = Slice(f, b, c)
<1> DEFINE s == Slice(f, i, m)
           r == Slice(f, b, c)
           u == SubSeq(s, lo, hi)
<1>1. s \in Seq(T) /\ Len(s) = m /\ \A j \in 1 .. m : s[j] = f[Slot(i + j - 1)]
  BY SliceSeq
<1>2. Filled(f, b, c)
  BY DEF Filled
<1>3. /\ r \in Seq(T) /\ Len(r) = c
      /\ \A j \in 1 .. c : r[j] = f[Slot(b + j - 1)]
  BY ONLY <1>2, SliceSeq, b \in Nat, c \in Nat
<1>4. \A j \in lo .. hi : s[j] \in T
  <2>1. \A j \in 1 .. m : s[j] \in T
    BY <1>1, ElementOfSeq
  <2>2. \A j \in lo .. hi : j \in 1 .. m
    OBVIOUS
  <2>3. QED
    BY <1>1, <2>1, <2>2
<1>5. /\ u \in Seq(T) /\ Len(u) = c
      /\ \A j \in 1 .. c : u[j] = s[lo + j - 1]
  <2> HIDE DEF s
  <2>1. lo \in Int /\ hi \in Int
    OBVIOUS
  <2>2. /\ u \in Seq(T) /\ Len(u) = IF lo <= hi THEN hi - lo + 1 ELSE 0
        /\ \A j \in 1 .. hi - lo + 1 : u[j] = s[lo + j - 1]
    BY <1>4, <2>1, SubSeqProperties
  <2>3. hi - lo + 1 = c /\ (c = 0 \/ lo <= hi)
    OBVIOUS
  <2>4. QED
    BY <2>2, <2>3
<1>6. \A j \in 1 .. c : u[j] = r[j]
  <2> TAKE j \in 1 .. c
  <2>1. lo + j - 1 \in 1 .. m /\ i + (lo + j - 1) - 1 = b + j - 1
    OBVIOUS
  <2>2. s[lo + j - 1] = f[Slot(i + (lo + j - 1) - 1)]
    BY <1>1, <2>1
  <2>3. QED
    BY <1>3, <1>5, <2>1, <2>2
<1> HIDE DEF u, r
<1>7. u = r
  BY <1>3, <1>5, <1>6, SeqEqual
<1>8. QED
  BY <1>7 DEF u, r, Cut

LEMMA SliceFront ==
  ASSUME NEW f, NEW i \in Nat, NEW m \in Nat, Filled(f, i, m), NEW c \in 0 .. m
  PROVE  SubSeq(Slice(f, i, m), 1, c) = Slice(f, i, c)
<1>1. 1 \in Nat /\ c \in Nat /\ 1 > 0 /\ c = c - 1 + 1 /\ i = i + 1 - 1 /\ c <= m
  OBVIOUS
<1>2. Cut(Slice(f, i, m), 1, c) = Slice(f, i, c)
  BY <1>1, SliceSub
<1>3. QED
  BY <1>2 DEF Cut

LEMMA SliceRest ==
  ASSUME NEW f, NEW i \in Nat, NEW m \in Nat, Filled(f, i, m), NEW c \in 0 .. m
  PROVE  SubSeq(Slice(f, i, m), c + 1, m) = Slice(f, i + c, m - c)
<1>1. PICK d \in Nat, lo \in Nat, b \in Nat : d = m - c /\ lo = c + 1 /\ b = i + c
  OBVIOUS
<1>2. lo > 0 /\ m <= m /\ d = m - lo + 1 /\ b = i + lo - 1
  BY <1>1
<1>3. Cut(Slice(f, i, m), lo, m) = Slice(f, b, d)
  BY <1>1, <1>2, SliceSub
<1>4. QED
  BY <1>1, <1>3 DEF Cut

LEMMA SliceAt ==
  ASSUME NEW f, NEW i \in Nat, NEW m \in Nat, Filled(f, i, m + 1)
  PROVE  Slice(f, i, m + 1)[m + 1] = f[Slot(i + m)] /\ Len(Slice(f, i, m + 1)) = m + 1
<1>1. m + 1 \in Nat /\ m + 1 \in 1 .. m + 1 /\ i + (m + 1) - 1 = i + m
  OBVIOUS
<1>2. /\ Slice(f, i, m + 1)[m + 1] = f[Slot(i + (m + 1) - 1)]
      /\ Len(Slice(f, i, m + 1)) = m + 1
  BY <1>1, SliceSeq
<1>3. QED
  BY <1>1, <1>2

LEMMA SliceTail ==
  ASSUME NEW f, NEW i \in Nat, NEW m \in Nat, m > 0, Filled(f, i, m)
  PROVE  /\ Slice(f, i, m) # <<>>
         /\ Head(Slice(f, i, m)) = f[Slot(i)]
         /\ Tail(Slice(f, i, m)) = Slice(f, i + 1, m - 1)
<1> DEFINE s == Slice(f, i, m)
<1>1. s \in Seq(T) /\ Len(s) = m /\ s[1] = f[Slot(i)]
  BY SliceSeq
<1>2. s # <<>>
  BY <1>1, EmptySeq
<1>3. SubSeq(s, 2, m) = Slice(f, i + 1, m - 1)
  <2>1. 1 \in 0 .. m /\ 1 + 1 = 2
    OBVIOUS
  <2>2. SubSeq(Slice(f, i, m), 1 + 1, m) = Slice(f, i + 1, m - 1)
    BY <2>1, SliceRest
  <2>3. QED
    BY <2>1, <2>2
<1> HIDE DEF s
<1>4. Tail(s) = SubSeq(s, 2, m)
  BY <1>1, <1>2, TailIsSubSeq
<1>5. Head(s) = s[1]
  BY <1>1, <1>2
<1>6. QED
  BY <1>1, <1>2, <1>3, <1>4, <1>5 DEF s

-----------------------------------------------------------------------------
(* The mapped state                                                         *)

Queue(p) == Slice(runq[p], runqhead[p], runqtail[p] - runqhead[p])
Hand(p)  == {cur[p], tp[p]} \ {NULL}
Batch(p) == Slice(runq[p], runqtail[p], IF pc[p] = "stolen" THEN n[p] ELSE 0)

QueueBar == [p \in P |-> Queue(p)]
HandBar  == [p \in P |-> Hand(p)]
BatchBar == [p \in P |-> Batch(p)]

\* What WorkQueues sees, ...
LEMMA MappedVars ==
  UNCHANGED Work!vars <=> UNCHANGED <<QueueBar, runnext, HandBar, BatchBar, dead>>
BY DEF Work!vars, QueueBar, HandBar, BatchBar, Queue, Hand, Batch, Tasks, Slice

\* ... and its operations in these terms.
LEMMA MappedOps ==
  ASSUME NEW p \in P, NEW v \in P, NEW t, NEW b
  PROVE
    /\ /\ t \in HandBar[p] /\ dead' = dead \cup {t}
       /\ HandBar' = [HandBar EXCEPT ![p] = @ \ {t}]
       /\ UNCHANGED <<QueueBar, runnext, BatchBar>>
       => Work!Exit(p, t)
    /\ /\ t \in HandBar[p] /\ runnext' = [runnext EXCEPT ![p] = t]
       /\ HandBar' = [HandBar EXCEPT ![p] = (@ \ {t}) \cup ({runnext[p]} \ {NULL})]
       /\ UNCHANGED <<QueueBar, BatchBar, dead>>
       => Work!PutNext(p, t)
    /\ /\ t \in HandBar[p] /\ QueueBar' = [QueueBar EXCEPT ![p] = Append(@, t)]
       /\ HandBar' = [HandBar EXCEPT ![p] = @ \ {t}]
       /\ UNCHANGED <<runnext, BatchBar, dead>>
       => Work!PutTail(p, t)
    /\ /\ QueueBar[p] # <<>> /\ QueueBar' = [QueueBar EXCEPT ![p] = Tail(@)]
       /\ HandBar' = [HandBar EXCEPT ![p] = @ \cup {Head(QueueBar[p])}]
       /\ UNCHANGED <<runnext, BatchBar, dead>>
       => Work!TakeHead(p)
    /\ /\ p # v /\ QueueBar[p] = <<>> /\ HandBar[p] = {} /\ BatchBar[p] = <<>>
       /\ 2 * b <= Len(QueueBar[v]) + 1
       /\ BatchBar' = [BatchBar EXCEPT ![p] = SubSeq(QueueBar[v], 1, b)]
       /\ QueueBar' = [QueueBar EXCEPT ![v] = SubSeq(@, b + 1, Len(@))]
       /\ UNCHANGED <<runnext, HandBar, dead>>
       => Work!StealHalf(p, v, b)
    /\ /\ p # v /\ QueueBar[p] = <<>> /\ HandBar[p] = {} /\ BatchBar[p] = <<>>
       /\ runnext[v] # NULL
       /\ BatchBar' = [BatchBar EXCEPT ![p] = <<runnext[v]>>]
       /\ runnext' = [runnext EXCEPT ![v] = NULL]
       /\ UNCHANGED <<QueueBar, HandBar, dead>>
       => Work!StealNext(p, v)
    /\ /\ Len(BatchBar[p]) > 0
       /\ HandBar' = [HandBar EXCEPT ![p] = @ \cup {BatchBar[p][Len(BatchBar[p])]}]
       /\ QueueBar' = [QueueBar EXCEPT ![p] = @ \o SubSeq(BatchBar[p], 1, Len(BatchBar[p]) - 1)]
       /\ BatchBar' = [BatchBar EXCEPT ![p] = <<>>]
       /\ UNCHANGED <<runnext, dead>>
       => Work!Publish(p)
BY DEF Work!Exit, Work!PutNext, Work!PutTail, Work!TakeHead, Work!StealHalf, Work!StealNext,
       Work!Publish,
       QueueBar, HandBar, BatchBar, Queue, Hand, Batch, Tasks, Slice

\* The slots in use are filled.
LEMMA QueueFilled ==
  ASSUME IInv, NEW p \in P
  PROVE  /\ runqhead[p] \in Nat /\ runqtail[p] \in Nat /\ n[p] \in Nat
         /\ runqtail[p] - runqhead[p] \in Nat
         /\ Filled(runq[p], runqhead[p], runqtail[p] - runqhead[p])
         /\ pc[p] = "stolen" => Filled(runq[p], runqtail[p], n[p])
         /\ Len(Queue(p)) = runqtail[p] - runqhead[p]
<1>1. View(p) /\ Typed(p)
  BY DEF IInv, TypeOK, Typed
<1>2. /\ runqhead[p] \in Nat /\ runqtail[p] \in Nat /\ n[p] \in Nat
      /\ runqtail[p] - runqhead[p] \in Nat
  BY <1>1 DEF View, RingView, Typed
<1>3. /\ Filled(runq[p], runqhead[p], runqtail[p] - runqhead[p])
      /\ pc[p] = "stolen" => Filled(runq[p], runqtail[p], n[p])
  BY <1>1, <1>2 DEF View, RingView, Filled
<1>4. QED
  BY <1>2, <1>3, SliceSeq DEF Queue

\* Nothing WorkQueues sees changes when nothing moves, ...
LEMMA StillStutters ==
  ASSUME IInv, Still PROVE UNCHANGED Work!vars
<1>1. ASSUME NEW p \in P PROVE Queue(p)' = Queue(p)
  <2>1. /\ runqhead[p] \in Nat /\ runqtail[p] - runqhead[p] \in Nat
        /\ runqhead'[p] = runqhead[p] /\ runqtail'[p] = runqtail[p]
    BY QueueFilled DEF Still
  <2>2. ASSUME NEW j \in Nat, j < runqtail[p] - runqhead[p]
        PROVE  runq'[p][Slot(runqhead[p] + j)] = runq[p][Slot(runqhead[p] + j)]
    <3>1. runqhead[p] + j \in Nat /\ runqhead[p] <= runqhead[p] + j /\ runqhead[p] + j < runqtail[p]
      BY QueueFilled, <2>2
    <3>2. QED
      BY <3>1 DEF Still
  <2>3. Copied(runq'[p], runqhead[p], runq[p], runqhead[p], runqtail[p] - runqhead[p])
    BY <2>2 DEF Copied
  <2>4. QED
    BY <2>1, <2>3, SliceSame DEF Queue
<1>2. ASSUME NEW p \in P PROVE Batch(p)' = Batch(p)
  <2>1. CASE pc[p] = "stolen"
    BY <2>1 DEF Still, Batch
  <2>2. CASE pc[p] # "stolen"
    BY <2>2, QueueFilled, SliceEmpty DEF Still, Batch
  <2>3. QED
    BY <2>1, <2>2
<1>3. \A p \in P : Hand(p)' = Hand(p)
  BY DEF Still, Hand
<1>4. QED
  BY <1>1, <1>2, <1>3, MappedVars DEF Still, QueueBar, HandBar, BatchBar

\* ... or when the running task is only set aside to be put.
LEMMA YieldStutters == ASSUME IInv, NEW p \in P, Yield(p) PROVE UNCHANGED Work!vars
<1>1. TypeOK /\ tp[p] = NULL
  BY DEF IInv, View, TaskView, Yield, Goto
<1>2. /\ UNCHANGED <<runqhead, runqtail, runq, runnext, dead, n>>
      /\ tp' = [tp EXCEPT ![p] = cur[p]] /\ cur' = [cur EXCEPT ![p] = NULL]
      /\ \A q \in P : pc'[q] = "stolen" <=> pc[q] = "stolen"
  BY <1>1 DEF Yield, Goto, queueVars, TypeOK
<1>3. \A q \in P : Queue(q)' = Queue(q) /\ Batch(q)' = Batch(q)
  BY <1>2 DEF Queue, Batch
<1>4. \A q \in P : Hand(q)' = Hand(q)
  BY <1>1, <1>2 DEF Hand, TypeOK
<1>5. QED
  BY <1>2, <1>3, <1>4, MappedVars DEF QueueBar, HandBar, BatchBar

\* A task is in at most one hand.
LEMMA TwoHands == ASSUME AllAlone, NEW p \in P, cur[p] \in T PROVE cur[p] # tp[p]
<1> SUFFICES ASSUME cur[p] = tp[p] PROVE FALSE
  OBVIOUS
<1>1. Held(cur[p], "cur", p, 0) /\ Held(cur[p], "put", p, 0)
  BY DEF Held
<1>2. QED
  BY <1>1 DEF AllAlone, Alone

\* The steps that change which tasks are in a hand and which are dead.
LEMMA SpawnWork ==
  ASSUME IInv, NEW p \in P, NEW t \in T, Spawn(p, t) PROVE Work!Spawn(p, t)
<1>1. TypeOK /\ tp[p] = NULL
  BY DEF IInv, View, TaskView, Spawn, Goto
<1>2. /\ UNCHANGED <<runqhead, runqtail, runq, runnext, cur, n>>
      /\ t \in dead /\ dead' = dead \ {t} /\ tp' = [tp EXCEPT ![p] = t]
      /\ \A q \in P : pc'[q] = "stolen" <=> pc[q] = "stolen"
  BY <1>1 DEF Spawn, Goto, queueVars, TypeOK
<1>3. \A q \in P : Queue(q)' = Queue(q) /\ Batch(q)' = Batch(q)
  BY <1>2 DEF Queue, Batch
<1>4. Hand(p)' = Hand(p) \cup {t} /\ \A q \in P \ {p} : Hand(q)' = Hand(q)
  BY <1>1, <1>2, ConstAssumption DEF Hand, TypeOK
<1>5. QED
  BY <1>2, <1>3, <1>4, ZenonT(60) DEF Work!Spawn, Queue, Batch, Hand, Tasks, Slice

LEMMA ExitWork ==
  ASSUME IInv, NEW p \in P, Exit(p) PROVE \E t \in T : Work!Exit(p, t)
<1>1. TypeOK /\ tp[p] = NULL /\ cur[p] \in T
  BY DEF IInv, View, TaskView, Exit, Goto
<1>2. /\ UNCHANGED <<runqhead, runqtail, runq, runnext, tp, n>>
      /\ dead' = dead \cup {cur[p]} /\ cur' = [cur EXCEPT ![p] = NULL]
      /\ \A q \in P : pc'[q] = "stolen" <=> pc[q] = "stolen"
  BY <1>1 DEF Exit, Goto, queueVars, locals, TypeOK
<1>3. \A q \in P : Queue(q)' = Queue(q) /\ Batch(q)' = Batch(q)
  BY <1>2 DEF Queue, Batch
<1>4. /\ Hand(p) = {cur[p]} /\ Hand(p)' = {} /\ \A q \in P \ {p} : Hand(q)' = Hand(q)
  BY <1>1, <1>2, ConstAssumption DEF Hand, TypeOK
<1>5. cur[p] \in Hand(p) /\ Hand(p)' = Hand(p) \ {cur[p]}
  BY <1>4
<1>6. QED
  <2>1. /\ cur[p] \in HandBar[p] /\ HandBar' = [HandBar EXCEPT ![p] = @ \ {cur[p]}]
        /\ UNCHANGED <<QueueBar, runnext, BatchBar>>
    BY <1>2, <1>3, <1>4, <1>5 DEF QueueBar, HandBar, BatchBar
  <2>2. PICK t \in T : t = cur[p]
    BY <1>1
  <2>3. Work!Exit(p, t)
    BY <1>2, <2>1, <2>2, MappedOps
  <2>4. QED
    BY <2>3

\* The CAS of p_runqput on runnext, whether the slot was empty or not.
LEMMA PutNextWork ==
  ASSUME IInv, AllAlone, NEW p \in P, PutNext(p) \/ KickNext(p)
  PROVE  \E t \in T : Work!PutNext(p, t)
<1>1. /\ TypeOK /\ tp[p] \in T /\ cur[p] # tp[p] /\ runnext[p] = old[p]
  BY ConstAssumption, TwoHands DEF IInv, TypeOK, View, TaskView, PutNext, KickNext, Goto
<1>2. /\ UNCHANGED <<runqhead, runqtail, runq, cur, dead, n>>
      /\ runnext' = [runnext EXCEPT ![p] = tp[p]] /\ tp' = [tp EXCEPT ![p] = runnext[p]]
      /\ \A q \in P : pc'[q] = "stolen" <=> pc[q] = "stolen"
  BY <1>1 DEF PutNext, KickNext, Goto, taskVars, TypeOK
<1>3. \A q \in P : Queue(q)' = Queue(q) /\ Batch(q)' = Batch(q)
  BY <1>2 DEF Queue, Batch
<1>4. /\ tp[p] \in Hand(p) /\ Hand(p)' = (Hand(p) \ {tp[p]}) \cup ({runnext[p]} \ {NULL})
      /\ \A q \in P \ {p} : Hand(q)' = Hand(q)
  BY <1>1, <1>2, ConstAssumption DEF Hand, TypeOK
<1>5. QED
  <2>1. /\ tp[p] \in HandBar[p]
        /\ HandBar' = [HandBar EXCEPT ![p] = (@ \ {tp[p]}) \cup ({runnext[p]} \ {NULL})]
        /\ UNCHANGED <<QueueBar, BatchBar, dead>>
    BY <1>2, <1>3, <1>4 DEF QueueBar, HandBar, BatchBar
  <2>2. PICK t \in T : t = tp[p]
    BY <1>1
  <2>3. Work!PutNext(p, t)
    BY <1>2, <2>1, <2>2, MappedOps
  <2>4. QED
    BY <2>3

\* The store to runqtail of p_runqput.
LEMMA PutTailWork ==
  ASSUME IInv, AllAlone, NEW p \in P, PutTail(p)
  PROVE  \E t \in T : Work!PutTail(p, t)
<1>1. /\ TypeOK /\ tp[p] \in T /\ cur[p] # tp[p] /\ pc[p] = "puttail"
      /\ runq[p][Slot(runqtail[p])] = tp[p]
  BY ConstAssumption, TwoHands DEF IInv, TypeOK, View, RingView, TaskView, PutTail
<1>2. /\ UNCHANGED <<runqhead, runq, runnext, cur, dead, n>>
      /\ runqtail'[p] = runqtail[p] + 1 /\ \A q \in P \ {p} : runqtail'[q] = runqtail[q]
      /\ tp'[p] = NULL /\ \A q \in P \ {p} : tp'[q] = tp[q]
      /\ pc'[p] # "stolen" /\ \A q \in P \ {p} : pc'[q] = pc[q]
  BY <1>1 DEF PutTail, taskVars, TypeOK
<1>3. \A q \in P \ {p} : Queue(q)' = Queue(q) /\ Batch(q)' = Batch(q)
  BY <1>2 DEF Queue, Batch
<1>4. Batch(p)' = Batch(p)
  <2>1. runqtail[p] \in Nat /\ runqtail'[p] \in Nat
    BY <1>1, <1>2 DEF TypeOK
  <2>2. QED
    BY <1>1, <1>2, <2>1, SliceEmpty DEF Batch
<1>5. /\ tp[p] \in Hand(p) /\ Hand(p)' = Hand(p) \ {tp[p]}
      /\ \A q \in P \ {p} : Hand(q)' = Hand(q)
  BY <1>1, <1>2, ConstAssumption DEF Hand, TypeOK
<1>6. Queue(p)' = Append(Queue(p), tp[p])
  <2> DEFINE m == runqtail[p] - runqhead[p]
  <2>1. /\ runqhead[p] \in Nat /\ runqtail[p] \in Nat /\ m \in Nat
        /\ runqhead[p] + m = runqtail[p] /\ runqtail[p] + 1 - runqhead[p] = m + 1
        /\ Filled(runq[p], runqhead[p], m)
    BY QueueFilled, SMTT(30)
  <2> HIDE DEF m
  <2>2. Filled(runq[p], runqhead[p], m + 1)
    BY <1>1, <2>1 DEF Filled
  <2>3. Slice(runq[p], runqhead[p], m + 1) = Append(Slice(runq[p], runqhead[p], m), tp[p])
    BY <1>1, <2>1, <2>2, SliceAppend
  <2>4. QED
    BY <1>2, <2>1, <2>3, SMTT(30) DEF Queue, m
<1>7. QED
  <2>1. /\ tp[p] \in HandBar[p] /\ HandBar' = [HandBar EXCEPT ![p] = @ \ {tp[p]}]
        /\ QueueBar' = [QueueBar EXCEPT ![p] = Append(@, tp[p])]
        /\ UNCHANGED <<runnext, BatchBar, dead>>
    BY <1>2, <1>3, <1>4, <1>5, <1>6 DEF QueueBar, HandBar, BatchBar
  <2>2. PICK t \in T : t = tp[p]
    BY <1>1
  <2>3. Work!PutTail(p, t)
    BY <2>1, <2>2, MappedOps
  <2>4. QED
    BY <2>3

\* The CAS of p_runqget on runnext, and on the head.
LEMMA TakeNextWork ==
  ASSUME IInv, NEW p \in P, GetNextCas(p), runnext[p] = old[p]
  PROVE  Work!TakeNext(p)
<1>1. TypeOK /\ old[p] \in T /\ cur[p] = NULL
  BY DEF IInv, View, TaskView, GetNextCas, Goto, Looking
<1>2. /\ runnext' = [runnext EXCEPT ![p] = NULL] /\ cur' = [cur EXCEPT ![p] = runnext[p]]
      /\ UNCHANGED <<runqhead, runqtail, runq, tp, dead, n>>
      /\ \A q \in P : pc'[q] = "stolen" <=> pc[q] = "stolen"
  BY <1>1 DEF GetNextCas, Goto, locals, TypeOK
<1>3. \A q \in P : Queue(q)' = Queue(q) /\ Batch(q)' = Batch(q)
  BY <1>2 DEF Queue, Batch
<1>4. /\ Hand(p)' = Hand(p) \cup {runnext[p]} /\ runnext[p] # NULL
      /\ \A q \in P \ {p} : Hand(q)' = Hand(q)
  BY <1>1, <1>2, ConstAssumption DEF Hand, TypeOK
<1>5. QED
  BY <1>1, <1>2, <1>3, <1>4, ZenonT(60) DEF Work!TakeNext, Queue, Batch, Hand, Tasks, Slice

LEMMA TakeHeadWork ==
  ASSUME IInv, NEW p \in P, GetHeadCas(p), runqhead[p] = h[p]
  PROVE  Work!TakeHead(p)
<1> DEFINE x == runq[p][Slot(runqhead[p])]
           m == runqtail[p] - runqhead[p]
<1>1. /\ TypeOK /\ cur[p] = NULL /\ runqhead[p] < runqtail[p]
      /\ runqhead[p] \in Nat /\ runqtail[p] \in Nat
  BY DEF IInv, View, OwnerView, TaskView, GetHeadCas, Goto, Looking, TypeOK
<1>2. /\ runqhead'[p] = runqhead[p] + 1 /\ \A q \in P \ {p} : runqhead'[q] = runqhead[q]
      /\ cur'[p] = x /\ \A q \in P \ {p} : cur'[q] = cur[q]
      /\ UNCHANGED <<runnext, runqtail, runq, tp, dead, n>>
      /\ \A q \in P : pc'[q] = "stolen" <=> pc[q] = "stolen"
  BY <1>1 DEF GetHeadCas, Goto, locals, TypeOK
<1>3. /\ \A q \in P : Batch(q)' = Batch(q)
      /\ \A q \in P \ {p} : Queue(q)' = Queue(q) /\ Hand(q)' = Hand(q)
  BY <1>2 DEF Queue, Batch, Hand
<1>4. m \in Nat /\ m > 0 /\ Filled(runq[p], runqhead[p], m)
      /\ runqtail[p] - (runqhead[p] + 1) = m - 1
  BY <1>1, QueueFilled
<1>5. x \in T
  BY <1>1, <1>4 DEF Filled
<1> HIDE DEF x
<1>6. Queue(p) # <<>> /\ Head(Queue(p)) = x /\ Queue(p)' = Tail(Queue(p))
  <2>1. /\ Slice(runq[p], runqhead[p], m) # <<>>
        /\ Head(Slice(runq[p], runqhead[p], m)) = x
        /\ Tail(Slice(runq[p], runqhead[p], m)) = Slice(runq[p], runqhead[p] + 1, m - 1)
    BY <1>1, <1>4, SliceTail DEF x
  <2>2. QED
    BY <1>2, <1>4, <2>1 DEF Queue
<1>7. Hand(p)' = Hand(p) \cup {x}
  BY <1>1, <1>2, <1>5, ConstAssumption DEF Hand
<1>8. QED
  BY <1>2, <1>3, <1>6, <1>7, MappedOps DEF QueueBar, HandBar, BatchBar

-----------------------------------------------------------------------------
(* A thief takes at most half of what is there when its CAS succeeds: it    *)
(* computed the half from an older tail, and tails only grow.               *)

HalfView(p) ==
  pc[p] \in {"copy", "grabcas"} => 2 * n[p] <= runqtail[victim[p]] - h[p] + 1

AllHalf == \A p \in P : HalfView(p)

LEMMA TailsGrow ==
  ASSUME IInv, [Next]_vars PROVE \A q \in P : runqtail[q] <= runqtail'[q]
<1>1. \A q \in P : runqtail[q] \in Nat
  BY DEF IInv, TypeOK
<1>2. ASSUME NEW p \in P, PutTail(p) PROVE \A q \in P : runqtail[q] <= runqtail'[q]
  BY <1>1, <1>2 DEF PutTail, IInv, TypeOK
<1>3. ASSUME NEW p \in P, StealDone(p) PROVE \A q \in P : runqtail[q] <= runqtail'[q]
  <2>1. n[p] >= 1 /\ n[p] \in Nat
    BY <1>3 DEF IInv, TypeOK, View, ThiefView, StealDone, Goto
  <2>2. QED
    BY <1>1, <1>3, <2>1 DEF StealDone, IInv, TypeOK
<1>4. CASE (\E m \in Observer : ObserverStep(m)) \/ UNCHANGED vars
  <2>1. Still
    BY <1>4, IdleStill
  <2>2. QED
    BY <1>1, <2>1 DEF Still
<1>5. ASSUME NEW p \in P,
             \/ TaskStep(p) \/ PutStep(p) \/ GetStep(p) \/ StealStep(p)
             \/ \E v \in P, b \in BOOLEAN : Steal(p, v, b),
             ~PutTail(p), ~StealDone(p)
      PROVE  runqtail' = runqtail
  BY <1>5 DEF TaskStep, PutStep, GetStep, StealStep, Spawn, Yield, Exit, PutNext, KickNext,
              CasNextFail, PutHead, PutSlot, PutFull, GetNext, GetNextCas, GetHead, GetHeadCas,
              Steal, GrabHead, GrabTail, Copy, GrabCas, GrabNext, GrabNextCas, queueVars
<1>6. QED
  BY <1>1, <1>2, <1>3, <1>4, <1>5 DEF Next

LEMMA HalfStep ==
  ASSUME IInv, AllHalf, [Next]_vars PROVE AllHalf'
<1> SUFFICES ASSUME NEW p \in P, pc'[p] \in {"copy", "grabcas"}
             PROVE  2 * n'[p] <= runqtail'[victim'[p]] - h'[p] + 1
  BY DEF AllHalf, HalfView
<1>1. /\ TypeOK /\ TypeOK' /\ Typed(p) /\ Typed(victim[p]) /\ runqtail'[victim[p]] \in Nat
      /\ runqtail[victim[p]] <= runqtail'[victim[p]] /\ HalfView(p)
  BY NextInv, TailsGrow DEF IInv, TypeOK, Typed, AllHalf
<1>2. CASE UNCHANGED <<pc, n, h, victim>>
  BY <1>1, <1>2 DEF HalfView, Typed
<1>3. ASSUME NEW q \in P,
             \/ TaskStep(q) \/ PutStep(q) \/ GetStep(q) \/ StealStep(q)
             \/ \E v \in P, b \in BOOLEAN : Steal(q, v, b)
      PROVE  2 * n'[p] <= runqtail'[victim'[p]] - h'[p] + 1
  <2>1. CASE q # p
    <3>1. pc'[p] = pc[p] /\ n'[p] = n[p] /\ h'[p] = h[p] /\ victim'[p] = victim[p]
      <4> USE DEF Goto, locals
      <4>1. CASE TaskStep(q)
        BY <1>1, <2>1, <4>1 DEF TaskStep, Spawn, Yield, Exit, TypeOK
      <4>2. CASE PutStep(q)
        BY <1>1, <2>1, <4>2 DEF PutStep, PutNext, KickNext, CasNextFail, PutHead, PutSlot,
           PutFull, PutTail, TypeOK
      <4>3. CASE GetStep(q)
        BY <1>1, <2>1, <4>3 DEF GetStep, GetNext, GetNextCas, GetHead, GetHeadCas, TypeOK
      <4>4. CASE GrabHead(q) \/ GrabTail(q) \/ Copy(q) \/ GrabCas(q)
        BY <1>1, <2>1, <4>4 DEF GrabHead, GrabTail, Copy, GrabCas, TypeOK
      <4>5. CASE GrabNext(q) \/ GrabNextCas(q) \/ StealDone(q)
        BY <1>1, <2>1, <4>5 DEF GrabNext, GrabNextCas, StealDone, TypeOK
      <4>6. CASE \E v \in P, b \in BOOLEAN : Steal(q, v, b)
        BY <1>1, <2>1, <4>6 DEF Steal, TypeOK
      <4>7. QED
        BY <1>3, <4>1, <4>2, <4>3, <4>4, <4>5, <4>6 DEF StealStep
    <3>2. QED
      BY <1>1, <3>1 DEF HalfView, Typed
  <2>2. CASE q = p
    <3>1. GrabTail(p) \/ Copy(p)
      <4> USE DEF Goto
      <4>1. CASE TaskStep(p)
        <5>1. \E l \in {"casnext", "put", "getnext"} : Goto(p, "run", l)
          BY <4>1, Zenon DEF TaskStep, Spawn, Yield, Exit
        <5>2. PICK l \in {"casnext", "put", "getnext"} : pc' = [pc EXCEPT ![p] = l]
          BY <5>1
        <5>3. pc'[p] = l /\ l \notin {"copy", "grabcas"}
          BY <1>1, <5>2 DEF TypeOK
        <5>4. QED
          BY <5>3
      <4>2. CASE PutStep(p)
        BY <1>1, <4>2 DEF PutStep, PutNext, KickNext, CasNextFail, PutHead, PutSlot, PutFull, PutTail, TypeOK
      <4>3. CASE GetStep(p)
        BY <1>1, <4>3 DEF GetStep, GetNext, GetNextCas, GetHead, GetHeadCas, TypeOK
      <4>4. CASE GrabHead(p) \/ GrabCas(p)
        BY <1>1, <4>4 DEF GrabHead, GrabCas, TypeOK
      <4>5. CASE GrabNext(p) \/ GrabNextCas(p) \/ StealDone(p)
        BY <1>1, <4>5, ZenonT(60) DEF GrabNext, GrabNextCas, StealDone, TypeOK
      <4>6. CASE \E v \in P, b \in BOOLEAN : Steal(p, v, b)
        BY <1>1, <4>6 DEF Steal, TypeOK
      <4>7. QED
        BY <1>3, <2>2, <4>1, <4>2, <4>3, <4>4, <4>5, <4>6 DEF StealStep
    <3>2. CASE GrabTail(p)
      <4> DEFINE d == runqtail[victim[p]] - h[p]
      <4>1. /\ runqtail' = runqtail /\ victim' = victim /\ h' = h
            /\ n'[p] = Half(d)
        BY <1>1, <3>2, SMTT(30) DEF GrabTail, queueVars, TypeOK
      <4>2. d \in Int /\ 2 * Half(d) <= d + 1
        BY <1>1 DEF Half, Typed
      <4>3. QED
        BY <4>1, <4>2
    <3>3. CASE Copy(p)
      BY <1>1, <3>3 DEF Copy, HalfView
    <3>4. QED
      BY <3>1, <3>2, <3>3
  <2>3. QED
    BY <2>1, <2>2
<1>4. ASSUME NEW m \in Observer, ObserverStep(m) PROVE UNCHANGED <<pc, n, h, victim>>
  BY <1>4 DEF ObserverStep, EmptyHead, EmptyTail, EmptyNext, EmptyReport, EmptyRetry, locals
<1>5. QED
  BY <1>2, <1>3, <1>4 DEF Next, vars, locals

-----------------------------------------------------------------------------
(* The steps of a thief that move tasks                                     *)

\* A thief has nothing of its own to run.
LEMMA Hungry ==
  ASSUME IInv, NEW p \in P, pc[p] \in Stealing
  PROVE  /\ QueueBar[p] = <<>> /\ HandBar[p] = {}
         /\ pc[p] # "stolen" => BatchBar[p] = <<>>
<1>1. /\ runqhead[p] = runqtail[p] /\ cur[p] = NULL /\ tp[p] = NULL
      /\ runqhead[p] \in Nat /\ runqtail[p] - runqhead[p] = 0
  BY DEF IInv, TypeOK, View, OwnerView, TaskView, Looking
<1>2. Slice(runq[p], runqhead[p], 0) = <<>>
  BY <1>1, SliceEmpty
<1>3. QED
  BY <1>1, <1>2 DEF QueueBar, HandBar, BatchBar, Queue, Hand, Batch

\* The CAS on the head of the victim: the oldest n tasks change hands.
LEMMA StealHalfWork ==
  ASSUME IInv, AllHalf, NEW p \in P, GrabCas(p), runqhead[victim[p]] = h[p]
  PROVE  Work!Next
<1>1. /\ TypeOK /\ victim[p] \in P /\ victim[p] # p /\ pc[p] = "grabcas" /\ k[p] = n[p]
      /\ h[p] + n[p] <= runqtail[victim[p]] /\ n[p] >= 1 /\ n[p] \in Nat /\ h[p] \in Nat
      /\ CopyView(p) /\ 2 * n[p] <= runqtail[victim[p]] - h[p] + 1
  BY DEF IInv, View, ThiefView, GrabCas, Goto, Stealing, TypeOK, AllHalf, HalfView
<1>2. PICK v \in P, c \in Nat : v = victim[p] /\ c = n[p]
  BY <1>1
<1>3. /\ runqhead'[v] = runqhead[v] + c /\ \A q \in P \ {v} : runqhead'[q] = runqhead[q]
      /\ UNCHANGED <<runnext, runqtail, runq, cur, tp, dead, n>>
      /\ pc'[p] = "stolen" /\ \A q \in P \ {p} : pc'[q] = pc[q]
  <2>1. /\ pc' = [pc EXCEPT ![p] = "stolen"]
        /\ runqhead' = [runqhead EXCEPT ![v] = h[p] + n[p]]
        /\ UNCHANGED <<runqtail, runq, runnext, taskVars, locals>>
    BY <1>2 DEF GrabCas, Goto
  <2>2. QED
    BY <1>1, <1>2, <2>1 DEF TypeOK, taskVars, locals
<1> DEFINE m == runqtail[v] - runqhead[v]
<1>4. /\ runqhead[v] \in Nat /\ runqtail[v] \in Nat /\ m \in Nat
      /\ Filled(runq[v], runqhead[v], m) /\ Len(Queue(v)) = m
      /\ runqtail[p] \in Nat /\ c >= 1 /\ c <= m /\ 2 * c <= m + 1
  BY <1>1, <1>2, QueueFilled, SMTT(30)
<1> HIDE DEF m
<1>5. Queue(v)' = SubSeq(Queue(v), c + 1, Len(Queue(v)))
  <2>1. c \in 0 .. m /\ runqtail[v] - (runqhead[v] + c) = m - c
    BY <1>4 DEF m
  <2>2. SubSeq(Slice(runq[v], runqhead[v], m), c + 1, m) = Slice(runq[v], runqhead[v] + c, m - c)
    BY <1>4, <2>1, SliceRest
  <2>3. QED
    BY <1>3, <1>4, <2>1, <2>2 DEF Queue, m
<1>6. Batch(p)' = SubSeq(Queue(v), 1, c)
  <2>1. c \in 0 .. m
    BY <1>4
  <2>2. SubSeq(Slice(runq[v], runqhead[v], m), 1, c) = Slice(runq[v], runqhead[v], c)
    BY <1>4, <2>1, SliceFront
  <2>3. Copied(runq[p], runqtail[p], runq[v], runqhead[v], c)
    BY <1>1, <1>2 DEF CopyView, Copied
  <2>4. Slice(runq[p], runqtail[p], c) = Slice(runq[v], runqhead[v], c)
    BY <1>2, <1>4, <2>3, SliceSame
  <2>5. QED
    BY <1>2, <1>3, <2>2, <2>4 DEF Queue, Batch, m
<1>7. /\ \A q \in P : Hand(q)' = Hand(q)
      /\ \A q \in P \ {v} : Queue(q)' = Queue(q)
      /\ \A q \in P \ {p} : Batch(q)' = Batch(q)
  BY <1>3 DEF Queue, Batch, Hand
<1>8. Work!StealHalf(p, v, c)
  <2>1. /\ QueueBar[p] = <<>> /\ HandBar[p] = {} /\ BatchBar[p] = <<>>
    BY <1>1, Hungry DEF Stealing
  <2>2. /\ 2 * c <= Len(QueueBar[v]) + 1
        /\ BatchBar' = [BatchBar EXCEPT ![p] = SubSeq(QueueBar[v], 1, c)]
        /\ QueueBar' = [QueueBar EXCEPT ![v] = SubSeq(@, c + 1, Len(@))]
        /\ UNCHANGED <<runnext, HandBar, dead>>
    BY <1>3, <1>4, <1>5, <1>6, <1>7 DEF QueueBar, BatchBar, HandBar
  <2>3. QED
    BY <1>1, <1>2, <2>1, <2>2, MappedOps
<1>9. c \in 1 .. Len(QueueBar[v])
  BY <1>4 DEF QueueBar
<1>10. QED
  BY <1>8, <1>9 DEF Work!Next, QueueBar, Queue, Tasks, Slice

\* The CAS on the victim's runnext.
LEMMA StealNextWork ==
  ASSUME IInv, NEW p \in P, GrabNextCas(p), runnext[victim[p]] = old[p]
  PROVE  \E v \in P : Work!StealNext(p, v)
<1>1. /\ TypeOK /\ victim[p] \in P /\ victim[p] # p /\ pc[p] = "grabnextcas" /\ old[p] \in T
      /\ runqtail[p] \in Nat /\ runqhead[p] = runqtail[p]
  BY DEF IInv, View, OwnerView, ThiefView, TaskView, GrabNextCas, Goto, Stealing, TypeOK
<1>2. PICK v \in P, t \in T : v = victim[p] /\ t = old[p]
  BY <1>1
<1>3. /\ runnext' = [runnext EXCEPT ![v] = NULL]
      /\ Store(p, runqtail[p], t)
      /\ n'[p] = 1 /\ \A q \in P \ {p} : n'[q] = n[q]
      /\ pc'[p] = "stolen" /\ \A q \in P \ {p} : pc'[q] = pc[q]
      /\ UNCHANGED <<runqhead, runqtail, cur, tp, dead>>
  BY <1>1, <1>2 DEF GrabNextCas, Goto, Store, taskVars, TypeOK
<1>4. runq'[p][Slot(runqtail[p])] = t /\ \A q \in P \ {p} : runq'[q] = runq[q]
  BY <1>1, <1>2, <1>3, RingStore
<1>5. Batch(p)' = <<t>>
  <2> DEFINE s == Slice(runq'[p], runqtail[p], 1)
  <2>1. Filled(runq'[p], runqtail[p], 1)
    <3>1. \A j \in Nat : runqtail[p] <= j /\ j < runqtail[p] + 1 => j = runqtail[p]
      BY <1>1
    <3>2. QED
      BY <1>4, <3>1 DEF Filled
  <2>2. 0 + 1 = 1 /\ 0 \in Nat /\ 1 \in Nat /\ runqtail[p] + 0 = runqtail[p]
    BY <1>1
  <2>3. s \in Seq(T) /\ Len(s) = 1 /\ s[1] = runq'[p][Slot(runqtail[p])]
    <3>1. /\ s \in Seq(T) /\ Len(s) = 1
          /\ \A j \in 1 .. 1 : s[j] = runq'[p][Slot(runqtail[p] + j - 1)]
      BY <1>1, <2>1, <2>2, SliceSeq
    <3>2. 1 \in 1 .. 1 /\ runqtail[p] + 1 - 1 = runqtail[p]
      BY <1>1
    <3>3. QED
      BY <3>1, <3>2
  <2> HIDE DEF s
  <2>4. s = <<t>>
    BY <1>4, <2>2, <2>3
  <2>5. QED
    BY <1>3, <2>4 DEF Batch, s
<1>6. /\ \A q \in P : Hand(q)' = Hand(q)
      /\ \A q \in P \ {p} : Queue(q)' = Queue(q) /\ Batch(q)' = Batch(q)
  BY <1>3, <1>4 DEF Queue, Batch, Hand
<1>7. Queue(p)' = Queue(p)
  <2>1. runqhead[p] \in Nat /\ runqtail[p] - runqhead[p] = 0
    BY <1>1
  <2>2. QED
    BY <1>3, <2>1, SliceEmpty DEF Queue
<1>8. Work!StealNext(p, v)
  <2>1. /\ QueueBar[p] = <<>> /\ HandBar[p] = {} /\ BatchBar[p] = <<>>
    BY <1>1, Hungry DEF Stealing
  <2>2. runnext[v] = t /\ runnext[v] # NULL
    BY <1>2, ConstAssumption
  <2>3. /\ BatchBar' = [BatchBar EXCEPT ![p] = <<runnext[v]>>]
        /\ UNCHANGED <<QueueBar, HandBar, dead>>
    BY <1>3, <1>5, <1>6, <1>7, <2>2 DEF QueueBar, BatchBar, HandBar
  <2>4. QED
    BY <1>1, <1>2, <1>3, <2>1, <2>2, <2>3, MappedOps
<1>9. QED
  BY <1>8

\* The thief runs its last task and stores its tail.
LEMMA PublishWork ==
  ASSUME IInv, NEW p \in P, StealDone(p) PROVE Work!Publish(p)
<1>1. /\ TypeOK /\ cur[p] = NULL /\ tp[p] = NULL /\ pc[p] = "stolen"
      /\ n[p] >= 1 /\ n[p] \in Nat /\ runqhead[p] = runqtail[p] /\ runqtail[p] \in Nat
      /\ Filled(runq[p], runqtail[p], n[p])
  BY QueueFilled DEF IInv, View, OwnerView, ThiefView, TaskView, StealDone, Goto, Stealing,
                     Looking, TypeOK
<1> DEFINE m == n[p] - 1
           x == runq[p][Slot(runqtail[p] + m)]
<1>2. /\ cur'[p] = x /\ \A q \in P \ {p} : cur'[q] = cur[q]
      /\ runqtail'[p] = runqtail[p] + m /\ \A q \in P \ {p} : runqtail'[q] = runqtail[q]
      /\ pc'[p] = "run" /\ \A q \in P \ {p} : pc'[q] = pc[q]
      /\ UNCHANGED <<runqhead, runq, runnext, tp, dead, n>>
  BY <1>1 DEF StealDone, Goto, locals, TypeOK
<1>3. m \in Nat /\ m + 1 = n[p] /\ runqtail[p] + n[p] - 1 = runqtail[p] + m
      /\ runqtail[p] + m - runqhead[p] = m /\ runqtail[p] + m \in Nat
  BY <1>1
<1>4. x \in T
  BY <1>1, <1>3 DEF Filled
<1> HIDE DEF m, x
<1>5. Len(Batch(p)) = n[p] /\ Batch(p)[n[p]] = x
  <2>1. Len(Slice(runq[p], runqtail[p], m + 1)) = m + 1
        /\ Slice(runq[p], runqtail[p], m + 1)[m + 1] = x
    BY <1>1, <1>3, SliceAt DEF x
  <2>2. QED
    BY <1>1, <1>3, <2>1 DEF Batch
<1>6. Queue(p)' = Queue(p) \o SubSeq(Batch(p), 1, n[p] - 1)
  <2>1. m \in 0 .. n[p]
    BY <1>1, <1>3
  <2>2. SubSeq(Slice(runq[p], runqtail[p], n[p]), 1, m) = Slice(runq[p], runqtail[p], m)
    BY <1>1, <2>1, SliceFront
  <2>3. SubSeq(Batch(p), 1, m) = Slice(runq[p], runqtail[p], m)
    BY <1>1, <2>2 DEF Batch
  <2>4. Queue(p) = <<>>
    BY <1>1, Hungry DEF Stealing, QueueBar
  <2>5. Filled(runq[p], runqtail[p], m)
    BY <1>1, <1>3 DEF Filled
  <2>6. Slice(runq[p], runqtail[p], m) \in Seq(T)
    BY <1>1, <1>3, <2>5, SliceSeq
  <2>7. <<>> \o Slice(runq[p], runqtail[p], m) = Slice(runq[p], runqtail[p], m)
    BY <2>6, ConcatEmptySeq
  <2>8. Queue(p)' = Slice(runq[p], runqtail[p], m)
    BY <1>1, <1>2, <1>3 DEF Queue
  <2>9. QED
    BY <2>3, <2>4, <2>7, <2>8 DEF m
<1>7. Batch(p)' = <<>>
  BY <1>2, <1>3, SliceEmpty DEF Batch
<1>8. Hand(p)' = Hand(p) \cup {x}
  BY <1>1, <1>2, <1>4, ConstAssumption DEF Hand
<1>9. \A q \in P \ {p} : Queue(q)' = Queue(q) /\ Batch(q)' = Batch(q) /\ Hand(q)' = Hand(q)
  BY <1>2 DEF Queue, Batch, Hand
<1>10. BatchBar[p] = Batch(p) /\ QueueBar[p] = Queue(p) /\ HandBar[p] = Hand(p)
  BY DEF QueueBar, BatchBar, HandBar
<1>11. Len(BatchBar[p]) = n[p] /\ BatchBar[p][Len(BatchBar[p])] = x
  BY <1>5, <1>10
<1>12. HandBar' = [HandBar EXCEPT ![p] = @ \cup {BatchBar[p][Len(BatchBar[p])]}]
  BY <1>8, <1>9, <1>10, <1>11 DEF HandBar
<1>13. QueueBar' = [QueueBar EXCEPT ![p] = @ \o SubSeq(BatchBar[p], 1, Len(BatchBar[p]) - 1)]
  BY <1>6, <1>9, <1>10, <1>11 DEF QueueBar
<1>14. BatchBar' = [BatchBar EXCEPT ![p] = <<>>]
  BY <1>7, <1>9, <1>10 DEF BatchBar
<1>15. Len(BatchBar[p]) > 0
  BY <1>1, <1>11
<1>16. QED
  BY <1>2, <1>12, <1>13, <1>14, <1>15, MappedOps

-----------------------------------------------------------------------------
LEMMA InitWork == Init => Work!Init
<1> SUFFICES ASSUME Init PROVE Work!Init
  OBVIOUS
<1>1. PICK p0 \in P, t \in T : /\ cur = [p \in P |-> IF p = p0 THEN t ELSE NULL]
                               /\ dead = T \ {t}
  BY DEF Init
<1>2. \A p \in P : Queue(p) = <<>> /\ Batch(p) = <<>>
  <2>1. \A p \in P : runqhead[p] = 0 /\ runqtail[p] = 0 /\ pc[p] # "stolen"
    BY DEF Init
  <2>2. \A p \in P : Slice(runq[p], 0, 0) = <<>>
    BY SliceEmpty
  <2>3. 0 - 0 = 0
    OBVIOUS
  <2>4. QED
    BY <2>1, <2>2, <2>3 DEF Queue, Batch
<1>3. \A p \in P : Hand(p) = IF p = p0 THEN {t} ELSE {}
  <2>1. \A p \in P : tp[p] = NULL
    BY DEF Init
  <2>2. cur[p0] = t /\ \A p \in P \ {p0} : cur[p] = NULL
    BY <1>1
  <2>3. t # NULL
    BY ConstAssumption
  <2>4. QED
    BY <2>1, <2>2, <2>3 DEF Hand
<1>4. /\ QueueBar = [p \in P |-> <<>>] /\ BatchBar = [p \in P |-> <<>>]
      /\ HandBar = [p \in P |-> IF p = p0 THEN {t} ELSE {}]
  BY <1>2, <1>3 DEF QueueBar, BatchBar, HandBar
<1>5. runnext = [p \in P |-> NULL]
  BY DEF Init
<1>6. QED
  BY <1>1, <1>4, <1>5
     DEF Work!Init, QueueBar, BatchBar, HandBar, Queue, Batch, Hand, Tasks, Slice

LEMMA NextWork ==
  IInv /\ AllAlone /\ AllHalf /\ [Next]_vars => [Work!Next]_Work!vars
<1> SUFFICES ASSUME IInv, AllAlone, AllHalf, [Next]_vars PROVE [Work!Next]_Work!vars
  OBVIOUS
<1>1. ASSUME NEW p \in P, TaskStep(p) \/ PutStep(p) PROVE Work!Next \/ UNCHANGED Work!vars
  BY <1>1, SpawnWork, YieldStutters, ExitWork, PutNextWork, PutTailWork, ReadStill, WriteStill,
     StillStutters DEF TaskStep, PutStep, Work!Next
<1>2. ASSUME NEW p \in P, GetStep(p) PROVE Work!Next \/ UNCHANGED Work!vars
  BY <1>2, TakeNextWork, TakeHeadWork, ReadStill, FailStill, StillStutters
     DEF GetStep, Work!Next
<1>3. ASSUME NEW p \in P, StealStep(p) \/ \E v \in P, b \in BOOLEAN : Steal(p, v, b)
      PROVE  Work!Next \/ UNCHANGED Work!vars
  BY <1>3, StealHalfWork, StealNextWork, PublishWork, ReadStill, WriteStill, FailStill,
     StillStutters DEF StealStep, Work!Next
<1>4. CASE (\E m \in Observer : ObserverStep(m)) \/ UNCHANGED vars
  BY <1>4, IdleStill, StillStutters
<1>5. QED
  BY <1>1, <1>2, <1>3, <1>4 DEF Next

\* The lock-free queues implement FIFO queues with atomic operations: tasks
\* leave in the order in which they were put, and a steal takes the oldest
\* tasks in one instant, at most half of those that are there.
THEOREM RunQueuesAreWorkQueues == Spec => ImplementsWorkQueues
<1>1. Init => AllHalf
  BY DEF Init, AllHalf, HalfView
<1>2. Spec => []AllHalf
  BY <1>1, Invariance, HalfStep, PTL DEF Spec
<1>3. QED
  BY <1>2, InitWork, NextWork, Invariance, AloneInvariance, PTL
     DEF Spec, ImplementsWorkQueues, Work!Spec
=============================================================================
