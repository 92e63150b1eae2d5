---------------------------- MODULE SchedProofs ----------------------------
(* Theorems about the scheduler, for any finite sets of processors and OS   *)
(* threads and any set of tasks.                                            *)
EXTENDS Sched, FiniteSetTheorems, SequenceTheorems, TLAPS

-----------------------------------------------------------------------------
(* What an M holds, by where it is                                          *)

\* An M has a P at these labels; it may be left in M.p at others.
WithP == {"sched", "find", "check", "busy", "spin", "steal", "stolen", "reset", "run", "putnext",
          "kick", "wake", "wakecas", "startm", "idleget", "newm", "giveup", "stop", "respin"}

\* It carries a P taken from pidle, for itself or for a new M.
Carrying == {"idleget", "newm", "start", "reidle"}

\* It is in S.lock, between the list and the count.
Locking == {"idleget", "idleput", "reidle"}

\* It runs a task, or is about to.
WithTask == {"run", "putnext", "kick", "wake", "wakecas", "startm", "idleget", "newm", "giveup",
             "reset"}

Spins == {"steal", "stolen", "reset"}
MaySpin == {"steal", "stolen", "reset", "sched", "find", "check", "stop", "idleput", "unspin"}

\* It has found its own queue empty.
Workless == {"find", "check", "busy", "spin", "steal", "stolen", "stop", "respin"}

\* TypeOK without the bounds of the counters, which need the rest.
Typed ==
  /\ queue \in [P -> Seq(T)]
  /\ next \in [P -> T \cup {NULL}]
  /\ dead \subseteq T
  /\ pidle \subseteq P
  /\ npidle \in Int
  /\ nmspinning \in Int
  /\ lock \in M \cup {NULL}
  /\ owner \in [P -> M \cup {NULL}]
  /\ p \in [M -> P \cup {NULL}]
  /\ spinning \in [M -> BOOLEAN]
  /\ cur \in [M -> T \cup {NULL}]
  /\ tp \in [M -> T \cup {NULL}]
  /\ batch \in [M -> Seq(T)]
  /\ hand \in [M -> P \cup {NULL}]
  /\ seen \in [M -> Nat]
  /\ was \in [M -> BOOLEAN]
  /\ todo \in [M -> SUBSET P]
  /\ pc \in [M -> Label]
  /\ halted \in BOOLEAN
  /\ gaveup \in BOOLEAN

\* What M m holds where it is.
View(m) ==
  /\ pc[m] \in WithP => p[m] \in P
  /\ pc[m] \in Carrying => hand[m] \in P
  /\ pc[m] \notin Carrying => hand[m] = NULL
  /\ pc[m] \in WithTask => cur[m] \in T
  /\ pc[m] \in {"putnext", "kick"} => tp[m] \in T
  /\ pc[m] = "stolen" => batch[m] # <<>>
  /\ pc[m] \in Spins => spinning[m]
  /\ spinning[m] => pc[m] \in MaySpin
  /\ pc[m] \in Locking <=> lock = m

Views == \A m \in M : View(m)

-----------------------------------------------------------------------------
(* Types and views                                                          *)

\* A task's steps, and the calls it makes to wake a P.
LEMMA TaskViews ==
  ASSUME Typed, Views, NEW m \in M, TaskStep(m) PROVE Typed' /\ Views'
<1> USE SchedAssumption DEF Typed, Views, View, Goto, Label, WithP, Carrying, Locking, WithTask,
                            Spins, MaySpin, idleVars, ownVars, spinVars, ended
<1>1. ASSUME NEW t \in T, Spawn(m, t) PROVE Typed' /\ Views'
  BY <1>1 DEF Spawn
<1>2. CASE PutNext(m)
  BY <1>2 DEF PutNext
<1>3. CASE Kick(m)
  BY <1>3 DEF Kick
<1>4. CASE Yield(m)
  <2>1. PICK q \in Seq(T), x \in P : x = p[m] /\ q = Append(queue[x], cur[m])
    BY <1>4, AppendProperties, ZenonT(60) DEF Yield
  <2>2. queue' = [queue EXCEPT ![x] = q]
    BY <1>4, <2>1 DEF Yield
  <2>3. QED
    BY <1>4, <2>1, <2>2 DEF Yield
<1>5. CASE Exit(m)
  BY <1>5 DEF Exit
<1>6. QED
  BY <1>1, <1>2, <1>3, <1>4, <1>5 DEF TaskStep

LEMMA WakeViews ==
  ASSUME Typed, Views, NEW m \in M, WakeStep(m) PROVE Typed' /\ Views'
<1> USE SchedAssumption DEF Typed, Views, View, Goto, Label, WithP, Carrying, Locking, WithTask,
                            Spins, MaySpin, taskVars, idleVars, ownVars, spinVars, ended
<1>1. CASE WakeIdle(m)
  BY <1>1 DEF WakeIdle
<1>2. CASE WakeCas(m)
  BY <1>2 DEF WakeCas
<1>3. ASSUME NEW x \in P, StartM(m, x) PROVE Typed' /\ Views'
  BY <1>3 DEF StartM, IdleGet
<1>4. CASE StartMReserve(m)
  BY <1>4 DEF StartMReserve, IdleCount
<1>5. CASE NoIdleP(m)
  BY <1>5 DEF NoIdleP
<1>6. CASE GiveUp(m)
  BY <1>6 DEF GiveUp
<1>7. ASSUME NEW new \in M, NewM(m, new) PROVE Typed' /\ Views'
  BY <1>7, ZenonT(60) DEF NewM
<1>8. QED
  BY <1>1, <1>2, <1>3, <1>4, <1>5, <1>6, <1>7 DEF WakeStep

\* The number of spinning Ms, which s_findrunnable reads.
Counted == {m \in M : spinning[m] \/ Starting(m)}

LEMMA CountedFinite == IsFiniteSet(Counted) /\ Cardinality(Counted) \in Nat
<1>1. Counted \subseteq M
  BY DEF Counted
<1>2. QED
  BY <1>1, SchedAssumption, FS_Subset, FS_CardinalityType

LEMMA SpinNat == SpinningCounted => nmspinning \in Nat
BY CountedFinite DEF SpinningCounted, Counted

\* A task taken from the local queue.
LEMMA GetViews ==
  ASSUME Typed, Views, NEW m \in M, NEW from \in {"sched", "find"}, NEW else \in {"find", "check"},
         GetFrom(m, from, else)
  PROVE  Typed' /\ Views'
<1> USE SchedAssumption DEF Typed, Views, View, Goto, Label, WithP, Carrying, Locking, WithTask,
                            Spins, MaySpin, idleVars, ownVars, spinVars, ended
<1>1. PICK x \in P : x = p[m]
  BY DEF GetFrom
<1>2. CASE next[x] # NULL
  <2>1. HasWork(x)
    BY <1>2 DEF HasWork
  <2>2. /\ next' = [next EXCEPT ![x] = NULL] /\ cur' = [cur EXCEPT ![m] = next[x]]
        /\ next[x] \in T /\ UNCHANGED queue
        /\ Goto(m, from, IF spinning[m] THEN "reset" ELSE "run")
    BY <1>1, <1>2, <2>1 DEF GetFrom
  <2>3. QED
    BY <1>1, <2>2 DEF GetFrom
<1>3. CASE next[x] = NULL /\ queue[x] # <<>>
  <2>1. HasWork(x)
    BY <1>3 DEF HasWork
  <2>2. PICK q \in Seq(T), t \in T : q = Tail(queue[x]) /\ t = Head(queue[x])
    BY <1>3, HeadTailProperties
  <2>3. /\ queue' = [queue EXCEPT ![x] = q] /\ cur' = [cur EXCEPT ![m] = t] /\ UNCHANGED next
        /\ Goto(m, from, IF spinning[m] THEN "reset" ELSE "run")
    BY <1>1, <1>3, <2>1, <2>2 DEF GetFrom
  <2>4. QED
    BY <1>1, <2>3 DEF GetFrom
<1>4. CASE ~HasWork(x)
  <2>1. UNCHANGED <<queue, next, cur>> /\ Goto(m, from, else)
    BY <1>1, <1>4 DEF GetFrom, HasWork
  <2>2. QED
    BY <1>1, <2>1 DEF GetFrom
<1>5. QED
  BY <1>2, <1>3, <1>4 DEF HasWork

\* The tasks stolen from the queue s, at least one, and those left.
LEMMA StealParts ==
  ASSUME NEW s \in Seq(T), Half(Len(s)) > 0
  PROVE  /\ SubSeq(s, 1, Half(Len(s))) \in Seq(T)
         /\ SubSeq(s, 1, Half(Len(s))) # <<>>
         /\ SubSeq(s, Half(Len(s)) + 1, Len(s)) \in Seq(T)
<1>1. PICK n \in Nat, k \in Nat : n = Len(s) /\ k = Half(n) /\ k > 0 /\ k <= n
  <2>1. Len(s) \in Nat
    BY LenProperties
  <2>2. Half(Len(s)) \in Nat /\ Half(Len(s)) <= Len(s)
    BY <2>1 DEF Half
  <2>3. QED
    BY <2>1, <2>2
<1>2. \A i \in 1 .. n : s[i] \in T
  BY <1>1, ElementOfSeq
<1>3. /\ 1 \in Int /\ k \in Int /\ k + 1 \in Int /\ n \in Int
      /\ (\A i \in 1 .. k : i \in 1 .. n) /\ (\A i \in k + 1 .. n : i \in 1 .. n)
      /\ 1 <= k /\ k - 1 + 1 = k
  BY <1>1
<1>4. SubSeq(s, 1, k) \in Seq(T) /\ Len(SubSeq(s, 1, k)) = k
  BY <1>2, <1>3, SubSeqProperties
<1>5. SubSeq(s, 1, k) # <<>>
  BY <1>1, <1>4, EmptySeq
<1>6. SubSeq(s, k + 1, n) \in Seq(T)
  BY <1>2, <1>3, SubSeqProperties
<1>7. QED
  BY <1>1, <1>4, <1>5, <1>6

\* s_findrunnable.
LEMMA FindViews ==
  ASSUME Typed, Views, SpinningCounted, NEW m \in M, FindStep(m) PROVE Typed' /\ Views'
<1>1. CASE Schedule(m)
  BY <1>1, GetViews DEF Schedule
<1>2. CASE FindLocal(m)
  BY <1>2, GetViews DEF FindLocal
<1> USE SchedAssumption DEF Typed, Views, View, Goto, Label, WithP, Carrying, Locking, WithTask,
                            Spins, MaySpin, taskVars, idleVars, ownVars, spinVars, ended
<1>3. CASE Start(m)
  BY <1>3 DEF Start, Acquire
<1>4. CASE LoadSpinning(m)
  BY <1>4, SpinNat DEF LoadSpinning
<1>5. CASE CheckBusy(m)
  BY <1>5 DEF CheckBusy
<1>6. CASE Spin(m)
  BY <1>6 DEF Spin
<1>7. CASE StealNothing(m)
  BY <1>7 DEF StealNothing
<1>8. CASE StealDone(m)
  BY <1>8 DEF StealDone
<1>9. CASE ResetSpinning(m)
  BY <1>9 DEF ResetSpinning
<1>10. ASSUME NEW v \in P, Steal(m, v) PROVE Typed' /\ Views'
  <2>1. PICK b \in Seq(T), q \in Seq(T) :
          /\ b # <<>>
          /\ batch' = [batch EXCEPT ![m] = b]
          /\ queue' = [queue EXCEPT ![v] = q]
    <3>1. PICK s \in Seq(T) : s = queue[v]
      OBVIOUS
    <3>2. Half(Len(s)) > 0
      BY <1>10, <3>1 DEF Steal
    <3>3. PICK b \in Seq(T), q \in Seq(T) : /\ b = SubSeq(s, 1, Half(Len(s))) /\ b # <<>>
                                            /\ q = SubSeq(s, Half(Len(s)) + 1, Len(s))
      BY <3>2, StealParts, ZenonT(60)
    <3>4. /\ batch' = [batch EXCEPT ![m] = b]
          /\ queue' = [queue EXCEPT ![v] = q]
      BY <1>10, <3>1, <3>3 DEF Steal
    <3>5. QED
      BY <3>3, <3>4
  <2>2. Goto(m, "steal", "stolen") /\ UNCHANGED <<next, dead, cur, tp, idleVars, ownVars,
                                                  spinVars, seen, was, todo, ended>>
    BY <1>10 DEF Steal
  <2>3. QED
    BY <2>1, <2>2
<1>11. ASSUME NEW v \in P, StealNext(m, v) PROVE Typed' /\ Views'
  BY <1>11 DEF StealNext
<1>12. QED
  BY <1>1, <1>2, <1>3, <1>4, <1>5, <1>6, <1>7, <1>8, <1>9, <1>10, <1>11 DEF FindStep

\* The way to m_park.
LEMMA StopViews ==
  ASSUME Typed, Views, NEW m \in M, StopStep(m) PROVE Typed' /\ Views'
<1> USE SchedAssumption DEF Typed, Views, View, Goto, Label, WithP, Carrying, Locking, WithTask,
                            Spins, MaySpin, taskVars, idleVars, ownVars, spinVars, ended
<1>1. CASE Stop(m)
  <2>1. p[m] \in P
    BY <1>1 DEF Stop
  <2>2. \/ /\ p' = [p EXCEPT ![m] = NULL]
           /\ owner' = [owner EXCEPT ![p[m]] = NULL]
        \/ /\ p' = p
           /\ owner' = owner
    <3>1. CASE Debug
      BY <1>1, <3>1, Zenon DEF Stop
    <3>2. CASE ~Debug
      <4>1. UNCHANGED ownVars
        BY <1>1, <3>2, Zenon DEF Stop
      <4>2. QED
        BY <4>1
    <3>3. QED
      BY <3>1, <3>2
  <2>3. p' \in [M -> P \cup {NULL}] /\ \A m2 \in M \ {m} : p'[m2] = p[m2]
    <3>1. p \in [M -> P \cup {NULL}]
      OBVIOUS
    <3>2. QED
      BY ONLY <2>2, <3>1
  <2>4. owner' \in [P -> M \cup {NULL}]
    BY <2>2
  <2>5. /\ lock = NULL /\ lock' = m /\ pidle' = pidle \cup {p[m]} /\ Goto(m, "stop", "idleput")
        /\ UNCHANGED <<taskVars, npidle, hand, spinVars, seen, was, todo, ended>>
    BY <1>1 DEF Stop
  <2>6. Typed'
    BY <2>1, <2>3, <2>4, <2>5
  <2>7. Views'
    BY <2>3, <2>5
  <2>8. QED
    BY <2>6, <2>7
<1>2. CASE StopCount(m)
  BY <1>2 DEF StopCount, IdleCount
<1>3. CASE Unspin(m)
  BY <1>3 DEF Unspin
<1>4. ASSUME NEW x \in P, Recheck(m, x) PROVE Typed' /\ Views'
  BY <1>4 DEF Recheck
<1>5. ASSUME NEW x \in P, Reget(m, x) PROVE Typed' /\ Views'
  BY <1>5 DEF Reget, IdleGet
<1>6. CASE RegetNone(m)
  BY <1>6 DEF RegetNone
<1>7. CASE RegetCount(m)
  BY <1>7 DEF RegetCount, IdleCount, Acquire
<1>8. CASE Respin(m)
  BY <1>8 DEF Respin
<1>9. CASE Abort(m)
  BY <1>9 DEF Abort
<1>10. QED
  BY <1>1, <1>2, <1>3, <1>4, <1>5, <1>6, <1>7, <1>8, <1>9 DEF StopStep

-----------------------------------------------------------------------------
(* Who has which P                                                          *)

\* M m has P x, or carries it.
Holds(m, x) == \/ pc[m] \in WithP /\ p[m] = x
               \/ pc[m] \in Carrying /\ hand[m] = x

\* An M that starts another one has a P and carries a different one.
TwoPs(m) == pc[m] \in WithP /\ pc[m] \in Carrying => p[m] # hand[m]

\* A P is idle or held, and held once.
Apart ==
  /\ \A m1, m2 \in M, x \in P : Holds(m1, x) /\ Holds(m2, x) => m1 = m2
  /\ \A m \in M : TwoPs(m)
  /\ \A m \in M, x \in P : Holds(m, x) => x \notin pidle
  /\ \A x \in P : x \in pidle \/ \E m \in M : Holds(m, x)

\* A step in which no P changes hands.
HoldsStay == /\ pidle' = pidle
             /\ \A m \in M : /\ \A x \in P : Holds(m, x)' <=> Holds(m, x)
                             /\ TwoPs(m) => TwoPs(m)'

LEMMA ApartStay == ASSUME Apart, HoldsStay PROVE Apart'
<1>1. \A x \in P : x \in pidle' \/ \E m \in M : Holds(m, x)'
  BY DEF Apart, HoldsStay
<1>2. \A m1, m2 \in M, x \in P : Holds(m1, x)' /\ Holds(m2, x)' => m1 = m2
  BY DEF Apart, HoldsStay
<1>3. \A m \in M : TwoPs(m)'
  BY DEF Apart, HoldsStay
<1>4. \A m \in M, x \in P : Holds(m, x)' => x \notin pidle'
  BY DEF Apart, HoldsStay
<1>5. QED
  BY <1>1, <1>2, <1>3, <1>4 DEF Apart

LEMMA TaskApart ==
  ASSUME Typed, Views, NEW m \in M, TaskStep(m) PROVE HoldsStay
<1> USE SchedAssumption DEF Typed, Views, View, Goto, Label, WithP, Carrying, HoldsStay, Holds,
                            TwoPs, idleVars, ownVars, spinVars, ended
<1>1. ASSUME NEW t \in T, Spawn(m, t) PROVE HoldsStay
  BY <1>1 DEF Spawn
<1>2. CASE PutNext(m)
  BY <1>2 DEF PutNext
<1>3. CASE Kick(m)
  BY <1>3 DEF Kick
<1>4. CASE Yield(m)
  BY <1>4 DEF Yield
<1>5. CASE Exit(m)
  BY <1>5 DEF Exit
<1>6. QED
  BY <1>1, <1>2, <1>3, <1>4, <1>5 DEF TaskStep

\* A P is taken from the list of idle ones.
LEMMA IdleGetApart ==
  ASSUME Typed, Views, Apart, NEW m \in M, NEW x \in P, IdleGet(m, x),
         \/ pc[m] = "startm" /\ pc' = [pc EXCEPT ![m] = "idleget"]
         \/ pc[m] = "reget" /\ pc' = [pc EXCEPT ![m] = "reidle"],
         UNCHANGED p
  PROVE  Apart'
<1> USE SchedAssumption DEF Typed, Views, View, Label, WithP, Carrying
<1>1. x \in pidle /\ pidle' = pidle \ {x} /\ hand' = [hand EXCEPT ![m] = x]
  BY DEF IdleGet
<1>2. \A m2 \in M : ~Holds(m2, x)
  BY <1>1 DEF Apart
<1>3. \A m2 \in M, y \in P : Holds(m2, y)' <=> Holds(m2, y) \/ (m2 = m /\ y = x)
  BY <1>1 DEF Holds
<1>4. \A m2 \in M : TwoPs(m2)'
  BY <1>1, <1>2 DEF TwoPs, Holds, Apart
<1>5. \A y \in P : y \in pidle' \/ \E m2 \in M : Holds(m2, y)'
  <2> TAKE y \in P
  <2>1. CASE y = x
    BY <1>3, <2>1
  <2>2. CASE y # x /\ y \in pidle
    BY <1>1, <2>2
  <2>3. CASE y # x /\ y \notin pidle
    BY <1>3, <2>3 DEF Apart
  <2>4. QED
    BY <2>1, <2>2, <2>3
<1>6. ASSUME NEW m1 \in M, NEW m2 \in M, NEW y \in P, Holds(m1, y)', Holds(m2, y)'
      PROVE  m1 = m2
  <2>1. CASE y = x
    BY <1>2, <1>3, <1>6, <2>1
  <2>2. CASE y # x
    <3>1. Holds(m1, y) /\ Holds(m2, y)
      BY <1>3, <1>6, <2>2
    <3>2. QED
      BY <3>1 DEF Apart
  <2>3. QED
    BY <2>1, <2>2
<1>7. \A m2 \in M, y \in P : Holds(m2, y)' => y \notin pidle'
  BY <1>1, <1>3 DEF Apart
<1>8. QED
  BY <1>4, <1>5, <1>6, <1>7 DEF Apart

LEMMA WakeApart ==
  ASSUME Typed, Views, Apart, NEW m \in M, WakeStep(m) PROVE Apart'
<1> USE SchedAssumption DEF Typed, Views, View, Goto, Label, WithP, Carrying
<1>1. CASE WakeIdle(m)
  <2>1. HoldsStay
    BY <1>1 DEF WakeIdle, HoldsStay, Holds, TwoPs, idleVars, ownVars
  <2>2. QED
    BY <2>1, ApartStay
<1>2. CASE WakeCas(m)
  <2>1. HoldsStay
    BY <1>2 DEF WakeCas, HoldsStay, Holds, TwoPs, idleVars, ownVars
  <2>2. QED
    BY <2>1, ApartStay
<1>3. ASSUME NEW x \in P, StartM(m, x) PROVE Apart'
  BY <1>3, IdleGetApart DEF StartM, ownVars
<1>4. CASE StartMReserve(m)
  <2>1. HoldsStay
    BY <1>4 DEF StartMReserve, IdleCount, HoldsStay, Holds, TwoPs, ownVars
  <2>2. QED
    BY <2>1, ApartStay
<1>5. CASE NoIdleP(m)
  <2>1. HoldsStay
    BY <1>5 DEF NoIdleP, HoldsStay, Holds, TwoPs, idleVars, ownVars
  <2>2. QED
    BY <2>1, ApartStay
<1>6. CASE GiveUp(m)
  <2>1. HoldsStay
    BY <1>6 DEF GiveUp, HoldsStay, Holds, TwoPs, idleVars, ownVars
  <2>2. QED
    BY <2>1, ApartStay
<1>7. ASSUME NEW new \in M, NewM(m, new) PROVE Apart'
  <2>1. PICK z \in P : z = hand[m]
    BY <1>7 DEF NewM
  <2>2. \A m2 \in M, y \in P :
          Holds(m2, y)' <=> IF y = z THEN m2 = new ELSE Holds(m2, y)
    <3>1. \A m2 \in M : Holds(m2, z) <=> m2 = m
      BY <1>7, <2>1 DEF NewM, Holds, Apart
    <3>2. p[m] # z
      BY <1>7, <2>1 DEF NewM, Apart, TwoPs
    <3>3. QED
      BY <1>7, <2>1, <3>1, <3>2 DEF NewM, Holds, ownVars
  <2>3. z \notin pidle /\ pidle' = pidle
    BY <1>7, <2>1 DEF NewM, Holds, Apart
  <2>4. ASSUME NEW m2 \in M PROVE TwoPs(m2)'
    <3>1. TwoPs(m2) /\ p' = p
      BY <1>7 DEF NewM, ownVars, Apart
    <3>2. CASE m2 = m \/ m2 = new
      BY <1>7, <3>2 DEF NewM, TwoPs
    <3>3. CASE m2 # m /\ m2 # new
      BY <1>7, <3>1, <3>3 DEF NewM, TwoPs
    <3>4. QED
      BY <3>2, <3>3
  <2>5. \A y \in P : y \in pidle' \/ \E m2 \in M : Holds(m2, y)'
    BY <2>2, <2>3 DEF Apart
  <2>6. ASSUME NEW m1 \in M, NEW m2 \in M, NEW y \in P, Holds(m1, y)', Holds(m2, y)'
        PROVE  m1 = m2
    <3>1. CASE y = z
      BY <2>2, <2>6, <3>1
    <3>2. CASE y # z
      <4>1. Holds(m1, y) /\ Holds(m2, y)
        BY <2>2, <2>6, <3>2
      <4>2. QED
        BY <4>1 DEF Apart
    <3>3. QED
      BY <3>1, <3>2
  <2>7. \A m2 \in M, y \in P : Holds(m2, y)' => y \notin pidle'
    BY <2>2, <2>3 DEF Apart
  <2>8. QED
    BY <2>4, <2>5, <2>6, <2>7 DEF Apart
<1>8. QED
  BY <1>1, <1>2, <1>3, <1>4, <1>5, <1>6, <1>7 DEF WakeStep

LEMMA FindApart ==
  ASSUME Typed, Views, NEW m \in M, FindStep(m) PROVE HoldsStay
<1> USE SchedAssumption DEF Typed, Views, View, Goto, Label, WithP, Carrying, HoldsStay, Holds,
                            TwoPs, idleVars, ownVars, spinVars, ended
<1>1. CASE Schedule(m)
  BY <1>1 DEF Schedule, GetFrom
<1>2. CASE FindLocal(m)
  BY <1>2 DEF FindLocal, GetFrom
<1>3. CASE Start(m)
  BY <1>3 DEF Start, Acquire
<1>4. CASE LoadSpinning(m)
  BY <1>4 DEF LoadSpinning
<1>5. CASE CheckBusy(m)
  BY <1>5 DEF CheckBusy
<1>6. CASE Spin(m)
  BY <1>6 DEF Spin
<1>7. CASE StealNothing(m)
  BY <1>7 DEF StealNothing
<1>8. CASE StealDone(m)
  BY <1>8 DEF StealDone
<1>9. CASE ResetSpinning(m)
  BY <1>9 DEF ResetSpinning
<1>10. ASSUME NEW v \in P, Steal(m, v) PROVE HoldsStay
  BY <1>10 DEF Steal
<1>11. ASSUME NEW v \in P, StealNext(m, v) PROVE HoldsStay
  BY <1>11 DEF StealNext
<1>12. QED
  BY <1>1, <1>2, <1>3, <1>4, <1>5, <1>6, <1>7, <1>8, <1>9, <1>10, <1>11 DEF FindStep

LEMMA StopApart ==
  ASSUME Typed, Views, Apart, NEW m \in M, StopStep(m) PROVE Apart'
<1> USE SchedAssumption DEF Typed, Views, View, Goto, Label, WithP, Carrying
<1>1. CASE Stop(m)
  <2>1. PICK z \in P : z = p[m]
    BY <1>1 DEF Stop
  <2>2. \A m2 \in M, y \in P : Holds(m2, y)' <=> y # z /\ Holds(m2, y)
    <3>1. \A m2 \in M : Holds(m2, z) <=> m2 = m
      BY <1>1, <2>1 DEF Stop, Holds, Apart
    <3>2. \A m2 \in M : m2 # m => p'[m2] = p[m2]
      BY <1>1 DEF Stop, ownVars
    <3>3. UNCHANGED hand
      BY <1>1 DEF Stop
    <3>4. QED
      BY <1>1, <2>1, <3>1, <3>2, <3>3 DEF Stop, Holds
  <2>3. pidle' = pidle \cup {z}
    BY <1>1, <2>1 DEF Stop
  <2>4. \A m2 \in M : TwoPs(m2)'
    <3>1. UNCHANGED hand /\ \A m2 \in M : m2 # m => p'[m2] = p[m2]
      BY <1>1 DEF Stop, ownVars
    <3>2. QED
      BY <1>1, <3>1 DEF Stop, TwoPs, Apart
  <2>5. \A y \in P : y \in pidle' \/ \E m2 \in M : Holds(m2, y)'
    BY <2>2, <2>3 DEF Apart
  <2>6. \A m1, m2 \in M, y \in P : Holds(m1, y)' /\ Holds(m2, y)' => m1 = m2
    BY <2>2 DEF Apart
  <2>7. \A m2 \in M, y \in P : Holds(m2, y)' => y \notin pidle'
    BY <2>2, <2>3 DEF Apart
  <2>8. QED
    BY <2>4, <2>5, <2>6, <2>7 DEF Apart
<1>2. ASSUME NEW x \in P, Reget(m, x) PROVE Apart'
  BY <1>2, IdleGetApart DEF Reget, ownVars
<1>3. CASE StopCount(m) \/ Unspin(m) \/ (\E x \in P : Recheck(m, x)) \/ RegetNone(m)
           \/ RegetCount(m) \/ Respin(m) \/ Abort(m)
  <2>1. HoldsStay
    <3> USE DEF HoldsStay, Holds, TwoPs, idleVars, ownVars
    <3>1. CASE StopCount(m)
      BY <3>1 DEF StopCount, IdleCount
    <3>2. CASE Unspin(m)
      BY <3>2 DEF Unspin
    <3>3. ASSUME NEW x \in P, Recheck(m, x) PROVE HoldsStay
      BY <3>3 DEF Recheck
    <3>4. CASE RegetNone(m)
      BY <3>4 DEF RegetNone
    <3>5. CASE RegetCount(m)
      BY <3>5 DEF RegetCount, IdleCount, Acquire
    <3>6. CASE Respin(m)
      BY <3>6 DEF Respin
    <3>7. CASE Abort(m)
      BY <3>7 DEF Abort
    <3>8. QED
      BY <1>3, <3>1, <3>2, <3>3, <3>4, <3>5, <3>6, <3>7
  <2>2. QED
    BY <2>1, ApartStay
<1>4. QED
  BY <1>1, <1>2, <1>3 DEF StopStep

-----------------------------------------------------------------------------
(* The P of an M that looks for work, and the idle ones, have none          *)

\* M m holds P x, and has found or may assume that it has no work.
Unused(m, x) ==
  \/ pc[m] \in Carrying /\ hand[m] = x
  \/ /\ pc[m] \in Workless \/ (pc[m] = "sched" /\ spinning[m])
     /\ p[m] = x

Empty == /\ \A x \in pidle : ~HasWork(x)
         /\ \A m \in M, x \in P : Unused(m, x) => ~HasWork(x)

LEMMA TaskEmpty ==
  ASSUME Typed, Views, Apart, Empty, NEW m \in M, TaskStep(m) PROVE Empty'
<1> USE SchedAssumption DEF Typed, Views, View, Apart, Holds, Empty, Unused, HasWork, Goto, WithP,
                            Carrying, MaySpin, Workless, taskVars, idleVars, ownVars, spinVars,
                            ended
<1>1. ASSUME NEW t \in T, Spawn(m, t) PROVE Empty'
  BY <1>1 DEF Spawn
<1>2. CASE PutNext(m)
  BY <1>2 DEF PutNext
<1>3. CASE Kick(m)
  BY <1>3 DEF Kick
<1>4. CASE Yield(m)
  <2>1. PICK x \in P : x = p[m] /\ Holds(m, x)
    BY <1>4 DEF Yield
  <2>2. pidle' = pidle /\ \A y \in P : y # x => (HasWork(y)' <=> HasWork(y))
    BY <1>4, <2>1 DEF Yield
  <2>3. ~spinning[m]
    BY <1>4 DEF Yield
  <2>4. \A m2 \in M, y \in P : Unused(m2, y)' => m2 # m /\ Unused(m2, y)
    BY <1>4, <2>3 DEF Yield
  <2>5. \A m2 \in M, y \in P : Unused(m2, y) => Holds(m2, y)
    OBVIOUS
  <2> HIDE DEF HasWork, Unused, Holds
  <2>6. QED
    BY <2>1, <2>2, <2>4, <2>5
<1>5. CASE Exit(m)
  <2>1. pidle' = pidle /\ \A y \in P : HasWork(y)' <=> HasWork(y)
    BY <1>5 DEF Exit
  <2>2. ~spinning[m]
    BY <1>5 DEF Exit
  <2>3. \A m2 \in M, y \in P : Unused(m2, y)' => Unused(m2, y)
    BY <1>5, <2>2 DEF Exit
  <2> HIDE DEF HasWork, Unused
  <2>4. QED
    BY <2>1, <2>3
<1>6. QED
  BY <1>1, <1>2, <1>3, <1>4, <1>5 DEF TaskStep

LEMMA WakeEmpty ==
  ASSUME Typed, Views, Apart, Empty, NEW m \in M, WakeStep(m) PROVE Empty'
<1> USE SchedAssumption DEF Typed, Views, View, Apart, Holds, Empty, Unused, HasWork, Goto, WithP,
                            Carrying, MaySpin, Workless, taskVars, idleVars, ownVars, spinVars,
                            ended
<1>1. CASE WakeIdle(m)
  BY <1>1 DEF WakeIdle
<1>2. CASE WakeCas(m)
  BY <1>2 DEF WakeCas
<1>3. ASSUME NEW x \in P, StartM(m, x) PROVE Empty'
  BY <1>3 DEF StartM, IdleGet
<1>4. CASE StartMReserve(m)
  BY <1>4 DEF StartMReserve, IdleCount
<1>5. CASE NoIdleP(m)
  BY <1>5 DEF NoIdleP
<1>6. CASE GiveUp(m)
  BY <1>6 DEF GiveUp
<1>7. ASSUME NEW new \in M, NewM(m, new) PROVE Empty'
  <2>1. pidle' = pidle /\ \A y \in P : HasWork(y)' <=> HasWork(y)
    BY <1>7 DEF NewM
  <2>2. new # m /\ p' = p /\ spinning' = spinning
    BY <1>7 DEF NewM
  <2>3. \A y \in P : ~Unused(m, y)' /\ (Unused(new, y)' => Unused(m, y))
    BY <1>7, <2>2 DEF NewM
  <2>4. \A m2 \in M : m2 # m /\ m2 # new => \A y \in P : Unused(m2, y)' => Unused(m2, y)
    BY <1>7, <2>2 DEF NewM
  <2> HIDE DEF HasWork, Unused
  <2>5. ASSUME NEW m2 \in M, NEW y \in P, Unused(m2, y)' PROVE \E m3 \in M : Unused(m3, y)
    <3>1. CASE m2 = m
      BY <2>3, <2>5, <3>1
    <3>2. CASE m2 = new
      BY <2>3, <2>5, <3>2
    <3>3. CASE m2 # m /\ m2 # new
      BY <2>4, <2>5, <3>3
    <3>4. QED
      BY <3>1, <3>2, <3>3
  <2>6. \A y \in pidle' : ~HasWork(y)'
    BY <2>1
  <2>7. \A m2 \in M, y \in P : Unused(m2, y)' => ~HasWork(y)'
    BY <2>1, <2>5
  <2>8. QED
    BY <2>6, <2>7
<1>8. QED
  BY <1>1, <1>2, <1>3, <1>4, <1>5, <1>6, <1>7 DEF WakeStep

LEMMA FindEmpty ==
  ASSUME Typed, Views, Apart, Empty, NEW m \in M, FindStep(m) PROVE Empty'
<1> USE SchedAssumption DEF Typed, Views, View, Apart, Holds, Empty, Unused, HasWork, Goto, WithP,
                            Carrying, MaySpin, Workless, taskVars, idleVars, ownVars, spinVars,
                            ended
<1>1. CASE Schedule(m)
  BY <1>1 DEF Schedule, GetFrom
<1>2. CASE FindLocal(m)
  BY <1>2 DEF FindLocal, GetFrom
<1>3. CASE Start(m)
  BY <1>3 DEF Start, Acquire
<1>4. CASE LoadSpinning(m)
  BY <1>4 DEF LoadSpinning
<1>5. CASE CheckBusy(m)
  BY <1>5 DEF CheckBusy
<1>6. CASE Spin(m)
  BY <1>6 DEF Spin
<1>7. CASE StealNothing(m)
  BY <1>7 DEF StealNothing
<1>8. CASE StealDone(m)
  BY <1>8 DEF StealDone
<1>9. CASE ResetSpinning(m)
  BY <1>9 DEF ResetSpinning
<1>10. ASSUME NEW v \in P, Steal(m, v) PROVE Empty'
  BY <1>10, SMTT(30) DEF Steal
<1>11. ASSUME NEW v \in P, StealNext(m, v) PROVE Empty'
  BY <1>11, SMTT(30) DEF StealNext
<1>12. QED
  BY <1>1, <1>2, <1>3, <1>4, <1>5, <1>6, <1>7, <1>8, <1>9, <1>10, <1>11 DEF FindStep

LEMMA StopEmpty ==
  ASSUME Typed, Views, Apart, Empty, NEW m \in M, StopStep(m) PROVE Empty'
<1> USE SchedAssumption DEF Typed, Views, View, Apart, Holds, Empty, Unused, HasWork, Goto, WithP,
                            Carrying, MaySpin, Workless, taskVars, idleVars, ownVars, spinVars,
                            ended
<1>1. CASE Stop(m)
  BY <1>1 DEF Stop
<1>2. CASE StopCount(m)
  BY <1>2 DEF StopCount, IdleCount
<1>3. CASE Unspin(m)
  BY <1>3 DEF Unspin
<1>4. ASSUME NEW x \in P, Recheck(m, x) PROVE Empty'
  BY <1>4, SMTT(30) DEF Recheck
<1>5. ASSUME NEW x \in P, Reget(m, x) PROVE Empty'
  BY <1>5 DEF Reget, IdleGet
<1>6. CASE RegetNone(m)
  BY <1>6 DEF RegetNone
<1>7. CASE RegetCount(m)
  BY <1>7 DEF RegetCount, IdleCount, Acquire
<1>8. CASE Respin(m)
  BY <1>8 DEF Respin
<1>9. CASE Abort(m)
  BY <1>9 DEF Abort
<1>10. QED
  BY <1>1, <1>2, <1>3, <1>4, <1>5, <1>6, <1>7, <1>8, <1>9 DEF StopStep

-----------------------------------------------------------------------------
(* The back-links and the counters                                          *)

\* p_acquire and p_release keep M.p and P.m inverse to each other, in a build
\* that has p_release.
BackLinks ==
  Debug => /\ \A m \in M, x \in P : p[m] = x <=> owner[x] = m
           /\ \A m \in M : pc[m] \notin WithP => p[m] = NULL

\* Between the two halves of s_pidleget and s_pidleput the count is behind.
Pending == IF lock = NULL THEN 0 ELSE IF pc[lock] = "idleput" THEN -1 ELSE 1

IdleCounted == /\ npidle = Cardinality(pidle) + Pending
               /\ \A m \in M : pc[m] = "idleput" => pidle # {}

\* Steps that leave one of them alone.
LinksStay == ownVars' = ownVars /\ \A m \in M : pc'[m] \in WithP <=> pc[m] \in WithP

IdleStay ==
  /\ pidle' = pidle /\ npidle' = npidle /\ lock' = lock
  /\ \A m \in M : pc[m] \in Locking \/ pc'[m] \in Locking => pc'[m] = pc[m]

SpinStay ==
  /\ nmspinning' = nmspinning
  /\ \A m \in M : /\ spinning'[m] \/ Starting(m)' <=> spinning[m] \/ Starting(m)
                  /\ Starting(m)' => Starting(m)

LEMMA TaskLinksStay ==
  ASSUME Typed, Views, NEW m \in M, TaskStep(m) PROVE LinksStay
<1> USE SchedAssumption DEF LinksStay, Typed, Views, View, Goto, WithP, Carrying, Locking, Spins, MaySpin,
                            Starting, taskVars, idleVars, ownVars, spinVars, ended
<1>1. ASSUME NEW t \in T, Spawn(m, t) PROVE LinksStay
  BY <1>1 DEF Spawn
<1>2. CASE PutNext(m)
  BY <1>2 DEF PutNext
<1>3. CASE Kick(m)
  BY <1>3 DEF Kick
<1>4. CASE Yield(m)
  BY <1>4 DEF Yield
<1>5. CASE Exit(m)
  BY <1>5 DEF Exit
<1>6. QED
  BY <1>1, <1>2, <1>3, <1>4, <1>5 DEF TaskStep

LEMMA WakeLinksStay ==
  ASSUME Typed, Views, NEW m \in M, WakeStep(m) PROVE LinksStay
<1> USE SchedAssumption DEF LinksStay, Typed, Views, View, Goto, WithP, Carrying, Locking, Spins, MaySpin,
                            Starting, taskVars, idleVars, ownVars, spinVars, ended
<1>1. CASE WakeIdle(m)
  BY <1>1 DEF WakeIdle
<1>2. CASE WakeCas(m)
  BY <1>2 DEF WakeCas
<1>3. ASSUME NEW x \in P, StartM(m, x) PROVE LinksStay
  BY <1>3 DEF StartM, IdleGet
<1>4. CASE StartMReserve(m)
  BY <1>4 DEF StartMReserve, IdleCount
<1>5. CASE NoIdleP(m)
  BY <1>5 DEF NoIdleP
<1>6. CASE GiveUp(m)
  BY <1>6 DEF GiveUp
<1>7. ASSUME NEW new \in M, NewM(m, new) PROVE LinksStay
  BY <1>7 DEF NewM
<1>8. QED
  BY <1>1, <1>2, <1>3, <1>4, <1>5, <1>6, <1>7 DEF WakeStep

LEMMA FindLinksStay ==
  ASSUME Typed, Views, NEW m \in M, FindStep(m),
         ~Start(m)
  PROVE  LinksStay
<1> USE SchedAssumption DEF LinksStay, Typed, Views, View, Goto, WithP, Carrying, Locking, Spins, MaySpin,
                            Starting, taskVars, idleVars, ownVars, spinVars, ended
<1>1. CASE Schedule(m)
  BY <1>1 DEF Schedule, GetFrom
<1>2. CASE FindLocal(m)
  BY <1>2 DEF FindLocal, GetFrom
<1>3. CASE LoadSpinning(m)
  BY <1>3 DEF LoadSpinning
<1>4. CASE CheckBusy(m)
  BY <1>4 DEF CheckBusy
<1>5. CASE Spin(m)
  BY <1>5 DEF Spin
<1>6. CASE StealNothing(m)
  BY <1>6 DEF StealNothing
<1>7. CASE StealDone(m)
  BY <1>7 DEF StealDone
<1>8. CASE ResetSpinning(m)
  BY <1>8 DEF ResetSpinning
<1>9. ASSUME NEW v \in P, Steal(m, v) PROVE LinksStay
  BY <1>9 DEF Steal
<1>10. ASSUME NEW v \in P, StealNext(m, v) PROVE LinksStay
  BY <1>10 DEF StealNext
<1>11. QED
  BY <1>1, <1>2, <1>3, <1>4, <1>5, <1>6, <1>7, <1>8, <1>9, <1>10 DEF FindStep

LEMMA StopLinksStay ==
  ASSUME Typed, Views, NEW m \in M, StopStep(m),
         ~Stop(m), ~RegetCount(m)
  PROVE  LinksStay
<1> USE SchedAssumption DEF LinksStay, Typed, Views, View, Goto, WithP, Carrying, Locking, Spins, MaySpin,
                            Starting, taskVars, idleVars, ownVars, spinVars, ended
<1>1. CASE StopCount(m)
  BY <1>1 DEF StopCount, IdleCount
<1>2. CASE Unspin(m)
  BY <1>2 DEF Unspin
<1>3. ASSUME NEW x \in P, Recheck(m, x) PROVE LinksStay
  BY <1>3 DEF Recheck
<1>4. ASSUME NEW x \in P, Reget(m, x) PROVE LinksStay
  BY <1>4 DEF Reget, IdleGet
<1>5. CASE RegetNone(m)
  BY <1>5 DEF RegetNone
<1>6. CASE Respin(m)
  BY <1>6 DEF Respin
<1>7. CASE Abort(m)
  BY <1>7 DEF Abort
<1>8. QED
  BY <1>1, <1>2, <1>3, <1>4, <1>5, <1>6, <1>7 DEF StopStep

LEMMA TaskIdleStay ==
  ASSUME Typed, Views, NEW m \in M, TaskStep(m) PROVE IdleStay
<1> USE SchedAssumption DEF IdleStay, Typed, Views, View, Goto, WithP, Carrying, Locking, Spins, MaySpin,
                            Starting, taskVars, idleVars, ownVars, spinVars, ended
<1>1. ASSUME NEW t \in T, Spawn(m, t) PROVE IdleStay
  BY <1>1 DEF Spawn
<1>2. CASE PutNext(m)
  BY <1>2 DEF PutNext
<1>3. CASE Kick(m)
  BY <1>3 DEF Kick
<1>4. CASE Yield(m)
  BY <1>4 DEF Yield
<1>5. CASE Exit(m)
  BY <1>5 DEF Exit
<1>6. QED
  BY <1>1, <1>2, <1>3, <1>4, <1>5 DEF TaskStep

LEMMA WakeIdleStay ==
  ASSUME Typed, Views, NEW m \in M, WakeStep(m),
         ~(\E x \in P : StartM(m, x)), ~StartMReserve(m)
  PROVE  IdleStay
<1> USE SchedAssumption DEF IdleStay, Typed, Views, View, Goto, WithP, Carrying, Locking, Spins, MaySpin,
                            Starting, taskVars, idleVars, ownVars, spinVars, ended
<1>1. CASE WakeIdle(m)
  BY <1>1 DEF WakeIdle
<1>2. CASE WakeCas(m)
  BY <1>2 DEF WakeCas
<1>3. CASE NoIdleP(m)
  BY <1>3 DEF NoIdleP
<1>4. CASE GiveUp(m)
  BY <1>4 DEF GiveUp
<1>5. ASSUME NEW new \in M, NewM(m, new) PROVE IdleStay
  BY <1>5 DEF NewM
<1>6. QED
  BY <1>1, <1>2, <1>3, <1>4, <1>5 DEF WakeStep

LEMMA FindIdleStay ==
  ASSUME Typed, Views, NEW m \in M, FindStep(m) PROVE IdleStay
<1> USE SchedAssumption DEF IdleStay, Typed, Views, View, Goto, WithP, Carrying, Locking, Spins, MaySpin,
                            Starting, taskVars, idleVars, ownVars, spinVars, ended
<1>1. CASE Schedule(m)
  BY <1>1 DEF Schedule, GetFrom
<1>2. CASE FindLocal(m)
  BY <1>2 DEF FindLocal, GetFrom
<1>3. CASE Start(m)
  BY <1>3 DEF Start, Acquire
<1>4. CASE LoadSpinning(m)
  BY <1>4 DEF LoadSpinning
<1>5. CASE CheckBusy(m)
  BY <1>5 DEF CheckBusy
<1>6. CASE Spin(m)
  BY <1>6 DEF Spin
<1>7. CASE StealNothing(m)
  BY <1>7 DEF StealNothing
<1>8. CASE StealDone(m)
  BY <1>8 DEF StealDone
<1>9. CASE ResetSpinning(m)
  BY <1>9 DEF ResetSpinning
<1>10. ASSUME NEW v \in P, Steal(m, v) PROVE IdleStay
  BY <1>10 DEF Steal
<1>11. ASSUME NEW v \in P, StealNext(m, v) PROVE IdleStay
  BY <1>11 DEF StealNext
<1>12. QED
  BY <1>1, <1>2, <1>3, <1>4, <1>5, <1>6, <1>7, <1>8, <1>9, <1>10, <1>11 DEF FindStep

LEMMA StopIdleStay ==
  ASSUME Typed, Views, NEW m \in M, StopStep(m),
         ~Stop(m), ~StopCount(m), ~(\E x \in P : Reget(m, x)), ~RegetCount(m)
  PROVE  IdleStay
<1> USE SchedAssumption DEF IdleStay, Typed, Views, View, Goto, WithP, Carrying, Locking, Spins, MaySpin,
                            Starting, taskVars, idleVars, ownVars, spinVars, ended
<1>1. CASE Unspin(m)
  BY <1>1 DEF Unspin
<1>2. ASSUME NEW x \in P, Recheck(m, x) PROVE IdleStay
  BY <1>2 DEF Recheck
<1>3. CASE RegetNone(m)
  BY <1>3 DEF RegetNone
<1>4. CASE Respin(m)
  BY <1>4 DEF Respin
<1>5. CASE Abort(m)
  BY <1>5 DEF Abort
<1>6. QED
  BY <1>1, <1>2, <1>3, <1>4, <1>5 DEF StopStep

LEMMA TaskSpinStay ==
  ASSUME Typed, Views, NEW m \in M, TaskStep(m) PROVE SpinStay
<1> USE SchedAssumption DEF SpinStay, Typed, Views, View, Goto, WithP, Carrying, Locking, Spins, MaySpin,
                            Starting, taskVars, idleVars, ownVars, spinVars, ended
<1>1. ASSUME NEW t \in T, Spawn(m, t) PROVE SpinStay
  BY <1>1 DEF Spawn
<1>2. CASE PutNext(m)
  BY <1>2 DEF PutNext
<1>3. CASE Kick(m)
  BY <1>3 DEF Kick
<1>4. CASE Yield(m)
  BY <1>4 DEF Yield
<1>5. CASE Exit(m)
  BY <1>5 DEF Exit
<1>6. QED
  BY <1>1, <1>2, <1>3, <1>4, <1>5 DEF TaskStep

LEMMA WakeSpinStay ==
  ASSUME Typed, Views, NEW m \in M, WakeStep(m),
         ~WakeCas(m), ~GiveUp(m), ~(\E new \in M : NewM(m, new))
  PROVE  SpinStay
<1> USE SchedAssumption DEF SpinStay, Typed, Views, View, Goto, WithP, Carrying, Locking, Spins, MaySpin,
                            Starting, taskVars, idleVars, ownVars, spinVars, ended
<1>1. CASE WakeIdle(m)
  BY <1>1 DEF WakeIdle
<1>2. ASSUME NEW x \in P, StartM(m, x) PROVE SpinStay
  BY <1>2 DEF StartM, IdleGet
<1>3. CASE StartMReserve(m)
  BY <1>3 DEF StartMReserve, IdleCount
<1>4. CASE NoIdleP(m)
  BY <1>4 DEF NoIdleP
<1>5. QED
  BY <1>1, <1>2, <1>3, <1>4 DEF WakeStep

LEMMA FindSpinStay ==
  ASSUME Typed, Views, NEW m \in M, FindStep(m),
         ~Spin(m), ~ResetSpinning(m)
  PROVE  SpinStay
<1> USE SchedAssumption DEF SpinStay, Typed, Views, View, Goto, WithP, Carrying, Locking, Spins, MaySpin,
                            Starting, taskVars, idleVars, ownVars, spinVars, ended
<1>1. CASE Schedule(m)
  BY <1>1 DEF Schedule, GetFrom
<1>2. CASE FindLocal(m)
  BY <1>2 DEF FindLocal, GetFrom
<1>3. CASE Start(m)
  BY <1>3 DEF Start, Acquire
<1>4. CASE LoadSpinning(m)
  BY <1>4 DEF LoadSpinning
<1>5. CASE CheckBusy(m)
  BY <1>5 DEF CheckBusy
<1>6. CASE StealNothing(m)
  BY <1>6 DEF StealNothing
<1>7. CASE StealDone(m)
  BY <1>7 DEF StealDone
<1>8. ASSUME NEW v \in P, Steal(m, v) PROVE SpinStay
  BY <1>8 DEF Steal
<1>9. ASSUME NEW v \in P, StealNext(m, v) PROVE SpinStay
  BY <1>9 DEF StealNext
<1>10. QED
  BY <1>1, <1>2, <1>3, <1>4, <1>5, <1>6, <1>7, <1>8, <1>9 DEF FindStep

LEMMA StopSpinStay ==
  ASSUME Typed, Views, NEW m \in M, StopStep(m),
         ~Unspin(m), ~Respin(m)
  PROVE  SpinStay
<1> USE SchedAssumption DEF SpinStay, Typed, Views, View, Goto, WithP, Carrying, Locking, Spins, MaySpin,
                            Starting, taskVars, idleVars, ownVars, spinVars, ended
<1>1. CASE Stop(m)
  BY <1>1 DEF Stop
<1>2. CASE StopCount(m)
  BY <1>2 DEF StopCount, IdleCount
<1>3. ASSUME NEW x \in P, Recheck(m, x) PROVE SpinStay
  BY <1>3 DEF Recheck
<1>4. ASSUME NEW x \in P, Reget(m, x) PROVE SpinStay
  BY <1>4 DEF Reget, IdleGet
<1>5. CASE RegetNone(m)
  BY <1>5 DEF RegetNone
<1>6. CASE RegetCount(m)
  BY <1>6 DEF RegetCount, IdleCount, Acquire
<1>7. CASE Abort(m)
  BY <1>7 DEF Abort
<1>8. QED
  BY <1>1, <1>2, <1>3, <1>4, <1>5, <1>6, <1>7 DEF StopStep

LEMMA BackLinksStay == ASSUME BackLinks, LinksStay PROVE BackLinks'
BY DEF BackLinks, LinksStay, ownVars

\* An M takes the P it carries.
LEMMA AcquireLinks ==
  ASSUME Typed, Views, Apart, BackLinks, NEW m \in M, Acquire(m), NEW to \in WithP,
         pc[m] \in {"start", "reidle"}, pc' = [pc EXCEPT ![m] = to]
  PROVE  BackLinks'
<1> SUFFICES ASSUME Debug PROVE BackLinks'
  BY DEF BackLinks
<1>1. PICK z \in P : z = hand[m]
  BY DEF Views, View, Carrying
<1>2. pc[m] \notin WithP /\ Holds(m, z)
  BY <1>1 DEF WithP, Carrying, Holds
<1>3. p' = [p EXCEPT ![m] = z] /\ owner' = [owner EXCEPT ![z] = m]
  BY <1>1 DEF Acquire
<1>4. \A m2 \in M : p[m2] = z => FALSE
  <2> SUFFICES ASSUME NEW m2 \in M, p[m2] = z PROVE FALSE
    OBVIOUS
  <2>1. pc[m2] \in WithP
    BY SchedAssumption DEF BackLinks
  <2>2. Holds(m2, z)
    BY <2>1 DEF Holds
  <2>3. QED
    BY <1>2, <2>1, <2>2 DEF Apart
<1>5. p[m] = NULL
  BY <1>2 DEF BackLinks
<1>6. \A m2 \in M, x \in P : p'[m2] = x <=> owner'[x] = m2
  <2> TAKE m2 \in M, x \in P
  <2>1. p[m2] = x <=> owner[x] = m2
    BY DEF BackLinks
  <2>2. x = z => p[m2] # x
    BY <1>4
  <2>3. m2 = m => p[m2] # x
    BY <1>5, SchedAssumption
  <2>4. QED
    BY <1>3, <2>1, <2>2, <2>3 DEF Typed
<1>7. \A m2 \in M : pc'[m2] \notin WithP => p'[m2] = NULL
  BY <1>3 DEF Typed, BackLinks
<1>8. QED
  BY <1>6, <1>7 DEF BackLinks

LEMMA StopLinks ==
  ASSUME Typed, Views, BackLinks, NEW m \in M, Stop(m) PROVE BackLinks'
<1> SUFFICES ASSUME Debug PROVE BackLinks'
  BY DEF BackLinks
<1>1. PICK z \in P : z = p[m]
  BY DEF Views, View, Stop, Goto, WithP
<1>2. p' = [p EXCEPT ![m] = NULL] /\ owner' = [owner EXCEPT ![z] = NULL]
  BY <1>1, Zenon DEF Stop
<1>3. pc' = [pc EXCEPT ![m] = "idleput"]
  BY DEF Stop, Goto
<1>4. \A m2 \in M, x \in P : p'[m2] = x <=> owner'[x] = m2
  <2> TAKE m2 \in M, x \in P
  <2>1. (p[m2] = x <=> owner[x] = m2) /\ (p[m] = x <=> owner[x] = m)
    BY DEF BackLinks
  <2>2. QED
    BY <1>1, <1>2, <2>1, SchedAssumption DEF Typed
<1>5. \A m2 \in M : pc'[m2] \notin WithP => p'[m2] = NULL
  BY <1>2, <1>3 DEF Typed, BackLinks
<1>6. QED
  BY <1>4, <1>5 DEF BackLinks

LEMMA LinksNext ==
  ASSUME Typed, Views, Apart, BackLinks, [Next]_vars PROVE BackLinks'
<1>1. ASSUME NEW m \in M, TaskStep(m) \/ WakeStep(m) \/ FindStep(m) \/ StopStep(m)
      PROVE  BackLinks'
  <2>1. CASE Start(m)
    BY <2>1, AcquireLinks DEF Start, Goto, WithP
  <2>2. CASE RegetCount(m)
    <3>1. \E to \in WithP : pc' = [pc EXCEPT ![m] = to]
      BY <2>2 DEF RegetCount, Goto, WithP
    <3>2. QED
      BY <2>2, <3>1, AcquireLinks DEF RegetCount, Goto
  <2>3. CASE Stop(m)
    BY <2>3, StopLinks
  <2>4. CASE ~Start(m) /\ ~RegetCount(m) /\ ~Stop(m)
    BY <1>1, <2>4, TaskLinksStay, WakeLinksStay, FindLinksStay,
       StopLinksStay, BackLinksStay
  <2>5. QED
    BY <2>1, <2>2, <2>3, <2>4
<1>2. CASE UNCHANGED vars
  BY <1>2, BackLinksStay DEF vars, ownVars, LinksStay
<1>3. QED
  BY <1>1, <1>2 DEF Next, Halted

LEMMA IdleFinite == ASSUME Typed PROVE IsFiniteSet(pidle) /\ Cardinality(pidle) \in Nat
BY SchedAssumption, FS_Subset, FS_CardinalityType DEF Typed

LEMMA IdleCountedStay ==
  ASSUME Typed, Views, IdleCounted, IdleStay PROVE IdleCounted'
<1>1. lock # NULL => lock \in M /\ pc[lock] \in Locking
  BY DEF Typed, Views, View
<1>2. Pending' = Pending
  BY <1>1 DEF Pending, IdleStay
<1>3. \A m \in M : pc'[m] = "idleput" => pc[m] = "idleput"
  BY DEF IdleStay, Locking
<1>4. QED
  BY <1>2, <1>3 DEF IdleCounted, IdleStay

\* s_pidleget: the list first ...
LEMMA IdleGetCounted ==
  ASSUME Typed, Views, IdleCounted, NEW m \in M, NEW x \in P, IdleGet(m, x),
         NEW to \in {"idleget", "reidle"}, pc' = [pc EXCEPT ![m] = to]
  PROVE  IdleCounted'
<1>1. lock = NULL /\ lock' = m /\ pidle' = pidle \ {x} /\ x \in pidle /\ npidle' = npidle
  BY DEF IdleGet
<1>2. Pending = 0 /\ Pending' = 1
  BY <1>1, SchedAssumption DEF Pending, Typed
<1>3. Cardinality(pidle') = Cardinality(pidle) - 1
  BY <1>1, IdleFinite, FS_RemoveElement
<1>4. \A m2 \in M : pc'[m2] # "idleput"
  BY <1>1, SchedAssumption DEF Typed, Views, View, Locking
<1>5. QED
  BY <1>1, <1>2, <1>3, <1>4, IdleFinite DEF IdleCounted

\* ... and then the count.
LEMMA IdleCountCounted ==
  ASSUME Typed, Views, IdleCounted, NEW m \in M, NEW to \in Label \ Locking,
         pc' = [pc EXCEPT ![m] = to],
         \/ pc[m] \in {"idleget", "reidle"} /\ IdleCount(m, -1)
         \/ pc[m] = "idleput" /\ IdleCount(m, 1)
  PROVE  IdleCounted'
<1>1. lock = m
  BY DEF Views, View, Locking
<1>2. lock' = NULL /\ pidle' = pidle /\ npidle' = npidle - Pending /\ Pending \in Int
  <2>1. m # NULL
    BY SchedAssumption
  <2>2. CASE pc[m] = "idleput"
    BY <1>1, <2>1, <2>2 DEF IdleCount, Pending, IdleCounted, Typed
  <2>3. CASE pc[m] \in {"idleget", "reidle"}
    BY <1>1, <2>1, <2>3 DEF IdleCount, Pending, IdleCounted, Typed
  <2>4. QED
    BY <2>2, <2>3
<1>3. Pending' = 0
  BY <1>2 DEF Pending
<1>4. \A m2 \in M : pc'[m2] # "idleput"
  BY <1>1 DEF Typed, Views, View, Locking
<1>5. QED
  BY <1>2, <1>3, <1>4, IdleFinite DEF IdleCounted

\* s_pidleput adds to the list first, too.
LEMMA StopCounted ==
  ASSUME Typed, Views, Apart, IdleCounted, NEW m \in M, Stop(m) PROVE IdleCounted'
<1>1. /\ lock = NULL /\ lock' = m /\ pidle' = pidle \cup {p[m]} /\ npidle' = npidle
      /\ pc[m] = "stop" /\ pc' = [pc EXCEPT ![m] = "idleput"]
  BY DEF Stop, Goto
<1>2. p[m] \in P /\ Holds(m, p[m])
  BY <1>1 DEF Views, View, WithP, Holds
<1>3. p[m] \notin pidle
  BY <1>2 DEF Apart
<1>4. Cardinality(pidle') = Cardinality(pidle) + 1
  BY <1>1, <1>3, IdleFinite, FS_AddElement
<1>5. Pending = 0 /\ Pending' = -1
  BY <1>1, SchedAssumption DEF Pending, Typed
<1>6. pidle' # {}
  BY <1>1
<1>7. QED
  BY <1>1, <1>4, <1>5, <1>6, IdleFinite DEF IdleCounted

LEMMA IdleNext ==
  ASSUME Typed, Views, Apart, IdleCounted, [Next]_vars PROVE IdleCounted'
<1>1. ASSUME NEW m \in M, TaskStep(m) \/ WakeStep(m) \/ FindStep(m) \/ StopStep(m)
      PROVE  IdleCounted'
  <2>1. ASSUME NEW x \in P, StartM(m, x) PROVE IdleCounted'
    BY <2>1, IdleGetCounted DEF StartM, Goto
  <2>2. ASSUME NEW x \in P, Reget(m, x) PROVE IdleCounted'
    BY <2>2, IdleGetCounted DEF Reget, Goto
  <2>3. CASE StartMReserve(m)
    BY <2>3, IdleCountCounted DEF StartMReserve, Goto, Label, Locking
  <2>4. CASE RegetCount(m)
    <3>1. PICK to \in {"respin", "find"} : pc' = [pc EXCEPT ![m] = to]
      BY <2>4 DEF RegetCount, Goto
    <3>2. to \in Label \ Locking
      BY DEF Label, Locking
    <3>3. QED
      BY <2>4, <3>1, <3>2, IdleCountCounted DEF RegetCount, Goto
  <2>5. CASE StopCount(m)
    BY <2>5, IdleCountCounted DEF StopCount, Goto, Label, Locking
  <2>6. CASE Stop(m)
    BY <2>6, StopCounted
  <2>7. CASE /\ ~(\E x \in P : StartM(m, x)) /\ ~(\E x \in P : Reget(m, x))
             /\ ~StartMReserve(m) /\ ~RegetCount(m) /\ ~StopCount(m) /\ ~Stop(m)
    BY <1>1, <2>7, TaskIdleStay, WakeIdleStay, FindIdleStay, StopIdleStay, IdleCountedStay
  <2>8. QED
    BY <2>1, <2>2, <2>3, <2>4, <2>5, <2>6, <2>7
<1>2. CASE UNCHANGED vars
  BY <1>2, IdleCountedStay DEF vars, idleVars, IdleStay
<1>3. QED
  BY <1>1, <1>2 DEF Next, Halted

\* The counter of spinning Ms.
LEMMA SpinCountedStay == ASSUME SpinningCounted, OneStart, SpinStay PROVE (SpinningCounted /\ OneStart)'
<1>1. Counted' = Counted
  BY DEF SpinStay, Counted
<1>2. OneStart'
  BY DEF SpinStay, OneStart
<1>3. QED
  BY <1>1, <1>2 DEF SpinStay, SpinningCounted, Counted

LEMMA SpinPlus ==
  ASSUME SpinningCounted, NEW m \in M, m \notin Counted, Counted' = Counted \cup {m},
         nmspinning' = nmspinning + 1
  PROVE  SpinningCounted'
<1>1. Cardinality(Counted') = Cardinality(Counted) + 1
  BY CountedFinite, FS_AddElement
<1>2. QED
  BY <1>1 DEF SpinningCounted, Counted

LEMMA SpinMinus ==
  ASSUME SpinningCounted, NEW m \in M, m \in Counted, Counted' = Counted \ {m},
         nmspinning' = nmspinning - 1
  PROVE  SpinningCounted'
<1>1. Cardinality(Counted') = Cardinality(Counted) - 1
  BY CountedFinite, FS_RemoveElement
<1>2. QED
  BY <1>1 DEF SpinningCounted, Counted

LEMMA WakeCasSpin ==
  ASSUME Typed, Views, SpinningCounted, OneStart, NEW m \in M, WakeCas(m)
  PROVE  (SpinningCounted /\ OneStart)'
<1>1. spinning' = spinning
  BY DEF WakeCas
<1>2. CASE nmspinning = 0
  <2>1. Counted = {}
    BY <1>2, CountedFinite, FS_EmptySet DEF SpinningCounted, Counted
  <2>2. pc' = [pc EXCEPT ![m] = "startm"] /\ nmspinning' = nmspinning + 1
    BY <1>2 DEF WakeCas, Goto
  <2>3. \A m2 \in M : ~spinning[m2] /\ ~Starting(m2)
    BY <2>1 DEF Counted
  <2>4. \A m2 \in M : Starting(m2)' <=> m2 = m
    BY <2>2, <2>3 DEF Starting, Typed
  <2>5. Counted' = Counted \cup {m}
    BY <1>1, <2>1, <2>3, <2>4 DEF Counted
  <2>6. OneStart'
    BY <2>4 DEF OneStart
  <2>7. QED
    BY <2>1, <2>2, <2>5, <2>6, SpinPlus
<1>3. CASE nmspinning # 0
  <2>1. pc' = [pc EXCEPT ![m] = "run"] /\ nmspinning' = nmspinning /\ pc[m] = "wakecas"
    BY <1>3 DEF WakeCas, Goto
  <2>2. SpinStay
    BY <1>1, <2>1 DEF SpinStay, Starting, Typed
  <2>3. QED
    BY <2>2, SpinCountedStay
<1>4. QED
  BY <1>2, <1>3

\* The M being started takes the place of the one that starts it.
LEMMA NewMSpin ==
  ASSUME Typed, Views, SpinningCounted, OneStart, NEW m \in M, NEW new \in M, NewM(m, new)
  PROVE  (SpinningCounted /\ OneStart)'
<1>1. /\ pc[m] = "newm" /\ pc[new] = "none" /\ new # m /\ spinning' = spinning
      /\ nmspinning' = nmspinning /\ pc' = [pc EXCEPT ![m] = "run", ![new] = "start"]
  BY DEF NewM, spinVars
<1>2. ~spinning[m] /\ ~spinning[new]
  BY <1>1 DEF Views, View, MaySpin
<1>3. Starting(m) /\ ~Starting(new) /\ ~Starting(m)' /\ Starting(new)'
  BY <1>1 DEF Starting, Typed
<1>4. \A m2 \in M : m2 # m /\ m2 # new => (Starting(m2)' <=> Starting(m2))
  BY <1>1 DEF Starting, Typed
<1>5. Counted' = (Counted \ {m}) \cup {new}
  BY <1>1, <1>2, <1>3, <1>4 DEF Counted
<1>6. m \in Counted /\ new \notin Counted \ {m}
  BY <1>2, <1>3 DEF Counted
<1>7. /\ Cardinality(Counted \ {m}) = Cardinality(Counted) - 1
      /\ IsFiniteSet(Counted \ {m})
  BY <1>6, CountedFinite, FS_RemoveElement
<1>8. Cardinality(Counted') = Cardinality(Counted)
  <2>1. Cardinality(Counted') = Cardinality(Counted \ {m}) + 1
    BY <1>5, <1>6, <1>7, FS_AddElement
  <2>2. QED
    BY <1>7, <2>1, CountedFinite
<1>9. \A m2 \in M : Starting(m2) => m2 = m
  BY <1>3 DEF OneStart
<1>10. \A m2 \in M : Starting(m2)' => m2 = new
  BY <1>3, <1>4, <1>9
<1>11. OneStart'
  BY <1>10 DEF OneStart
<1>12. QED
  BY <1>1, <1>8, <1>11 DEF SpinningCounted, Counted

\* An M is marked or unmarked, and counted.
LEMMA MarkSpin ==
  ASSUME Typed, Views, SpinningCounted, OneStart, NEW m \in M,
         Spin(m) \/ Respin(m) \/ ResetSpinning(m) \/ GiveUp(m) \/ Unspin(m)
  PROVE  (SpinningCounted /\ OneStart)'
<1>1. CASE Spin(m) \/ Respin(m)
  <2>1. /\ m \notin Counted /\ nmspinning' = nmspinning + 1
        /\ \A m2 \in M : Starting(m2)' => Starting(m2)
        /\ \A m2 \in M : m2 # m =>
             (spinning'[m2] \/ Starting(m2)' <=> spinning[m2] \/ Starting(m2))
        /\ spinning'[m]
    <3> USE DEF Counted, Starting, Typed, Views, View, Goto, MaySpin
    <3>1. CASE Spin(m)
      BY <3>1 DEF Spin
    <3>2. CASE Respin(m)
      BY <3>2 DEF Respin
    <3>3. QED
      BY <1>1, <3>1, <3>2
  <2>2. Counted' = Counted \cup {m}
    BY <2>1 DEF Counted
  <2>3. OneStart'
    BY <2>1 DEF OneStart
  <2>4. QED
    BY <2>1, <2>2, <2>3, SpinPlus
<1>2. CASE ResetSpinning(m) \/ GiveUp(m) \/ (Unspin(m) /\ spinning[m])
  <2>1. /\ m \in Counted /\ nmspinning' = nmspinning - 1
        /\ \A m2 \in M : Starting(m2)' => Starting(m2)
        /\ \A m2 \in M : m2 # m =>
             (spinning'[m2] \/ Starting(m2)' <=> spinning[m2] \/ Starting(m2))
        /\ ~spinning'[m] /\ ~Starting(m)'
    <3> USE DEF Counted, Starting, Typed, Views, View, Goto, Spins, MaySpin
    <3>1. CASE ResetSpinning(m)
      BY <3>1 DEF ResetSpinning
    <3>2. CASE GiveUp(m)
      BY <3>2 DEF GiveUp
    <3>3. CASE Unspin(m) /\ spinning[m]
      BY <3>3 DEF Unspin
    <3>4. QED
      BY <1>2, <3>1, <3>2, <3>3
  <2>2. Counted' = Counted \ {m}
    BY <2>1 DEF Counted
  <2>3. OneStart'
    BY <2>1 DEF OneStart
  <2>4. QED
    BY <2>1, <2>2, <2>3, SpinMinus
<1>3. CASE Unspin(m) /\ ~spinning[m]
  <2>1. SpinStay
    BY <1>3 DEF Unspin, SpinStay, Starting, Typed, Goto
  <2>2. QED
    BY <2>1, SpinCountedStay
<1>4. QED
  BY <1>1, <1>2, <1>3

LEMMA SpinNext ==
  ASSUME Typed, Views, SpinningCounted, OneStart, [Next]_vars
  PROVE  (SpinningCounted /\ OneStart)'
<1>1. ASSUME NEW m \in M, TaskStep(m) \/ WakeStep(m) \/ FindStep(m) \/ StopStep(m)
      PROVE  (SpinningCounted /\ OneStart)'
  <2>1. CASE WakeCas(m)
    BY <2>1, WakeCasSpin
  <2>2. ASSUME NEW new \in M, NewM(m, new) PROVE (SpinningCounted /\ OneStart)'
    BY <2>2, NewMSpin
  <2>3. CASE Spin(m) \/ Respin(m) \/ ResetSpinning(m) \/ GiveUp(m) \/ Unspin(m)
    BY <2>3, MarkSpin
  <2>4. CASE /\ ~WakeCas(m) /\ ~(\E new \in M : NewM(m, new)) /\ ~Spin(m) /\ ~Respin(m)
             /\ ~ResetSpinning(m) /\ ~GiveUp(m) /\ ~Unspin(m)
    BY <1>1, <2>4, TaskSpinStay, WakeSpinStay, FindSpinStay, StopSpinStay, SpinCountedStay
  <2>5. QED
    BY <2>1, <2>2, <2>3, <2>4
<1>2. CASE UNCHANGED vars
  BY <1>2, SpinCountedStay DEF vars, spinVars, SpinStay, Starting
<1>3. QED
  BY <1>1, <1>2 DEF Next, Halted

-----------------------------------------------------------------------------
(* The delicate dance: who will find a task that waits                      *)

\* M m will look at every queue before it stops, or start an M that will.
Hopeful(m) == \/ pc[m] \notin {"none", "run", "out", "recheck", "sched"}
              \/ pc[m] = "sched" /\ spinning[m]

\* M m will find the work of P x.  An M that has put its task back on its own,
\* empty queue will take it again.
Minds(m, x) ==
  \/ Hopeful(m)
  \/ pc[m] = "recheck" /\ x \in todo[m]
  \/ pc[m] = "sched" /\ p[m] = x /\ next[x] = NULL /\ Len(queue[x]) = 1

NoneForgotten ==
  ~gaveup /\ pidle # {} => \A x \in P : HasWork(x) => \E m \in M : Minds(m, x)

LEMMA HopeFound == ASSUME NEW m \in M, Hopeful(m)' PROVE NoneForgotten'
BY DEF NoneForgotten, Minds

LEMMA HopeKept ==
  ASSUME NoneForgotten, gaveup' = gaveup, pidle' = pidle,
         \A x \in P : HasWork(x)' => HasWork(x),
         \A x \in P : HasWork(x)' => \A m \in M : Minds(m, x) => Minds(m, x)'
  PROVE  NoneForgotten'
BY DEF NoneForgotten

\* Ms other than m mind what they did.
LEMMA OthersMind ==
  ASSUME Typed, Apart, NEW m \in M, NEW x \in P, pc[m] \in WithP, p[m] = x,
         UNCHANGED <<p, spinning, todo>>, \A m2 \in M \ {m} : pc'[m2] = pc[m2],
         \A y \in P \ {x} : queue'[y] = queue[y] /\ next'[y] = next[y],
         NEW m2 \in M \ {m}, NEW y \in P, Minds(m2, y)
  PROVE  Minds(m2, y)'
<1>1. pc[m2] = "sched" => p[m2] # x
  BY DEF Apart, Holds, WithP
<1>2. CASE Hopeful(m2)
  BY <1>2 DEF Hopeful, Minds
<1>3. CASE pc[m2] = "recheck" /\ y \in todo[m2]
  BY <1>3 DEF Minds
<1>4. CASE pc[m2] = "sched" /\ p[m2] = y /\ next[y] = NULL /\ Len(queue[y]) = 1
  BY <1>1, <1>4 DEF Minds
<1>5. QED
  BY <1>2, <1>3, <1>4 DEF Minds

LEMMA YieldHope ==
  ASSUME Typed, Views, Apart, NoneForgotten, NEW m \in M, Yield(m) PROVE NoneForgotten'
<1>1. PICK x \in P, t \in T : x = p[m] /\ t = cur[m]
  BY DEF Yield, Goto, Views, View, WithP, WithTask
<1>2. /\ pc[m] = "run" /\ pc'[m] = "sched" /\ (\A m2 \in M \ {m} : pc'[m2] = pc[m2])
      /\ queue'[x] = Append(queue[x], t)
      /\ (\A y \in P \ {x} : queue'[y] = queue[y] /\ next'[y] = next[y]) /\ next' = next
      /\ UNCHANGED <<p, spinning, todo, pidle, gaveup>>
  BY <1>1 DEF Yield, Goto, Typed, idleVars, ownVars, spinVars, ended
<1>3. pc[m] \in WithP /\ ~Hopeful(m) /\ \A y \in P : ~Minds(m, y)
  BY <1>2 DEF WithP, Hopeful, Minds
<1>4. \A m2 \in M \ {m}, y \in P : Minds(m2, y) => Minds(m2, y)'
  BY <1>1, <1>2, <1>3, OthersMind
<1>5. SUFFICES ASSUME ~gaveup, pidle # {}, NEW y \in P, HasWork(y)'
               PROVE  \E m2 \in M : Minds(m2, y)'
  BY <1>2 DEF NoneForgotten
<1>6. CASE HasWork(y)
  <2>1. PICK m2 \in M : Minds(m2, y)
    BY <1>5, <1>6 DEF NoneForgotten
  <2>2. QED
    BY <1>3, <1>4, <2>1
<1>7. CASE ~HasWork(y)
  <2>1. y = x
    BY <1>2, <1>5, <1>7 DEF HasWork
  <2>2. next'[x] = NULL /\ queue[x] = <<>>
    BY <1>2, <1>7, <2>1 DEF HasWork
  <2>3. Len(queue'[x]) = 1
    BY <1>2, <2>2
  <2>4. Minds(m, x)'
    BY <1>1, <1>2, <2>2, <2>3 DEF Minds
  <2>5. QED
    BY <2>1, <2>4
<1>8. QED
  BY <1>6, <1>7

LEMMA TaskHope ==
  ASSUME Typed, Views, Apart, NoneForgotten, NEW m \in M, TaskStep(m) PROVE NoneForgotten'
<1>1. CASE (\E t \in T : Spawn(m, t)) \/ PutNext(m) \/ Kick(m)
  <2>1. pc'[m] \in {"putnext", "kick", "wake"}
    BY <1>1 DEF Spawn, PutNext, Kick, Goto, Typed
  <2>2. Hopeful(m)'
    BY <2>1 DEF Hopeful
  <2>3. QED
    BY <2>2, HopeFound
<1>2. CASE Exit(m)
  <2>1. /\ pc[m] = "run" /\ \A m2 \in M \ {m} : pc'[m2] = pc[m2]
        /\ UNCHANGED <<p, spinning, todo, pidle, gaveup, queue, next>>
    BY <1>2 DEF Exit, Goto, Typed, idleVars, ownVars, spinVars, ended
  <2>2. pc[m] \in WithP /\ p[m] \in P /\ \A y \in P : ~Minds(m, y)
    BY <2>1 DEF Views, View, WithP, Hopeful, Minds
  <2>3. \A m2 \in M \ {m}, y \in P : Minds(m2, y) => Minds(m2, y)'
    BY <2>1, <2>2, OthersMind
  <2>4. \A y \in P : HasWork(y)' <=> HasWork(y)
    BY <2>1 DEF HasWork
  <2>5. QED
    BY <2>1, <2>2, <2>3, <2>4, HopeKept
<1>3. QED
  BY <1>1, <1>2, YieldHope DEF TaskStep

\* p_wake finds no idle P ...
LEMMA WakeIdleHope ==
  ASSUME Typed, Views, Apart, IdleCounted, NoneForgotten, NEW m \in M, WakeIdle(m)
  PROVE  NoneForgotten'
<1>1. /\ pc[m] = "wake" /\ \A m2 \in M \ {m} : pc'[m2] = pc[m2]
      /\ UNCHANGED <<pidle, gaveup>>
  BY DEF WakeIdle, Goto, Typed, idleVars, ended
<1>2. CASE npidle = 0
  <2>1. CASE lock = NULL
    <3>1. Cardinality(pidle) = 0
      BY <1>2, <2>1, IdleFinite DEF IdleCounted, Pending
    <3>2. pidle' = {}
      BY <1>1, <3>1, IdleFinite, FS_EmptySet
    <3>3. QED
      BY <3>2 DEF NoneForgotten
  <2>2. CASE lock # NULL
    <3>1. PICK l \in M : l = lock
      BY <2>2 DEF Typed
    <3>2. pc[l] = "idleput"
      BY <1>2, <2>2, <3>1, IdleFinite DEF IdleCounted, Pending
    <3>3. l # m /\ pc'[l] = "idleput"
      BY <1>1, <3>2
    <3>4. Hopeful(l)'
      BY <3>3 DEF Hopeful
    <3>5. QED
      BY <3>4, HopeFound
  <2>3. QED
    BY <2>1, <2>2
<1>3. CASE npidle # 0
  <2>1. pc'[m] = "wakecas"
    BY <1>3 DEF WakeIdle, Goto, Typed
  <2>2. Hopeful(m)'
    BY <2>1 DEF Hopeful
  <2>3. QED
    BY <2>2, HopeFound
<1>4. QED
  BY <1>2, <1>3

\* ... or that another M is spinning or being started.
LEMMA WakeCasHope ==
  ASSUME Typed, Views, SpinningCounted, NoneForgotten, NEW m \in M, WakeCas(m)
  PROVE  NoneForgotten'
<1>1. pc[m] = "wakecas" /\ (\A m2 \in M \ {m} : pc'[m2] = pc[m2]) /\ UNCHANGED spinning
  BY DEF WakeCas, Goto, Typed
<1>2. CASE nmspinning = 0
  <2>1. pc'[m] = "startm"
    BY <1>2 DEF WakeCas, Goto, Typed
  <2>2. Hopeful(m)'
    BY <2>1 DEF Hopeful
  <2>3. QED
    BY <2>2, HopeFound
<1>3. CASE nmspinning # 0
  <2>1. Counted # {}
    BY <1>3, FS_EmptySet DEF SpinningCounted, Counted
  <2>2. PICK l \in M : spinning[l] \/ Starting(l)
    BY <2>1 DEF Counted
  <2>3. l # m
    BY <1>1, <2>2 DEF Views, View, MaySpin, Starting
  <2>4. pc'[l] = pc[l] /\ spinning'[l] = spinning[l]
    BY <1>1, <2>3
  <2>5. Hopeful(l)
    BY <2>2 DEF Views, View, MaySpin, Starting, Hopeful
  <2>6. Hopeful(l)'
    BY <2>4, <2>5 DEF Hopeful
  <2>7. QED
    BY <2>6, HopeFound
<1>4. QED
  BY <1>2, <1>3

LEMMA WakeHope ==
  ASSUME Typed, Views, Apart, IdleCounted, SpinningCounted, NoneForgotten, NEW m \in M, WakeStep(m)
  PROVE  NoneForgotten'
<1>1. CASE (\E x \in P : StartM(m, x)) \/ StartMReserve(m) \/ NoIdleP(m)
  <2>1. pc'[m] \in {"idleget", "newm", "giveup"}
    BY <1>1 DEF StartM, StartMReserve, NoIdleP, Goto, Typed
  <2>2. Hopeful(m)'
    BY <2>1 DEF Hopeful
  <2>3. QED
    BY <2>2, HopeFound
<1>2. CASE GiveUp(m)
  BY <1>2 DEF GiveUp, NoneForgotten
<1>3. ASSUME NEW new \in M, NewM(m, new) PROVE NoneForgotten'
  <2>1. pc'[new] = "start"
    BY <1>3 DEF NewM, Typed
  <2>2. Hopeful(new)'
    BY <2>1 DEF Hopeful
  <2>3. QED
    BY <2>2, HopeFound
<1>4. QED
  BY <1>1, <1>2, <1>3, WakeIdleHope, WakeCasHope DEF WakeStep

\* An M that does not spin executes the task that schedule() finds.
LEMMA ScheduleHope ==
  ASSUME Typed, Views, Apart, NoneForgotten, NEW m \in M, Schedule(m) PROVE NoneForgotten'
<1>1. PICK x \in P : x = p[m]
  BY DEF Schedule, GetFrom, Goto, Views, View, WithP
<1>2. /\ pc[m] = "sched" /\ (\A m2 \in M \ {m} : pc'[m2] = pc[m2])
      /\ (\A y \in P \ {x} : queue'[y] = queue[y] /\ next'[y] = next[y])
      /\ UNCHANGED <<p, spinning, todo, pidle, gaveup>>
  BY <1>1 DEF Schedule, GetFrom, Goto, Typed, idleVars, ownVars, spinVars, ended
<1>3. pc'[m] = IF ~HasWork(x) THEN "find" ELSE IF spinning[m] THEN "reset" ELSE "run"
  BY <1>1 DEF Schedule, GetFrom, Goto, Typed
<1>4. CASE ~HasWork(x) \/ spinning[m]
  <2>1. Hopeful(m)'
    BY <1>3, <1>4 DEF Hopeful
  <2>2. QED
    BY <2>1, HopeFound
<1>5. CASE HasWork(x) /\ ~spinning[m]
  <2>1. \A m2 \in M \ {m}, y \in P : Minds(m2, y) => Minds(m2, y)'
    BY <1>1, <1>2, OthersMind DEF WithP
  <2>2. \A y \in P : HasWork(y)' => HasWork(y)
    BY <1>2, <1>5 DEF HasWork
  <2>3. ASSUME NEW y \in P, HasWork(y)', Minds(m, y) PROVE FALSE
    <3>1. y = x /\ next[x] = NULL /\ Len(queue[x]) = 1
      BY <1>1, <1>2, <1>5, <2>3 DEF Minds, Hopeful
    <3>2. PICK q \in Seq(T) : q = queue[x] /\ Len(q) = 1
      BY <3>1 DEF Typed
    <3>3. q # <<>>
      <4>1. Len(<<>>) = 0 /\ 0 # 1
        OBVIOUS
      <4>2. QED
        BY <3>2, <4>1
    <3>4. queue'[x] = Tail(q) /\ next'[x] = next[x]
      BY <1>1, <3>1, <3>2, <3>3 DEF Schedule, GetFrom, HasWork, Typed
    <3>5. Tail(q) = <<>>
      <4>1. Tail(q) \in Seq(T) /\ Len(Tail(q)) = 0
        BY <3>2, <3>3, HeadTailProperties
      <4>2. QED
        BY <4>1, EmptySeq
    <3>6. QED
      BY <2>3, <3>1, <3>4, <3>5 DEF HasWork
  <2>4. \A y \in P : HasWork(y)' => \A m2 \in M : Minds(m2, y) => Minds(m2, y)'
    BY <2>1, <2>3
  <2>5. QED
    BY <1>2, <2>2, <2>4, HopeKept
<1>6. QED
  BY <1>4, <1>5

LEMMA FindHope ==
  ASSUME Typed, Views, Apart, Empty, NoneForgotten, NEW m \in M, FindStep(m) PROVE NoneForgotten'
<1>1. CASE Schedule(m)
  BY <1>1, ScheduleHope
<1>2. CASE FindLocal(m)
  <2>1. ~HasWork(p[m])
    BY <1>2 DEF FindLocal, GetFrom, Goto, Views, View, WithP, Empty, Unused, Workless
  <2>2. pc'[m] = "check"
    BY <1>2, <2>1 DEF FindLocal, GetFrom, Goto, Typed
  <2>3. Hopeful(m)'
    BY <2>2 DEF Hopeful
  <2>4. QED
    BY <2>3, HopeFound
<1>3. CASE Start(m)
  <2>1. Hopeful(m)'
    BY <1>3 DEF Start, Goto, Typed, Hopeful
  <2>2. QED
    BY <2>1, HopeFound
<1>4. CASE \/ LoadSpinning(m) \/ CheckBusy(m) \/ Spin(m) \/ StealNothing(m) \/ StealDone(m)
           \/ ResetSpinning(m) \/ \E v \in P : Steal(m, v) \/ StealNext(m, v)
  <2>1. pc'[m] \in {"steal", "busy", "stop", "spin", "reset", "wake", "stolen"}
    BY <1>4, ZenonT(60) DEF LoadSpinning, CheckBusy, Spin, StealNothing, StealDone, ResetSpinning, Steal,
                StealNext, Goto, Typed
  <2>2. Hopeful(m)'
    BY <2>1 DEF Hopeful
  <2>3. QED
    BY <2>2, HopeFound
<1>5. QED
  BY <1>1, <1>2, <1>3, <1>4 DEF FindStep

\* The last look: a queue with work is found, or was looked at before.
LEMMA RecheckHope ==
  ASSUME Typed, Empty, NoneForgotten, NEW m \in M, NEW x \in P, Recheck(m, x)
  PROVE  NoneForgotten'
<1>1. /\ pc[m] = "recheck" /\ \A m2 \in M \ {m} : pc'[m2] = pc[m2]
      /\ \A m2 \in M \ {m} : todo'[m2] = todo[m2]
      /\ UNCHANGED <<p, spinning, pidle, gaveup, queue, next>>
  BY DEF Recheck, Goto, Typed, taskVars, idleVars, ownVars, spinVars, ended
<1>2. CASE x \notin pidle /\ HasWork(x)
  <2>1. pc'[m] = "reget"
    BY <1>2 DEF Recheck, Goto, Typed
  <2>2. Hopeful(m)'
    BY <2>1 DEF Hopeful
  <2>3. QED
    BY <2>2, HopeFound
<1>3. CASE ~(x \notin pidle /\ HasWork(x))
  <2>1. ~HasWork(x)
    BY <1>3 DEF Empty
  <2>2. /\ todo'[m] = todo[m] \ {x}
        /\ pc'[m] = IF todo[m] \ {x} = {} THEN "out" ELSE "recheck"
    BY <2>1 DEF Recheck, Goto, Typed
  <2>3. \A y \in P : HasWork(y)' <=> HasWork(y)
    BY <1>1 DEF HasWork
  <2>4. ASSUME NEW y \in P, HasWork(y), NEW m2 \in M, Minds(m2, y) PROVE Minds(m2, y)'
    <3>1. CASE m2 = m
      BY <1>1, <2>1, <2>2, <2>4, <3>1 DEF Minds, Hopeful
    <3>2. CASE m2 # m
      BY <1>1, <2>4, <3>2 DEF Minds, Hopeful
    <3>3. QED
      BY <3>1, <3>2
  <2>5. QED
    BY <1>1, <2>3, <2>4, HopeKept
<1>4. QED
  BY <1>2, <1>3

LEMMA StopHope ==
  ASSUME Typed, Empty, NoneForgotten, NEW m \in M, StopStep(m) PROVE NoneForgotten'
<1>1. CASE Stop(m) \/ StopCount(m) \/ (\E x \in P : Reget(m, x)) \/ RegetCount(m) \/ Respin(m)
  <2>1. pc'[m] \in {"idleput", "unspin", "reidle", "respin", "find"}
    BY <1>1 DEF Stop, StopCount, Reget, RegetCount, Respin, Goto, Typed
  <2>2. Hopeful(m)'
    BY <2>1 DEF Hopeful
  <2>3. QED
    BY <2>2, HopeFound
<1>2. CASE Unspin(m)
  <2>1. pc'[m] = "recheck" /\ todo'[m] = P
    BY <1>2 DEF Unspin, Goto, Typed
  <2>2. \A x \in P : Minds(m, x)'
    BY <2>1 DEF Minds
  <2>3. QED
    BY <2>2 DEF NoneForgotten
<1>3. CASE RegetNone(m)
  BY <1>3 DEF RegetNone, idleVars, NoneForgotten
<1>4. CASE Abort(m)
  <2>1. UNCHANGED <<pc, p, spinning, todo, pidle, gaveup, queue, next>>
    BY <1>4 DEF Abort, taskVars, idleVars, ownVars, spinVars
  <2>2. QED
    BY <2>1 DEF NoneForgotten, Minds, Hopeful, HasWork
<1>5. QED
  BY <1>1, <1>2, <1>3, <1>4, RecheckHope DEF StopStep

-----------------------------------------------------------------------------
(* The inductive invariant                                                  *)

IInv == /\ Typed /\ Views /\ Apart /\ Empty /\ BackLinks /\ IdleCounted
        /\ SpinningCounted /\ OneStart /\ NoneForgotten

LEMMA InitInv == Init => IInv
<1> SUFFICES ASSUME Init PROVE IInv
  OBVIOUS
<1>1. PICK m0 \in M, p0 \in P, t1 \in T :
        /\ cur = [m \in M |-> IF m = m0 THEN t1 ELSE NULL]
        /\ dead = T \ {t1}
        /\ pidle = P \ {p0}
        /\ owner = [x \in P |-> IF x = p0 THEN m0 ELSE NULL]
        /\ p = [m \in M |-> IF m = m0 THEN p0 ELSE NULL]
        /\ pc = [m \in M |-> IF m = m0 THEN "run" ELSE "none"]
  BY DEF Init
<1>2. /\ queue = [x \in P |-> <<>>] /\ next = [x \in P |-> NULL]
      /\ npidle = Cardinality(P) - 1 /\ nmspinning = 0 /\ lock = NULL
      /\ spinning = [m \in M |-> FALSE] /\ tp = [m \in M |-> NULL] /\ batch = [m \in M |-> <<>>]
      /\ hand = [m \in M |-> NULL] /\ seen = [m \in M |-> 0] /\ was = [m \in M |-> FALSE]
      /\ todo = [m \in M |-> {}] /\ halted = FALSE /\ gaveup = FALSE
  BY DEF Init
<1>3. Cardinality(P) \in Nat /\ Cardinality(P \ {p0}) = Cardinality(P) - 1
  BY SchedAssumption, FS_CardinalityType, FS_RemoveElement
<1>4. Typed
  <2>1. /\ queue \in [P -> Seq(T)] /\ batch \in [M -> Seq(T)]
    BY <1>2, EmptySeq
  <2>2. /\ owner \in [P -> M \cup {NULL}] /\ p \in [M -> P \cup {NULL}]
        /\ cur \in [M -> T \cup {NULL}] /\ dead \subseteq T /\ pidle \subseteq P
    BY <1>1
  <2>3. pc \in [M -> Label]
    BY <1>1 DEF Label
  <2>4. /\ next \in [P -> T \cup {NULL}] /\ tp \in [M -> T \cup {NULL}]
        /\ hand \in [M -> P \cup {NULL}] /\ lock \in M \cup {NULL} /\ seen \in [M -> Nat]
        /\ spinning \in [M -> BOOLEAN] /\ was \in [M -> BOOLEAN] /\ todo \in [M -> SUBSET P]
    BY <1>2
  <2>5. npidle \in Int /\ nmspinning \in Int /\ halted \in BOOLEAN /\ gaveup \in BOOLEAN
    <3>1. npidle \in Int /\ nmspinning \in Int
      BY <1>2, <1>3
    <3>2. halted \in BOOLEAN /\ gaveup \in BOOLEAN
      BY <1>2, Zenon
    <3>3. QED
      BY <3>1, <3>2
  <2>6. QED
    BY <2>1, <2>2, <2>3, <2>4, <2>5 DEF Typed
<1>5. Views
  BY <1>1, <1>2, SchedAssumption
     DEF Views, View, WithP, Carrying, WithTask, Spins, MaySpin, Locking
<1>6. \A m \in M, x \in P : Holds(m, x) <=> m = m0 /\ x = p0
  BY <1>1, SchedAssumption DEF Holds, WithP, Carrying
<1>7. Apart
  BY <1>1, <1>6 DEF Apart, TwoPs, WithP, Carrying
<1>8. Empty
  BY <1>1, <1>2 DEF Empty, HasWork, Typed
<1>9. BackLinks
  BY <1>1, SchedAssumption DEF BackLinks, WithP
<1>10. IdleCounted
  BY <1>1, <1>2, <1>3 DEF IdleCounted, Pending
<1>11. \A m \in M : ~Starting(m) /\ ~spinning[m]
  BY <1>1, <1>2 DEF Starting
<1>12. SpinningCounted
  <2>1. {m \in M : spinning[m] \/ Starting(m)} = {}
    BY <1>11
  <2>2. QED
    BY <1>2, <2>1, FS_EmptySet DEF SpinningCounted
<1>13. OneStart
  BY <1>11 DEF OneStart
<1>14. NoneForgotten
  BY <1>2 DEF NoneForgotten, HasWork
<1>15. QED
  BY <1>4, <1>5, <1>7, <1>8, <1>9, <1>10, <1>12, <1>13, <1>14 DEF IInv

LEMMA NextInv == IInv /\ [Next]_vars => IInv'
<1> SUFFICES ASSUME IInv, [Next]_vars PROVE IInv'
  OBVIOUS
<1> USE DEF IInv
<1>1. BackLinks' /\ IdleCounted' /\ SpinningCounted' /\ OneStart'
  BY LinksNext, IdleNext, SpinNext
<1>2. ASSUME NEW m \in M, TaskStep(m) \/ WakeStep(m) \/ FindStep(m) \/ StopStep(m)
      PROVE  Typed' /\ Views' /\ Apart' /\ Empty' /\ NoneForgotten'
  <2>1. CASE TaskStep(m)
    BY <2>1, TaskViews, TaskApart, ApartStay, TaskEmpty, TaskHope
  <2>2. CASE WakeStep(m)
    BY <2>2, WakeViews, WakeApart, WakeEmpty, WakeHope
  <2>3. CASE FindStep(m)
    BY <2>3, FindViews, FindApart, ApartStay, FindEmpty, FindHope
  <2>4. CASE StopStep(m)
    BY <2>4, StopViews, StopApart, StopEmpty, StopHope
  <2>5. QED
    BY <1>2, <2>1, <2>2, <2>3, <2>4
<1>3. CASE UNCHANGED vars
  <2> USE <1>3 DEF vars, taskVars, idleVars, ownVars, spinVars
  <2>1. Typed'
    BY DEF Typed
  <2>2. Views'
    BY DEF Views, View
  <2>3. Apart'
    BY DEF Apart, Holds, TwoPs
  <2>4. Empty'
    BY DEF Empty, Unused, HasWork
  <2>5. NoneForgotten'
    BY DEF NoneForgotten, Minds, Hopeful, HasWork
  <2>6. QED
    BY <1>1, <2>1, <2>2, <2>3, <2>4, <2>5
<1>4. QED
  BY <1>1, <1>2, <1>3 DEF Next, Halted

\* The invariant that the theorems below follow from: where each M is and what
\* it holds (Views), that Ms and the idle list share no P (Apart), that both
\* counters are exact up to what Ms are about to add or take, and that someone
\* will still look at every P with work (NoneForgotten).
THEOREM Invariance == Spec => []IInv
<1>1. QED
  BY InitInv, NextInv, PTL DEF Spec

-----------------------------------------------------------------------------
(* Theorems                                                                 *)

LEMMA CountersBounded ==
  ASSUME IInv PROVE npidle \in 0 .. Cardinality(P) /\ nmspinning \in 0 .. Cardinality(M)
<1> USE DEF IInv
<1>1. /\ Cardinality(pidle) \in Nat /\ Cardinality(P) \in Nat /\ Cardinality(M) \in Nat
      /\ Cardinality(Counted) \in Nat
  BY IdleFinite, CountedFinite, SchedAssumption, FS_CardinalityType
<1>2. nmspinning \in 0 .. Cardinality(M)
  <2>1. Cardinality(Counted) <= Cardinality(M)
    BY SchedAssumption, FS_Subset DEF Counted
  <2>2. QED
    BY <1>1, <2>1 DEF SpinningCounted, Counted
<1>3. Cardinality(pidle) <= Cardinality(P) /\ (Cardinality(pidle) = Cardinality(P) => pidle = P)
  <2>1. pidle \in SUBSET P
    BY DEF Typed
  <2>2. QED
    BY <2>1, SchedAssumption, FS_Subset
<1>4. CASE lock = NULL
  BY <1>1, <1>2, <1>3, <1>4 DEF IdleCounted, Pending
<1>5. CASE lock # NULL
  <2>1. PICK l \in M : l = lock /\ pc[l] \in Locking
    BY <1>5 DEF Typed, Views, View
  <2>2. CASE pc[l] = "idleput"
    <3>1. pidle # {}
      BY <2>2 DEF IdleCounted
    <3>2. Cardinality(pidle) # 0
      BY <3>1, IdleFinite, FS_EmptySet
    <3>3. npidle = Cardinality(pidle) - 1
      BY <1>1, <1>5, <2>1, <2>2 DEF IdleCounted, Pending
    <3>4. QED
      BY <1>1, <1>2, <1>3, <3>2, <3>3
  <2>3. CASE pc[l] \in {"idleget", "reidle"}
    <3>1. hand[l] \in P /\ Holds(l, hand[l])
      BY <2>3 DEF Views, View, Carrying, Holds
    <3>2. pidle # P
      BY <3>1 DEF Apart
    <3>3. npidle = Cardinality(pidle) + 1
      BY <1>1, <1>5, <2>1, <2>3 DEF IdleCounted, Pending
    <3>4. QED
      BY <1>1, <1>2, <1>3, <3>2, <3>3
  <2>4. QED
    BY <2>1, <2>2, <2>3 DEF Locking
<1>6. QED
  BY <1>4, <1>5

\* The types; neither counter leaves its range, whatever the interleaving of
\* its updates with those of the lists they count (s_pidleget, s_pidleput,
\* p_wake, s_stealwork, m_resetspinning, s_findrunnable).
THEOREM TypeCorrect == Spec => []TypeOK
<1>1. IInv => TypeOK
  BY CountersBounded DEF IInv, Typed, TypeOK
<1>2. QED
  BY <1>1, Invariance, PTL

LEMMA HeldByOne ==
  ASSUME IInv, Debug PROVE OneOwner
<1> USE DEF IInv
<1>1. \A m \in M, x \in P : p[m] = x \/ hand[m] = x <=> Holds(m, x)
  <2> TAKE m \in M, x \in P
  <2>1. p[m] = x => pc[m] \in WithP
    BY SchedAssumption DEF BackLinks
  <2>2. hand[m] = x => pc[m] \in Carrying
    BY SchedAssumption DEF Views, View
  <2>3. QED
    BY <2>1, <2>2 DEF Holds
<1>2. SUFFICES ASSUME NEW x \in P
               PROVE  /\ \A m \in M : p[m] = x <=> owner[x] = m
                      /\ Cardinality({m \in M : p[m] = x \/ hand[m] = x})
                           = IF x \in pidle THEN 0 ELSE 1
  BY DEF OneOwner
<1>3. \A m \in M : p[m] = x <=> owner[x] = m
  BY DEF BackLinks
<1>4. {m \in M : p[m] = x \/ hand[m] = x} = {m \in M : Holds(m, x)}
  BY <1>1
<1>5. CASE x \in pidle
  <2>1. {m \in M : Holds(m, x)} = {}
    BY <1>5 DEF Apart
  <2>2. QED
    BY <1>3, <1>4, <1>5, <2>1, FS_EmptySet
<1>6. CASE x \notin pidle
  <2>1. PICK m \in M : Holds(m, x)
    BY <1>6 DEF Apart
  <2>2. {m2 \in M : Holds(m2, x)} = {m}
    BY <2>1 DEF Apart
  <2>3. Cardinality({m}) = 1
    BY FS_Singleton
  <2>4. QED
    BY <1>3, <1>4, <1>6, <2>2, <2>3
<1>7. QED
  BY <1>5, <1>6

\* In a build with assertions, a P is idle, owned by one M, or on its way to
\* one, and P.m and M.p agree: no assertion of p_acquire or p_release fails.
THEOREM OneOwnerPerP == Debug /\ Spec => []OneOwner
<1>1. SUFFICES ASSUME Debug PROVE Spec => []OneOwner
  OBVIOUS
<1>2. IInv => OneOwner
  BY <1>1, HeldByOne
<1>3. QED
  BY <1>2, Invariance, PTL

\* S.nmspinning is the number of Ms that spin or are being started to.
THEOREM SpinningIsCounted == Spec => []SpinningCounted
<1>1. IInv => SpinningCounted
  BY DEF IInv
<1>2. QED
  BY <1>1, Invariance, PTL

\* p_wake starts one M at a time.
THEOREM OneStartAtATime == Spec => []OneStart
<1>1. IInv => OneStart
  BY DEF IInv
<1>2. QED
  BY <1>1, Invariance, PTL

\* The assertion of s_pidleput and the panic of a spinning M in schedule():
\* an idle P, and the P of an M that enters schedule() spinning, has no work.
THEOREM IdlePsAreEmpty == Spec => []IdleIsEmpty
<1>1. ASSUME IInv PROVE IdleIsEmpty
  <2> USE <1>1 DEF IInv
  <2>1. ASSUME NEW m \in M, pc[m] = "sched", spinning[m] PROVE ~HasWork(p[m])
    <3>1. p[m] \in P
      BY <2>1 DEF Views, View, WithP
    <3>2. Unused(m, p[m])
      BY <2>1 DEF Unused
    <3>3. QED
      BY <3>1, <3>2 DEF Empty
  <2>2. QED
    BY <2>1 DEF Empty, IdleIsEmpty
<1>2. QED
  BY <1>1, Invariance, PTL

\* The second look of s_findrunnable is enough: no task waits, with a P idle
\* and every M busy, unless a p_startm gave up for want of an idle P.
THEOREM NoTaskForgotten == Spec => []OnlyGivingUpStrands
<1>1. ASSUME IInv PROVE OnlyGivingUpStrands
  <2> SUFFICES ASSUME Stranded, ~gaveup PROVE FALSE
    BY DEF OnlyGivingUpStrands
  <2>1. pidle # {} /\ \A m \in M : pc[m] \in {"none", "run", "out"}
    BY DEF Stranded
  <2>2. PICK x \in P : HasWork(x)
    BY DEF Stranded
  <2>3. PICK m \in M : Minds(m, x)
    BY <1>1, <2>1, <2>2 DEF IInv, NoneForgotten
  <2>4. QED
    BY <2>1, <2>3 DEF Minds, Hopeful
<1>2. QED
  BY <1>1, Invariance, PTL

-----------------------------------------------------------------------------
(* The scheduler uses the run queues as WorkQueues allows.  The tasks in    *)
(* the hands of a P are those that the Ms whose M.p it is run or put, one M *)
(* at most: an M that left its P has nothing in hand, even in a build that  *)
(* leaves its M.p set.  The steps of the idle list, of the counters and of  *)
(* the search stutter; the others are one operation of WorkQueues each:     *)
(*   Spawn, Exit, PutNext    the same                                       *)
(*   Kick, Yield             PutTail                                        *)
(*   Schedule, FindLocal     TakeNext or TakeHead, or a stutter             *)
(*   Steal, StealNext        StealHalf, StealNext                           *)
(*   StealDone               Publish                                        *)

\* The mapping of Work.
HandBar == [x \in P |-> {t \in T : \E m \in M : p[m] = x /\ t \in {cur[m], tp[m]}}]

BatchBar == [x \in P |-> OnlyOne(Stolen(x))]

WP == INSTANCE WorkQueuesProofs WITH hand <- HandBar, batch <- BatchBar

\* What an M has in hand, by where it is.
Load(m) ==
  /\ pc[m] \notin WithTask => cur[m] = NULL
  /\ pc[m] \notin {"putnext", "kick"} => tp[m] = NULL
  /\ pc[m] # "stolen" => batch[m] = <<>>

Loads == \A m \in M : Load(m)

\* The task being put is not the one that runs.
TwoTasks == \A m \in M : tp[m] # NULL => tp[m] # cur[m]

Queues == WP!Typed /\ WP!AllAlone

LInv == IInv /\ Loads /\ TwoTasks /\ Queues

-----------------------------------------------------------------------------
(* How steps of one M show in the mapping                                   *)

\* Nothing in hand.
Free(m) == cur[m] = NULL /\ tp[m] = NULL /\ batch[m] = <<>>

LEMMA OnlyOneIs == ASSUME NEW b PROVE OnlyOne({b} \ {<<>>}) = b
<1>1. CASE b = <<>>
  BY <1>1 DEF OnlyOne
<1>2. CASE b # <<>>
  <2>1. {b} \ {<<>>} = {b}
    BY <1>2
  <2>2. QED
    BY <2>1 DEF OnlyOne
<1>3. QED
  BY <1>1, <1>2

\* The M of P y works on its tasks.
OneWorks(m, y) ==
  /\ y \in P /\ p[m] = y /\ pc[m] \in WithP
  /\ p' = p
  /\ \A o \in M \ {m} : cur'[o] = cur[o] /\ tp'[o] = tp[o] /\ batch'[o] = batch[o]
  /\ cur'[m] \in T \cup {NULL} /\ tp'[m] \in T \cup {NULL}

\* Another M that left y has nothing in hand.
LEMMA OthersFree ==
  ASSUME IInv, Loads, NEW m \in M, NEW o \in M \ {m}, NEW y \in P,
         pc[m] \in WithP, p[m] = y, p[o] = y
  PROVE  Free(o)
<1>1. pc[o] \notin WithP
  BY DEF IInv, Apart, Holds
<1>2. QED
  BY <1>1 DEF Loads, Load, Free, WithP, WithTask

\* So the tasks in the hands of a P are those of the M that has it.
LEMMA ActiveHands ==
  ASSUME IInv, Loads, NEW m \in M, pc[m] \in WithP
  PROVE  /\ p[m] \in P /\ BatchBar[p[m]] = batch[m]
         /\ HandBar[p[m]] = {cur[m], tp[m]} \ {NULL}
<1>1. PICK y \in P : y = p[m]
  BY DEF IInv, Views, View
<1>2. \A o \in M \ {m} : p[o] = y => Free(o)
  BY <1>1, OthersFree
<1>3. HandBar[y] = {cur[m], tp[m]} \ {NULL}
  BY <1>1, <1>2, SchedAssumption DEF HandBar, Free, IInv, Typed
<1>4. Stolen(y) = {batch[m]} \ {<<>>}
  BY <1>1, <1>2 DEF Stolen, Free
<1>5. BatchBar[y] = batch[m]
  BY <1>4, OnlyOneIs DEF BatchBar
<1>6. QED
  BY <1>1, <1>3, <1>5

LEMMA OneMoves ==
  ASSUME IInv, Loads, NEW m \in M, NEW y, OneWorks(m, y)
  PROVE  /\ HandBar[y] = {cur[m], tp[m]} \ {NULL}
         /\ BatchBar[y] = batch[m]
         /\ HandBar' = [HandBar EXCEPT ![y] = {cur'[m], tp'[m]} \ {NULL}]
         /\ BatchBar' = [BatchBar EXCEPT ![y] = batch'[m]]
<1>1. y \in P /\ p[m] = y /\ p' = p /\ pc[m] \in WithP
  BY DEF OneWorks
<1>2. \A o \in M \ {m} : p[o] = y => Free(o) /\ Free(o)'
  BY <1>1, OthersFree DEF OneWorks, Free
<1>3. HandBar[y] = {cur[m], tp[m]} \ {NULL} /\ BatchBar[y] = batch[m]
  BY <1>1, ActiveHands
<1>4. HandBar'[y] = {cur'[m], tp'[m]} \ {NULL}
  BY <1>1, <1>2, SchedAssumption DEF HandBar, Free, OneWorks
<1>5. \A x \in P \ {y} : HandBar'[x] = HandBar[x]
  BY <1>1 DEF HandBar, OneWorks
<1>6. Stolen(y)' = {batch'[m]} \ {<<>>}
  BY <1>1, <1>2 DEF Stolen, Free
<1>7. \A x \in P \ {y} : Stolen(x)' = Stolen(x)
  BY <1>1 DEF Stolen, OneWorks
<1>8. BatchBar'[y] = batch'[m] /\ \A x \in P \ {y} : BatchBar'[x] = BatchBar[x]
  BY <1>1, <1>6, <1>7, OnlyOneIs DEF BatchBar
<1>9. HandBar' = [HandBar EXCEPT ![y] = {cur'[m], tp'[m]} \ {NULL}]
  BY <1>1, <1>4, <1>5 DEF HandBar
<1>10. BatchBar' = [BatchBar EXCEPT ![y] = batch'[m]]
  BY <1>1, <1>8 DEF BatchBar
<1>11. QED
  BY <1>3, <1>9, <1>10

\* An M with nothing in hand takes or leaves a P.
LEMMA NoneMoves ==
  ASSUME Typed, NEW m \in M, Free(m), UNCHANGED taskVars, \A o \in M \ {m} : p'[o] = p[o]
  PROVE  UNCHANGED WP!vars
<1> USE SchedAssumption DEF taskVars
<1>1. HandBar' = HandBar
  <2>1. \A t \in T : t \notin {cur[m], tp[m]}
    BY DEF Free
  <2>2. \A x \in P, t \in T : (\E o \in M : p'[o] = x /\ t \in {cur'[o], tp'[o]})
                              <=> (\E o \in M : p[o] = x /\ t \in {cur[o], tp[o]})
    BY <2>1
  <2>3. QED
    BY <2>2 DEF HandBar
<1>2. \A x \in P : Stolen(x)' = Stolen(x)
  BY DEF Stolen, Free
<1>3. BatchBar' = BatchBar
  BY <1>2 DEF BatchBar
<1>4. QED
  BY <1>1, <1>3 DEF WP!vars

LEMMA Stutters == ASSUME UNCHANGED taskVars, UNCHANGED p PROVE UNCHANGED WP!vars
BY DEF WP!vars, taskVars, HandBar, BatchBar, Stolen

-----------------------------------------------------------------------------
(* The operations                                                           *)

\* A step that is an operation of WorkQueues or a stutter.
Uses == WP!Next \/ UNCHANGED WP!vars

LEMMA TaskUses ==
  ASSUME LInv, NEW m \in M, TaskStep(m) PROVE Uses /\ Loads' /\ TwoTasks'
<1> USE DEF LInv
<1>1. PICK y : y = p[m] /\ y \in P /\ pc[m] \in WithP
  BY DEF TaskStep, Spawn, PutNext, Kick, Yield, Exit, Goto, IInv, Views, View, WithP
<1>2. ASSUME NEW t \in T, Spawn(m, t) PROVE Uses /\ Loads' /\ TwoTasks'
  <2>1. /\ t \in dead /\ dead' = dead \ {t} /\ pc' = [pc EXCEPT ![m] = "putnext"] /\ pc[m] = "run"
        /\ tp' = [tp EXCEPT ![m] = t] /\ UNCHANGED <<queue, next, cur, batch, p>>
    BY <1>2 DEF Spawn, Goto, ownVars
  <2>2. cur[m] \in T /\ tp[m] = NULL /\ cur[m] # NULL /\ t # NULL
    BY <2>1, SchedAssumption DEF IInv, Views, View, WithTask, Loads, Load
  <2>3. HandBar[y] = {cur[m]} /\ HandBar' = [HandBar EXCEPT ![y] = {cur[m], t}]
        /\ BatchBar' = [BatchBar EXCEPT ![y] = batch[m]] /\ BatchBar[y] = batch[m]
    <3>1. OneWorks(m, y)
      BY <1>1, <2>1 DEF OneWorks, IInv, Typed
    <3>2. tp'[m] = t /\ cur'[m] = cur[m] /\ batch'[m] = batch[m]
      BY <2>1 DEF IInv, Typed
    <3>3. {cur[m], tp[m]} \ {NULL} = {cur[m]} /\ {cur'[m], tp'[m]} \ {NULL} = {cur[m], t}
      BY <2>2, <3>2
    <3>4. QED
      BY <3>1, <3>2, <3>3, OneMoves
  <2>4. WP!Spawn(y, t)
    BY <2>1, <2>3 DEF WP!Spawn, HandBar, BatchBar
  <2>5. t # cur[m]
    <3>1. cur[m] = t => WP!Held(t, "dead", t, 0) /\ WP!Held(t, "hand", y, t)
      BY <1>1, <2>1, <2>3 DEF WP!Held
    <3>2. QED
      BY <3>1 DEF Queues, WP!AllAlone, WP!Alone, WP!At
  <2>6. Loads'
    BY <2>1 DEF Loads, Load, WithTask, IInv, Typed
  <2>7. TwoTasks'
    BY <2>1, <2>5 DEF TwoTasks, IInv, Typed
  <2>8. QED
    BY <1>1, <2>4, <2>6, <2>7 DEF Uses, WP!Next
<1>3. CASE PutNext(m)
  <2>1. /\ pc[m] = "putnext" /\ next' = [next EXCEPT ![y] = tp[m]]
        /\ tp' = [tp EXCEPT ![m] = next[y]] /\ UNCHANGED <<queue, dead, cur, batch, p>>
        /\ pc' = [pc EXCEPT ![m] = IF next[y] = NULL THEN "wake" ELSE "kick"]
    BY <1>1, <1>3 DEF PutNext, Goto, ownVars
  <2>2. /\ cur[m] \in T /\ tp[m] \in T /\ cur[m] # NULL /\ tp[m] # NULL /\ tp[m] # cur[m]
        /\ next[y] \in T \cup {NULL}
    BY <1>1, <2>1, SchedAssumption DEF IInv, Typed, Views, View, WithTask, TwoTasks
  <2>3. HandBar[y] = {cur[m], tp[m]} /\ HandBar' = [HandBar EXCEPT ![y] = {cur[m], next[y]} \ {NULL}]
        /\ BatchBar' = [BatchBar EXCEPT ![y] = batch[m]] /\ BatchBar[y] = batch[m]
    <3>1. OneWorks(m, y)
      BY <1>1, <2>1 DEF OneWorks, IInv, Typed
    <3>2. tp'[m] = next[y] /\ cur'[m] = cur[m] /\ batch'[m] = batch[m]
      BY <2>1 DEF IInv, Typed
    <3>3. {cur[m], tp[m]} \ {NULL} = {cur[m], tp[m]}
      BY <2>2
    <3>4. QED
      BY <3>1, <3>2, <3>3, OneMoves
  <2>4. WP!PutNext(y, tp[m])
    <3>1. {cur[m], next[y]} \ {NULL} = (HandBar[y] \ {tp[m]}) \cup ({next[y]} \ {NULL})
      BY <2>2, <2>3
    <3>2. BatchBar' = BatchBar
      BY <2>3 DEF BatchBar
    <3>3. QED
      BY <2>1, <2>3, <3>1, <3>2 DEF WP!PutNext
  <2>5. next[y] # NULL => next[y] # cur[m]
    <3>1. next[y] = cur[m] => /\ WP!Held(cur[m], "next", y, 0)
                              /\ WP!Held(cur[m], "hand", y, cur[m])
      BY <1>1, <2>3 DEF WP!Held
    <3>2. QED
      BY <2>2, <3>1 DEF Queues, WP!AllAlone, WP!Alone, WP!At
  <2>6. Loads'
    BY <2>1, <2>2 DEF Loads, Load, WithTask, IInv, Typed
  <2>7. TwoTasks'
    BY <2>1, <2>5 DEF TwoTasks, IInv, Typed
  <2>8. QED
    BY <1>1, <2>2, <2>4, <2>6, <2>7 DEF Uses, WP!Next
<1>4. CASE Kick(m)
  <2>1. /\ pc[m] = "kick" /\ queue' = [queue EXCEPT ![y] = Append(@, tp[m])]
        /\ tp' = [tp EXCEPT ![m] = NULL] /\ UNCHANGED <<next, dead, cur, batch, p>>
        /\ pc' = [pc EXCEPT ![m] = "wake"]
    BY <1>1, <1>4 DEF Kick, Goto, ownVars
  <2>2. cur[m] \in T /\ tp[m] \in T /\ cur[m] # NULL /\ tp[m] # NULL /\ tp[m] # cur[m]
    BY <2>1, SchedAssumption DEF IInv, Views, View, WithTask, TwoTasks
  <2>3. HandBar[y] = {cur[m], tp[m]} /\ HandBar' = [HandBar EXCEPT ![y] = {cur[m]}]
        /\ BatchBar' = [BatchBar EXCEPT ![y] = batch[m]] /\ BatchBar[y] = batch[m]
    <3>1. OneWorks(m, y)
      BY <1>1, <2>1 DEF OneWorks, IInv, Typed
    <3>2. tp'[m] = NULL /\ cur'[m] = cur[m] /\ batch'[m] = batch[m]
      BY <2>1 DEF IInv, Typed
    <3>3. {cur[m], tp[m]} \ {NULL} = {cur[m], tp[m]} /\ {cur'[m], tp'[m]} \ {NULL} = {cur[m]}
      BY <2>2, <3>2
    <3>4. QED
      BY <3>1, <3>2, <3>3, OneMoves
  <2>4. WP!PutTail(y, tp[m])
    <3>1. {cur[m]} = HandBar[y] \ {tp[m]}
      BY <2>2, <2>3
    <3>2. BatchBar' = BatchBar
      BY <2>3 DEF BatchBar
    <3>3. QED
      BY <2>1, <2>3, <3>1, <3>2 DEF WP!PutTail
  <2>5. Loads'
    BY <2>1 DEF Loads, Load, WithTask, IInv, Typed
  <2>6. TwoTasks'
    BY <2>1 DEF TwoTasks, IInv, Typed
  <2>7. QED
    BY <1>1, <2>2, <2>4, <2>5, <2>6 DEF Uses, WP!Next
<1>5. CASE Yield(m) \/ Exit(m)
  <2>1. /\ pc[m] = "run" /\ cur' = [cur EXCEPT ![m] = NULL] /\ UNCHANGED <<next, tp, batch, p>>
        /\ pc' = [pc EXCEPT ![m] = "sched"]
        /\ \/ queue' = [queue EXCEPT ![y] = Append(@, cur[m])] /\ dead' = dead
           \/ dead' = dead \cup {cur[m]} /\ queue' = queue
    BY <1>1, <1>5 DEF Yield, Exit, Goto, ownVars
  <2>2. cur[m] \in T /\ tp[m] = NULL /\ cur[m] # NULL
    BY <2>1, SchedAssumption DEF IInv, Views, View, WithTask, Loads, Load
  <2>3. HandBar[y] = {cur[m]} /\ HandBar' = [HandBar EXCEPT ![y] = {}]
        /\ BatchBar' = [BatchBar EXCEPT ![y] = batch[m]] /\ BatchBar[y] = batch[m]
    <3>1. OneWorks(m, y)
      BY <1>1, <2>1 DEF OneWorks, IInv, Typed
    <3>2. tp'[m] = NULL /\ cur'[m] = NULL /\ batch'[m] = batch[m]
      BY <2>1, <2>2 DEF IInv, Typed
    <3>3. {cur[m], tp[m]} \ {NULL} = {cur[m]} /\ {cur'[m], tp'[m]} \ {NULL} = {}
      BY <2>2, <3>2
    <3>4. QED
      BY <3>1, <3>2, <3>3, OneMoves
  <2>4. WP!PutTail(y, cur[m]) \/ WP!Exit(y, cur[m])
    <3>1. {} = HandBar[y] \ {cur[m]}
      BY <2>3
    <3>2. BatchBar' = BatchBar
      BY <2>3 DEF BatchBar
    <3>3. QED
      BY <2>1, <2>3, <3>1, <3>2 DEF WP!PutTail, WP!Exit
  <2>5. Loads'
    BY <2>1, <2>2 DEF Loads, Load, WithTask, IInv, Typed
  <2>6. TwoTasks'
    BY <2>1, <2>2 DEF TwoTasks, IInv, Typed
  <2>7. QED
    BY <1>1, <2>2, <2>4, <2>5, <2>6 DEF Uses, WP!Next
<1>6. QED
  BY <1>2, <1>3, <1>4, <1>5 DEF TaskStep

\* A step that touches no task, of Ms that keep what they have in hand.
Keeps(o) == /\ pc'[o] \in WithTask <=> pc[o] \in WithTask
            /\ pc'[o] \in {"putnext", "kick"} <=> pc[o] \in {"putnext", "kick"}
            /\ pc'[o] = "stolen" <=> pc[o] = "stolen"

LEMMA LoadsStay ==
  ASSUME Loads, TwoTasks, UNCHANGED taskVars, \A o \in M : Keeps(o) PROVE Loads' /\ TwoTasks'
<1> USE DEF taskVars
<1>1. \A o \in M : Load(o)'
  BY DEF Keeps, Loads, Load
<1>2. QED
  BY <1>1 DEF Loads, TwoTasks

\* p_wake and p_startm touch no task, and no M.p.
LEMMA WakeUses ==
  ASSUME LInv, NEW m \in M, WakeStep(m) PROVE Uses /\ Loads' /\ TwoTasks'
<1> USE DEF LInv
<1>1. UNCHANGED taskVars /\ UNCHANGED p
  BY DEF WakeStep, WakeIdle, WakeCas, StartMReserve, NoIdleP, GiveUp, StartM, NewM, ownVars
<1>2. \A o \in M : Keeps(o)
  <2> USE DEF Keeps, WithTask, IInv, Typed, Goto
  <2>1. ASSUME NEW new \in M, NewM(m, new) PROVE \A o \in M : Keeps(o)
    BY <2>1 DEF NewM
  <2>2. CASE WakeIdle(m) \/ WakeCas(m)
    BY <2>2 DEF WakeIdle, WakeCas
  <2>3. CASE StartMReserve(m) \/ NoIdleP(m) \/ GiveUp(m) \/ \E x \in P : StartM(m, x)
    BY <2>3 DEF StartMReserve, NoIdleP, GiveUp, StartM
  <2>4. QED
    BY <2>1, <2>2, <2>3 DEF WakeStep
<1>3. QED
  BY <1>1, <1>2, LoadsStay, Stutters DEF Uses

LEMMA GetUses ==
  ASSUME LInv, NEW m \in M, NEW from \in {"sched", "find"}, NEW else \in {"find", "check"},
         GetFrom(m, from, else)
  PROVE  Uses /\ Loads' /\ TwoTasks'
<1> USE DEF LInv
<1>1. PICK y : y = p[m] /\ y \in P /\ pc[m] \in WithP
  BY DEF GetFrom, Goto, IInv, Views, View, WithP
<1>2. /\ pc[m] = from /\ UNCHANGED <<dead, tp, batch, p>>
      /\ cur[m] = NULL /\ tp[m] = NULL /\ batch[m] = <<>>
  BY DEF GetFrom, Goto, ownVars, Loads, Load, WithTask
<1>3. CASE HasWork(y)
  <2>1. PICK t \in T :
          /\ cur' = [cur EXCEPT ![m] = t]
          /\ \/ /\ next[y] # NULL /\ next' = [next EXCEPT ![y] = NULL] /\ t = next[y]
                /\ queue' = queue
             \/ /\ queue[y] # <<>> /\ queue' = [queue EXCEPT ![y] = Tail(@)] /\ t = Head(queue[y])
                /\ next' = next
    <3>1. next[y] # NULL => next[y] \in T
      BY <1>1 DEF IInv, Typed
    <3>2. queue[y] # <<>> => Head(queue[y]) \in T
      BY <1>1, HeadTailProperties DEF IInv, Typed
    <3>3. QED
      BY <1>1, <1>3, <3>1, <3>2 DEF GetFrom
  <2>2. pc' = [pc EXCEPT ![m] = IF spinning[m] THEN "reset" ELSE "run"]
    BY <1>1, <1>3 DEF GetFrom, Goto
  <2>3. HandBar[y] = {} /\ HandBar' = [HandBar EXCEPT ![y] = {t}] /\ BatchBar' = BatchBar
    <3>1. OneWorks(m, y)
      BY <1>1, <1>2, <2>1 DEF OneWorks, IInv, Typed
    <3>2. tp'[m] = NULL /\ cur'[m] = t /\ batch'[m] = batch[m]
      BY <1>2, <2>1 DEF IInv, Typed
    <3>3. {cur[m], tp[m]} \ {NULL} = {} /\ {cur'[m], tp'[m]} \ {NULL} = {t}
      BY <1>2, <3>2, SchedAssumption
    <3>4. /\ HandBar[y] = {} /\ HandBar' = [HandBar EXCEPT ![y] = {t}]
          /\ BatchBar[y] = batch[m] /\ BatchBar' = [BatchBar EXCEPT ![y] = batch[m]]
      BY <3>1, <3>2, <3>3, OneMoves
    <3>5. QED
      BY <3>4 DEF BatchBar
  <2>4. WP!TakeNext(y) \/ WP!TakeHead(y)
    <3>1. {t} = HandBar[y] \cup {t}
      BY <2>3
    <3>2. QED
      BY <1>2, <2>1, <2>3, <3>1 DEF WP!TakeNext, WP!TakeHead
  <2>5. Loads'
    BY <1>2, <2>1, <2>2 DEF Loads, Load, WithTask, IInv, Typed
  <2>6. TwoTasks'
    BY <1>2, <2>1 DEF TwoTasks, IInv, Typed
  <2>7. QED
    BY <1>1, <2>4, <2>5, <2>6 DEF Uses, WP!Next
<1>4. CASE ~HasWork(y)
  <2>1. UNCHANGED <<queue, next, cur>> /\ pc' = [pc EXCEPT ![m] = else]
    BY <1>1, <1>4 DEF GetFrom, HasWork, Goto
  <2>2. UNCHANGED taskVars
    BY <1>2, <2>1 DEF taskVars
  <2>3. \A o \in M : Keeps(o)
    BY <1>2, <2>1 DEF Keeps, WithTask, IInv, Typed
  <2>4. QED
    BY <1>2, <2>2, <2>3, LoadsStay, Stutters DEF Uses
<1>5. QED
  BY <1>3, <1>4

LEMMA AcquireUses ==
  ASSUME LInv, NEW m \in M, pc[m] \in {"start", "reidle"}, Acquire(m), UNCHANGED taskVars
  PROVE  Uses
<1>1. Free(m)
  BY DEF LInv, Loads, Load, WithTask, Free
<1>2. \A o \in M \ {m} : p'[o] = p[o]
  BY DEF Acquire, LInv, IInv, Typed
<1>3. QED
  BY <1>1, <1>2, NoneMoves DEF Uses, LInv, IInv

\* Half of n tasks, rounded up, is what a steal may take.
LEMMA HalfBounds ==
  ASSUME NEW n \in Nat, Half(n) > 0 PROVE Half(n) \in 1 .. n /\ 2 * Half(n) <= n + 1
BY DEF Half

LEMMA StealUses ==
  ASSUME LInv, NEW m \in M, NEW v \in P, Steal(m, v) \/ StealNext(m, v)
  PROVE  Uses /\ Loads' /\ TwoTasks'
<1> USE DEF LInv
<1>1. /\ pc[m] = "steal" /\ pc' = [pc EXCEPT ![m] = "stolen"] /\ v # p[m]
      /\ UNCHANGED <<dead, cur, tp, p>>
  BY DEF Steal, StealNext, Goto, ownVars
<1>2. PICK y \in P : y = p[m] /\ pc[m] \in WithP
  BY <1>1 DEF IInv, Views, View, WithP
<1>3. queue[y] = <<>>
  BY <1>1, <1>2 DEF IInv, Empty, Unused, Workless, HasWork
<1>4. cur[m] = NULL /\ tp[m] = NULL /\ batch[m] = <<>>
  BY <1>1 DEF Loads, Load, WithTask
<1>5. PICK b \in Seq(T) :
        /\ batch' = [batch EXCEPT ![m] = b]
        /\ \/ /\ Half(Len(queue[v])) > 0 /\ next' = next /\ b = SubSeq(queue[v], 1, Half(Len(queue[v])))
              /\ queue' = [queue EXCEPT ![v] = SubSeq(@, Half(Len(queue[v])) + 1, Len(queue[v]))]
           \/ /\ b = <<next[v]>> /\ next[v] # NULL /\ next' = [next EXCEPT ![v] = NULL]
              /\ queue' = queue
  <2>1. CASE Steal(m, v)
    <3>1. Half(Len(queue[v])) > 0 /\ queue[v] \in Seq(T)
      BY <2>1 DEF Steal, IInv, Typed
    <3>2. SubSeq(queue[v], 1, Half(Len(queue[v]))) \in Seq(T)
      BY <3>1, StealParts
    <3>3. QED
      BY <2>1, <3>1, <3>2 DEF Steal
  <2>2. CASE StealNext(m, v)
    <3>1. next[v] \in T
      BY <2>2 DEF StealNext, IInv, Typed
    <3>2. <<next[v]>> \in Seq(T)
      BY <3>1
    <3>3. QED
      BY <2>2, <3>2 DEF StealNext
  <2>3. QED
    BY <2>1, <2>2
<1>6. /\ HandBar[y] = {} /\ HandBar' = HandBar
      /\ BatchBar[y] = <<>> /\ BatchBar' = [BatchBar EXCEPT ![y] = b]
  <2>1. OneWorks(m, y)
    BY <1>1, <1>2, <1>5 DEF OneWorks, IInv, Typed
  <2>2. tp'[m] = NULL /\ cur'[m] = NULL /\ batch'[m] = b
    BY <1>1, <1>4, <1>5 DEF IInv, Typed
  <2>3. {cur[m], tp[m]} \ {NULL} = {} /\ {cur'[m], tp'[m]} \ {NULL} = {}
    BY <1>4, <2>2
  <2>4. /\ HandBar[y] = {} /\ HandBar' = [HandBar EXCEPT ![y] = {}]
        /\ BatchBar[y] = batch[m] /\ BatchBar' = [BatchBar EXCEPT ![y] = b]
    BY <2>1, <2>2, <2>3, OneMoves
  <2>5. QED
    BY <1>4, <2>4 DEF HandBar
<1>7. WP!Next
  <2>1. CASE /\ Half(Len(queue[v])) > 0 /\ next' = next /\ b = SubSeq(queue[v], 1, Half(Len(queue[v])))
             /\ queue' = [queue EXCEPT ![v] = SubSeq(@, Half(Len(queue[v])) + 1, Len(queue[v]))]
    <3>1. PICK n \in Nat : n = Len(queue[v])
      BY LenProperties DEF IInv, Typed
    <3>2. PICK k \in 1 .. n : k = Half(n) /\ 2 * k <= n + 1
      BY <2>1, <3>1, HalfBounds
    <3>3. b = SubSeq(queue[v], 1, k) /\ queue' = [queue EXCEPT ![v] = SubSeq(@, k + 1, Len(@))]
      BY <2>1, <3>1, <3>2
    <3>4. WP!StealHalf(y, v, k)
      BY <1>1, <1>2, <1>3, <1>6, <2>1, <3>1, <3>2, <3>3 DEF WP!StealHalf
    <3>5. QED
      BY <3>1, <3>4 DEF WP!Next
  <2>2. CASE b = <<next[v]>> /\ next[v] # NULL /\ next' = [next EXCEPT ![v] = NULL] /\ queue' = queue
    <3>1. WP!StealNext(y, v)
      BY <1>1, <1>2, <1>3, <1>5, <1>6, <2>2 DEF WP!StealNext
    <3>2. QED
      BY <3>1 DEF WP!Next
  <2>3. QED
    BY <1>5, <2>1, <2>2
<1>8. Loads'
  BY <1>1, <1>4, <1>5 DEF Loads, Load, WithTask, IInv, Typed
<1>9. TwoTasks'
  BY <1>1 DEF TwoTasks
<1>10. QED
  BY <1>7, <1>8, <1>9 DEF Uses

LEMMA StealDoneUses ==
  ASSUME LInv, NEW m \in M, StealDone(m) PROVE Uses /\ Loads' /\ TwoTasks'
<1> USE DEF LInv
<1>1. /\ pc[m] = "stolen" /\ pc' = [pc EXCEPT ![m] = "reset"] /\ batch[m] # <<>>
      /\ UNCHANGED <<next, dead, tp, p>>
  BY DEF StealDone, Goto, ownVars, IInv, Views, View
<1>2. PICK y \in P : y = p[m] /\ pc[m] \in WithP
  BY <1>1 DEF IInv, Views, View, WithP
<1>3. cur[m] = NULL /\ tp[m] = NULL
  BY <1>1 DEF Loads, Load, WithTask
<1>4. PICK k \in Nat \ {0}, t \in T : k = Len(batch[m]) /\ t = batch[m][k]
  <2>1. Len(batch[m]) \in Nat \ {0}
    BY <1>1, EmptySeq, LenProperties DEF IInv, Typed
  <2>2. batch[m][Len(batch[m])] \in T
    BY <2>1, ElementOfSeq DEF IInv, Typed
  <2>3. QED
    BY <2>1, <2>2
<1>5. /\ cur' = [cur EXCEPT ![m] = t] /\ batch' = [batch EXCEPT ![m] = <<>>]
      /\ queue' = [queue EXCEPT ![y] = @ \o SubSeq(batch[m], 1, k - 1)]
  BY <1>2, <1>4 DEF StealDone
<1>6. /\ HandBar[y] = {} /\ HandBar' = [HandBar EXCEPT ![y] = {t}]
      /\ BatchBar[y] = batch[m] /\ BatchBar' = [BatchBar EXCEPT ![y] = <<>>]
  <2>1. OneWorks(m, y)
    BY <1>1, <1>2, <1>5 DEF OneWorks, IInv, Typed
  <2>2. tp'[m] = NULL /\ cur'[m] = t /\ batch'[m] = <<>>
    BY <1>1, <1>3, <1>5 DEF IInv, Typed
  <2>3. {cur[m], tp[m]} \ {NULL} = {} /\ {cur'[m], tp'[m]} \ {NULL} = {t}
    BY <1>3, <2>2, SchedAssumption
  <2>4. QED
    BY <2>1, <2>2, <2>3, OneMoves
<1>7. WP!Publish(y)
  <2>1. {t} = HandBar[y] \cup {BatchBar[y][Len(BatchBar[y])]} /\ k = Len(BatchBar[y]) /\ k > 0
    BY <1>4, <1>6
  <2>2. queue' = [queue EXCEPT ![y] = @ \o SubSeq(BatchBar[y], 1, Len(BatchBar[y]) - 1)]
    BY <1>4, <1>5, <1>6
  <2>3. HandBar' = [HandBar EXCEPT ![y] = @ \cup {BatchBar[y][Len(BatchBar[y])]}]
    BY <1>6, <2>1
  <2>4. QED
    BY <1>1, <1>6, <2>1, <2>2, <2>3 DEF WP!Publish
<1>8. Loads'
  BY <1>1, <1>3, <1>5 DEF Loads, Load, WithTask, IInv, Typed
<1>9. TwoTasks'
  BY <1>1, <1>3, <1>5 DEF TwoTasks, IInv, Typed
<1>10. QED
  BY <1>7, <1>8, <1>9 DEF Uses, WP!Next

LEMMA FindUses ==
  ASSUME LInv, NEW m \in M, FindStep(m) PROVE Uses /\ Loads' /\ TwoTasks'
<1>1. CASE Schedule(m)
  BY <1>1, GetUses DEF Schedule
<1>2. CASE FindLocal(m)
  BY <1>2, GetUses DEF FindLocal
<1>3. CASE Start(m)
  <2>1. pc[m] = "start" /\ Acquire(m) /\ UNCHANGED taskVars
    BY <1>3 DEF Start, Goto
  <2>2. \A o \in M : Keeps(o)
    BY <1>3 DEF Start, Goto, Keeps, WithTask, LInv, IInv, Typed
  <2>3. QED
    BY <2>1, <2>2, AcquireUses, LoadsStay DEF LInv
<1>4. CASE LoadSpinning(m) \/ CheckBusy(m) \/ Spin(m) \/ StealNothing(m) \/ ResetSpinning(m)
  <2>1. UNCHANGED taskVars /\ UNCHANGED p
    BY <1>4 DEF LoadSpinning, CheckBusy, Spin, StealNothing, ResetSpinning, ownVars
  <2>2. \A o \in M : Keeps(o)
    BY <1>4 DEF LoadSpinning, CheckBusy, Spin, StealNothing, ResetSpinning, Goto, Keeps, WithTask,
                LInv, IInv, Typed
  <2>3. QED
    BY <2>1, <2>2, LoadsStay, Stutters DEF LInv, Uses
<1>5. QED
  BY <1>1, <1>2, <1>3, <1>4, StealUses, StealDoneUses DEF FindStep

LEMMA StopUses ==
  ASSUME LInv, NEW m \in M, StopStep(m) PROVE Uses /\ Loads' /\ TwoTasks'
<1>1. UNCHANGED taskVars
  BY DEF StopStep, Stop, StopCount, Unspin, RegetNone, RegetCount, Respin, Abort, Recheck, Reget
<1>2. \A o \in M : Keeps(o)
  <2> USE DEF Keeps, WithTask, LInv, IInv, Typed, Goto
  <2>1. CASE Stop(m) \/ StopCount(m) \/ Unspin(m)
    BY <2>1 DEF Stop, StopCount, Unspin
  <2>2. CASE RegetNone(m) \/ RegetCount(m) \/ Respin(m) \/ Abort(m)
    BY <2>2 DEF RegetNone, RegetCount, Respin, Abort
  <2>3. ASSUME NEW x \in P, Recheck(m, x) \/ Reget(m, x) PROVE \A o \in M : Keeps(o)
    BY <2>3 DEF Recheck, Reget
  <2>4. QED
    BY <2>1, <2>2, <2>3 DEF StopStep
<1>3. Uses
  <2>1. CASE Stop(m)
    <3>1. Free(m)
      BY <2>1 DEF Stop, Goto, LInv, Loads, Load, WithTask, Free
    <3>2. \A o \in M \ {m} : p'[o] = p[o]
      BY <2>1 DEF Stop, ownVars, LInv, IInv, Typed
    <3>3. QED
      BY <1>1, <3>1, <3>2, NoneMoves DEF LInv, IInv, Uses
  <2>2. CASE RegetCount(m)
    <3>1. pc[m] = "reidle" /\ Acquire(m)
      BY <2>2 DEF RegetCount, Goto
    <3>2. QED
      BY <1>1, <3>1, AcquireUses
  <2>3. CASE ~Stop(m) /\ ~RegetCount(m)
    <3>1. UNCHANGED p
      BY <2>3 DEF StopStep, StopCount, Unspin, RegetNone, Respin, Abort, Recheck, Reget, ownVars
    <3>2. QED
      BY <1>1, <3>1, Stutters DEF Uses
  <2>4. QED
    BY <2>1, <2>2, <2>3
<1>4. QED
  BY <1>1, <1>2, <1>3, LoadsStay DEF LInv

-----------------------------------------------------------------------------
(* The theorems                                                             *)

LEMMA InitUses == Init => WP!Init /\ Loads /\ TwoTasks
<1> SUFFICES ASSUME Init PROVE WP!Init /\ Loads /\ TwoTasks
  OBVIOUS
<1>1. PICK m0 \in M, p0 \in P, t1 \in T :
        /\ cur = [m \in M |-> IF m = m0 THEN t1 ELSE NULL]
        /\ dead = T \ {t1}
        /\ p = [m \in M |-> IF m = m0 THEN p0 ELSE NULL]
        /\ pc = [m \in M |-> IF m = m0 THEN "run" ELSE "none"]
  BY DEF Init
<1>2. tp = [m \in M |-> NULL] /\ batch = [m \in M |-> <<>>]
  BY DEF Init
<1>3. HandBar = [x \in P |-> IF x = p0 THEN {t1} ELSE {}]
  BY <1>1, <1>2, SchedAssumption DEF HandBar
<1>4. BatchBar = [x \in P |-> <<>>]
  BY <1>1, <1>2 DEF BatchBar, Stolen, OnlyOne
<1>5. WP!Init
  BY <1>1, <1>3, <1>4 DEF WP!Init, Init
<1>6. Loads /\ TwoTasks
  BY <1>1, <1>2 DEF Loads, Load, TwoTasks, WithTask
<1>7. QED
  BY <1>5, <1>6

LEMMA InitQueues == Init => LInv
<1>1. Init => IInv
  BY InitInv
<1>2. WP!Init => Queues
  BY WP!InitAlone, SchedAssumption DEF Queues
<1>3. QED
  BY <1>1, <1>2, InitUses DEF LInv

LEMMA NextUses == LInv /\ [Next]_vars => LInv' /\ [WP!Next]_WP!vars
<1> SUFFICES ASSUME LInv, [Next]_vars PROVE LInv' /\ [WP!Next]_WP!vars
  OBVIOUS
<1>1. Uses /\ Loads' /\ TwoTasks'
  <2>1. CASE UNCHANGED vars
    <3>1. UNCHANGED taskVars /\ UNCHANGED p /\ UNCHANGED pc
      BY <2>1 DEF vars, ownVars
    <3>2. QED
      BY <3>1, Stutters, LoadsStay DEF Uses, LInv, Keeps
  <2>2. QED
    BY <2>1, TaskUses, WakeUses, FindUses, StopUses DEF Next, Halted
<1>2. IInv'
  BY NextInv DEF LInv
<1>3. Queues'
  BY <1>1, WP!NextAlone, SchedAssumption DEF LInv, Queues, Uses
<1>4. QED
  BY <1>1, <1>2, <1>3 DEF LInv, Uses

\* The mapping of WP is that of Work.
LEMMA SameMapping ==
  (WP!Init => Work!Init) /\ ([WP!Next]_WP!vars => [Work!Next]_Work!vars)
BY DEF WP!Init, WP!Next, WP!vars, WP!Spawn, WP!Exit, WP!PutNext, WP!PutTail, WP!TakeNext, WP!TakeHead,
       WP!StealHalf, WP!StealNext, WP!Publish,
       Work!Init, Work!Next, Work!vars, Work!Spawn, Work!Exit, Work!PutNext, Work!PutTail,
       Work!TakeNext, Work!TakeHead, Work!StealHalf, Work!StealNext, Work!Publish,
       HandBar, BatchBar

LEMMA UseInvariance == Spec => []LInv
<1>1. QED
  BY InitQueues, NextUses, PTL DEF Spec

\* The Ms use the run queues as their promise allows: a queue is put to and
\* taken from by the M that has its P only, and a P steals only when it has
\* nothing to run, whichever M has it and however it came by it.
THEOREM SchedUsesWorkQueues == Spec => UsesWorkQueues
<1>1. LInv /\ [Next]_vars => [Work!Next]_Work!vars
  BY NextUses, SameMapping
<1>2. Init => Work!Init
  BY InitUses, SameMapping
<1>3. QED
  BY <1>1, <1>2, UseInvariance, PTL DEF Spec, UsesWorkQueues, Work!Spec

-----------------------------------------------------------------------------
(* Where a task is                                                          *)

\* Task t is dead, in M.curt or on its way to a queue or from one, or in a queue.
Where(t, s, x, i) ==
  \/ s = "dead" /\ x = t /\ i = 0 /\ t \in dead
  \/ /\ x \in M
     /\ \/ s = "runs" /\ i = 0 /\ cur[x] = t
        \/ s = "puts" /\ i = 0 /\ tp[x] = t
        \/ s = "batch" /\ i \in Nat \ {0} /\ i <= Len(batch[x]) /\ batch[x][i] = t
  \/ /\ x \in P
     /\ \/ s = "next" /\ i = 0 /\ next[x] = t
        \/ s = "queue" /\ i \in Nat \ {0} /\ i <= Len(queue[x]) /\ queue[x][i] = t

\* ... and nowhere else.
OnePlace(t) ==
  \E s, x, i : /\ Where(t, s, x, i)
              /\ \A s2, x2, i2 : Where(t, s2, x2, i2) => s2 = s /\ x2 = x /\ i2 = i

EachInOnePlace == \A t \in T : OnePlace(t)

\* A place of a task is one of its places in the mapping.
LEMMA WhereHeld ==
  ASSUME LInv, NEW t \in T
  PROVE  /\ \A x, i : Where(t, "dead", x, i) => WP!Held(t, "dead", t, 0)
         /\ \A x, i : Where(t, "next", x, i) => WP!Held(t, "next", x, 0)
         /\ \A x, i : Where(t, "queue", x, i) => WP!Held(t, "queue", x, i)
         /\ \A m, i : Where(t, "runs", m, i) \/ Where(t, "puts", m, i) =>
              m \in M /\ pc[m] \in WithP /\ WP!Held(t, "hand", p[m], t)
         /\ \A m, i : Where(t, "batch", m, i) =>
              m \in M /\ pc[m] \in WithP /\ WP!Held(t, "batch", p[m], i)
<1> USE DEF LInv
<1>1. /\ \A x, i : Where(t, "dead", x, i) => WP!Held(t, "dead", t, 0)
      /\ \A x, i : Where(t, "next", x, i) => WP!Held(t, "next", x, 0)
      /\ \A x, i : Where(t, "queue", x, i) => WP!Held(t, "queue", x, i)
  BY DEF Where, WP!Held
<1>2. ASSUME NEW m, NEW i, Where(t, "runs", m, i) \/ Where(t, "puts", m, i)
      PROVE  m \in M /\ pc[m] \in WithP /\ WP!Held(t, "hand", p[m], t)
  <2>1. m \in M /\ (cur[m] = t \/ tp[m] = t) /\ t # NULL
    BY <1>2, SchedAssumption DEF Where
  <2>2. pc[m] \in WithP
    BY <2>1 DEF Loads, Load, WithP, WithTask
  <2>3. p[m] \in P /\ t \in HandBar[p[m]]
    BY <2>1, <2>2, ActiveHands
  <2>4. QED
    BY <2>1, <2>2, <2>3 DEF WP!Held
<1>3. ASSUME NEW m, NEW i, Where(t, "batch", m, i)
      PROVE  m \in M /\ pc[m] \in WithP /\ WP!Held(t, "batch", p[m], i)
  <2>1. m \in M /\ i \in Nat \ {0} /\ i <= Len(batch[m]) /\ batch[m][i] = t
    BY <1>3 DEF Where
  <2>2. pc[m] \in WithP
    <3>1. batch[m] # <<>>
      BY <2>1, EmptySeq DEF IInv, Typed
    <3>2. QED
      BY <2>1, <3>1 DEF Loads, Load, WithP
  <2>3. p[m] \in P /\ BatchBar[p[m]] = batch[m]
    BY <2>1, <2>2, ActiveHands
  <2>4. QED
    BY <2>1, <2>2, <2>3 DEF WP!Held
<1>4. QED
  BY <1>1, <1>2, <1>3

\* A task has a place.
LEMMA SomePlace == ASSUME LInv, NEW t \in T PROVE \E s, x, i : Where(t, s, x, i)
<1> USE DEF LInv
<1>1. PICK s, y, j : WP!Held(t, s, y, j)
  BY DEF Queues, WP!AllAlone, WP!Alone, WP!At
<1>2. CASE s = "dead" \/ s = "next" \/ s = "queue"
  <2>1. Where(t, s, y, j)
    BY <1>1, <1>2 DEF WP!Held, Where
  <2>2. QED
    BY <2>1
<1>3. CASE s = "hand"
  <2>1. PICK m \in M : t \in {cur[m], tp[m]}
    BY <1>1, <1>3 DEF WP!Held, HandBar
  <2>2. Where(t, "runs", m, 0) \/ Where(t, "puts", m, 0)
    BY <2>1 DEF Where
  <2>3. QED
    BY <2>2
<1>4. CASE s = "batch"
  <2>1. y \in P /\ j \in Nat \ {0} /\ j <= Len(BatchBar[y]) /\ BatchBar[y][j] = t
    BY <1>1, <1>4 DEF WP!Held
  <2>2. BatchBar[y] # <<>>
    <3>1. Len(<<>>) = 0
      OBVIOUS
    <3>2. QED
      BY <2>1, <3>1
  <2>3. BatchBar[y] \in Stolen(y)
    BY <2>1, <2>2 DEF BatchBar, OnlyOne
  <2>4. PICK m \in M : batch[m] = BatchBar[y]
    BY <2>3 DEF Stolen
  <2>5. Where(t, "batch", m, j)
    BY <2>1, <2>4 DEF Where
  <2>6. QED
    BY <2>5
<1>5. QED
  BY <1>1, <1>2, <1>3, <1>4 DEF WP!Held

\* ... and no two.
LEMMA NoTwoPlaces ==
  ASSUME LInv, NEW t \in T, NEW s, NEW x, NEW i, NEW s2, NEW x2, NEW i2,
         Where(t, s, x, i), Where(t, s2, x2, i2)
  PROVE  s2 = s /\ x2 = x /\ i2 = i
<1> USE DEF LInv
<1>1. \A a, y, j, a2, y2, j2 :
        WP!Held(t, a, y, j) /\ WP!Held(t, a2, y2, j2) => a2 = a /\ y2 = y /\ j2 = j
  BY DEF Queues, WP!AllAlone, WP!Alone, WP!At
<1>2. \A m1, m2 \in M : /\ pc[m1] \in WithP /\ pc[m2] \in WithP /\ p[m1] = p[m2] /\ p[m1] \in P
                       => m1 = m2
  BY DEF IInv, Apart, Holds
<1>3. \A m \in M : pc[m] \in WithP => p[m] \in P
  BY DEF IInv, Views, View
<1> DEFINE InHands == {"runs", "puts"}
<1>4. s \in {"dead", "next", "queue", "batch"} \cup InHands /\ s2 \in {"dead", "next", "queue", "batch"} \cup InHands
  BY DEF Where
<1>5. CASE s \in InHands
  <2>1. x \in M /\ pc[x] \in WithP /\ WP!Held(t, "hand", p[x], t)
    BY <1>5, WhereHeld
  <2>2. s2 \in InHands
    BY <1>1, <1>4, <2>1, WhereHeld
  <2>3. x2 \in M /\ pc[x2] \in WithP /\ WP!Held(t, "hand", p[x2], t)
    BY <2>2, WhereHeld
  <2>4. x2 = x
    BY <1>1, <1>2, <1>3, <2>1, <2>3
  <2>5. tp[x] = t => cur[x] # t
    BY <2>1, SchedAssumption DEF TwoTasks
  <2>6. QED
    BY <1>5, <2>2, <2>4, <2>5 DEF Where
<1>6. CASE s = "batch"
  <2>1. x \in M /\ pc[x] \in WithP /\ WP!Held(t, "batch", p[x], i)
    BY <1>6, WhereHeld
  <2>2. s2 = "batch"
    BY <1>1, <1>4, <2>1, WhereHeld
  <2>3. x2 \in M /\ pc[x2] \in WithP /\ WP!Held(t, "batch", p[x2], i2)
    BY <2>2, WhereHeld
  <2>4. QED
    BY <1>1, <1>2, <1>3, <1>6, <2>1, <2>2, <2>3
<1>7. CASE s \in {"dead", "next", "queue"}
  <2>1. s2 = s
    BY <1>1, <1>4, <1>7, WhereHeld
  <2>2. CASE s = "dead"
    BY <2>1, <2>2 DEF Where
  <2>3. CASE s \in {"next", "queue"}
    BY <1>1, <2>1, <2>3, WhereHeld DEF Where
  <2>4. QED
    BY <1>7, <2>2, <2>3
<1>8. QED
  BY <1>4, <1>5, <1>6, <1>7

\* The scheduler as a whole neither loses a task nor runs it on two Ms: a task is
\* dead, run or being put by one M, in one slot, or at one index of one queue or
\* of what one M stole.
THEOREM TaskInOnePlace == Spec => []EachInOnePlace
<1>1. LInv => EachInOnePlace
  BY SomePlace, NoTwoPlaces DEF EachInOnePlace, OnePlace
<1>2. QED
  BY <1>1, UseInvariance, PTL
=============================================================================
