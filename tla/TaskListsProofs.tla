-------------------------- MODULE TaskListsProofs --------------------------
(* Every dead task is on exactly one list, and the counters count what the  *)
(* lists hold, for any number of tasks and Ps and any bounds of a refill    *)
(* and a spill.  A list is a stack: e[x][r] is its task at height r from    *)
(* the bottom and c[x] its height.  Pushing, popping, and moving a batch    *)
(* from one stack to another, upside down or not, keep the stacks apart.    *)
EXTENDS TaskLists, FiniteSetTheorems, WellFoundedInduction, TLAPS

Entries == Task \cup {NoTask}

Top(e, c, x) == IF c[x] = 0 THEN NoTask ELSE e[x][c[x] - 1]
Under(e, x, r) == IF r = 0 THEN NoTask ELSE e[x][r - 1]

\* The links l make stacks of the tasks in D, with the contents e and heights c.
Stacks(l, e, c, D) ==
  /\ l \in [Task -> Entries] /\ e \in [Heads -> [Nat -> Entries]] /\ c \in [Heads -> Nat]
  /\ \A x \in Heads : \A r \in Nat : r < c[x] => e[x][r] \in D /\ l[e[x][r]] = Under(e, x, r)
  /\ \A x, y \in Heads : \A r, k \in Nat :
       r < c[x] /\ k < c[y] /\ e[x][r] = e[y][k] => x = y /\ r = k
  /\ D \subseteq Task
  /\ \A t \in D : \E x \in Heads : \E r \in Nat : r < c[x] /\ e[x][r] = t

-----------------------------------------------------------------------------
(* Walking down a stack                                                     *)

\* A set of numbers has a least one.
LEMMA Least == ASSUME NEW S, S \subseteq Nat, S # {} PROVE \E n \in S : \A j \in S : n <= j
<1>1. PICK n \in S : \A j \in S : ~(<<j, n>> \in OpToRel(<, Nat))
  BY NatLessThanWellFounded, WFMin
<1>2. \A j \in S : ~(j < n)
  BY <1>1 DEF OpToRel
<1>3. QED
  BY <1>2

Follow(l, t) == IF t = NoTask THEN NoTask ELSE l[t]
Walk(l, h, n, f) ==
  f = [i \in 0 .. n |-> IF i = 0 THEN h ELSE IF f[i-1] = NoTask THEN NoTask ELSE l[f[i-1]]]

\* What is found by walking is determined, step by step.
LEMMA WalkUnique ==
  ASSUME NEW l, NEW h, NEW n \in Nat, NEW f, NEW g, Walk(l, h, n, f), Walk(l, h, n, g)
  PROVE  f[n] = g[n]
<1> DEFINE S == {i \in 0 .. n : f[i] # g[i]}
<1>1. SUFFICES ASSUME S # {} PROVE FALSE
  OBVIOUS
<1>2. PICK i \in S : \A j \in S : i <= j
  <2>1. S \subseteq Nat
    OBVIOUS
  <2>2. QED
    BY <1>1, <2>1, Least
<1>3. i \in 0 .. n /\ f[i] # g[i]
  BY <1>2
<1>4. f[0] = h /\ g[0] = h
  BY DEF Walk
<1>5. i # 0
  BY <1>3, <1>4
<1>6. i - 1 \in 0 .. n /\ i - 1 \notin S
  BY <1>2, <1>3, <1>5
<1>7. f[i - 1] = g[i - 1]
  BY <1>6
<1>8. f[i] = Follow(l, f[i - 1]) /\ g[i] = Follow(l, g[i - 1])
  BY <1>3, <1>5 DEF Walk, Follow
<1>9. QED
  BY <1>3, <1>7, <1>8

\* The element number i from the top.
At(e, c, x, i) == IF i < c[x] THEN e[x][c[x] - 1 - i] ELSE NoTask

LEMMA AtNext ==
  ASSUME NEW l, NEW e, NEW c, NEW D, Stacks(l, e, c, D), NEW x \in Heads, NEW i \in Nat
  PROVE  At(e, c, x, i + 1) = Follow(l, At(e, c, x, i))
<1>0. c[x] \in Nat /\ NoTask \notin D
  BY TaskListsAssumption DEF Stacks
<1>1. CASE i < c[x]
  <2>1. c[x] - 1 - i \in Nat /\ c[x] - 1 - i < c[x]
    BY <1>0, <1>1
  <2>2. e[x][c[x] - 1 - i] \in D /\ l[e[x][c[x] - 1 - i]] = Under(e, x, c[x] - 1 - i)
    BY <2>1 DEF Stacks
  <2>3. Under(e, x, c[x] - 1 - i) = At(e, c, x, i + 1)
    BY <1>0, <1>1 DEF Under, At
  <2>4. QED
    BY <1>0, <1>1, <2>2, <2>3 DEF At, Follow
<1>2. CASE ~(i < c[x])
  BY <1>0, <1>2 DEF At, Follow
<1>3. QED
  BY <1>1, <1>2

LEMMA NthAt ==
  ASSUME NEW l, NEW e, NEW c, NEW D, Stacks(l, e, c, D), NEW x \in Heads, NEW n \in Nat
  PROVE  Nth(l, Top(e, c, x), n) = At(e, c, x, n)
<1> DEFINE h == Top(e, c, x)
           g == [i \in 0 .. n |-> At(e, c, x, i)]
           F == CHOOSE f : Walk(l, h, n, f)
<1>0. c[x] \in Nat
  BY DEF Stacks
<1>1. At(e, c, x, 0) = h
  BY <1>0 DEF At, Top
<1>2. ASSUME NEW i \in 0 .. n
      PROVE  g[i] = IF i = 0 THEN h ELSE IF g[i-1] = NoTask THEN NoTask ELSE l[g[i-1]]
  <2>1. CASE i = 0
    BY <1>1, <2>1
  <2>2. CASE i # 0
    <3>1. i - 1 \in Nat /\ i - 1 \in 0 .. n /\ (i - 1) + 1 = i
      BY <2>2
    <3>2. At(e, c, x, i) = Follow(l, At(e, c, x, i - 1))
      BY <3>1, AtNext
    <3>3. QED
      BY <2>2, <3>1, <3>2 DEF Follow
  <2>3. QED
    BY <2>1, <2>2
<1>3. Walk(l, h, n, g)
  BY <1>2 DEF Walk
<1>4. Walk(l, h, n, F)
  BY <1>3
<1>5. F[n] = g[n]
  <2> HIDE DEF F, g, h
  <2>1. QED
    BY <1>3, <1>4, WalkUnique
<1>6. Nth(l, h, n) = F[n]
  BY DEF Nth, Walk
<1>7. QED
  BY <1>5, <1>6

\* The tops of a stack are different.
LEMMA AtApart ==
  ASSUME NEW l, NEW e, NEW c, NEW D, Stacks(l, e, c, D), NEW x \in Heads,
         NEW i \in Nat, NEW j \in Nat, i < c[x], At(e, c, x, i) = At(e, c, x, j)
  PROVE  i = j
<1>1. c[x] \in Nat /\ NoTask \notin D
  BY TaskListsAssumption DEF Stacks
<1>2. c[x] - 1 - i \in Nat /\ c[x] - 1 - i < c[x] /\ e[x][c[x] - 1 - i] \in D
  BY <1>1 DEF Stacks
<1>3. j < c[x]
  BY <1>1, <1>2 DEF At
<1>4. c[x] - 1 - j \in Nat /\ c[x] - 1 - j < c[x]
  BY <1>1, <1>3
<1>5. e[x][c[x] - 1 - i] = e[x][c[x] - 1 - j]
  BY <1>3 DEF At
<1>6. c[x] - 1 - i = c[x] - 1 - j
  BY <1>2, <1>4, <1>5 DEF Stacks
<1>7. QED
  BY <1>1, <1>6

LEMMA AtTask ==
  ASSUME NEW l, NEW e, NEW c, NEW D, Stacks(l, e, c, D), NEW x \in Heads, NEW i \in Nat
  PROVE  /\ c[x] \in Nat /\ NoTask \notin D /\ D \subseteq Task
         /\ i < c[x] => At(e, c, x, i) \in D /\ At(e, c, x, i) = e[x][c[x] - 1 - i]
         /\ ~(i < c[x]) => At(e, c, x, i) = NoTask
         /\ At(e, c, x, i) = NoTask => ~(i < c[x])
<1>1. c[x] \in Nat /\ NoTask \notin D /\ D \subseteq Task
  BY TaskListsAssumption DEF Stacks
<1>2. ASSUME i < c[x] PROVE c[x] - 1 - i \in Nat /\ c[x] - 1 - i < c[x]
  BY <1>1, <1>2
<1>3. QED
  BY <1>1, <1>2 DEF Stacks, At

\* Popping n and pushing each: only the links of these turn.
LEMMA TurnedLinks ==
  ASSUME NEW l, NEW e, NEW c, NEW D, Stacks(l, e, c, D), NEW x \in Heads,
         NEW n \in Nat, n <= c[x], NEW onto \in Entries
  PROVE  LET T == Turned(l, Top(e, c, x), n, onto) IN
         /\ T \in [Task -> Entries]
         /\ \A i \in 0 .. n - 1 :
              T[At(e, c, x, i)] = IF i = 0 THEN onto ELSE At(e, c, x, i - 1)
         /\ \A t \in Task : (\A i \in 0 .. n - 1 : t # At(e, c, x, i)) => T[t] = l[t]
<1> DEFINE h == Top(e, c, x)
           T == Turned(l, h, n, onto)
           Place(t) == CHOOSE j \in 0 .. n - 1 : Nth(l, h, j) = t
<1>1. \A i \in Nat : Nth(l, h, i) = At(e, c, x, i)
  BY NthAt
<1>2. \A i \in 0 .. n - 1 : i \in Nat /\ i < c[x] /\ At(e, c, x, i) \in Task
  BY AtTask
<1>3. /\ T = [t \in Task |-> T[t]]
      /\ \A t \in Task : T[t] = IF \E i \in 0 .. n - 1 : Nth(l, h, i) = t
                              THEN IF Place(t) = 0 THEN onto ELSE Nth(l, h, Place(t) - 1)
                              ELSE l[t]
  BY DEF Turned
<1>4. ASSUME NEW i \in 0 .. n - 1
      PROVE  T[At(e, c, x, i)] = IF i = 0 THEN onto ELSE At(e, c, x, i - 1)
  <2> DEFINE t == At(e, c, x, i)
  <2>1. t \in Task /\ Nth(l, h, i) = t
    BY <1>1, <1>2
  <2>2. Place(t) \in 0 .. n - 1 /\ Nth(l, h, Place(t)) = t
    BY <2>1
  <2>3. Place(t) = i
    <3>1. At(e, c, x, i) = At(e, c, x, Place(t))
      BY <1>1, <1>2, <2>2
    <3> HIDE DEF Place, t
    <3>2. QED
      BY <1>2, <2>2, <3>1, AtApart
  <2>4. i # 0 => Nth(l, h, i - 1) = At(e, c, x, i - 1)
    BY <1>1
  <2> HIDE DEF Place, T
  <2>5. QED
    BY <1>3, <2>1, <2>3, <2>4
<1>5. ASSUME NEW t \in Task PROVE T[t] \in Entries
  <2>1. CASE \E i \in 0 .. n - 1 : At(e, c, x, i) = t
    <3>1. PICK i \in 0 .. n - 1 : At(e, c, x, i) = t
      BY <2>1
    <3>2. i # 0 => i - 1 \in 0 .. n - 1
      BY <1>2
    <3>3. i # 0 => At(e, c, x, i - 1) \in Entries
      BY <1>2, <3>2 DEF Entries
    <3>4. QED
      BY <1>4, <3>1, <3>3
  <2>2. CASE ~ \E i \in 0 .. n - 1 : At(e, c, x, i) = t
    <3>1. l[t] \in Entries
      BY DEF Stacks
    <3>2. QED
      BY <1>1, <1>2, <1>3, <2>2, <3>1
  <2>3. QED
    BY <2>1, <2>2
<1>6. T \in [Task -> Entries]
  BY <1>3, <1>5
<1>7. \A t \in Task : (\A i \in 0 .. n - 1 : t # At(e, c, x, i)) => T[t] = l[t]
  BY <1>1, <1>2, <1>3
<1>8. QED
  BY <1>4, <1>6, <1>7

-----------------------------------------------------------------------------
(* What is done to stacks                                                   *)

\* Links of tasks that are on no stack do not matter.
LEMMA OtherLinks ==
  ASSUME NEW l, NEW e, NEW c, NEW D, Stacks(l, e, c, D),
         NEW k \in [Task -> Entries], \A t \in D : k[t] = l[t]
  PROVE  Stacks(k, e, c, D)
BY DEF Stacks

LEMMA PushTask ==
  ASSUME NEW l, NEW e, NEW c, NEW D, Stacks(l, e, c, D), NEW x \in Heads, NEW t \in Task \ D
  PROVE  Stacks([l EXCEPT ![t] = Top(e, c, x)],
                [e EXCEPT ![x] = [@ EXCEPT ![c[x]] = t]], [c EXCEPT ![x] = @ + 1], D \cup {t})
<1> DEFINE k == [l EXCEPT ![t] = Top(e, c, x)]
           f == [e EXCEPT ![x] = [@ EXCEPT ![c[x]] = t]]
           d == [c EXCEPT ![x] = @ + 1]
<1>1. /\ l \in [Task -> Entries] /\ e \in [Heads -> [Nat -> Entries]] /\ c \in [Heads -> Nat]
      /\ c[x] \in Nat /\ D \subseteq Task /\ NoTask \notin Task /\ t \in Task
  BY TaskListsAssumption DEF Stacks
<1>2. Top(e, c, x) \in Entries
  BY <1>1 DEF Top, Entries
<1>3. /\ k \in [Task -> Entries] /\ f \in [Heads -> [Nat -> Entries]] /\ d \in [Heads -> Nat]
      /\ D \cup {t} \subseteq Task
  BY <1>1, <1>2 DEF Entries
<1>4. ASSUME NEW y \in Heads, NEW r \in Nat, r < d[y]
      PROVE  \/ y = x /\ r = c[x] /\ f[y][r] = t
             \/ r < c[y] /\ f[y][r] = e[y][r] /\ e[y][r] \in D
  <2>1. CASE y = x /\ r = c[x]
    BY <1>1, <2>1
  <2>2. CASE ~(y = x /\ r = c[x])
    <3>1. r < c[y]
      <4>1. d[y] = IF y = x THEN c[x] + 1 ELSE c[y]
        BY <1>1
      <4> HIDE DEF d
      <4>2. CASE y = x
        BY <1>1, <1>4, <2>2, <4>1, <4>2
      <4>3. QED
        BY <1>4, <4>1, <4>2
    <3>2. f[y][r] = e[y][r]
      BY <1>1, <2>2
    <3>3. e[y][r] \in D
      BY <3>1 DEF Stacks
    <3>4. QED
      BY <3>1, <3>2, <3>3
  <2>3. QED
    BY <2>1, <2>2
<1>5. ASSUME NEW y \in Heads, NEW r \in Nat, r < c[y] PROVE f[y][r] = e[y][r] /\ r < d[y]
  BY <1>1, <1>5
<1>6. ASSUME NEW y \in Heads, NEW r \in Nat, r < d[y]
      PROVE  f[y][r] \in D \cup {t} /\ k[f[y][r]] = Under(f, y, r)
  <2>1. CASE y = x /\ r = c[x] /\ f[y][r] = t
    <3>1. k[t] = Top(e, c, x)
      BY <1>1
    <3>2. r # 0 => r - 1 \in Nat /\ r - 1 < c[x]
      BY <1>1, <2>1
    <3>3. Under(f, y, r) = Top(e, c, x)
      BY <1>5, <2>1, <3>2 DEF Under, Top
    <3>4. QED
      BY <2>1, <3>1, <3>3
  <2>2. CASE r < c[y] /\ f[y][r] = e[y][r] /\ e[y][r] \in D
    <3>1. l[e[y][r]] = Under(e, y, r)
      BY <2>2 DEF Stacks
    <3>2. k[e[y][r]] = l[e[y][r]]
      BY <1>1, <2>2
    <3>3. r # 0 => r - 1 \in Nat /\ r - 1 < c[y]
      BY <1>1, <2>2
    <3>4. Under(f, y, r) = Under(e, y, r)
      BY <1>5, <3>3 DEF Under
    <3>5. QED
      BY <2>2, <3>1, <3>2, <3>4
  <2>3. QED
    BY <1>4, <1>6, <2>1, <2>2
<1>7. ASSUME NEW y \in Heads, NEW z \in Heads, NEW r \in Nat, NEW q \in Nat,
             r < d[y], q < d[z], f[y][r] = f[z][q]
      PROVE  y = z /\ r = q
  <2>1. \/ y = x /\ r = c[x] /\ f[y][r] = t
        \/ r < c[y] /\ f[y][r] = e[y][r] /\ e[y][r] \in D
    BY <1>4, <1>7
  <2>2. \/ z = x /\ q = c[x] /\ f[z][q] = t
        \/ q < c[z] /\ f[z][q] = e[z][q] /\ e[z][q] \in D
    BY <1>4, <1>7
  <2>3. CASE f[y][r] = t
    BY <1>7, <2>1, <2>2, <2>3
  <2>4. CASE r < c[y] /\ q < c[z] /\ e[y][r] = e[z][q]
    BY <2>4 DEF Stacks
  <2>5. QED
    BY <1>7, <2>1, <2>2, <2>3, <2>4
<1>8. ASSUME NEW u \in D \cup {t} PROVE \E y \in Heads : \E r \in Nat : r < d[y] /\ f[y][r] = u
  <2>1. CASE u = t
    <3>1. c[x] < d[x] /\ f[x][c[x]] = t
      BY <1>1
    <3>2. QED
      BY <1>1, <2>1, <3>1
  <2>2. CASE u \in D
    <3>1. PICK y \in Heads, r \in Nat : r < c[y] /\ e[y][r] = u
      BY <2>2 DEF Stacks
    <3>2. QED
      BY <1>5, <3>1
  <2>3. QED
    BY <2>1, <2>2
<1> HIDE DEF k, f, d
<1>9. Stacks(k, f, d, D \cup {t})
  BY <1>3, <1>6, <1>7, <1>8 DEF Stacks
<1>10. QED
  BY <1>9 DEF k, f, d

LEMMA PopTask ==
  ASSUME NEW l, NEW e, NEW c, NEW D, Stacks(l, e, c, D), NEW x \in Heads, c[x] > 0
  PROVE  /\ Top(e, c, x) \in D
         /\ l[Top(e, c, x)] = Top(e, [c EXCEPT ![x] = @ - 1], x)
         /\ Stacks(l, e, [c EXCEPT ![x] = @ - 1], D \ {Top(e, c, x)})
<1> DEFINE d == [c EXCEPT ![x] = @ - 1]
           t == e[x][c[x] - 1]
<1>1. /\ c \in [Heads -> Nat] /\ c[x] \in Nat /\ c[x] - 1 \in Nat /\ c[x] - 1 < c[x] /\ d[x] = c[x] - 1
      /\ D \subseteq Task /\ d \in [Heads -> Nat] /\ Top(e, c, x) = t
  BY DEF Stacks, Top
<1>2. t \in D /\ l[t] = Under(e, x, c[x] - 1)
  BY <1>1 DEF Stacks
<1>3. Under(e, x, c[x] - 1) = Top(e, d, x)
  BY <1>1 DEF Under, Top
<1>4. ASSUME NEW y \in Heads, NEW r \in Nat
      PROVE  /\ r < d[y] => r < c[y] /\ ~(y = x /\ r = c[x] - 1)
             /\ r < c[y] /\ ~(y = x /\ r = c[x] - 1) => r < d[y]
  BY <1>1
<1>5. ASSUME NEW y \in Heads, NEW r \in Nat, r < d[y]
      PROVE  e[y][r] \in D \ {t} /\ l[e[y][r]] = Under(e, y, r)
  <2>1. e[y][r] \in D /\ l[e[y][r]] = Under(e, y, r)
    BY <1>4, <1>5 DEF Stacks
  <2>2. e[y][r] # t
    BY <1>1, <1>4, <1>5 DEF Stacks
  <2>3. QED
    BY <2>1, <2>2
<1>6. ASSUME NEW u \in D \ {t} PROVE \E y \in Heads : \E r \in Nat : r < d[y] /\ e[y][r] = u
  <2>1. PICK y \in Heads, r \in Nat : r < c[y] /\ e[y][r] = u
    BY DEF Stacks
  <2>2. ~(y = x /\ r = c[x] - 1)
    BY <2>1
  <2>3. QED
    BY <1>4, <2>1, <2>2
<1>7. \A y, z \in Heads : \A r, q \in Nat :
        r < d[y] /\ q < d[z] /\ e[y][r] = e[z][q] => y = z /\ r = q
  BY <1>4 DEF Stacks
<1>8. Stacks(l, e, d, D \ {t})
  <2> HIDE DEF d, t
  <2>1. l \in [Task -> Entries] /\ e \in [Heads -> [Nat -> Entries]]
    BY DEF Stacks
  <2>2. QED
    BY <1>1, <1>5, <1>6, <1>7, <2>1 DEF Stacks
<1>9. QED
  BY <1>1, <1>2, <1>3, <1>8

\* The contents after the n tasks b[0], b[1], ... were put on the stack y.
Piled(e, c, y, b, n) ==
  [e EXCEPT ![y] = [r \in Nat |-> IF r < c[y] THEN e[y][r] ELSE IF r < c[y] + n THEN b[r - c[y]] ELSE NoTask]]

LEMMA PlaceUnder ==
  ASSUME NEW r \in Nat, NEW m \in Nat, NEW n \in Nat, r - m \in 0 .. n - 1, r # m
  PROVE  /\ r # 0 /\ r - 1 \in Nat /\ (r - 1) - m \in 0 .. n - 1 /\ (r - 1) - m = (r - m) - 1
         /\ ~(r - 1 < m) /\ r - 1 < m + n /\ r - m # 0
OBVIOUS

\* The n tasks on top of x, popped and pushed one by one on y.
LEMMA MoveTasks ==
  ASSUME NEW l, NEW e, NEW c, NEW D, Stacks(l, e, c, D), NEW x \in Heads, NEW y \in Heads, x # y,
         NEW n \in Nat, n <= c[x], NEW b, \A i \in 0 .. n - 1 : b[i] = At(e, c, x, i)
  PROVE  Stacks(Turned(l, Top(e, c, x), n, Top(e, c, y)),
                Piled(e, c, y, b, n), [c EXCEPT ![x] = @ - n, ![y] = @ + n], D)
<1> DEFINE k == Turned(l, Top(e, c, x), n, Top(e, c, y))
           f == Piled(e, c, y, b, n)
           d == [c EXCEPT ![x] = @ - n, ![y] = @ + n]
<1>1. /\ l \in [Task -> Entries] /\ e \in [Heads -> [Nat -> Entries]] /\ c \in [Heads -> Nat]
      /\ c[x] \in Nat /\ c[y] \in Nat /\ D \subseteq Task /\ NoTask \notin Task
  BY TaskListsAssumption DEF Stacks
<1>2. Top(e, c, y) \in Entries
  BY <1>1 DEF Top, Entries
<1>3. /\ k \in [Task -> Entries]
      /\ \A i \in 0 .. n - 1 : k[At(e, c, x, i)] = IF i = 0 THEN Top(e, c, y) ELSE At(e, c, x, i - 1)
      /\ \A t \in Task : (\A i \in 0 .. n - 1 : t # At(e, c, x, i)) => k[t] = l[t]
  BY <1>2, TurnedLinks
<1>4. \A i \in 0 .. n - 1 : /\ i \in Nat /\ i < c[x] /\ b[i] = At(e, c, x, i)
                            /\ c[x] - 1 - i \in Nat /\ b[i] \in D /\ b[i] = e[x][c[x] - 1 - i]
  <2>1. \A i \in 0 .. n - 1 : i \in Nat /\ i < c[x]
    BY <1>1
  <2>2. QED
    BY <1>1, <2>1, AtTask
<1>5. d \in [Heads -> Nat] /\ d[x] = c[x] - n /\ d[y] = c[y] + n
      /\ \A z \in Heads : z # x /\ z # y => d[z] = c[z]
  BY <1>1
<1>6. /\ f \in [Heads -> [Nat -> Entries]]
      /\ \A z \in Heads : z # y => f[z] = e[z]
      /\ \A r \in Nat : f[y][r] = IF r < c[y] THEN e[y][r] ELSE IF r < c[y] + n THEN b[r - c[y]] ELSE NoTask
  <2>1. ASSUME NEW r \in Nat PROVE (IF r < c[y] THEN e[y][r] ELSE IF r < c[y] + n THEN b[r - c[y]] ELSE NoTask) \in Entries
    BY <1>1, <1>4 DEF Entries
  <2>2. QED
    BY <1>1, <2>1 DEF Piled
<1> HIDE DEF k, f, d
\* Every place is one of the old places, and no two places are the same one.
<1>7. ASSUME NEW z \in Heads, NEW r \in Nat, r < d[z]
      PROVE  \/ z = y /\ r - c[y] \in 0 .. n - 1 /\ f[z][r] = b[r - c[y]]
             \/ r < c[z] /\ f[z][r] = e[z][r] /\ (z = x => r < c[x] - n)
  BY <1>1, <1>5, <1>6, <1>7
<1>8. ASSUME NEW z \in Heads, NEW r \in Nat, r < d[z]
      PROVE  f[z][r] \in D /\ k[f[z][r]] = Under(f, z, r)
  <2>1. CASE z = y /\ r - c[y] \in 0 .. n - 1 /\ f[z][r] = b[r - c[y]]
    <3>1. f[z][r] \in D /\ f[z][r] = At(e, c, x, r - c[y])
      BY <1>4, <2>1
    <3>2. CASE r = c[y]
      <4>0. r - c[y] = 0 /\ 0 \in 0 .. n - 1
        BY <1>1, <2>1, <3>2
      <4>a. f[z][r] = At(e, c, x, 0)
        BY <3>1, <4>0
      <4>b. k[At(e, c, x, 0)] = Top(e, c, y)
        BY <1>3, <4>0
      <4>1. k[f[z][r]] = Top(e, c, y)
        BY <4>a, <4>b
      <4>2. r # 0 => r - 1 \in Nat /\ r - 1 < c[y]
        BY <3>2
      <4>3. Under(f, z, r) = Top(e, c, y)
        BY <1>6, <2>1, <3>2, <4>2 DEF Under, Top
      <4>4. QED
        BY <3>1, <4>1, <4>3
    <3>3. CASE r # c[y]
      <4>1. r # 0 /\ r - 1 \in Nat /\ (r - 1) - c[y] \in 0 .. n - 1 /\ (r - 1) - c[y] = (r - c[y]) - 1
            /\ ~(r - 1 < c[y]) /\ r - 1 < c[y] + n /\ r - c[y] # 0
        BY <1>1, <2>1, <3>3, PlaceUnder
      <4>2. k[f[z][r]] = At(e, c, x, (r - c[y]) - 1)
        BY <1>3, <2>1, <3>1, <4>1
      <4>3. f[z][r - 1] = At(e, c, x, (r - c[y]) - 1)
        BY <1>4, <1>6, <2>1, <4>1
      <4>4. QED
        BY <3>1, <4>1, <4>2, <4>3 DEF Under
    <3>4. QED
      BY <3>2, <3>3
  <2>2. CASE r < c[z] /\ f[z][r] = e[z][r] /\ (z = x => r < c[x] - n)
    <3>1. e[z][r] \in D /\ l[e[z][r]] = Under(e, z, r)
      BY <2>2 DEF Stacks
    <3>2. ASSUME NEW i \in 0 .. n - 1 PROVE e[z][r] # At(e, c, x, i)
      <4>1. c[x] - 1 - i \in Nat /\ c[x] - 1 - i < c[x] /\ ~(z = x /\ r = c[x] - 1 - i)
        BY <1>1, <1>4, <2>2
      <4>2. e[z][r] # e[x][c[x] - 1 - i]
        BY <2>2, <4>1 DEF Stacks
      <4>3. QED
        BY <1>4, <4>2
    <3>3. k[e[z][r]] = l[e[z][r]]
      BY <1>1, <1>3, <3>1, <3>2
    <3>4. r # 0 => r - 1 \in Nat /\ r - 1 < c[z] /\ r - 1 < r
      BY <1>1, <2>2
    <3>5. Under(f, z, r) = Under(e, z, r)
      BY <1>6, <3>4 DEF Under
    <3>6. QED
      BY <2>2, <3>1, <3>3, <3>5
  <2>3. QED
    BY <1>7, <1>8, <2>1, <2>2
<1>9. ASSUME NEW z \in Heads, NEW v \in Heads, NEW r \in Nat, NEW q \in Nat,
             r < d[z], q < d[v], f[z][r] = f[v][q]
      PROVE  z = v /\ r = q
  <2>1. \/ z = y /\ r - c[y] \in 0 .. n - 1 /\ f[z][r] = b[r - c[y]]
        \/ r < c[z] /\ f[z][r] = e[z][r] /\ (z = x => r < c[x] - n)
    BY <1>7, <1>9
  <2>2. \/ v = y /\ q - c[y] \in 0 .. n - 1 /\ f[v][q] = b[q - c[y]]
        \/ q < c[v] /\ f[v][q] = e[v][q] /\ (v = x => q < c[x] - n)
    BY <1>7, <1>9
  <2>3. ASSUME NEW i \in 0 .. n - 1, NEW u \in Heads, NEW j \in Nat, j < c[u], e[u][j] = b[i]
        PROVE  u = x /\ j = c[x] - 1 - i
    <3>1. c[x] - 1 - i \in Nat /\ c[x] - 1 - i < c[x] /\ b[i] = e[x][c[x] - 1 - i]
      BY <1>1, <1>4
    <3>2. QED
      BY <2>3, <3>1 DEF Stacks
  <2>4. CASE z = y /\ r - c[y] \in 0 .. n - 1 /\ f[z][r] = b[r - c[y]]
    <3>1. CASE v = y /\ q - c[y] \in 0 .. n - 1 /\ f[v][q] = b[q - c[y]]
      <4>1. /\ c[x] - 1 - (r - c[y]) \in Nat /\ c[x] - 1 - (r - c[y]) < c[x]
            /\ e[x][c[x] - 1 - (r - c[y])] = b[q - c[y]]
        BY <1>1, <1>4, <1>9, <2>4, <3>1
      <4>2. c[x] - 1 - (r - c[y]) = c[x] - 1 - (q - c[y])
        BY <2>3, <3>1, <4>1
      <4>3. QED
        BY <1>1, <2>4, <3>1, <4>2
    <3>2. CASE q < c[v] /\ f[v][q] = e[v][q] /\ (v = x => q < c[x] - n)
      <4>1. v = x /\ q = c[x] - 1 - (r - c[y])
        BY <1>9, <2>3, <2>4, <3>2
      <4>2. q < c[x] - n
        BY <3>2, <4>1
      <4>3. r - c[y] <= n - 1 /\ r - c[y] \in Nat
        BY <1>1, <2>4
      <4>4. QED
        BY <1>1, <4>1, <4>2, <4>3
    <3>3. QED
      BY <2>2, <3>1, <3>2
  <2>5. CASE r < c[z] /\ f[z][r] = e[z][r] /\ (z = x => r < c[x] - n)
    <3>1. CASE v = y /\ q - c[y] \in 0 .. n - 1 /\ f[v][q] = b[q - c[y]]
      <4>1. z = x /\ r = c[x] - 1 - (q - c[y])
        BY <1>9, <2>3, <2>5, <3>1
      <4>2. r < c[x] - n
        BY <2>5, <4>1
      <4>3. q - c[y] <= n - 1 /\ q - c[y] \in Nat
        BY <1>1, <3>1
      <4>4. QED
        BY <1>1, <4>1, <4>2, <4>3
    <3>2. CASE q < c[v] /\ f[v][q] = e[v][q] /\ (v = x => q < c[x] - n)
      <4>1. e[z][r] = e[v][q] /\ r < c[z] /\ q < c[v]
        BY <1>9, <2>5, <3>2
      <4>2. QED
        BY <4>1 DEF Stacks
    <3>3. QED
      BY <2>2, <3>1, <3>2
  <2>6. QED
    BY <2>1, <2>4, <2>5
<1>10. ASSUME NEW u \in D PROVE \E z \in Heads : \E r \in Nat : r < d[z] /\ f[z][r] = u
  <2>1. PICK z \in Heads, r \in Nat : r < c[z] /\ e[z][r] = u
    BY DEF Stacks
  <2>2. CASE z = x /\ ~(r < c[x] - n)
    <3> DEFINE i == c[x] - 1 - r
    <3>1. i \in 0 .. n - 1 /\ c[x] - 1 - i = r /\ c[y] + i \in Nat /\ (c[y] + i) - c[y] = i
          /\ ~(c[y] + i < c[y]) /\ c[y] + i < c[y] + n
      BY <1>1, <2>1, <2>2
    <3> HIDE DEF i
    <3>2. f[y][c[y] + i] = b[i] /\ b[i] = e[x][r]
      BY <1>4, <1>6, <3>1
    <3>3. c[y] + i \in Nat /\ c[y] + i < d[y] /\ f[y][c[y] + i] = u
      BY <1>5, <2>1, <2>2, <3>1, <3>2
    <3>4. QED
      BY <3>3
  <2>3. CASE ~(z = x /\ ~(r < c[x] - n))
    <3>1. r < d[z] /\ f[z][r] = e[z][r]
      BY <1>1, <1>5, <1>6, <2>1, <2>3
    <3>2. QED
      BY <2>1, <3>1
  <2>4. QED
    BY <2>2, <2>3
<1>11. Stacks(k, f, d, D)
  BY <1>1, <1>3, <1>5, <1>6, <1>8, <1>9, <1>10 DEF Stacks
<1>12. QED
  BY <1>11 DEF k, f, d

\* All of x, as it is, put on top of y: one link changes.
LEMMA AppendTasks ==
  ASSUME NEW l, NEW e, NEW c, NEW D, Stacks(l, e, c, D), NEW x \in Heads, NEW y \in Heads, x # y,
         c[x] > 0
  PROVE  Stacks([l EXCEPT ![e[x][0]] = Top(e, c, y)],
                Piled(e, c, y, e[x], c[x]), [c EXCEPT ![x] = 0, ![y] = @ + c[x]], D)
<1> DEFINE t == e[x][0]
           k == [l EXCEPT ![t] = Top(e, c, y)]
           f == Piled(e, c, y, e[x], c[x])
           d == [c EXCEPT ![x] = 0, ![y] = @ + c[x]]
<1>1. /\ l \in [Task -> Entries] /\ e \in [Heads -> [Nat -> Entries]] /\ c \in [Heads -> Nat]
      /\ c[x] \in Nat /\ c[y] \in Nat /\ D \subseteq Task /\ NoTask \notin Task
  BY TaskListsAssumption DEF Stacks
<1>2. Top(e, c, y) \in Entries
  BY <1>1 DEF Top, Entries
<1>3. t \in D /\ t \in Task
  BY <1>1 DEF Stacks
<1>4. k \in [Task -> Entries] /\ k[t] = Top(e, c, y) /\ \A u \in Task : u # t => k[u] = l[u]
  BY <1>1, <1>2, <1>3
<1>5. d \in [Heads -> Nat] /\ d[x] = 0 /\ d[y] = c[y] + c[x]
      /\ \A z \in Heads : z # x /\ z # y => d[z] = c[z]
  BY <1>1
<1>6. /\ f \in [Heads -> [Nat -> Entries]]
      /\ \A z \in Heads : z # y => f[z] = e[z]
      /\ \A r \in Nat : f[y][r] = IF r < c[y] THEN e[y][r] ELSE IF r < c[y] + c[x] THEN e[x][r - c[y]] ELSE NoTask
  <2>1. ASSUME NEW r \in Nat
        PROVE (IF r < c[y] THEN e[y][r] ELSE IF r < c[y] + c[x] THEN e[x][r - c[y]] ELSE NoTask) \in Entries
    <3>1. ~(r < c[y]) => r - c[y] \in Nat
      BY <1>1
    <3>2. QED
      BY <1>1, <3>1 DEF Entries
  <2>2. QED
    BY <1>1, <2>1 DEF Piled
<1> HIDE DEF k, f, d, t
\* Every place holds what an old place held, which no other place does.
<1>7. ASSUME NEW z \in Heads, NEW r \in Nat, r < d[z]
      PROVE  \/ z = y /\ r - c[y] \in Nat /\ r - c[y] < c[x] /\ f[z][r] = e[x][r - c[y]]
             \/ z # x /\ r < c[z] /\ f[z][r] = e[z][r]
  <2>1. CASE z = y
    <3>1. CASE r < c[y]
      BY <1>6, <2>1, <3>1
    <3>2. CASE ~(r < c[y])
      <4>1. r - c[y] \in Nat /\ r - c[y] < c[x] /\ r < c[y] + c[x]
        BY <1>1, <1>5, <1>7, <2>1, <3>2
      <4>2. QED
        BY <1>6, <2>1, <3>2, <4>1
    <3>3. QED
      BY <3>1, <3>2
  <2>2. CASE z # y
    <3>1. z # x
      BY <1>5, <1>7
    <3>2. QED
      BY <1>5, <1>6, <1>7, <2>2, <3>1
  <2>3. QED
    BY <2>1, <2>2
<1>8. ASSUME NEW z \in Heads, NEW r \in Nat, r < d[z]
      PROVE  f[z][r] \in D /\ k[f[z][r]] = Under(f, z, r)
  <2>1. CASE z = y /\ r - c[y] \in Nat /\ r - c[y] < c[x] /\ f[z][r] = e[x][r - c[y]]
    <3>1. e[x][r - c[y]] \in D /\ l[e[x][r - c[y]]] = Under(e, x, r - c[y])
      BY <2>1 DEF Stacks
    <3>2. CASE r = c[y]
      <4>1. r - c[y] = 0
        BY <1>1, <3>2
      <4>2. k[f[z][r]] = Top(e, c, y)
        BY <1>4, <2>1, <4>1 DEF t
      <4>3. r # 0 => r - 1 \in Nat /\ r - 1 < c[y]
        BY <3>2
      <4>4. Under(f, z, r) = Top(e, c, y)
        BY <1>6, <2>1, <3>2, <4>3 DEF Under, Top
      <4>5. QED
        BY <2>1, <3>1, <4>2, <4>4
    <3>3. CASE r # c[y]
      <4>1. r - c[y] \in 0 .. c[x] - 1
        BY <1>1, <2>1
      <4>2. r # 0 /\ r - 1 \in Nat /\ (r - 1) - c[y] = (r - c[y]) - 1
            /\ ~(r - 1 < c[y]) /\ r - 1 < c[y] + c[x] /\ r - c[y] # 0
        BY <1>1, <3>3, <4>1, PlaceUnder
      <4>3. f[z][r - 1] = e[x][(r - c[y]) - 1]
        BY <1>6, <2>1, <4>2
      <4>4. e[x][r - c[y]] # t
        BY <2>1, <4>2 DEF Stacks, t
      <4>5. k[f[z][r]] = l[e[x][r - c[y]]]
        BY <1>1, <1>4, <2>1, <3>1, <4>4
      <4>6. QED
        BY <2>1, <3>1, <4>2, <4>3, <4>5 DEF Under
    <3>4. QED
      BY <3>2, <3>3
  <2>2. CASE z # x /\ r < c[z] /\ f[z][r] = e[z][r]
    <3>1. e[z][r] \in D /\ l[e[z][r]] = Under(e, z, r)
      BY <2>2 DEF Stacks
    <3>2. e[z][r] # t
      BY <1>1, <2>2 DEF Stacks, t
    <3>3. k[e[z][r]] = l[e[z][r]]
      BY <1>1, <1>4, <3>1, <3>2
    <3>4. r # 0 => r - 1 \in Nat /\ r - 1 < c[z]
      BY <1>1, <2>2
    <3>5. Under(f, z, r) = Under(e, z, r)
      BY <1>6, <3>4 DEF Under
    <3>6. QED
      BY <2>2, <3>1, <3>3, <3>5
  <2>3. QED
    BY <1>7, <1>8, <2>1, <2>2
<1>9. ASSUME NEW z \in Heads, NEW v \in Heads, NEW r \in Nat, NEW q \in Nat,
             r < d[z], q < d[v], f[z][r] = f[v][q]
      PROVE  z = v /\ r = q
  <2>1. \/ z = y /\ r - c[y] \in Nat /\ r - c[y] < c[x] /\ f[z][r] = e[x][r - c[y]]
        \/ z # x /\ r < c[z] /\ f[z][r] = e[z][r]
    BY <1>7, <1>9
  <2>2. \/ v = y /\ q - c[y] \in Nat /\ q - c[y] < c[x] /\ f[v][q] = e[x][q - c[y]]
        \/ v # x /\ q < c[v] /\ f[v][q] = e[v][q]
    BY <1>7, <1>9
  <2>3. ASSUME NEW i \in Nat, i < c[x], NEW u \in Heads, NEW j \in Nat, j < c[u], e[u][j] = e[x][i]
        PROVE  u = x /\ j = i
    BY <2>3 DEF Stacks
  <2>4. CASE z = y /\ r - c[y] \in Nat /\ r - c[y] < c[x] /\ f[z][r] = e[x][r - c[y]]
    <3>1. CASE v = y /\ q - c[y] \in Nat /\ q - c[y] < c[x] /\ f[v][q] = e[x][q - c[y]]
      <4>1. r - c[y] = q - c[y]
        BY <1>9, <2>3, <2>4, <3>1
      <4>2. QED
        BY <1>1, <2>4, <3>1, <4>1
    <3>2. CASE v # x /\ q < c[v] /\ f[v][q] = e[v][q]
      BY <1>9, <2>3, <2>4, <3>2
    <3>3. QED
      BY <2>2, <3>1, <3>2
  <2>5. CASE z # x /\ r < c[z] /\ f[z][r] = e[z][r]
    <3>1. CASE v = y /\ q - c[y] \in Nat /\ q - c[y] < c[x] /\ f[v][q] = e[x][q - c[y]]
      BY <1>9, <2>3, <2>5, <3>1
    <3>2. CASE v # x /\ q < c[v] /\ f[v][q] = e[v][q]
      <4>1. e[z][r] = e[v][q]
        BY <1>9, <2>5, <3>2
      <4>2. QED
        BY <2>5, <3>2, <4>1 DEF Stacks
    <3>3. QED
      BY <2>2, <3>1, <3>2
  <2>6. QED
    BY <2>1, <2>4, <2>5
<1>10. ASSUME NEW u \in D PROVE \E z \in Heads : \E r \in Nat : r < d[z] /\ f[z][r] = u
  <2>1. PICK z \in Heads, r \in Nat : r < c[z] /\ e[z][r] = u
    BY DEF Stacks
  <2>2. CASE z = x
    <3>1. c[y] + r \in Nat /\ (c[y] + r) - c[y] = r /\ ~(c[y] + r < c[y]) /\ c[y] + r < c[y] + c[x]
      BY <1>1, <2>1, <2>2
    <3>2. c[y] + r < d[y] /\ f[y][c[y] + r] = u
      BY <1>5, <1>6, <2>1, <2>2, <3>1
    <3>3. QED
      BY <3>1, <3>2
  <2>3. CASE z # x
    <3>1. r < d[z] /\ f[z][r] = e[z][r]
      BY <1>1, <1>5, <1>6, <2>1, <2>3
    <3>2. QED
      BY <2>1, <3>1
  <2>4. QED
    BY <2>2, <2>3
<1>11. Stacks(k, f, d, D)
  BY <1>1, <1>4, <1>5, <1>6, <1>8, <1>9, <1>10 DEF Stacks
<1>12. QED
  BY <1>11 DEF k, f, d, t

-----------------------------------------------------------------------------
(* The lists are stacks of the dead tasks                                   *)

Counts == [x \in Heads |-> CountOf(x)]
Dead == {t \in Task : status[t] = "dead"}

ListType ==
  /\ status \in [Task -> {"none", "live", "dead"}]
  /\ link \in [Task -> Entries]
  /\ ptop \in [Proc -> Entries] /\ pcount \in [Proc -> Nat]
  /\ stop \in Entries /\ scount \in Nat
  /\ batch \in [Proc -> [head : Entries, tail : Entries, n : Nat]]
  /\ at \in [Proc -> {"run", "look", "refill", "get", "spill"}]

\* The contents of the lists, and the tail of a queue under way.
Held(e) ==
  /\ Stacks(link, e, Counts, Dead)
  /\ \A x \in Heads : HeadOf(x) = Top(e, Counts, x)
  /\ \A p \in Proc : batch[p].n > 0 => batch[p].tail = e[<<"Q", p>>][0]

\* Between the looking and the lock nobody fills the list of the P, and only
\* a P on its way from its list to the shared one has a queue.
UnderWay ==
  \A p \in Proc : /\ at[p] = "refill" => ptop[p] = NoTask
                  /\ at[p] = "spill" => batch[p].n > 0
                  /\ at[p] # "spill" => batch[p] = EmptyQueue

ListInv == ListType /\ UnderWay /\ \E e : Held(e)

LEMMA HeadNames ==
  /\ \A p \in Proc : /\ <<"P", p>> \in Heads /\ <<"Q", p>> \in Heads
                     /\ HeadOf(<<"P", p>>) = ptop[p] /\ CountOf(<<"P", p>>) = pcount[p]
                     /\ HeadOf(<<"Q", p>>) = batch[p].head /\ CountOf(<<"Q", p>>) = batch[p].n
  /\ <<"S", 0>> \in Heads /\ HeadOf(<<"S", 0>>) = stop /\ CountOf(<<"S", 0>>) = scount
  /\ \A x \in Heads : (\E p \in Proc : x = <<"P", p>> \/ x = <<"Q", p>>) \/ x = <<"S", 0>>
BY DEF Heads, HeadOf, CountOf

LEMMA HeadNamesNext ==
  /\ \A p \in Proc : /\ HeadOf(<<"P", p>>)' = ptop'[p] /\ CountOf(<<"P", p>>)' = pcount'[p]
                     /\ HeadOf(<<"Q", p>>)' = batch'[p].head /\ CountOf(<<"Q", p>>)' = batch'[p].n
  /\ HeadOf(<<"S", 0>>)' = stop' /\ CountOf(<<"S", 0>>)' = scount'
BY DEF HeadOf, CountOf

LEMMA HeadsApart ==
  /\ \A p, q \in Proc : <<"P", p>> # <<"Q", q>> /\ (<<"P", p>> = <<"P", q>> <=> p = q)
                        /\ (<<"Q", p>> = <<"Q", q>> <=> p = q)
                        /\ <<"P", p>> # <<"S", 0>> /\ <<"Q", p>> # <<"S", 0>>
OBVIOUS

\* Nothing is on a list but links, heads, counts and the dead.
LEMMA SameLists ==
  ASSUME ListInv, link' \in [Task -> Entries], \A t \in Dead : link'[t] = link[t],
         Dead' = Dead, UNCHANGED <<ptop, pcount, stop, scount, batch>>
  PROVE  \E e : Held(e)'
<1>1. PICK e : Held(e)
  BY DEF ListInv
<1>2. Counts' = Counts /\ \A x : HeadOf(x)' = HeadOf(x)
  BY DEF Counts, CountOf, HeadOf
<1>3. Stacks(link', e, Counts, Dead)
  BY <1>1, OtherLinks DEF Held
<1>4. Held(e)'
  BY <1>1, <1>2, <1>3 DEF Held, Top
<1>5. QED
  BY <1>4

LEMMA ListInitHolds == ListInit => ListInv
<1> SUFFICES ASSUME ListInit PROVE ListInv
  OBVIOUS
<1> DEFINE e == [x \in Heads |-> [r \in Nat |-> NoTask]]
<1>1. ListType /\ UnderWay
  BY DEF ListInit, ListType, UnderWay, Entries, EmptyQueue
<1>2. Counts \in [Heads -> Nat] /\ \A x \in Heads : Counts[x] = 0 /\ HeadOf(x) = NoTask
  BY HeadNames DEF ListInit, Counts, CountOf, HeadOf, EmptyQueue
<1>3. Dead = {}
  BY DEF ListInit, Dead
<1>4. e \in [Heads -> [Nat -> Entries]]
  BY DEF Entries
<1> HIDE DEF e
<1>5. Stacks(link, e, Counts, Dead)
  <2>1. link \in [Task -> Entries]
    BY <1>1 DEF ListType
  <2>2. QED
    BY <1>2, <1>3, <1>4, <2>1 DEF Stacks
<1>6. \A p \in Proc : ~(batch[p].n > 0)
  BY DEF ListInit, EmptyQueue
<1>7. Held(e)
  BY <1>2, <1>5, <1>6 DEF Held, Top
<1>8. QED
  BY <1>1, <1>7 DEF ListInv

\* What is to be shown of a step.
LEMMA NextHeld ==
  ASSUME NEW f, NEW d, Stacks(link', f, d, Dead'),
         \A y \in Heads : CountOf(y)' = d[y] /\ HeadOf(y)' = Top(f, d, y),
         \A q \in Proc : batch'[q].n > 0 => batch'[q].tail = f[<<"Q", q>>][0]
  PROVE  \E e : Held(e)'
<1>1. d = [y \in Heads |-> d[y]]
  BY DEF Stacks
<1>2. Counts' = [y \in Heads |-> CountOf(y)']
  BY DEF Counts
<1>3. Counts' = d
  BY <1>1, <1>2
<1>4. Held(f)'
  BY <1>3 DEF Held, Top
<1>5. QED
  BY <1>4

\* A dead task is put on the list of its P.
LEMMA KeptLists ==
  ASSUME ListInv, NEW p \in Proc, NEW t \in Task, ExitKept(p, t)
  PROVE  \E e : Held(e)'
<1> DEFINE x == <<"P", p>>
<1>1. PICK e : Held(e)
  BY DEF ListInv
<1> DEFINE f == [e EXCEPT ![x] = [@ EXCEPT ![Counts[x]] = t]]
           d == [Counts EXCEPT ![x] = @ + 1]
<1>2. x \in Heads /\ HeadOf(x) = ptop[p] /\ Counts[x] = pcount[p] /\ pcount[p] \in Nat
  BY HeadNames DEF Counts, ListInv, ListType
<1>3. t \notin Dead /\ Dead' = Dead \cup {t}
  BY DEF ExitKept, t_casstatus, Dead, ListInv, ListType
<1>4. link' = [link EXCEPT ![t] = Top(e, Counts, x)]
  BY <1>1, <1>2 DEF Held, ExitKept
<1>5. Stacks(link', f, d, Dead')
  BY <1>1, <1>2, <1>3, <1>4, PushTask DEF Held
<1>6. /\ pcount'[p] = pcount[p] + 1 /\ ptop'[p] = t
      /\ \A q \in Proc : q # p => pcount'[q] = pcount[q] /\ ptop'[q] = ptop[q]
      /\ UNCHANGED <<stop, scount, batch>>
  BY DEF ExitKept, ListInv, ListType
<1>7. ASSUME NEW y \in Heads, y # x
      PROVE  CountOf(y)' = CountOf(y) /\ HeadOf(y)' = HeadOf(y)
  BY <1>6, <1>7, HeadNames, HeadsApart DEF CountOf, HeadOf
<1>8. CountOf(x)' = Counts[x] + 1 /\ HeadOf(x)' = t
  BY <1>2, <1>6, HeadNamesNext
<1>9. \A y \in Heads : CountOf(y)' = d[y]
  BY <1>2, <1>7, <1>8 DEF Counts
<1>10. e \in [Heads -> [Nat -> Entries]] /\ Counts \in [Heads -> Nat]
  BY <1>1 DEF Held, Stacks
<1>11. ASSUME NEW y \in Heads PROVE HeadOf(y)' = Top(f, d, y)
  <2>1. CASE y = x
    BY <1>2, <1>8, <1>10, <2>1 DEF Top
  <2>2. CASE y # x
    BY <1>1, <1>7, <1>10, <2>2 DEF Top, Held
  <2>3. QED
    BY <2>1, <2>2
<1>12. ASSUME NEW q \in Proc, batch'[q].n > 0 PROVE batch'[q].tail = f[<<"Q", q>>][0]
  <2>1. f[<<"Q", q>>] = e[<<"Q", q>>]
    BY <1>10, HeadNames, HeadsApart
  <2>2. QED
    BY <1>1, <1>6, <1>12, <2>1 DEF Held
<1> HIDE DEF f, d
<1>13. QED
  BY <1>5, <1>9, <1>11, <1>12, NextHeld

\* A dead task is taken from the list of the P.
LEMMA GottenLists ==
  ASSUME ListInv, NEW p \in Proc, GetFree(p)
  PROVE  \E e : Held(e)'
<1> DEFINE x == <<"P", p>>
           t == ptop[p]
           d == [Counts EXCEPT ![x] = @ - 1]
<1>1. PICK e : Held(e)
  BY DEF ListInv
<1>2. x \in Heads /\ HeadOf(x) = t /\ Counts[x] = pcount[p] /\ pcount[p] \in Nat /\ t # NoTask
  BY HeadNames DEF Counts, ListInv, ListType, GetFree
<1>3. t = Top(e, Counts, x) /\ Counts[x] > 0
  BY <1>1, <1>2 DEF Held, Top
<1>4. t \in Dead /\ link[t] = Top(e, d, x) /\ Stacks(link, e, d, Dead \ {t})
  BY <1>1, <1>2, <1>3, PopTask DEF Held
<1>5. Dead' = Dead \ {t}
  BY <1>4 DEF GetFree, t_casstatus, Dead, ListInv, ListType
<1>6. /\ pcount'[p] = pcount[p] - 1 /\ ptop'[p] = link[t]
      /\ \A q \in Proc : q # p => pcount'[q] = pcount[q] /\ ptop'[q] = ptop[q]
      /\ UNCHANGED <<stop, scount, batch, link>>
  BY DEF GetFree, ListInv, ListType
<1>7. ASSUME NEW y \in Heads, y # x
      PROVE  CountOf(y)' = CountOf(y) /\ HeadOf(y)' = HeadOf(y)
  BY <1>6, <1>7, HeadNames, HeadsApart DEF CountOf, HeadOf
<1>8. CountOf(x)' = Counts[x] - 1 /\ HeadOf(x)' = link[t]
  BY <1>2, <1>6, HeadNamesNext
<1>9. \A y \in Heads : CountOf(y)' = d[y]
  BY <1>2, <1>7, <1>8 DEF Counts
<1>10. ASSUME NEW y \in Heads PROVE HeadOf(y)' = Top(e, d, y)
  <2>1. CASE y = x
    BY <1>4, <1>8, <2>1
  <2>2. CASE y # x
    BY <1>1, <1>7, <2>2 DEF Top, Held, Counts
  <2>3. QED
    BY <2>1, <2>2
<1>11. \A q \in Proc : batch'[q].n > 0 => batch'[q].tail = e[<<"Q", q>>][0]
  BY <1>1, <1>6 DEF Held
<1>12. Stacks(link', e, d, Dead')
  BY <1>4, <1>5, <1>6
<1> HIDE DEF d
<1>13. QED
  BY <1>9, <1>10, <1>11, <1>12, NextHeld

\* As many as are there, up to Low, move from the shared list to the empty one.
LEMMA RefilledLists ==
  ASSUME ListInv, NEW p \in Proc, Refill(p)
  PROVE  \E e : Held(e)'
<1> DEFINE x == <<"S", 0>>
           y == <<"P", p>>
           missing == {i \in 0 .. Low : i = Low - pcount[p] \/ Nth(link, stop, i) = NoTask}
           n == CHOOSE i \in missing : \A j \in missing : i <= j
<1>1. PICK e : Held(e)
  BY DEF ListInv
<1> DEFINE b == [i \in Nat |-> At(e, Counts, x, i)]
           f == Piled(e, Counts, y, b, n)
           d == [Counts EXCEPT ![x] = @ - n, ![y] = @ + n]
<1>2. /\ x \in Heads /\ HeadOf(x) = stop /\ Counts[x] = scount /\ scount \in Nat
      /\ y \in Heads /\ HeadOf(y) = ptop[p] /\ Counts[y] = pcount[p] /\ pcount[p] \in Nat
      /\ x # y /\ Counts \in [Heads -> Nat]
  BY <1>1, HeadNames, HeadsApart DEF Counts, ListInv, ListType, Held, Stacks
<1>3. stop = Top(e, Counts, x) /\ ptop[p] = Top(e, Counts, y) /\ ptop[p] = NoTask
  BY <1>1, <1>2 DEF Held, ListInv, UnderWay, Refill
<1>4. pcount[p] = 0
  <2>1. SUFFICES ASSUME pcount[p] # 0 PROVE FALSE
    OBVIOUS
  <2>a. Counts[y] > 0
    BY <1>2, <2>1
  <2>2. Top(e, Counts, y) \in Dead
    BY <1>1, <1>2, <2>a, PopTask DEF Held
  <2>3. QED
    BY <1>3, <2>2, TaskListsAssumption DEF Dead
<1>5. \A i \in Nat : Nth(link, stop, i) = At(e, Counts, x, i)
  BY <1>1, <1>2, <1>3, NthAt DEF Held
<1>6. n \in 0 .. Low /\ n \in Nat /\ n <= scount
  <2>1. Low \in missing /\ missing \subseteq Nat
    BY <1>4, TaskListsAssumption
  <2>2. \E i \in missing : \A j \in missing : i <= j
    <3> HIDE DEF missing
    <3>1. QED
      BY <2>1, Least
  <2>3. n \in missing /\ \A j \in missing : n <= j
    <3> HIDE DEF missing
    <3>1. QED
      BY <2>2
  <2>4. n \in 0 .. Low /\ n \in Nat
    BY <2>3, TaskListsAssumption
  <2>5. Nth(link, stop, scount) = NoTask
    BY <1>2, <1>5 DEF At
  <2>6. scount \in 0 .. Low => scount \in missing
    BY <2>5
  <2> HIDE DEF n, missing
  <2>7. QED
    BY <1>2, <2>3, <2>4, <2>6, TaskListsAssumption
<1>7. /\ link' = Turned(link, stop, n, ptop[p])
      /\ ptop' = [ptop EXCEPT ![p] = IF n = 0 THEN @ ELSE Nth(link, stop, n-1)]
      /\ pcount' = [pcount EXCEPT ![p] = @ + n]
      /\ stop' = Nth(link, stop, n)
      /\ scount' = scount - n
      /\ UNCHANGED <<status, batch>>
  BY DEF Refill
<1> HIDE DEF n, missing
<1>8. Stacks(link', f, d, Dead')
  <2>1. Dead' = Dead
    BY <1>7 DEF Dead
  <2>2. \A i \in 0 .. n - 1 : b[i] = At(e, Counts, x, i)
    OBVIOUS
  <2> HIDE DEF b
  <2>3. Stacks(Turned(link, Top(e, Counts, x), n, Top(e, Counts, y)), f, d, Dead)
    BY <1>1, <1>2, <1>6, <2>2, MoveTasks DEF Held
  <2>4. QED
    BY <1>3, <1>7, <2>1, <2>3
<1>9. /\ d[x] = scount - n /\ d[y] = n
      /\ \A z \in Heads : z # x /\ z # y => d[z] = Counts[z]
  BY <1>2, <1>4, <1>6
<1>10. /\ pcount'[p] = n /\ ptop'[p] = IF n = 0 THEN NoTask ELSE b[n - 1]
       /\ stop' = At(e, Counts, x, n)
       /\ \A q \in Proc : q # p => pcount'[q] = pcount[q] /\ ptop'[q] = ptop[q]
  <2>1. n # 0 => n - 1 \in Nat
    BY <1>6
  <2>2. QED
    BY <1>3, <1>4, <1>5, <1>6, <1>7, <2>1 DEF ListInv, ListType
<1>11. ASSUME NEW z \in Heads, z # x, z # y
       PROVE  CountOf(z)' = CountOf(z) /\ HeadOf(z)' = HeadOf(z)
  BY <1>7, <1>10, <1>11, HeadNames, HeadsApart DEF CountOf, HeadOf
<1>12. /\ CountOf(x)' = scount - n /\ HeadOf(x)' = At(e, Counts, x, n)
       /\ CountOf(y)' = n /\ HeadOf(y)' = IF n = 0 THEN NoTask ELSE b[n - 1]
  BY <1>7, <1>10 DEF CountOf, HeadOf
<1>13. e \in [Heads -> [Nat -> Entries]]
  BY <1>1 DEF Held, Stacks
<1>14. /\ \A z \in Heads : z # y => f[z] = e[z]
       /\ n # 0 => f[y][n - 1] = b[n - 1]
  <2>1. n # 0 => n - 1 \in Nat /\ ~(n - 1 < 0) /\ n - 1 < 0 + n /\ (n - 1) - 0 = n - 1
    BY <1>6
  <2>2. QED
    BY <1>2, <1>4, <1>13, <2>1 DEF Piled
<1> HIDE DEF f, d, b
<1>15. ASSUME NEW z \in Heads PROVE CountOf(z)' = d[z] /\ HeadOf(z)' = Top(f, d, z)
  <2>1. CASE z = x
    <3>1. n < scount => scount - n # 0 /\ (scount - n) - 1 = (scount - 1) - n
      BY <1>2, <1>6
    <3>2. ~(n < scount) => scount - n = 0
      BY <1>2, <1>6
    <3>3. At(e, Counts, x, n) = IF scount - n = 0 THEN NoTask ELSE e[x][(scount - n) - 1]
      BY <1>2, <1>6, <3>1, <3>2 DEF At
    <3>4. QED
      BY <1>2, <1>9, <1>12, <1>14, <2>1, <3>3 DEF Top
  <2>2. CASE z = y
    BY <1>9, <1>12, <1>14, <2>2 DEF Top
  <2>3. CASE z # x /\ z # y
    BY <1>1, <1>9, <1>11, <1>14, <2>3 DEF Top, Held, Counts
  <2>4. QED
    BY <2>1, <2>2, <2>3
<1>16. \A q \in Proc : batch'[q].n > 0 => batch'[q].tail = f[<<"Q", q>>][0]
  BY <1>1, <1>7, <1>14, HeadNames, HeadsApart DEF Held
<1>17. QED
  BY <1>8, <1>15, <1>16, NextHeld

\* The queue of a P joins the shared list.
LEMMA SpilledLists ==
  ASSUME ListInv, NEW p \in Proc, Spill(p)
  PROVE  \E e : Held(e)'
<1> DEFINE x == <<"Q", p>>
           y == <<"S", 0>>
           n == batch[p].n
<1>1. PICK e : Held(e)
  BY DEF ListInv
<1> DEFINE f == Piled(e, Counts, y, e[x], Counts[x])
           d == [Counts EXCEPT ![x] = 0, ![y] = @ + Counts[x]]
<1>2. /\ x \in Heads /\ HeadOf(x) = batch[p].head /\ Counts[x] = n /\ n \in Nat
      /\ y \in Heads /\ HeadOf(y) = stop /\ Counts[y] = scount /\ scount \in Nat
      /\ x # y /\ Counts \in [Heads -> Nat] /\ n > 0
  BY <1>1, HeadNames, HeadsApart
  DEF Counts, ListInv, ListType, UnderWay, Held, Stacks, Spill
<1>3. /\ batch[p].head = Top(e, Counts, x) /\ stop = Top(e, Counts, y)
      /\ batch[p].tail = e[x][0] /\ batch[p].head # NoTask
  <2>1. Top(e, Counts, x) \in Dead
    BY <1>1, <1>2, PopTask DEF Held
  <2>2. QED
    BY <1>1, <1>2, <2>1, TaskListsAssumption DEF Held, Dead
<1>4. Stacks(link', f, d, Dead')
  <2>1. Dead' = Dead /\ link' = [link EXCEPT ![e[x][0]] = Top(e, Counts, y)]
    BY <1>3 DEF Dead, Spill, TListPushAll
  <2>2. QED
    BY <1>1, <1>2, <2>1, AppendTasks DEF Held
<1>5. /\ stop' = Top(e, Counts, x) /\ scount' = scount + n
      /\ batch'[p] = EmptyQueue /\ \A q \in Proc : q # p => batch'[q] = batch[q]
      /\ UNCHANGED <<ptop, pcount>>
  BY <1>3 DEF Spill, ListInv, ListType
<1>6. /\ d[x] = 0 /\ d[y] = scount + n
      /\ \A z \in Heads : z # x /\ z # y => d[z] = Counts[z]
  BY <1>2
<1>7. ASSUME NEW z \in Heads, z # x, z # y
      PROVE  CountOf(z)' = CountOf(z) /\ HeadOf(z)' = HeadOf(z)
  BY <1>5, <1>7, HeadNames, HeadsApart DEF CountOf, HeadOf
<1>8. /\ CountOf(x)' = 0 /\ HeadOf(x)' = NoTask
      /\ CountOf(y)' = scount + n /\ HeadOf(y)' = Top(e, Counts, x)
  BY <1>5 DEF EmptyQueue, CountOf, HeadOf
<1>9. e \in [Heads -> [Nat -> Entries]]
  BY <1>1 DEF Held, Stacks
<1>10. /\ \A z \in Heads : z # y => f[z] = e[z]
       /\ f[y][scount + n - 1] = e[x][n - 1]
  <2>1. scount + n - 1 \in Nat /\ ~(scount + n - 1 < scount) /\ scount + n - 1 < scount + n
        /\ (scount + n - 1) - scount = n - 1
    BY <1>2
  <2>2. QED
    BY <1>2, <1>9, <2>1 DEF Piled
<1> HIDE DEF f, d
<1>11. ASSUME NEW z \in Heads PROVE CountOf(z)' = d[z] /\ HeadOf(z)' = Top(f, d, z)
  <2>1. CASE z = x
    BY <1>6, <1>8, <2>1 DEF Top
  <2>2. CASE z = y
    <3>1. scount + n # 0 /\ n # 0
      BY <1>2
    <3>2. QED
      BY <1>2, <1>6, <1>8, <1>10, <2>2, <3>1 DEF Top
  <2>3. CASE z # x /\ z # y
    BY <1>1, <1>6, <1>7, <1>10, <2>3 DEF Top, Held, Counts
  <2>4. QED
    BY <2>1, <2>2, <2>3
<1>12. ASSUME NEW q \in Proc, batch'[q].n > 0 PROVE batch'[q].tail = f[<<"Q", q>>][0]
  <2>1. q # p
    BY <1>5, <1>12 DEF EmptyQueue
  <2>2. f[<<"Q", q>>] = e[<<"Q", q>>]
    BY <1>10, HeadNames, HeadsApart
  <2>3. QED
    BY <1>1, <1>5, <1>12, <2>1, <2>2 DEF Held
<1>13. QED
  BY <1>4, <1>11, <1>12, NextHeld

\* One more than fits: the task is put, and all but Low - 1 leave for the queue.
LEMMA OverfullLists ==
  ASSUME ListInv, NEW p \in Proc, NEW t \in Task, ExitSpill(p, t)
  PROVE  \E e : Held(e)'
<1> DEFINE x == <<"P", p>>
           y == <<"Q", p>>
           n == pcount[p] + 2 - Low
           l == [link EXCEPT ![t] = ptop[p]]
<1>1. PICK e0 : Held(e0)
  BY DEF ListInv
<1> DEFINE e == [e0 EXCEPT ![x] = [@ EXCEPT ![Counts[x]] = t]]
           c == [Counts EXCEPT ![x] = @ + 1]
           b == [i \in Nat |-> At(e, c, x, i)]
           f == Piled(e, c, y, b, n)
           d == [c EXCEPT ![x] = @ - n, ![y] = @ + n]
<1>2. /\ x \in Heads /\ HeadOf(x) = ptop[p] /\ Counts[x] = pcount[p] /\ pcount[p] \in Nat
      /\ y \in Heads /\ Counts[y] = 0 /\ x # y /\ Counts \in [Heads -> Nat]
      /\ e0 \in [Heads -> [Nat -> Entries]]
  BY <1>1, HeadNames, HeadsApart
  DEF Counts, ListInv, ListType, UnderWay, Held, Stacks, ExitSpill, EmptyQueue
<1>3. t \notin Dead /\ Dead' = Dead \cup {t} /\ ptop[p] = Top(e0, Counts, x)
  <2>1. status[t] = "live" /\ status' = [status EXCEPT ![t] = "dead"]
    BY DEF ExitSpill, t_casstatus
  <2>2. t \notin Dead /\ Dead' = Dead \cup {t}
    BY <2>1 DEF Dead, ListInv, ListType
  <2>3. QED
    BY <1>1, <1>2, <2>2 DEF Held
<1>4. Stacks(l, e, c, Dead')
  <2> HIDE DEF b, f, d, n
  <2>1. t \in Task \ Dead /\ l = [link EXCEPT ![t] = Top(e0, Counts, x)]
    BY <1>3
  <2>2. Stacks(link, e0, Counts, Dead)
    BY <1>1 DEF Held
  <2>3. Stacks([link EXCEPT ![t] = Top(e0, Counts, x)], e, c, Dead \cup {t})
    BY <1>2, <2>1, <2>2, PushTask
  <2> HIDE DEF l, e, c
  <2>4. QED
    BY <1>3, <2>1, <2>3
<1>5. /\ c[x] = pcount[p] + 1 /\ c[y] = 0 /\ e[x][c[x] - 1] = t
      /\ \A z \in Heads : z # x => c[z] = Counts[z] /\ e[z] = e0[z]
  BY <1>2 DEF Entries
<1>6. n \in Nat /\ n > 0 /\ n - 1 \in Nat /\ n <= c[x] /\ c[x] - n = Low - 1 /\ Low \in Nat
  BY <1>2, <1>5, TaskListsAssumption DEF ExitSpill
<1>7. Top(e, c, x) = t /\ Top(e, c, y) = NoTask
  BY <1>2, <1>5 DEF Top
<1>8. /\ link' = Turned(l, t, n, NoTask)
      /\ ptop' = [ptop EXCEPT ![p] = Nth(l, t, n)]
      /\ pcount' = [pcount EXCEPT ![p] = Low - 1]
      /\ batch' = [batch EXCEPT ![p] = [head |-> Nth(l, t, n-1), tail |-> t, n |-> n]]
      /\ UNCHANGED <<stop, scount>>
  BY DEF ExitSpill
<1> HIDE DEF l, e, c, n
<1>9. \A i \in Nat : Nth(l, t, i) = At(e, c, x, i)
  BY <1>2, <1>4, <1>7, NthAt
<1>10. Stacks(link', f, d, Dead')
  <2>1. \A i \in 0 .. n - 1 : b[i] = At(e, c, x, i)
    BY <1>6
  <2> HIDE DEF b
  <2>2. Stacks(Turned(l, Top(e, c, x), n, Top(e, c, y)), f, d, Dead')
    BY <1>2, <1>4, <1>6, <2>1, MoveTasks
  <2>3. QED
    BY <1>7, <1>8, <2>2
<1>11. c \in [Heads -> Nat] /\ e \in [Heads -> [Nat -> Entries]]
  BY <1>4 DEF Stacks
<1>12. /\ d[x] = Low - 1 /\ d[y] = n
       /\ \A z \in Heads : z # x /\ z # y => d[z] = Counts[z]
  BY <1>2, <1>5, <1>6, <1>11
<1>13. b[n - 1] = Nth(l, t, n - 1) /\ b[0] = t
  <2>1. At(e, c, x, 0) = t
    BY <1>2, <1>5 DEF At
  <2>2. QED
    BY <1>6, <1>9, <2>1
<1>14. /\ pcount'[p] = Low - 1 /\ ptop'[p] = At(e, c, x, n)
       /\ batch'[p].head = b[n - 1] /\ batch'[p].tail = b[0] /\ batch'[p].n = n
       /\ \A q \in Proc : q # p => /\ pcount'[q] = pcount[q] /\ ptop'[q] = ptop[q]
                                   /\ batch'[q] = batch[q]
  BY <1>6, <1>8, <1>9, <1>13 DEF ListInv, ListType
<1>15. ASSUME NEW z \in Heads, z # x, z # y
       PROVE  CountOf(z)' = CountOf(z) /\ HeadOf(z)' = HeadOf(z)
  BY <1>8, <1>14, <1>15, HeadNames, HeadsApart DEF CountOf, HeadOf
<1>16. /\ CountOf(x)' = Low - 1 /\ HeadOf(x)' = At(e, c, x, n)
       /\ CountOf(y)' = n /\ HeadOf(y)' = b[n - 1]
  BY <1>14 DEF CountOf, HeadOf
<1>17. /\ \A z \in Heads : z # y => f[z] = e[z]
       /\ f[y][n - 1] = b[n - 1] /\ f[y][0] = b[0]
  <2>1. ~(n - 1 < 0) /\ n - 1 < 0 + n /\ (n - 1) - 0 = n - 1 /\ 0 < 0 + n /\ ~(0 < 0) /\ 0 - 0 = 0
    BY <1>6
  <2>2. QED
    BY <1>2, <1>5, <1>6, <1>11, <2>1 DEF Piled
<1> HIDE DEF f, d, b
<1>18. ASSUME NEW z \in Heads PROVE CountOf(z)' = d[z] /\ HeadOf(z)' = Top(f, d, z)
  <2>1. CASE z = x
    <3>1. n < c[x] => Low - 1 # 0 /\ (Low - 1) - 1 = (c[x] - 1) - n
      BY <1>5, <1>6, <1>2
    <3>2. ~(n < c[x]) => Low - 1 = 0
      BY <1>5, <1>6, <1>2
    <3>3. At(e, c, x, n) = IF Low - 1 = 0 THEN NoTask ELSE e[x][(Low - 1) - 1]
      <4>1. n < c[x] => c[x] - 1 - n = (Low - 1) - 1
        BY <3>1
      <4>2. Low - 1 = 0 => ~(n < c[x])
        BY <3>1
      <4>3. QED
        BY <3>2, <4>1, <4>2 DEF At
    <3>4. QED
      BY <1>2, <1>12, <1>16, <1>17, <2>1, <3>3 DEF Top
  <2>2. CASE z = y
    <3>1. n # 0
      BY <1>6
    <3>2. QED
      BY <1>12, <1>16, <1>17, <2>2, <3>1 DEF Top
  <2>3. CASE z # x /\ z # y
    BY <1>1, <1>5, <1>12, <1>15, <1>17, <2>3 DEF Top, Held, Counts
  <2>4. QED
    BY <2>1, <2>2, <2>3
<1>19. ASSUME NEW q \in Proc, batch'[q].n > 0 PROVE batch'[q].tail = f[<<"Q", q>>][0]
  <2>1. CASE q = p
    BY <1>14, <1>17, <2>1
  <2>2. CASE q # p
    <3>1. f[<<"Q", q>>] = e0[<<"Q", q>>]
      <4>1. <<"Q", q>> \in Heads /\ <<"Q", q>> # x /\ <<"Q", q>> # y
        BY <2>2, HeadNames, HeadsApart
      <4> HIDE DEF x, y
      <4>2. QED
        BY <1>5, <1>17, <4>1
    <3>2. QED
      BY <1>1, <1>14, <1>19, <2>2, <3>1 DEF Held
  <2>3. QED
    BY <2>1, <2>2
<1>20. QED
  BY <1>10, <1>18, <1>19, NextHeld

-----------------------------------------------------------------------------
(* The invariant                                                            *)

Statuses == {"none", "live", "dead"}
Places == {"run", "look", "refill", "get", "spill"}

\* Where the lists are stacks, links, heads and counts have their types.
LEMMA HeldTypes ==
  ASSUME NEW e, Held(e)'
  PROVE  /\ link' \in [Task -> Entries] /\ stop' \in Entries /\ scount' \in Nat
         /\ \A p \in Proc : /\ ptop'[p] \in Entries /\ pcount'[p] \in Nat
                            /\ batch'[p].head \in Entries /\ batch'[p].n \in Nat
<1>1. Stacks(link', e, Counts', Dead') /\ \A x \in Heads : HeadOf(x)' = Top(e, Counts', x)
  BY DEF Held, Top
<1>2. \A x \in Heads : CountOf(x)' = Counts'[x]
  BY DEF Counts
<1>3. ASSUME NEW x \in Heads PROVE HeadOf(x)' \in Entries /\ CountOf(x)' \in Nat
  <2>1. Counts'[x] \in Nat /\ e \in [Heads -> [Nat -> Entries]]
    BY <1>1 DEF Stacks
  <2>2. Top(e, Counts', x) \in Entries
    BY <2>1 DEF Top, Entries
  <2>3. QED
    BY <1>1, <1>2, <2>1, <2>2
<1>4. link' \in [Task -> Entries]
  BY <1>1 DEF Stacks
<1>5. stop' \in Entries /\ scount' \in Nat
  BY <1>3, HeadNames DEF HeadOf, CountOf
<1>6. ASSUME NEW p \in Proc
      PROVE  /\ ptop'[p] \in Entries /\ pcount'[p] \in Nat
             /\ batch'[p].head \in Entries /\ batch'[p].n \in Nat
  <2>1. ptop'[p] \in Entries /\ pcount'[p] \in Nat
    BY <1>3, HeadNames DEF HeadOf, CountOf
  <2>2. batch'[p].head \in Entries /\ batch'[p].n \in Nat
    BY <1>3, HeadNames DEF HeadOf, CountOf
  <2>3. QED
    BY <2>1, <2>2
<1>7. QED
  BY <1>4, <1>5, <1>6

\* A task in fresh memory is on no list, before and after.
LEMMA AllocLists ==
  ASSUME ListInv, NEW t \in Task, NEW size, t_alloc(t, size),
         UNCHANGED <<ptop, pcount, stop, scount, batch>>, at' \in [Proc -> Places]
  PROVE  ListType' /\ \E e : Held(e)'
<1>1. /\ status[t] = "none" /\ status' = [status EXCEPT ![t] = "live"]
      /\ link' = [link EXCEPT ![t] = NoTask]
  BY DEF t_alloc
<1>2. t \notin Dead /\ Dead' = Dead
  BY <1>1 DEF Dead, ListInv, ListType
<1>3. /\ link' \in [Task -> Entries] /\ \A u \in Dead : link'[u] = link[u]
      /\ status' \in [Task -> Statuses]
  BY <1>1, <1>2 DEF ListInv, ListType, Entries, Dead, Statuses
<1>4. \E e : Held(e)'
  BY <1>2, <1>3, SameLists
<1>5. QED
  BY <1>3, <1>4 DEF ListType, ListInv, Statuses, Places

LEMMA AllocKeeps ==
  ASSUME ListInv, NEW p \in Proc, NEW t \in Task,
         SpawnUser(p, t) \/ SpawnCustom(p, t) \/ GetNew(p, t)
  PROVE  ListInv'
<1>1. PICK size : t_alloc(t, size)
  BY DEF SpawnUser, SpawnCustom, GetNew
<1>2. UNCHANGED <<ptop, pcount, stop, scount, batch>>
  BY DEF SpawnUser, SpawnCustom, GetNew
<1>3. at' = at \/ (at[p] = "get" /\ at' = [at EXCEPT ![p] = "run"])
  <2>1. CASE SpawnUser(p, t) \/ SpawnCustom(p, t)
    BY <2>1 DEF SpawnUser, SpawnCustom
  <2>2. CASE GetNew(p, t)
    BY <2>2 DEF GetNew
  <2>3. QED
    BY <2>1, <2>2
<1>4. at' \in [Proc -> Places]
  BY <1>3 DEF ListInv, ListType, Places
<1>5. ListType' /\ \E e : Held(e)'
  BY <1>1, <1>2, <1>4, AllocLists
<1>6. UnderWay'
  BY <1>2, <1>3 DEF ListInv, ListType, UnderWay
<1>7. QED
  BY <1>5, <1>6 DEF ListInv

LEMMA FreedKeeps ==
  ASSUME ListInv, NEW p \in Proc, NEW t \in Task, ExitFreed(p, t)
  PROVE  ListInv'
<1>1. /\ status[t] = "live" /\ status' = [status EXCEPT ![t] = "none"]
      /\ link' = [link EXCEPT ![t] = NoTask]
      /\ UNCHANGED <<ptop, pcount, stop, scount, batch, at>>
  BY DEF ExitFreed, t_free
<1>2. t \notin Dead /\ Dead' = Dead
  BY <1>1 DEF Dead, ListInv, ListType
<1>3. /\ link' \in [Task -> Entries] /\ \A u \in Dead : link'[u] = link[u]
      /\ status' \in [Task -> Statuses]
  BY <1>1, <1>2 DEF ListInv, ListType, Entries, Dead, Statuses
<1>4. \E e : Held(e)'
  BY <1>1, <1>2, <1>3, SameLists
<1>5. ListType' /\ UnderWay'
  BY <1>1, <1>3 DEF ListType, ListInv, Statuses, UnderWay
<1>6. QED
  BY <1>4, <1>5 DEF ListInv

LEMMA SpawnKeeps ==
  ASSUME ListInv, NEW p \in Proc, Spawn(p) \/ SpawnTooSmall(p)
  PROVE  ListInv'
<1>1. UNCHANGED <<link, status, ptop, pcount, stop, scount, batch>>
  BY DEF Spawn, SpawnTooSmall
<1>2. \/ at' = at
      \/ /\ at[p] \in {"run", "look"}
         /\ at' = [at EXCEPT ![p] = IF ptop[p] = NoTask /\ stop # NoTask THEN "refill" ELSE "get"]
  BY DEF Spawn, SpawnTooSmall
<1>3. Dead' = Dead /\ link' \in [Task -> Entries]
  BY <1>1 DEF Dead, ListInv, ListType
<1>4. \E e : Held(e)'
  BY <1>1, <1>3, SameLists
<1>5. ListType'
  BY <1>1, <1>2 DEF ListInv, ListType
<1>6. UnderWay'
  BY <1>1, <1>2 DEF ListInv, ListType, UnderWay
<1>7. QED
  BY <1>4, <1>5, <1>6 DEF ListInv

LEMMA KeptKeeps ==
  ASSUME ListInv, NEW p \in Proc, NEW t \in Task, ExitKept(p, t)
  PROVE  ListInv'
<1>1. PICK e : Held(e)'
  BY KeptLists
<1>2. /\ status' = [status EXCEPT ![t] = "dead"]
      /\ ptop' = [ptop EXCEPT ![p] = t] /\ pcount' = [pcount EXCEPT ![p] = @ + 1]
      /\ UNCHANGED <<stop, scount, batch, at>> /\ at[p] = "run"
  BY DEF ExitKept, t_casstatus
<1>3. ListType'
  BY <1>1, <1>2, HeldTypes DEF ListInv, ListType, Entries
<1>4. UnderWay'
  BY <1>2 DEF ListInv, ListType, UnderWay
<1>5. QED
  BY <1>1, <1>3, <1>4 DEF ListInv

LEMMA GottenKeeps ==
  ASSUME ListInv, NEW p \in Proc, GetFree(p)
  PROVE  ListInv'
<1>1. PICK e : Held(e)'
  BY GottenLists
<1>2. /\ status' = [status EXCEPT ![ptop[p]] = "live"]
      /\ ptop' = [ptop EXCEPT ![p] = link[ptop[p]]] /\ pcount' = [pcount EXCEPT ![p] = @ - 1]
      /\ UNCHANGED <<stop, scount, batch, link>> /\ at[p] = "get" /\ at' = [at EXCEPT ![p] = "run"]
  BY DEF GetFree, t_casstatus
<1>3. ListType'
  BY <1>1, <1>2, HeldTypes DEF ListInv, ListType
<1>4. UnderWay'
  BY <1>2 DEF ListInv, ListType, UnderWay
<1>5. QED
  BY <1>1, <1>3, <1>4 DEF ListInv

LEMMA RefilledKeeps ==
  ASSUME ListInv, NEW p \in Proc, Refill(p)
  PROVE  ListInv'
<1>1. PICK e : Held(e)'
  BY RefilledLists
<1>2. \E v, w : /\ ptop' = [ptop EXCEPT ![p] = v] /\ pcount' = [pcount EXCEPT ![p] = w]
                /\ UNCHANGED <<status, batch>> /\ at[p] = "refill" /\ at' = [at EXCEPT ![p] = "look"]
  BY DEF Refill
<1>3. ListType'
  BY <1>1, <1>2, HeldTypes DEF ListInv, ListType
<1>4. UnderWay'
  BY <1>2 DEF ListInv, ListType, UnderWay
<1>5. QED
  BY <1>1, <1>3, <1>4 DEF ListInv

LEMMA OverfullKeeps ==
  ASSUME ListInv, NEW p \in Proc, NEW t \in Task, ExitSpill(p, t)
  PROVE  ListInv'
<1>1. PICK e : Held(e)'
  BY OverfullLists
<1>2. PICK v, w, h, n :
        /\ status' = [status EXCEPT ![t] = "dead"]
        /\ ptop' = [ptop EXCEPT ![p] = v] /\ pcount' = [pcount EXCEPT ![p] = w]
        /\ batch' = [batch EXCEPT ![p] = [head |-> h, tail |-> t, n |-> n]]
        /\ n = pcount[p] + 2 - Low /\ pcount[p] + 1 >= High
        /\ UNCHANGED <<stop, scount>> /\ at' = [at EXCEPT ![p] = "spill"]
  BY DEF ExitSpill, t_casstatus
<1>3. batch' \in [Proc -> [head : Entries, tail : Entries, n : Nat]]
  <2>1. batch'[p] = [head |-> h, tail |-> t, n |-> n]
    BY <1>2 DEF ListInv, ListType
  <2>2. h \in Entries /\ n \in Nat
    BY <1>1, <2>1, HeldTypes
  <2>3. QED
    BY <1>2, <2>2 DEF ListInv, ListType, Entries
<1>4. ListType'
  BY <1>1, <1>2, <1>3, HeldTypes DEF ListInv, ListType
<1>5. n > 0
  BY <1>2, TaskListsAssumption DEF ListInv, ListType
<1>6. UnderWay'
  BY <1>2, <1>5 DEF ListInv, ListType, UnderWay
<1>7. QED
  BY <1>1, <1>4, <1>6 DEF ListInv

LEMMA SpilledKeeps ==
  ASSUME ListInv, NEW p \in Proc, Spill(p)
  PROVE  ListInv'
<1>1. PICK e : Held(e)'
  BY SpilledLists
<1>2. /\ batch' = [batch EXCEPT ![p] = EmptyQueue]
      /\ UNCHANGED <<ptop, pcount, status>> /\ at' = [at EXCEPT ![p] = "run"]
  BY DEF Spill
<1>3. ListType'
  BY <1>1, <1>2, HeldTypes DEF ListInv, ListType, EmptyQueue, Entries
<1>4. UnderWay'
  BY <1>2 DEF ListInv, ListType, UnderWay
<1>5. QED
  BY <1>1, <1>3, <1>4 DEF ListInv

LEMMA ListNextKeeps == ListInv /\ [ListNext]_listVars => ListInv'
<1> SUFFICES ASSUME ListInv, [ListNext]_listVars PROVE ListInv'
  OBVIOUS
<1>1. CASE ListNext
  <2>1. PICK p \in Proc :
          \/ Spawn(p) \/ SpawnTooSmall(p) \/ Refill(p) \/ GetFree(p) \/ Spill(p)
          \/ \E t \in Task : \/ SpawnUser(p, t) \/ SpawnCustom(p, t) \/ GetNew(p, t)
                             \/ ExitFreed(p, t) \/ ExitKept(p, t) \/ ExitSpill(p, t)
    BY <1>1 DEF ListNext
  <2>2. CASE Spawn(p) \/ SpawnTooSmall(p)
    BY <2>2, SpawnKeeps
  <2>3. CASE Refill(p)
    BY <2>3, RefilledKeeps
  <2>4. CASE GetFree(p)
    BY <2>4, GottenKeeps
  <2>5. CASE Spill(p)
    BY <2>5, SpilledKeeps
  <2>6. CASE \E t \in Task : SpawnUser(p, t) \/ SpawnCustom(p, t) \/ GetNew(p, t)
    BY <2>6, AllocKeeps
  <2>7. CASE \E t \in Task : ExitFreed(p, t)
    BY <2>7, FreedKeeps
  <2>8. CASE \E t \in Task : ExitKept(p, t)
    BY <2>8, KeptKeeps
  <2>9. CASE \E t \in Task : ExitSpill(p, t)
    BY <2>9, OverfullKeeps
  <2>10. QED
    BY <2>1, <2>2, <2>3, <2>4, <2>5, <2>6, <2>7, <2>8, <2>9
<1>2. CASE UNCHANGED listVars
  <2>1. UNCHANGED <<link, status, ptop, pcount, stop, scount, batch, at>>
    BY <1>2 DEF listVars
  <2>2. Dead' = Dead /\ ListType' /\ UnderWay' /\ link' \in [Task -> Entries]
    BY <2>1 DEF ListInv, ListType, UnderWay, Dead
  <2>3. \E e : Held(e)'
    BY <2>1, <2>2, SameLists
  <2>4. QED
    BY <2>2, <2>3 DEF ListInv
<1>3. QED
  BY <1>1, <1>2

-----------------------------------------------------------------------------
(* What it implies                                                          *)

\* The list that a head begins is the stack, and no more.
LEMMA ChainIsStack ==
  ASSUME NEW e, Held(e), ListType, NEW x \in Heads
  PROVE  /\ Chain(link, HeadOf(x)) = {e[x][r] : r \in 0 .. CountOf(x) - 1}
         /\ CountOf(x) = Cardinality(Chain(link, HeadOf(x)))
         /\ Nth(link, HeadOf(x), Cardinality(Task)) = NoTask
<1> DEFINE n == CountOf(x)
           C == {e[x][r] : r \in 0 .. n - 1}
           N == Cardinality(Task)
           g == [r \in 1 .. n |-> e[x][r - 1]]
<1>1. Stacks(link, e, Counts, Dead) /\ HeadOf(x) = Top(e, Counts, x) /\ Counts[x] = n /\ n \in Nat
  BY DEF Held, Counts, Stacks
<1>2. IsFiniteSet(Task) /\ N \in Nat
  BY TaskListsAssumption, FS_CardinalityType
<1>3. \A i \in Nat : Nth(link, HeadOf(x), i) = At(e, Counts, x, i)
  BY <1>1, NthAt
<1>4. \A r \in Nat : r < n => e[x][r] \in Task /\ e[x][r] # NoTask
  BY <1>1, TaskListsAssumption DEF Stacks, Dead
<1>5. \A r, q \in Nat : r < n /\ q < n /\ e[x][r] = e[x][q] => r = q
  BY <1>1 DEF Stacks
<1> HIDE DEF N, n
<1>6. \A r \in 1 .. n : r - 1 \in Nat /\ r - 1 < n
  BY <1>1
<1>7. g \in Injection(1 .. n, Task)
  <2>1. \A r \in 1 .. n : g[r] \in Task
    BY <1>4, <1>6
  <2>2. ASSUME NEW r \in 1 .. n, NEW q \in 1 .. n, g[r] = g[q] PROVE r = q
    <3>1. r - 1 = q - 1
      BY <1>5, <1>6, <2>2
    <3>2. QED
      BY <1>1, <3>1
  <2>3. QED
    BY <2>1, <2>2 DEF Injection, IsInjective
<1>8. n <= N
  <2>1. Cardinality(1 .. n) <= N
    BY <1>2, <1>7, FS_Injection DEF N
  <2>2. Cardinality(1 .. n) = n
    BY <1>1, FS_Interval
  <2>3. QED
    BY <2>1, <2>2
<1>9. g \in Bijection(1 .. n, C)
  <2>1. \A r \in 1 .. n : r - 1 \in 0 .. n - 1 /\ g[r] = e[x][r - 1]
    BY <1>1
  <2>2. \A r \in 0 .. n - 1 : r + 1 \in 1 .. n /\ g[r + 1] = e[x][r]
    BY <1>1
  <2>3. g \in Surjection(1 .. n, C)
    <3> HIDE DEF g
    <3>1. g \in [1 .. n -> C]
      BY <2>1 DEF g
    <3>2. \A v \in C : \E r \in 1 .. n : g[r] = v
      BY <2>2
    <3>3. QED
      BY <3>1, <3>2 DEF Surjection
  <2>4. g \in Injection(1 .. n, C)
    BY <1>7, <2>3 DEF Injection, Surjection, IsInjective
  <2>5. QED
    BY <2>3, <2>4 DEF Bijection
<1>10. Cardinality(C) = n
  <2>1. ExistsBijection(1 .. n, C)
    BY <1>9 DEF ExistsBijection
  <2>2. QED
    BY <1>1, <2>1, FS_CountingElements
<1>11. Chain(link, HeadOf(x)) = C
  <2>1. ASSUME NEW i \in 0 .. N, Nth(link, HeadOf(x), i) # NoTask
        PROVE  Nth(link, HeadOf(x), i) \in C
    <3>1. i \in Nat /\ i < n /\ Nth(link, HeadOf(x), i) = e[x][n - 1 - i]
      BY <1>1, <1>2, <1>3, <2>1 DEF At
    <3>2. n - 1 - i \in 0 .. n - 1
      BY <1>1, <3>1
    <3>3. QED
      BY <3>1, <3>2
  <2>2. ASSUME NEW r \in 0 .. n - 1
        PROVE  /\ e[x][r] # NoTask
               /\ \E i \in 0 .. N : Nth(link, HeadOf(x), i) = e[x][r]
    <3>1. r \in Nat /\ r < n /\ n - 1 - r \in Nat /\ n - 1 - r \in 0 .. N /\ n - 1 - r < n
          /\ n - 1 - (n - 1 - r) = r
      BY <1>1, <1>2, <1>8
    <3>2. Nth(link, HeadOf(x), n - 1 - r) = e[x][r]
      BY <1>1, <1>3, <3>1 DEF At
    <3>3. QED
      BY <1>4, <3>1, <3>2
  <2>3. QED
    BY <2>1, <2>2 DEF Chain, N
<1>12. Nth(link, HeadOf(x), N) = NoTask
  BY <1>1, <1>2, <1>3, <1>8 DEF At
<1>13. QED
  BY <1>10, <1>11, <1>12 DEF n, N

LEMMA InvImpliesEachOnOneList == ListInv => EachOnOneList
<1> SUFFICES ASSUME ListInv PROVE EachOnOneList
  OBVIOUS
<1>1. PICK e : Held(e)
  BY DEF ListInv
<1>2. /\ Stacks(link, e, Counts, Dead) /\ ListType
      /\ \A x \in Heads : Counts[x] = CountOf(x) /\ CountOf(x) \in Nat
  BY <1>1 DEF Held, ListInv, Counts, Stacks
<1>3. ASSUME NEW x \in Heads
      PROVE  /\ Chain(link, HeadOf(x)) = {e[x][r] : r \in 0 .. CountOf(x) - 1}
             /\ CountOf(x) = Cardinality(Chain(link, HeadOf(x)))
             /\ Nth(link, HeadOf(x), Cardinality(Task)) = NoTask
             /\ \A r \in 0 .. CountOf(x) - 1 : r \in Nat /\ r < Counts[x]
  BY <1>1, <1>2, ChainIsStack
<1>4. ASSUME NEW x \in Heads, NEW y \in Heads, x # y
      PROVE  Chain(link, HeadOf(x)) \cap Chain(link, HeadOf(y)) = {}
  <2>1. SUFFICES ASSUME NEW r \in 0 .. CountOf(x) - 1, NEW q \in 0 .. CountOf(y) - 1,
                        e[x][r] = e[y][q]
                 PROVE  FALSE
    BY <1>3
  <2>2. QED
    BY <1>2, <1>3, <1>4, <2>1 DEF Stacks
<1>5. UNION {Chain(link, HeadOf(x)) : x \in Heads} = Dead
  <2>1. ASSUME NEW x \in Heads, NEW t \in Chain(link, HeadOf(x)) PROVE t \in Dead
    BY <1>2, <1>3 DEF Stacks
  <2>2. ASSUME NEW t \in Dead PROVE \E x \in Heads : t \in Chain(link, HeadOf(x))
    <3>1. PICK x \in Heads, r \in Nat : r < Counts[x] /\ e[x][r] = t
      BY <1>2 DEF Stacks
    <3>2. r \in 0 .. CountOf(x) - 1
      BY <1>2, <3>1
    <3>3. QED
      BY <1>3, <3>1, <3>2
  <2>3. QED
    BY <2>1, <2>2
<1>6. QED
  BY <1>3, <1>4, <1>5 DEF EachOnOneList, Dead

\* However refills, puts and spills of any number of Ps interleave, and
\* whatever the bounds, every dead task is on exactly one list, live tasks are
\* on none, no list runs in circles, and the counters count what the lists hold.
THEOREM DeadTasksOnOneList == ListSpec => []EachOnOneList
<1>1. ListInit => ListInv
  BY ListInitHolds
<1>2. ListInv /\ [ListNext]_listVars => ListInv'
  BY ListNextKeeps
<1>3. ListInv => EachOnOneList
  BY InvImpliesEachOnOneList
<1>4. QED
  BY <1>1, <1>2, <1>3, PTL DEF ListSpec
=============================================================================
