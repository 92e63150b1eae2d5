--------------------------- MODULE HashMapProofs ---------------------------
(* A hash map answers with the last value put, holds each key once and     *)
(* counts what it holds, for any keys, hashes, sizes of buckets and numbers *)
(* of doublings.                                                            *)
EXTENDS HashMap, FiniteSetTheorems, SequenceTheorems, WellFoundedInduction, TLAPS

-----------------------------------------------------------------------------
(* Numbers                                                                  *)

\* A set of numbers has a least one.
LEMMA Least == ASSUME NEW S, S \subseteq Nat, S # {} PROVE \E n \in S : \A j \in S : n <= j
<1>1. PICK n \in S : \A j \in S : ~(<<j, n>> \in OpToRel(<, Nat))
  BY NatLessThanWellFounded, WFMin
<1>2. \A j \in S : ~(j < n)
  BY <1>1 DEF OpToRel
<1>3. QED
  BY <1>2

LEMMA FirstIs ==
  ASSUME NEW S, S \subseteq Nat, S # {}
  PROVE  First(S) \in S /\ First(S) \in Nat /\ \A j \in S : First(S) <= j
<1>1. \E n \in S : \A j \in S : n <= j
  BY Least
<1>2. First(S) \in S /\ \A j \in S : First(S) <= j
  BY <1>1 DEF First
<1>3. QED
  BY <1>2

\* A number has one quotient and one remainder.
LEMMA Remainder ==
  ASSUME NEW c \in Nat \ {0}, NEW a \in Nat
  PROVE  /\ a % c \in 0 .. c - 1
         /\ \E q \in Nat : a = c * q + (a % c)
<1>1. \E q \in Nat : \E r \in 0 .. c - 1 : a = c * q + r /\ r = a % c
  OBVIOUS
<1>2. QED
  BY <1>1

LEMMA RemainderUnique ==
  ASSUME NEW c \in Nat \ {0}, NEW q \in Int, NEW r \in 0 .. c - 1
  PROVE  (c * q + r) % c = r
BY SMT

LEMMA ProductPositive ==
  ASSUME NEW c \in Nat \ {0}, NEW m \in Nat \ {0} PROVE c * m \in Nat \ {0}
OBVIOUS

LEMMA ProductAssociative ==
  ASSUME NEW c \in Nat, NEW m \in Nat, NEW q \in Nat PROVE (c * m) * q = c * (m * q)
OBVIOUS

LEMMA Distributive ==
  ASSUME NEW c \in Nat, NEW x \in Nat, NEW p \in Nat PROVE c * (x + p) = c * x + c * p
OBVIOUS

\* A remainder by a multiple of c keeps the remainder by c.
LEMMA RemainderOfMultiple ==
  ASSUME NEW c \in Nat \ {0}, NEW m \in Nat \ {0}, NEW a \in Nat
  PROVE  (a % (c * m)) % c = a % c
<1>1. c * m \in Nat \ {0}
  BY ProductPositive
<1>2. PICK w \in Nat \ {0} : w = c * m
  BY <1>1
<1>3. PICK b \in Nat : b = a % w
  BY Remainder
<1>4. PICK q \in Nat : a = w * q + b
  BY <1>3, Remainder
<1>5. PICK r \in 0 .. c - 1 : r = b % c
  BY Remainder
<1>6. PICK p \in Nat : b = c * p + r
  BY <1>5, Remainder
<1>7. w * q = c * (m * q)
  BY <1>2, ProductAssociative
<1>8. PICK x \in Nat : x = m * q
  OBVIOUS
<1>9. c * (x + p) = c * x + c * p
  BY Distributive
<1>10. a = c * (x + p) + r
  <2>1. c * x \in Nat /\ c * p \in Nat /\ r \in Nat
    OBVIOUS
  <2>2. w * q = c * x
    BY <1>7, <1>8
  <2>3. QED
    BY <1>4, <1>6, <1>9, <2>1, <2>2
<1>11. a % c = r
  BY <1>10, RemainderUnique
<1>12. QED
  BY <1>2, <1>3, <1>5, <1>11

-----------------------------------------------------------------------------
(* The numbers of buckets                                                   *)

\* There is a function that doubles up to n.
Doubling(f, n) == f = [d \in 0 .. n |-> IF d = 0 THEN InitBuckets ELSE 2 * f[d-1]]

LEMMA DoublingExists == ASSUME NEW n \in Nat PROVE \E f : Doubling(f, n)
<1> DEFINE S == {i \in Nat : ~ \E f : Doubling(f, i)}
<1>1. SUFFICES ASSUME S # {} PROVE FALSE
  OBVIOUS
<1>2. PICK i \in S : \A j \in S : i <= j
  <2>1. S \subseteq Nat
    OBVIOUS
  <2> HIDE DEF S
  <2>2. QED
    BY <1>1, <2>1, Least
<1>3. i \in Nat /\ ~ \E f : Doubling(f, i)
  BY <1>2
<1>4. CASE i = 0
  <2> DEFINE f == [d \in 0 .. 0 |-> InitBuckets]
  <2>1. Doubling(f, 0)
    BY DEF Doubling
  <2>2. QED
    BY <1>3, <1>4, <2>1
<1>5. CASE i # 0
  <2>1. i - 1 \in Nat /\ i - 1 \notin S
    BY <1>2, <1>3, <1>5
  <2>2. PICK g : Doubling(g, i - 1)
    BY <2>1
  <2> DEFINE f == [d \in 0 .. i |-> IF d = 0 THEN InitBuckets ELSE 2 * g[d-1]]
  <2>3. \A d \in 0 .. i - 1 : f[d] = g[d]
    <3>1. \A d \in 0 .. i - 1 : g[d] = IF d = 0 THEN InitBuckets ELSE 2 * g[d-1]
      BY <2>2 DEF Doubling
    <3>2. 0 .. i - 1 \subseteq 0 .. i
      BY <1>3
    <3>3. QED
      BY <3>1, <3>2
  <2>4. \A d \in 0 .. i : d # 0 => d - 1 \in 0 .. i - 1
    BY <1>3
  <2>5. Doubling(f, i)
    BY <2>3, <2>4 DEF Doubling
  <2>6. QED
    BY <1>3, <2>5
<1>6. QED
  BY <1>4, <1>5

LEMMA CapAfterDef ==
  /\ CapAfter[0] = InitBuckets
  /\ \A d \in 0 .. MaxDoublings : d # 0 => d - 1 \in 0 .. MaxDoublings /\ CapAfter[d] = 2 * CapAfter[d-1]
<1>1. MaxDoublings \in Nat
  BY HashMapAssumption
<1>2. \E f : Doubling(f, MaxDoublings)
  BY <1>1, DoublingExists
<1>3. Doubling(CapAfter, MaxDoublings)
  BY <1>2 DEF Doubling, CapAfter
<1>4. 0 \in 0 .. MaxDoublings /\ \A d \in 0 .. MaxDoublings : d # 0 => d - 1 \in 0 .. MaxDoublings
  BY <1>1
<1> HIDE DEF CapAfter
<1>5. QED
  BY <1>3, <1>4 DEF Doubling

\* A number of buckets is a multiple of every smaller one.
LEMMA CapsDivide ==
  ASSUME NEW d \in 0 .. MaxDoublings, NEW e \in 0 .. MaxDoublings, d <= e
  PROVE  /\ CapAfter[d] \in Nat \ {0} /\ CapAfter[d] <= CapAfter[e]
         /\ \E m \in Nat \ {0} : CapAfter[e] = CapAfter[d] * m
<1> DEFINE Good(i) == /\ CapAfter[i] \in Nat \ {0}
                      /\ \A j \in 0 .. i : /\ CapAfter[j] \in Nat \ {0} /\ CapAfter[j] <= CapAfter[i]
                                           /\ \E m \in Nat \ {0} : CapAfter[i] = CapAfter[j] * m
           S == {i \in 0 .. MaxDoublings : ~Good(i)}
<1>0. MaxDoublings \in Nat /\ InitBuckets \in Nat \ {0}
  BY HashMapAssumption
<1>1. ASSUME S # {} PROVE FALSE
  <2>1. PICK i \in S : \A j \in S : i <= j
    <3>1. S \subseteq Nat
      OBVIOUS
    <3> HIDE DEF S
    <3>2. QED
      BY <1>1, <3>1, Least
  <2>2. i \in 0 .. MaxDoublings /\ ~Good(i)
    BY <2>1
  <2>3. CASE i = 0
    <3>1. CapAfter[0] = CapAfter[0] * 1 /\ CapAfter[0] \in Nat \ {0}
      BY <1>0, CapAfterDef
    <3>2. \A j \in 0 .. 0 : j = 0
      OBVIOUS
    <3> HIDE DEF CapAfter
    <3>3. Good(0)
      BY <3>1, <3>2
    <3>4. QED
      BY <2>2, <2>3, <3>3
  <2>4. CASE i # 0
    <3> HIDE DEF CapAfter
    <3>1. i - 1 \in 0 .. MaxDoublings /\ CapAfter[i] = 2 * CapAfter[i - 1]
      BY <2>2, <2>4, CapAfterDef
    <3>2. i - 1 \notin S
      BY <2>1, <2>2, <3>1
    <3>3. Good(i - 1)
      BY <3>1, <3>2
    <3>4. CapAfter[i] \in Nat \ {0} /\ CapAfter[i - 1] <= CapAfter[i]
      BY <3>1, <3>3
    <3>5. ASSUME NEW j \in 0 .. i
          PROVE  /\ CapAfter[j] \in Nat \ {0} /\ CapAfter[j] <= CapAfter[i]
                 /\ \E m \in Nat \ {0} : CapAfter[i] = CapAfter[j] * m
      <4>1. CASE j = i
        <5>1. CapAfter[i] = CapAfter[i] * 1
          BY <3>4
        <5>2. QED
          BY <3>4, <4>1, <5>1
      <4>2. CASE j # i
        <5>1. j \in 0 .. i - 1
          BY <2>2, <4>2
        <5>2. PICK m \in Nat \ {0} : CapAfter[i - 1] = CapAfter[j] * m
          BY <3>3, <5>1
        <5>3. CapAfter[j] \in Nat \ {0} /\ CapAfter[j] <= CapAfter[i - 1]
          BY <3>3, <5>1
        <5>4. 2 * (CapAfter[j] * m) = CapAfter[j] * (2 * m) /\ 2 * m \in Nat \ {0}
          BY <5>3, SMT
        <5>5. QED
          BY <3>1, <3>3, <3>4, <5>2, <5>3, <5>4
      <4>3. QED
        BY <4>1, <4>2
    <3>6. Good(i)
      BY <3>4, <3>5
    <3>7. QED
      BY <2>2, <3>6
  <2>5. QED
    BY <2>3, <2>4
<1>2. Good(e)
  BY <1>1
<1>3. d \in 0 .. e
  BY <1>0
<1>4. QED
  BY <1>2, <1>3

-----------------------------------------------------------------------------
(* What mapGrow moves                                                       *)

\* The entries of b up to n that move, in a function of n.
Moving(f, b, c, i, n) ==
  f = [q \in 0 .. n |-> IF q = 0 THEN <<>> ELSE IF Moves(b[q], c, i) THEN Append(f[q-1], b[q]) ELSE f[q-1]]

LEMMA MovingExists == ASSUME NEW b, NEW c, NEW i, NEW n \in Nat PROVE \E f : Moving(f, b, c, i, n)
<1> DEFINE Step(q, x) == IF Moves(b[q], c, i) THEN Append(x, b[q]) ELSE x
           S == {k \in Nat : ~ \E f : Moving(f, b, c, i, k)}
<1>1. SUFFICES ASSUME S # {} PROVE FALSE
  OBVIOUS
<1>2. PICK k \in S : \A j \in S : k <= j
  <2>1. S \subseteq Nat
    OBVIOUS
  <2> HIDE DEF S
  <2>2. QED
    BY <1>1, <2>1, Least
<1>3. k \in Nat /\ ~ \E f : Moving(f, b, c, i, k)
  BY <1>2
<1>4. CASE k = 0
  <2> DEFINE f == [q \in 0 .. 0 |-> <<>>]
  <2>1. Moving(f, b, c, i, 0)
    BY DEF Moving
  <2>2. QED
    BY <1>3, <1>4, <2>1
<1>5. CASE k # 0
  <2>1. k - 1 \in Nat /\ k - 1 \notin S
    BY <1>2, <1>3, <1>5
  <2>2. PICK g : Moving(g, b, c, i, k - 1)
    BY <2>1
  <2> DEFINE f == [q \in 0 .. k |-> IF q = 0 THEN <<>> ELSE Step(q, g[q-1])]
  <2>3. \A q \in 0 .. k - 1 : f[q] = g[q]
    <3>1. \A q \in 0 .. k - 1 : g[q] = IF q = 0 THEN <<>> ELSE Step(q, g[q-1])
      BY <2>2 DEF Moving
    <3>2. 0 .. k - 1 \subseteq 0 .. k
      BY <1>3
    <3> HIDE DEF Step
    <3>3. QED
      BY <3>1, <3>2
  <2>4. \A q \in 0 .. k : q # 0 => q - 1 \in 0 .. k - 1
    BY <1>3
  <2>5. f = [q \in 0 .. k |-> IF q = 0 THEN <<>> ELSE Step(q, f[q-1])]
    <3> HIDE DEF Step
    <3>1. QED
      BY <2>3, <2>4
  <2>6. Moving(f, b, c, i, k)
    BY <2>5 DEF Moving
  <2>7. QED
    BY <1>3, <2>6
<1>6. QED
  BY <1>4, <1>5

\* s has the entries of b up to n that move, once each: number j is b[g[j]].
Picks(s, b, n, c, i, g) ==
  /\ s \in Seq(Entry) /\ g \in [1 .. Len(s) -> 1 .. n]
  /\ \A j \in 1 .. Len(s) : s[j] = b[g[j]] /\ Moves(b[g[j]], c, i)
  /\ \A j, k \in 1 .. Len(s) : g[j] = g[k] => j = k
  /\ \A q \in 1 .. n : Moves(b[q], c, i) => \E j \in 1 .. Len(s) : g[j] = q

\* One more entry is looked at.
LEMMA PicksNext ==
  ASSUME NEW b \in Seq(Entry), NEW n \in Nat, n + 1 \in 1 .. Len(b), NEW c, NEW i,
         NEW s, NEW g, Picks(s, b, n, c, i, g)
  PROVE  \E h : Picks(IF Moves(b[n+1], c, i) THEN Append(s, b[n+1]) ELSE s, b, n + 1, c, i, h)
<1> DEFINE x == b[n+1]
           t == Append(s, x)
           m == Len(s)
<1>1. x \in Entry /\ m \in Nat /\ s \in Seq(Entry)
  BY DEF Picks
<1>2. CASE ~Moves(x, c, i)
  <2>1. g \in [1 .. Len(s) -> 1 .. n + 1]
    <3>1. \A j \in 1 .. Len(s) : g[j] \in 1 .. n + 1
      BY DEF Picks
    <3>2. QED
      BY <3>1 DEF Picks
  <2>2. \A q \in 1 .. n + 1 : q \in 1 .. n \/ q = n + 1
    OBVIOUS
  <2>3. Picks(s, b, n + 1, c, i, g)
    BY <1>2, <2>1, <2>2 DEF Picks
  <2>4. QED
    BY <1>2, <2>3
<1>3. CASE Moves(x, c, i)
  <2> DEFINE h == [j \in 1 .. m + 1 |-> IF j = m + 1 THEN n + 1 ELSE g[j]]
  <2>1. t \in Seq(Entry) /\ Len(t) = m + 1 /\ t[m + 1] = x /\ \A j \in 1 .. m : t[j] = s[j]
    BY <1>1, AppendProperties
  <2>2. \A j \in 1 .. m + 1 : j = m + 1 \/ (j \in 1 .. m /\ j # m + 1)
    BY <1>1
  <2>a. \A j \in 1 .. m : g[j] \in 1 .. n
    BY DEF Picks
  <2>b. \A v \in 1 .. n : v # n + 1 /\ v \in 1 .. n + 1
    OBVIOUS
  <2>3. \A j \in 1 .. m : g[j] \in 1 .. n /\ g[j] # n + 1 /\ g[j] \in 1 .. n + 1
    BY <2>a, <2>b
  <2> HIDE DEF t, m, x
  <2>4. m + 1 \in 1 .. m + 1 /\ \A j \in 1 .. m : j \in 1 .. m + 1 /\ j # m + 1
    BY <1>1
  <2>5. h[m + 1] = n + 1 /\ \A j \in 1 .. m : h[j] = g[j]
    BY <2>2, <2>4
  <2>6. h \in [1 .. m + 1 -> 1 .. n + 1]
    BY <2>2, <2>3
  <2> HIDE DEF h
  <2>7. \A j \in 1 .. m : s[j] = b[g[j]] /\ Moves(b[g[j]], c, i)
    BY DEF Picks, m
  <2>8. \A j \in 1 .. m + 1 : t[j] = b[h[j]] /\ Moves(b[h[j]], c, i)
    BY <1>3, <2>1, <2>2, <2>5, <2>7 DEF x
  <2>9. \A j, k \in 1 .. m : g[j] = g[k] => j = k
    BY DEF Picks, m
  <2>10. \A j, k \in 1 .. m + 1 : h[j] = h[k] => j = k
    BY <2>2, <2>3, <2>5, <2>9
  <2>11. ASSUME NEW q \in 1 .. n + 1, Moves(b[q], c, i) PROVE \E j \in 1 .. m + 1 : h[j] = q
    <3>1. CASE q = n + 1
      BY <2>4, <2>5, <3>1
    <3>2. CASE q # n + 1
      <4>1. q \in 1 .. n
        BY <3>2
      <4>2. PICK j \in 1 .. m : g[j] = q
        BY <2>11, <4>1 DEF Picks, m
      <4>3. QED
        BY <2>4, <2>5, <4>2
    <3>3. QED
      BY <3>1, <3>2
  <2>12. Picks(t, b, n + 1, c, i, h)
    BY <2>1, <2>6, <2>8, <2>10, <2>11 DEF Picks
  <2>13. QED
    BY <1>3, <2>12 DEF t, x
<1>4. QED
  BY <1>2, <1>3

LEMMA MovedPicks ==
  ASSUME NEW b \in Seq(Entry), NEW c, NEW i
  PROVE  \E g : Picks(Moved(b, c, i), b, Len(b), c, i, g)
<1> DEFINE N == Len(b)
           F == CHOOSE f : Moving(f, b, c, i, N)
           S == {n \in 0 .. N : ~ \E g : Picks(F[n], b, n, c, i, g)}
<1>1. N \in Nat
  OBVIOUS
<1>2. Moving(F, b, c, i, N)
  BY <1>1, MovingExists
<1>3. Moved(b, c, i) = F[N]
  BY DEF Moved, Moving
<1> HIDE DEF F, N
<1>4. ASSUME S # {} PROVE FALSE
  <2>1. PICK n \in S : \A j \in S : n <= j
    <3>1. S \subseteq Nat
      BY <1>1
    <3> HIDE DEF S
    <3>2. QED
      BY <1>4, <3>1, Least
  <2>2. n \in 0 .. N /\ ~ \E g : Picks(F[n], b, n, c, i, g)
    BY <2>1
  <2>3. CASE n = 0
    <3>1. F[0] = <<>>
      <4>1. 0 \in 0 .. N
        BY <1>1
      <4>2. QED
        BY <1>2, <4>1 DEF Moving
    <3>2. Picks(<<>>, b, 0, c, i, <<>>)
      BY DEF Picks
    <3>3. QED
      BY <2>2, <2>3, <3>1, <3>2
  <2>4. CASE n # 0
    <3>1. n - 1 \in Nat /\ n - 1 \in 0 .. N /\ (n - 1) + 1 = n /\ n \in 1 .. N
      BY <1>1, <2>2, <2>4
    <3>2. n - 1 \notin S
      BY <2>1, <3>1
    <3>3. PICK g : Picks(F[n - 1], b, n - 1, c, i, g)
      BY <3>1, <3>2
    <3>4. F[n] = IF Moves(b[n], c, i) THEN Append(F[n - 1], b[n]) ELSE F[n - 1]
      BY <1>2, <2>2, <2>4 DEF Moving
    <3>5. \E h : Picks(IF Moves(b[(n-1)+1], c, i) THEN Append(F[n-1], b[(n-1)+1]) ELSE F[n-1],
                       b, (n - 1) + 1, c, i, h)
      BY <3>1, <3>3, PicksNext DEF N
    <3>6. \E h : Picks(F[n], b, n, c, i, h)
      BY <3>1, <3>4, <3>5
    <3>7. QED
      BY <2>2, <3>6
  <2>5. QED
    BY <2>3, <2>4
<1>5. \E g : Picks(F[N], b, N, c, i, g)
  BY <1>1, <1>4
<1>6. QED
  BY <1>3, <1>5 DEF N

-----------------------------------------------------------------------------
(* Tables: c buckets B                                                      *)

\* Buckets are not overfull and have entries that belong there.
Filled(c, B) ==
  /\ c \in Nat \ {0} /\ B \in [0 .. c-1 -> Seq(Entry)]
  /\ \A i \in 0 .. c-1 : /\ Len(B[i]) <= Entries
                         /\ \A j \in 1 .. Len(B[i]) : Hash(B[i][j].key) % c = i

LiveIn(c, B) == {s \in (0 .. c-1) \X (1 .. Entries) : s[2] <= Len(B[s[1]]) /\ B[s[1]][s[2]].value # NULL}

Slots(b) == 1 .. Len(b)

\* The bucket of a key among c.
At(k, c) == Hash(k) % c

\* A bucket has a key once.
Unique(b) == \A j, k \in Slots(b) : b[j].key = b[k].key => j = k

UniqueIn(c, B) == \A i \in 0 .. c-1 : Unique(B[i])

\* The entries of bucket b for key k have value v; if there is none, v is NULL.
Gives(b, k, v) ==
  /\ \A j \in Slots(b) : b[j].key = k => v = b[j].value
  /\ (\A j \in Slots(b) : b[j].key # k) => v = NULL

\* What the table holds is the function P from keys to values.
Holds(c, B, P) == \A k \in Key : Gives(B[At(k, c)], k, P[k])

LEMMA BucketOf ==
  ASSUME NEW k \in Key, NEW c \in Nat \ {0} PROVE Hash(k) % c \in 0 .. c-1 /\ Hash(k) \in Nat
<1>1. Hash(k) \in Nat
  BY HashMapAssumption
<1>2. QED
  BY <1>1, Remainder

LEMMA LiveFinite == ASSUME NEW c, NEW B, Filled(c, B) PROVE IsFiniteSet(LiveIn(c, B))
<1>1. IsFiniteSet(0 .. c-1) /\ IsFiniteSet(1 .. Entries)
  <2>1. 0 \in Int /\ 1 \in Int /\ c - 1 \in Int /\ Entries \in Int
    BY HashMapAssumption DEF Filled
  <2>2. QED
    BY <2>1, FS_Interval
<1>2. IsFiniteSet((0 .. c-1) \X (1 .. Entries))
  BY <1>1, FS_Product
<1>3. LiveIn(c, B) \in SUBSET ((0 .. c-1) \X (1 .. Entries))
  BY DEF LiveIn
<1>4. QED
  BY <1>2, <1>3, FS_Subset

Replaces(N, B, x, i, e) == N = [B EXCEPT ![x] = [B[x] EXCEPT ![i] = e]]

Appends(N, B, x, e) == N = [B EXCEPT ![x] = Append(B[x], e)]

Puts(Q, P, k, v) == Q = [P EXCEPT ![k] = v]

EntryOf(k, v) == [key |-> k, value |-> v]

\* A slot in use gets another entry of its bucket, live or deleted.
LEMMA ReplaceEntry ==
  ASSUME NEW c, NEW B, Filled(c, B), NEW x \in 0 .. c-1, NEW i \in 1 .. Len(B[x]),
         NEW e \in Entry, At(e.key, c) = x,
         NEW N, Replaces(N, B, x, i, e)
  PROVE  /\ Filled(c, N)
         /\ \A y \in 0 .. c-1 : /\ Len(N[y]) = Len(B[y])
                                /\ \A j \in 1 .. Len(B[y]) : N[y][j] = IF y = x /\ j = i THEN e ELSE B[y][j]
         /\ LiveIn(c, N) = IF e.value = NULL THEN LiveIn(c, B) \ {<<x, i>>} ELSE LiveIn(c, B) \cup {<<x, i>>}
<1> DEFINE n == [B[x] EXCEPT ![i] = e]
<1>1. B[x] \in Seq(Entry) /\ B \in [0 .. c-1 -> Seq(Entry)] /\ c \in Nat \ {0}
  BY DEF Filled
<1>2. n \in Seq(Entry) /\ Len(n) = Len(B[x]) /\ \A j \in 1 .. Len(B[x]) : n[j] = IF j = i THEN e ELSE B[x][j]
  BY <1>1, ExceptSeq
<1> HIDE DEF n
<1>3. N \in [0 .. c-1 -> Seq(Entry)] /\ N[x] = n /\ \A y \in 0 .. c-1 : y # x => N[y] = B[y]
  BY <1>1, <1>2 DEF n, Replaces
<1>4. ASSUME NEW y \in 0 .. c-1
      PROVE  /\ Len(N[y]) = Len(B[y])
             /\ \A j \in 1 .. Len(B[y]) : N[y][j] = IF y = x /\ j = i THEN e ELSE B[y][j]
  BY <1>2, <1>3
<1>5. Filled(c, N)
  <2>1. ASSUME NEW y \in 0 .. c-1, NEW j \in 1 .. Len(N[y]) PROVE Hash(N[y][j].key) % c = y
    <3>1. j \in 1 .. Len(B[y])
      BY <1>4
    <3>2. QED
      BY <1>4, <3>1 DEF Filled, At
  <2>2. QED
    BY <1>1, <1>3, <1>4, <2>1 DEF Filled
<1>6. i \in 1 .. Entries /\ <<x, i>> \in (0 .. c-1) \X (1 .. Entries) /\ i <= Len(B[x])
  BY <1>1, HashMapAssumption DEF Filled
<1>7. ASSUME NEW s \in (0 .. c-1) \X (1 .. Entries)
      PROVE  s \in LiveIn(c, N) <=> IF s = <<x, i>> THEN e.value # NULL ELSE s \in LiveIn(c, B)
  <2>1. s[1] \in 0 .. c-1 /\ s[2] \in 1 .. Entries /\ s = <<s[1], s[2]>>
    OBVIOUS
  <2>2. Len(N[s[1]]) = Len(B[s[1]]) /\ Len(B[s[1]]) \in Nat
    BY <1>1, <1>4, <2>1
  <2>3. CASE s = <<x, i>>
    BY <1>4, <1>6, <2>2, <2>3 DEF LiveIn
  <2>4. CASE s # <<x, i>>
    <3>1. ~(s[1] = x /\ s[2] = i)
      BY <2>1, <2>4
    <3>2. s[2] <= Len(B[s[1]]) => s[2] \in 1 .. Len(B[s[1]])
      BY <2>1, <2>2
    <3>3. s[2] <= Len(B[s[1]]) => N[s[1]][s[2]] = B[s[1]][s[2]]
      BY <1>4, <2>1, <3>1, <3>2
    <3>4. QED
      BY <2>2, <2>4, <3>3 DEF LiveIn
  <2>5. QED
    BY <2>3, <2>4
<1>8. LiveIn(c, N) \subseteq (0 .. c-1) \X (1 .. Entries) /\ LiveIn(c, B) \subseteq (0 .. c-1) \X (1 .. Entries)
  BY DEF LiveIn
<1>9. LiveIn(c, N) = IF e.value = NULL THEN LiveIn(c, B) \ {<<x, i>>} ELSE LiveIn(c, B) \cup {<<x, i>>}
  BY <1>6, <1>7, <1>8
<1>10. QED
  BY <1>4, <1>5, <1>9

\* A bucket with room gets a live entry.
LEMMA AppendEntry ==
  ASSUME NEW c, NEW B, Filled(c, B), NEW x \in 0 .. c-1, Len(B[x]) < Entries,
         NEW e \in Entry, At(e.key, c) = x, e.value # NULL,
         NEW N, Appends(N, B, x, e)
  PROVE  /\ Filled(c, N)
         /\ \A y \in 0 .. c-1 : /\ Len(N[y]) = IF y = x THEN Len(B[y]) + 1 ELSE Len(B[y])
                                /\ Len(B[y]) \in Nat
                                /\ \A j \in 1 .. Len(B[y]) : N[y][j] = B[y][j]
         /\ N[x][Len(B[x]) + 1] = e
         /\ LiveIn(c, N) = LiveIn(c, B) \cup {<<x, Len(B[x]) + 1>>}
         /\ <<x, Len(B[x]) + 1>> \notin LiveIn(c, B)
<1> DEFINE n == Append(B[x], e)
<1>1. /\ B[x] \in Seq(Entry) /\ B \in [0 .. c-1 -> Seq(Entry)] /\ c \in Nat \ {0}
      /\ \A y \in 0 .. c-1 : Len(B[y]) \in Nat /\ Len(B[y]) <= Entries
  BY DEF Filled
<1>2. PICK m \in Nat : m = Len(B[x])
  BY <1>1
<1>3. n \in Seq(Entry) /\ Len(n) = m + 1 /\ n[m + 1] = e /\ \A j \in 1 .. m : n[j] = B[x][j]
  BY <1>1, <1>2, AppendProperties
<1> HIDE DEF n
<1>4. N \in [0 .. c-1 -> Seq(Entry)] /\ N[x] = n /\ \A y \in 0 .. c-1 : y # x => N[y] = B[y]
  BY <1>1, <1>3 DEF n, Appends
<1>5. ASSUME NEW y \in 0 .. c-1
      PROVE  /\ Len(N[y]) = IF y = x THEN Len(B[y]) + 1 ELSE Len(B[y])
             /\ \A j \in 1 .. Len(B[y]) : N[y][j] = B[y][j]
  BY <1>2, <1>3, <1>4
<1>6. ASSUME NEW y \in 0 .. c-1, NEW j \in 1 .. Len(N[y])
      PROVE  j \in 1 .. Len(B[y]) \/ (y = x /\ j = m + 1)
  BY <1>1, <1>2, <1>5
<1>7. Filled(c, N)
  <2>1. ASSUME NEW y \in 0 .. c-1, NEW j \in 1 .. Len(N[y]) PROVE Hash(N[y][j].key) % c = y
    <3>1. CASE j \in 1 .. Len(B[y])
      BY <1>5, <3>1 DEF Filled
    <3>2. CASE y = x /\ j = m + 1
      BY <1>3, <1>4, <3>2 DEF At
    <3>3. QED
      BY <1>6, <3>1, <3>2
  <2>2. ASSUME NEW y \in 0 .. c-1 PROVE Len(N[y]) <= Entries
    <3>1. Len(B[x]) + 1 <= Entries
      BY <1>1, HashMapAssumption
    <3>2. QED
      BY <1>1, <1>5, <3>1
  <2>3. QED
    BY <1>1, <1>4, <2>1, <2>2 DEF Filled
<1>8. m + 1 \in 1 .. Entries /\ <<x, m + 1>> \in (0 .. c-1) \X (1 .. Entries) /\ ~(m + 1 <= Len(B[x]))
  BY <1>1, <1>2, HashMapAssumption
<1>9. <<x, m + 1>> \notin LiveIn(c, B)
  BY <1>8 DEF LiveIn
<1>10. <<x, m + 1>> \in LiveIn(c, N)
  BY <1>2, <1>3, <1>4, <1>8 DEF LiveIn
<1>11. ASSUME NEW s \in (0 .. c-1) \X (1 .. Entries), s # <<x, m + 1>>
       PROVE  s \in LiveIn(c, N) <=> s \in LiveIn(c, B)
  <2>1. s[1] \in 0 .. c-1 /\ s[2] \in 1 .. Entries /\ s[2] \in Nat /\ s = <<s[1], s[2]>>
    OBVIOUS
  <2>2. ~(s[1] = x /\ s[2] = m + 1)
    BY <1>11, <2>1
  <2>3. s[2] <= Len(N[s[1]]) => s[2] <= Len(B[s[1]])
    <3>1. PICK y \in 0 .. c-1 : y = s[1]
      BY <2>1
    <3>2. PICK j \in Nat : j = s[2]
      BY <2>1
    <3>3. CASE y = x
      <4>1. Len(B[y]) = m /\ Len(N[y]) = m + 1
        BY <1>2, <1>3, <1>4, <3>3
      <4>2. j # m + 1
        BY <2>2, <3>1, <3>2, <3>3
      <4>3. j <= m + 1 => j <= m
        BY <4>2
      <4>4. QED
        BY <3>1, <3>2, <4>1, <4>3
    <3>4. CASE y # x
      BY <1>5, <3>1, <3>4
    <3>5. QED
      BY <3>3, <3>4
  <2>4. s[2] <= Len(B[s[1]]) => s[2] <= Len(N[s[1]]) /\ s[2] \in 1 .. Len(B[s[1]])
    BY <1>1, <1>5, <2>1, SMTT(30)
  <2>5. s[2] <= Len(B[s[1]]) => N[s[1]][s[2]] = B[s[1]][s[2]]
    BY <1>5, <2>1, <2>4
  <2>6. QED
    BY <2>3, <2>4, <2>5 DEF LiveIn
<1>12. LiveIn(c, N) \subseteq (0 .. c-1) \X (1 .. Entries) /\ LiveIn(c, B) \subseteq (0 .. c-1) \X (1 .. Entries)
  BY DEF LiveIn
<1>13. LiveIn(c, N) = LiveIn(c, B) \cup {<<x, m + 1>>}
  BY <1>10, <1>11, <1>12
<1>14. N[x][m + 1] = e
  BY <1>3, <1>4
<1>15. QED
  BY <1>1, <1>2, <1>5, <1>7, <1>9, <1>13, <1>14

\* s has the live entries of b whose bucket is i, each once, and no others:
\* number j is b[g[j]].
Draws(s, b, c, i, g) ==
  /\ s \in Seq(Entry)
  /\ \A j \in Slots(s) : g[j] \in Slots(b) /\ s[j] = b[g[j]] /\ s[j].value # NULL /\ At(s[j].key, c) = i
  /\ \A j, k \in Slots(s) : g[j] = g[k] => j = k
  /\ \A q \in Slots(b) : b[q].value # NULL /\ At(b[q].key, c) = i => \E j \in Slots(s) : g[j] = q

LEMMA MovedDraws ==
  ASSUME NEW b \in Seq(Entry), NEW c, NEW i
  PROVE  \E g : Draws(Moved(b, c, i), b, c, i, g)
<1>1. PICK g : Picks(Moved(b, c, i), b, Len(b), c, i, g)
  BY MovedPicks
<1> DEFINE s == Moved(b, c, i)
<1> HIDE DEF s
<1>2. Draws(s, b, c, i, g)
  BY <1>1 DEF Picks, Draws, Moves, Slots, At, s
<1>3. QED
  BY <1>2 DEF s

Live(s, I, B) == \E i \in I : \E j \in Slots(B[i]) : s = <<i, j>> /\ B[i][j].value # NULL

LEMMA LiveSlotsOf ==
  ASSUME NEW c, NEW B, Filled(c, B)
  PROVE  \A s : s \in LiveIn(c, B) <=> Live(s, 0 .. c-1, B)
<1>1. \A i \in 0 .. c-1 : Len(B[i]) \in Nat /\ Len(B[i]) <= Entries
  BY DEF Filled
<1>2. ASSUME NEW i \in 0 .. c-1, NEW j \in Slots(B[i])
      PROVE  j \in 1 .. Entries /\ j <= Len(B[i])
  BY <1>1, HashMapAssumption DEF Slots
<1>3. ASSUME NEW i \in 0 .. c-1, NEW j \in 1 .. Entries, j <= Len(B[i])
      PROVE  j \in Slots(B[i])
  BY <1>1, <1>3, HashMapAssumption DEF Slots
<1>4. ASSUME NEW s, s \in LiveIn(c, B)
      PROVE  \E i \in 0 .. c-1 : \E j \in Slots(B[i]) : s = <<i, j>> /\ B[i][j].value # NULL
  <2>1. s = <<s[1], s[2]>> /\ s[1] \in 0 .. c-1 /\ s[2] \in 1 .. Entries
    BY <1>4 DEF LiveIn
  <2>2. s[2] <= Len(B[s[1]]) /\ B[s[1]][s[2]].value # NULL
    BY <1>4 DEF LiveIn
  <2>3. s[2] \in Slots(B[s[1]])
    BY <1>3, <2>1, <2>2
  <2>4. QED
    BY <2>1, <2>2, <2>3
<1>5. ASSUME NEW i \in 0 .. c-1, NEW j \in Slots(B[i]), B[i][j].value # NULL
      PROVE  <<i, j>> \in LiveIn(c, B)
  BY <1>2, <1>5 DEF LiveIn
<1>6. QED
  BY <1>4, <1>5 DEF Live

LEMMA DrawnUnique ==
  ASSUME NEW s, NEW b, NEW c, NEW i, NEW g, Draws(s, b, c, i, g), Unique(b)
  PROVE  Unique(s)
<1> SUFFICES ASSUME NEW j \in Slots(s), NEW k \in Slots(s), s[j].key = s[k].key PROVE j = k
  BY DEF Unique
<1>1. g[j] \in Slots(b) /\ g[k] \in Slots(b) /\ s[j] = b[g[j]] /\ s[k] = b[g[k]]
  BY DEF Draws
<1>2. g[j] = g[k]
  BY <1>1 DEF Unique
<1>3. QED
  BY <1>2 DEF Draws

\* A key that bucket i was drawn for is found there as it was found before.
LEMMA DrawnHolds ==
  ASSUME NEW s, NEW b, NEW c, NEW i, NEW g, Draws(s, b, c, i, g), NEW k, At(k, c) = i, NEW v, Gives(b, k, v)
  PROVE  Gives(s, k, v)
<1>1. ASSUME NEW j \in Slots(s), s[j].key = k PROVE v = s[j].value
  <2>1. g[j] \in Slots(b) /\ s[j] = b[g[j]]
    BY DEF Draws
  <2>2. QED
    BY <1>1, <2>1 DEF Gives
<1>2. ASSUME \A j \in Slots(s) : s[j].key # k PROVE v = NULL
  <2>1. ASSUME NEW q \in Slots(b), b[q].key = k PROVE v = NULL
    <3>1. v = b[q].value
      BY <2>1 DEF Gives
    <3>2. ASSUME v # NULL PROVE FALSE
      <4>1. PICK j \in Slots(s) : g[j] = q
        BY <2>1, <3>1, <3>2 DEF Draws
      <4>2. s[j] = b[q]
        BY <4>1 DEF Draws
      <4>3. QED
        BY <1>2, <2>1, <4>2
    <3>3. QED
      BY <3>2
  <2>2. QED
    BY <2>1 DEF Gives
<1>3. QED
  BY <1>1, <1>2 DEF Gives

\* The slots that are drawn from are as many as those that are drawn.
\* Every bucket i of R is drawn from bucket O[i] of B, and every bucket of B is
\* drawn from for all its keys.
DrawnFrom(I, J, O, B, R, F, d) ==
  /\ O \in [I -> J]
  /\ \A i \in I : Draws(R[i], B[O[i]], d, i, F[i])
  /\ \A y \in J : \A q \in Slots(B[y]) : At(B[y][q].key, d) \in I /\ O[At(B[y][q].key, d)] = y

LEMMA DrawnBijection ==
  ASSUME NEW I, NEW J, NEW O, NEW B, NEW R, NEW F, NEW d, DrawnFrom(I, J, O, B, R, F, d),
         NEW L, \A s : s \in L <=> Live(s, I, R),
         NEW M, \A s : s \in M <=> Live(s, J, B)
  PROVE  ExistsBijection(L, M)
<1> USE DEF Live, DrawnFrom
<1> DEFINE h == [s \in L |-> <<O[s[1]], F[s[1]][s[2]]>>]
<1>1. ASSUME NEW s \in L
      PROVE  \E i \in I : \E j \in Slots(R[i]) : s = <<i, j>> /\ R[i][j].value # NULL /\ h[s] = <<O[i], F[i][j]>>
  <2>1. PICK i \in I : \E j \in Slots(R[i]) : s = <<i, j>> /\ R[i][j].value # NULL
    OBVIOUS
  <2>2. PICK j \in Slots(R[i]) : s = <<i, j>> /\ R[i][j].value # NULL
    BY <2>1
  <2>3. s[1] = i /\ s[2] = j
    BY <2>2
  <2>4. h[s] = <<O[i], F[i][j]>>
    BY <2>3
  <2>5. QED
    BY <2>2, <2>4
<1>2. h = [s \in L |-> h[s]]
  OBVIOUS
<1> HIDE DEF h
<1>3. ASSUME NEW i \in I, NEW j \in Slots(R[i])
      PROVE  /\ O[i] \in J /\ F[i][j] \in Slots(B[O[i]]) /\ R[i][j] = B[O[i]][F[i][j]]
             /\ R[i][j].value # NULL /\ At(R[i][j].key, d) = i
             /\ \A k \in Slots(R[i]) : F[i][j] = F[i][k] => j = k
  <2>1. Draws(R[i], B[O[i]], d, i, F[i]) /\ O[i] \in J
    OBVIOUS
  <2>2. QED
    BY <2>1 DEF Draws
<1>4. ASSUME NEW s \in L PROVE h[s] \in M
  <2>1. PICK i \in I : \E j \in Slots(R[i]) : s = <<i, j>> /\ R[i][j].value # NULL /\ h[s] = <<O[i], F[i][j]>>
    BY <1>1
  <2>2. PICK j \in Slots(R[i]) : h[s] = <<O[i], F[i][j]>>
    BY <2>1
  <2>3. O[i] \in J /\ F[i][j] \in Slots(B[O[i]]) /\ B[O[i]][F[i][j]].value # NULL
    BY <1>3
  <2>4. QED
    BY <2>2, <2>3
<1>5. ASSUME NEW s \in L, NEW t \in L, h[s] = h[t] PROVE s = t
  <2>1. PICK i \in I : \E j \in Slots(R[i]) : s = <<i, j>> /\ R[i][j].value # NULL /\ h[s] = <<O[i], F[i][j]>>
    BY <1>1
  <2>2. PICK j \in Slots(R[i]) : s = <<i, j>> /\ h[s] = <<O[i], F[i][j]>>
    BY <2>1
  <2>3. PICK v \in I : \E w \in Slots(R[v]) : t = <<v, w>> /\ R[v][w].value # NULL /\ h[t] = <<O[v], F[v][w]>>
    BY <1>1
  <2>4. PICK w \in Slots(R[v]) : t = <<v, w>> /\ h[t] = <<O[v], F[v][w]>>
    BY <2>3
  <2>5. O[i] = O[v] /\ F[i][j] = F[v][w]
    BY <1>5, <2>2, <2>4
  <2>6. R[i][j] = R[v][w]
    <3>1. R[i][j] = B[O[i]][F[i][j]] /\ R[v][w] = B[O[v]][F[v][w]]
      BY <1>3
    <3>2. QED
      BY <2>5, <3>1
  <2>7. At(R[i][j].key, d) = i /\ At(R[v][w].key, d) = v
    BY <1>3
  <2>8. i = v
    BY <2>6, <2>7
  <2>9. j = w
    BY <1>3, <2>5, <2>8
  <2>10. QED
    BY <2>2, <2>4, <2>8, <2>9
<1>6. ASSUME NEW t \in M PROVE \E s \in L : h[s] = t
  <2>1. PICK y \in J : \E q \in Slots(B[y]) : t = <<y, q>> /\ B[y][q].value # NULL
    OBVIOUS
  <2>2. PICK q \in Slots(B[y]) : t = <<y, q>> /\ B[y][q].value # NULL
    BY <2>1
  <2>3. PICK i \in I : i = At(B[y][q].key, d) /\ O[i] = y
    OBVIOUS
  <2>4. Draws(R[i], B[y], d, i, F[i])
    BY <2>3
  <2>5. PICK j \in Slots(R[i]) : F[i][j] = q
    BY <2>2, <2>3, <2>4 DEF Draws
  <2>6. R[i][j].value # NULL
    BY <1>3
  <2>7. <<i, j>> \in L
    BY <2>6
  <2>8. PICK v \in I : \E w \in Slots(R[v]) : <<i, j>> = <<v, w>> /\ h[<<i, j>>] = <<O[v], F[v][w]>>
    BY <1>1, <2>7
  <2>9. h[<<i, j>>] = t
    BY <2>2, <2>3, <2>5, <2>8
  <2>10. QED
    BY <2>7, <2>9
<1>7. h \in [L -> M]
  BY <1>2, <1>4
<1>8. h \in Bijection(L, M)
  BY <1>5, <1>6, <1>7 DEF Bijection, Injection, Surjection, IsInjective
<1>9. QED
  BY <1>8 DEF ExistsBijection

RehashOf(R, B, c, d) == R = [i \in 0 .. d-1 |-> Moved(B[i % c], d, i)]

\* Growing keeps the entries that were live, each once, and no others.
LEMMA RehashedTable ==
  ASSUME NEW c, NEW B, Filled(c, B), NEW m \in Nat \ {0}, NEW d, d = c * m,
         NEW R, RehashOf(R, B, c, d),
         \A i \in 0 .. d-1 : Len(R[i]) <= Entries
  PROVE  /\ Filled(d, R)
         /\ UniqueIn(c, B) => UniqueIn(d, R)
         /\ \A P : Holds(c, B, P) => Holds(d, R, P)
         /\ Cardinality(LiveIn(d, R)) = Cardinality(LiveIn(c, B))
         /\ \A i \in 0 .. d-1 : \A j \in Slots(R[i]) : R[i][j].value # NULL
<1> DEFINE I == 0 .. d-1
           J == 0 .. c-1
           O == [i \in I |-> i % c]
           F == [i \in I |-> CHOOSE g : Draws(R[i], B[O[i]], d, i, g)]
<1>1. c \in Nat \ {0} /\ d \in Nat \ {0} /\ B \in [J -> Seq(Entry)]
  <2>1. c \in Nat \ {0}
    BY DEF Filled
  <2>2. QED
    BY <2>1, ProductPositive DEF Filled
<1>2. O \in [I -> J] /\ \A i \in I : O[i] = i % c
  <2>1. ASSUME NEW i \in I PROVE i % c \in J
    <3>1. i \in Nat
      BY <1>1
    <3>2. QED
      BY <1>1, <3>1, Remainder
  <2>2. QED
    BY <2>1
<1>3. ASSUME NEW i \in I PROVE Draws(R[i], B[O[i]], d, i, F[i])
  <2>1. R[i] = Moved(B[O[i]], d, i)
    BY <1>2 DEF RehashOf
  <2>2. O[i] \in J
    BY <1>2
  <2> HIDE DEF O, J
  <2>3. B[O[i]] \in Seq(Entry)
    BY <1>1, <2>2
  <2>4. \E g : Draws(R[i], B[O[i]], d, i, g)
    BY <2>1, <2>3, MovedDraws
  <2>5. QED
    BY <2>4
<1>4. ASSUME NEW k \in Key PROVE At(k, d) \in I /\ At(k, c) \in J /\ O[At(k, d)] = At(k, c)
  <2>1. Hash(k) \in Nat /\ Hash(k) % d \in I /\ Hash(k) % c \in J /\ c \in Nat \ {0}
    BY <1>1, BucketOf
  <2>2. (Hash(k) % d) % c = Hash(k) % c
    BY <2>1, RemainderOfMultiple
  <2>3. QED
    BY <1>2, <2>1, <2>2 DEF At
<1>5. R = [i \in I |-> R[i]] /\ \A i \in I : Len(R[i]) <= Entries
  BY DEF RehashOf
<1>6. \A i \in J : \A q \in Slots(B[i]) : B[i][q] \in Entry /\ B[i][q].key \in Key /\ At(B[i][q].key, c) = i
  <2>1. ASSUME NEW i \in J, NEW q \in Slots(B[i]) PROVE B[i][q] \in Entry /\ At(B[i][q].key, c) = i
    BY DEF Filled, Slots, At
  <2>2. QED
    BY <2>1 DEF Entry
<1> HIDE DEF O, F, J
<1>7. Filled(d, R)
  <2>1. ASSUME NEW i \in I PROVE R[i] \in Seq(Entry) /\ \A j \in Slots(R[i]) : At(R[i][j].key, d) = i
    BY <1>3 DEF Draws
  <2>2. R \in [I -> Seq(Entry)]
    BY <1>5, <2>1
  <2>3. QED
    BY <1>1, <1>5, <2>1, <2>2 DEF Filled, Slots, At
<1>8. \A i \in I : Draws(R[i], B[O[i]], d, i, F[i])
  BY <1>3
<1>9. ASSUME UniqueIn(c, B) PROVE UniqueIn(d, R)
  <2>1. ASSUME NEW i \in I PROVE Unique(R[i])
    <3>1. Draws(R[i], B[O[i]], d, i, F[i])
      BY <1>8
    <3>2. Unique(B[O[i]])
      BY <1>2, <1>9 DEF UniqueIn, J
    <3>3. QED
      BY <3>1, <3>2, DrawnUnique
  <2>2. QED
    BY <2>1 DEF UniqueIn
<1>10. ASSUME NEW P, Holds(c, B, P) PROVE Holds(d, R, P)
  <2>1. ASSUME NEW k \in Key PROVE Gives(R[At(k, d)], k, P[k])
    <3>1. PICK i \in I : i = At(k, d) /\ O[i] = At(k, c)
      BY <1>4
    <3>2. PICK b : b = B[At(k, c)]
      OBVIOUS
    <3>3. Gives(b, k, P[k])
      BY <1>10, <3>2 DEF Holds
    <3>4. Draws(R[i], b, d, i, F[i])
      BY <1>8, <3>1, <3>2
    <3>5. Gives(R[i], k, P[k])
      BY <3>1, <3>3, <3>4, DrawnHolds
    <3>6. QED
      BY <3>1, <3>5
  <2>2. QED
    BY <2>1 DEF Holds
<1>11. Cardinality(LiveIn(d, R)) = Cardinality(LiveIn(c, B))
  <2> HIDE DEF I
  <2>1. \A s : s \in LiveIn(d, R) <=> Live(s, I, R)
    BY <1>7, LiveSlotsOf DEF I
  <2>2. \A s : s \in LiveIn(c, B) <=> Live(s, J, B)
    BY LiveSlotsOf DEF J
  <2>3. \A y \in J : \A q \in Slots(B[y]) : At(B[y][q].key, d) \in I /\ O[At(B[y][q].key, d)] = y
    BY <1>4, <1>6
  <2>4. DrawnFrom(I, J, O, B, R, F, d)
    BY <1>2, <1>8, <2>3 DEF DrawnFrom
  <2>5. ExistsBijection(LiveIn(d, R), LiveIn(c, B))
    BY <2>1, <2>2, <2>4, DrawnBijection
  <2>6. IsFiniteSet(LiveIn(d, R)) /\ IsFiniteSet(LiveIn(c, B))
    BY <1>7, LiveFinite
  <2>7. QED
    BY <2>5, <2>6, FS_Bijection
<1>12. ASSUME NEW i \in I PROVE \A j \in Slots(R[i]) : R[i][j].value # NULL
  <2>1. Draws(R[i], B[O[i]], d, i, F[i])
    BY <1>8
  <2>2. QED
    BY <2>1 DEF Draws
<1>13. QED
  BY <1>7, <1>9, <1>10, <1>11, <1>12

-----------------------------------------------------------------------------
(* One bucket                                                               *)

\* The entry of k, or a deleted entry of a bucket without k, is replaced.
LEMMA ReplacedGives ==
  ASSUME NEW b, NEW n, NEW i \in Slots(b), NEW e, NEW k, e.key = k,
         Slots(n) = Slots(b), \A j \in Slots(b) : n[j] = IF j = i THEN e ELSE b[j],
         Unique(b),
         b[i].key = k \/ (b[i].value = NULL /\ \A j \in Slots(b) : b[j].key # k)
  PROVE  /\ Unique(n) /\ Gives(n, k, e.value)
         /\ \A q, v : q # k /\ Gives(b, q, v) => Gives(n, q, v)
<1>1. n[i] = e /\ \A j \in Slots(b) : j # i => n[j] = b[j]
  OBVIOUS
<1>2. \A j \in Slots(b) : j # i => b[j].key # k
  BY DEF Unique
<1>3. Unique(n)
  BY <1>1, <1>2 DEF Unique
<1>4. Gives(n, k, e.value)
  BY <1>1, <1>2 DEF Gives
<1>5. ASSUME NEW q, NEW v, q # k, Gives(b, q, v) PROVE Gives(n, q, v)
  <2>1. ASSUME NEW j \in Slots(n), n[j].key = q PROVE v = n[j].value
    <3>1. j # i /\ n[j] = b[j]
      BY <1>1, <1>5, <2>1
    <3>2. QED
      BY <1>5, <2>1, <3>1 DEF Gives
  <2>2. ASSUME \A j \in Slots(n) : n[j].key # q PROVE v = NULL
    <3>1. CASE b[i].key = q
      <4>1. b[i].value = NULL
        BY <1>5, <3>1
      <4>2. QED
        BY <1>5, <3>1, <4>1 DEF Gives
    <3>2. CASE b[i].key # q
      <4>1. \A j \in Slots(b) : b[j].key # q
        BY <1>1, <2>2, <3>2
      <4>2. QED
        BY <1>5, <4>1 DEF Gives
    <3>3. QED
      BY <3>1, <3>2
  <2>3. QED
    BY <2>1, <2>2 DEF Gives
<1>6. QED
  BY <1>3, <1>4, <1>5

\* An entry of k is added to a bucket without k.
LEMMA AppendedGives ==
  ASSUME NEW b, NEW n, NEW i, i \notin Slots(b), NEW e, NEW k, e.key = k,
         Slots(n) = Slots(b) \cup {i}, n[i] = e, \A j \in Slots(b) : n[j] = b[j],
         Unique(b), \A j \in Slots(b) : b[j].key # k
  PROVE  /\ Unique(n) /\ Gives(n, k, e.value)
         /\ \A q, v : q # k /\ Gives(b, q, v) => Gives(n, q, v)
<1>1. Unique(n)
  BY DEF Unique
<1>2. Gives(n, k, e.value)
  BY DEF Gives
<1>3. ASSUME NEW q, NEW v, q # k, Gives(b, q, v) PROVE Gives(n, q, v)
  BY <1>3 DEF Gives
<1>4. QED
  BY <1>1, <1>2, <1>3

\* N is B but for k, which it gives the value v.
ChangedFor(c, B, N, k, v) ==
  /\ \A y \in 0 .. c-1 : y # At(k, c) => N[y] = B[y]
  /\ Unique(N[At(k, c)]) /\ Gives(N[At(k, c)], k, v)
  /\ \A q, w : q # k /\ Gives(B[At(k, c)], q, w) => Gives(N[At(k, c)], q, w)
  /\ \A q \in Key : At(q, c) \in 0 .. c-1

LEMMA HoldsAfter ==
  ASSUME NEW c, NEW B, NEW N, NEW P \in [Key -> Val \cup {NULL}], NEW k \in Key, NEW v,
         UniqueIn(c, B), Holds(c, B, P), ChangedFor(c, B, N, k, v),
         NEW Q, Puts(Q, P, k, v)
  PROVE  UniqueIn(c, N) /\ Holds(c, N, Q)
<1> USE DEF ChangedFor, Puts
<1> DEFINE x == At(k, c)
<1>1. UniqueIn(c, N)
  <2>1. ASSUME NEW y \in 0 .. c-1 PROVE Unique(N[y])
    <3>1. CASE y = x
      BY <3>1
    <3>2. CASE y # x
      <4>1. N[y] = B[y] /\ Unique(B[y])
        BY <3>2 DEF UniqueIn
      <4>2. QED
        BY <4>1
    <3>3. QED
      BY <3>1, <3>2
  <2>2. QED
    BY <2>1 DEF UniqueIn
<1>2. ASSUME NEW q \in Key PROVE Gives(N[At(q, c)], q, Q[q])
  <2>1. CASE q = k
    BY <2>1
  <2>2. CASE q # k
    <3>1. Q[q] = P[q] /\ Gives(B[At(q, c)], q, P[q])
      BY <2>2 DEF Holds
    <3>2. CASE At(q, c) = x
      BY <2>2, <3>1, <3>2
    <3>3. CASE At(q, c) # x
      <4>1. N[At(q, c)] = B[At(q, c)]
        BY <3>3
      <4>2. QED
        BY <3>1, <4>1
    <3>4. QED
      BY <3>2, <3>3
  <2>3. QED
    BY <2>1, <2>2
<1>3. QED
  BY <1>1, <1>2 DEF Holds

-----------------------------------------------------------------------------
(* The invariant                                                            *)

Typed ==
  /\ cap \in Caps /\ Filled(cap, buckets)
  /\ len = Cardinality(LiveIn(cap, buckets))
  /\ ret \in Val \cup {NULL} /\ put \in [Key -> Val \cup {NULL}] /\ due \in Val \cup {NULL}
  /\ shadowed \in BOOLEAN

\* Buckets have a key once, and hold what was put.
Right == UniqueIn(cap, buckets) /\ Holds(cap, buckets, put) /\ ret = due

Inv == Typed /\ (shadowed \/ Right)

LEMMA SlotsAreNumbers == ASSUME NEW b \in Seq(Entry) PROVE Slots(b) \subseteq Nat \ {0}
BY DEF Slots

LEMMA OwnBucket ==
  ASSUME Typed, NEW k \in Key
  PROVE  /\ cap \in Nat \ {0} /\ Index(k) = At(k, cap) /\ At(k, cap) \in 0 .. cap-1
         /\ buckets[At(k, cap)] \in Seq(Entry)
         /\ \A q \in Key : At(q, cap) \in 0 .. cap-1
<1>1. cap \in Nat \ {0} /\ buckets \in [0 .. cap-1 -> Seq(Entry)]
  BY DEF Typed, Filled
<1>2. \A q \in Key : At(q, cap) \in 0 .. cap-1
  BY <1>1, BucketOf DEF At
<1>3. QED
  BY <1>1, <1>2 DEF Index, At

\* An entry of the bucket of k becomes one of k, or loses its value.
LEMMA StoreKeeps ==
  ASSUME NEW c, NEW B, Filled(c, B), NEW P \in [Key -> Val \cup {NULL}], NEW k \in Key,
         NEW v \in Val \cup {NULL}, NEW x, x = At(k, c), NEW i \in Slots(B[x]),
         NEW N, Replaces(N, B, x, i, EntryOf(k, v)), NEW Q, Puts(Q, P, k, v)
  PROVE  /\ Filled(c, N)
         /\ Cardinality(LiveIn(c, N)) = Cardinality(LiveIn(c, B))
                                        + (IF v # NULL THEN 1 ELSE 0) - (IF B[x][i].value # NULL THEN 1 ELSE 0)
         /\ UniqueIn(c, B) /\ Holds(c, B, P)
            /\ (B[x][i].key = k \/ (B[x][i].value = NULL /\ \A j \in Slots(B[x]) : B[x][j].key # k))
            => UniqueIn(c, N) /\ Holds(c, N, Q)
<1>0. \A q \in Key : At(q, c) \in 0 .. c-1
  BY BucketOf DEF At, Filled
<1>1. x \in 0 .. c-1 /\ B[x] \in Seq(Entry)
  BY <1>0 DEF Filled
<1>2. PICK e : /\ e = EntryOf(k, v)
               /\ e \in Entry /\ At(e.key, c) = x /\ e.key = k /\ e.value = v
  BY DEF Entry, EntryOf
<1>3. i \in 1 .. Len(B[x])
  BY DEF Slots
<1>4. /\ Filled(c, N)
      /\ \A y \in 0 .. c-1 : /\ Len(N[y]) = Len(B[y])
                             /\ \A j \in 1 .. Len(B[y]) : N[y][j] = IF y = x /\ j = i THEN e ELSE B[y][j]
      /\ LiveIn(c, N) = IF e.value = NULL THEN LiveIn(c, B) \ {<<x, i>>} ELSE LiveIn(c, B) \cup {<<x, i>>}
  BY <1>1, <1>2, <1>3, ReplaceEntry
<1>5. PICK b : b = B[x]
  OBVIOUS
<1>6. PICK n : n = N[x]
  OBVIOUS
<1>7. Slots(n) = Slots(b) /\ \A j \in Slots(b) : n[j] = IF j = i THEN e ELSE b[j]
  BY <1>1, <1>4, <1>5, <1>6 DEF Slots
<1>8. <<x, i>> \in LiveIn(c, B) <=> b[i].value # NULL
  <2>1. \A s : s \in LiveIn(c, B) <=> Live(s, 0 .. c-1, B)
    BY LiveSlotsOf
  <2>2. ASSUME b[i].value # NULL PROVE Live(<<x, i>>, 0 .. c-1, B)
    BY <1>1, <1>5, <2>2 DEF Live
  <2>3. ASSUME Live(<<x, i>>, 0 .. c-1, B) PROVE b[i].value # NULL
    <3>1. PICK y \in 0 .. c-1 : \E j \in Slots(B[y]) : <<x, i>> = <<y, j>> /\ B[y][j].value # NULL
      BY <2>3 DEF Live
    <3>2. PICK j \in Slots(B[y]) : <<x, i>> = <<y, j>> /\ B[y][j].value # NULL
      BY <3>1
    <3>3. x = y /\ i = j
      BY <3>2
    <3>4. QED
      BY <1>5, <3>2, <3>3
  <2>4. QED
    BY <2>1, <2>2, <2>3
<1>9. Cardinality(LiveIn(c, N)) = Cardinality(LiveIn(c, B))
                                  + (IF v # NULL THEN 1 ELSE 0) - (IF b[i].value # NULL THEN 1 ELSE 0)
  <2>1. PICK L : L = LiveIn(c, B)
    OBVIOUS
  <2>2. IsFiniteSet(L) /\ Cardinality(L) \in Nat
    BY <2>1, LiveFinite, FS_CardinalityType
  <2>3. PICK s : s = <<x, i>>
    OBVIOUS
  <2>4. Cardinality(L \cup {s}) = IF s \in L THEN Cardinality(L) ELSE Cardinality(L) + 1
    BY <2>2, FS_AddElement
  <2>5. Cardinality(L \ {s}) = IF s \in L THEN Cardinality(L) - 1 ELSE Cardinality(L)
    BY <2>2, FS_RemoveElement
  <2>6. LiveIn(c, N) = IF v = NULL THEN L \ {s} ELSE L \cup {s}
    BY <1>2, <1>4, <2>1, <2>3
  <2>7. s \in L <=> b[i].value # NULL
    BY <1>8, <2>1, <2>3
  <2>8. Cardinality(LiveIn(c, N)) = Cardinality(L) + (IF v # NULL THEN 1 ELSE 0) - (IF b[i].value # NULL THEN 1 ELSE 0)
    BY <2>2, <2>4, <2>5, <2>6, <2>7
  <2>9. QED
    BY <2>1, <2>8
<1>10. ASSUME UniqueIn(c, B), Holds(c, B, P),
              b[i].key = k \/ (b[i].value = NULL /\ \A j \in Slots(b) : b[j].key # k)
       PROVE  UniqueIn(c, N) /\ Holds(c, N, Q)
  <2>1. Unique(b) /\ i \in Slots(b) /\ e.key = k
    BY <1>1, <1>2, <1>5, <1>10 DEF UniqueIn
  <2>2. /\ Unique(n) /\ Gives(n, k, e.value)
        /\ \A q, w : q # k /\ Gives(b, q, w) => Gives(n, q, w)
    BY <1>7, <1>10, <2>1, ReplacedGives
  <2>3. \A y \in 0 .. c-1 : y # x => N[y] = B[y]
    BY DEF Filled, Replaces
  <2>4. ChangedFor(c, B, N, k, v)
    BY <1>0, <1>2, <1>5, <1>6, <2>2, <2>3 DEF ChangedFor
  <2>5. QED
    BY <1>10, <2>4, HoldsAfter
<1>11. QED
  BY <1>4, <1>5, <1>9, <1>10

\* An entry of k is added to its bucket, which has room for it.
LEMMA AppendKeeps ==
  ASSUME NEW c, NEW B, Filled(c, B), NEW P \in [Key -> Val \cup {NULL}], NEW k \in Key, NEW v \in Val,
         NEW x, x = At(k, c), Len(B[x]) < Entries,
         NEW N, Appends(N, B, x, EntryOf(k, v)), NEW Q, Puts(Q, P, k, v)
  PROVE  /\ Filled(c, N)
         /\ Cardinality(LiveIn(c, N)) = Cardinality(LiveIn(c, B)) + 1
         /\ UniqueIn(c, B) /\ Holds(c, B, P) /\ (\A j \in Slots(B[x]) : B[x][j].key # k)
            => UniqueIn(c, N) /\ Holds(c, N, Q)
<1>0. \A q \in Key : At(q, c) \in 0 .. c-1
  BY BucketOf DEF At, Filled
<1>1. x \in 0 .. c-1
  BY <1>0
<1>2. PICK e : /\ e = EntryOf(k, v)
               /\ e \in Entry /\ At(e.key, c) = x /\ e.key = k /\ e.value = v /\ e.value # NULL
  BY HashMapAssumption DEF Entry, EntryOf
<1>3. /\ Filled(c, N)
      /\ \A y \in 0 .. c-1 : /\ Len(N[y]) = IF y = x THEN Len(B[y]) + 1 ELSE Len(B[y])
                             /\ Len(B[y]) \in Nat
                             /\ \A j \in 1 .. Len(B[y]) : N[y][j] = B[y][j]
      /\ N[x][Len(B[x]) + 1] = e
      /\ LiveIn(c, N) = LiveIn(c, B) \cup {<<x, Len(B[x]) + 1>>}
      /\ <<x, Len(B[x]) + 1>> \notin LiveIn(c, B)
  BY <1>1, <1>2, AppendEntry
<1>4. Cardinality(LiveIn(c, N)) = Cardinality(LiveIn(c, B)) + 1
  BY <1>3, LiveFinite, FS_AddElement
<1>5. ASSUME UniqueIn(c, B), Holds(c, B, P), \A j \in Slots(B[x]) : B[x][j].key # k
      PROVE  UniqueIn(c, N) /\ Holds(c, N, Q)
  <2>1. PICK b : b = B[x]
    OBVIOUS
  <2>2. PICK n : n = N[x]
    OBVIOUS
  <2>3. PICK i : i = Len(b) + 1
    OBVIOUS
  <2>4. Len(b) \in Nat /\ Len(n) = Len(b) + 1 /\ n[i] = e /\ \A j \in 1 .. Len(b) : n[j] = b[j]
    BY <1>1, <1>3, <2>1, <2>2, <2>3
  <2>5. i \notin Slots(b) /\ Slots(n) = Slots(b) \cup {i} /\ \A j \in Slots(b) : n[j] = b[j]
    BY <2>3, <2>4 DEF Slots
  <2>6. Unique(b)
    BY <1>1, <1>5, <2>1 DEF UniqueIn
  <2>7. \A j \in Slots(b) : b[j].key # k
    BY <1>5, <2>1
  <2>8. /\ Unique(n) /\ Gives(n, k, e.value)
        /\ \A q, w : q # k /\ Gives(b, q, w) => Gives(n, q, w)
    BY <1>2, <2>4, <2>5, <2>6, <2>7, AppendedGives
  <2>9. \A y \in 0 .. c-1 : y # x => N[y] = B[y]
    BY DEF Filled, Appends
  <2>10. ChangedFor(c, B, N, k, v)
    BY <1>0, <1>2, <2>1, <2>2, <2>8, <2>9 DEF ChangedFor
  <2>11. QED
    BY <1>5, <2>10, HoldsAfter
<1>6. QED
  BY <1>3, <1>4, <1>5

\* What Set and Del find of a key in its bucket.
LEMMA UsableSlot ==
  ASSUME Typed, NEW k \in Key, NEW b, b = buckets[Index(k)], Usable(b, k) # {}
  PROVE  /\ First(Usable(b, k)) \in Slots(b)
         /\ b[First(Usable(b, k))].value = NULL \/ b[First(Usable(b, k))].key = k
         /\ \A j \in Slots(b) : b[j].key = k => j = First(Usable(b, k)) \/ j > First(Usable(b, k))
<1>1. b \in Seq(Entry)
  BY OwnBucket
<1>2. Usable(b, k) \subseteq Nat
  BY <1>1 DEF Usable
<1>3. PICK i : i = First(Usable(b, k))
  OBVIOUS
<1>4. i \in Usable(b, k) /\ i \in Nat /\ \A j \in Usable(b, k) : i <= j
  BY <1>2, <1>3, FirstIs
<1>5. \A j \in Slots(b) : b[j].key = k => j \in Usable(b, k)
  BY DEF Usable, Slots
<1>6. ASSUME NEW j \in Slots(b), b[j].key = k PROVE j = i \/ j > i
  <2>1. j \in Nat /\ i <= j
    BY <1>1, <1>4, <1>5, <1>6, SlotsAreNumbers
  <2>2. QED
    BY <1>4, <2>1
<1>7. QED
  BY <1>3, <1>4, <1>6 DEF Usable, Slots

LEMMA HoldingSlot ==
  ASSUME Typed, NEW k \in Key, NEW b, b = buckets[At(k, cap)], Holding(b, k) # {}
  PROVE  First(Holding(b, k)) \in Slots(b) /\ b[First(Holding(b, k))].key = k
<1>1. b \in Seq(Entry)
  BY OwnBucket
<1>2. Holding(b, k) \subseteq Nat
  BY <1>1 DEF Holding
<1>3. First(Holding(b, k)) \in Holding(b, k)
  BY <1>2, FirstIs
<1>4. QED
  BY <1>3 DEF Holding, Slots

LEMMA LiveCounted == ASSUME Typed PROVE IsFiniteSet(LiveIn(cap, buckets)) /\ len \in Nat
<1>1. IsFiniteSet(LiveIn(cap, buckets))
  BY LiveFinite DEF Typed
<1>2. QED
  BY <1>1, FS_CardinalityType DEF Typed

-----------------------------------------------------------------------------
(* The operations keep the invariant                                        *)

-----------------------------------------------------------------------------
(* The operations keep the invariant                                        *)

LEMMA ReplaceKeeps ==
  ASSUME Inv, NEW k \in Key, NEW v \in Val \cup {NULL}, v \in Val, SetReplace(k, v) PROVE Inv'
<1>0. Typed
  BY DEF Inv
<1>1. PICK x : x = At(k, cap) /\ x = Index(k)
  BY <1>0, OwnBucket
<1>2. PICK i : i = First(Usable(buckets[x], k))
  OBVIOUS
<1>3. PICK N : N = buckets'
  OBVIOUS
<1>4. PICK Q : Q = put'
  OBVIOUS
<1>5. /\ Usable(buckets[x], k) # {} /\ buckets[x][i].value # NULL /\ ret' = buckets[x][i].value
      /\ Replaces(N, buckets, x, i, EntryOf(k, v)) /\ Puts(Q, put, k, v) /\ due' = put[k]
      /\ cap' = cap /\ len' = len /\ shadowed' = shadowed /\ v # NULL
  BY <1>1, <1>2, <1>3, <1>4, HashMapAssumption DEF SetReplace, Store, Replaces, EntryOf, Puts
<1>6. i \in Slots(buckets[x]) /\ buckets[x][i].key = k
  BY <1>0, <1>1, <1>2, <1>5, UsableSlot
<1>7. Filled(cap, buckets) /\ put \in [Key -> Val \cup {NULL}] /\ len = Cardinality(LiveIn(cap, buckets)) /\ len \in Nat
  BY <1>0, LiveCounted DEF Typed
<1>8. /\ Filled(cap, N)
      /\ Cardinality(LiveIn(cap, N)) = Cardinality(LiveIn(cap, buckets))
                                       + (IF v # NULL THEN 1 ELSE 0) - (IF buckets[x][i].value # NULL THEN 1 ELSE 0)
      /\ UniqueIn(cap, buckets) /\ Holds(cap, buckets, put)
         /\ (\/ buckets[x][i].key = k
             \/ buckets[x][i].value = NULL /\ \A j \in Slots(buckets[x]) : buckets[x][j].key # k)
         => UniqueIn(cap, N) /\ Holds(cap, N, Q)
  <2>1. /\ Filled(cap, buckets) /\ put \in [Key -> Val \cup {NULL}] /\ i \in Slots(buckets[x]) /\ x = At(k, cap)
        /\ Replaces(N, buckets, x, i, EntryOf(k, v)) /\ Puts(Q, put, k, v)
    BY <1>1, <1>5, <1>6, <1>7
  <2>2. QED
    BY <2>1, StoreKeeps
<1>9. Typed'
  <2>1. buckets[x][i] \in Entry
    BY <1>0, <1>1, <1>6, OwnBucket DEF Slots
  <2>2. ret' \in Val \cup {NULL} /\ due' \in Val \cup {NULL} /\ Q \in [Key -> Val \cup {NULL}]
    BY <1>5, <1>7, <2>1 DEF Entry, Puts
  <2>3. Cardinality(LiveIn(cap, N)) = len
    BY <1>5, <1>7, <1>8
  <2>4. QED
    BY <1>0, <1>3, <1>4, <1>5, <1>8, <2>2, <2>3 DEF Typed
<1>10. ASSUME Right PROVE Right'
  <2>1. put[k] = buckets[x][i].value
    <3>1. Gives(buckets[x], k, put[k])
      BY <1>1, <1>10 DEF Right, Holds
    <3>2. QED
      BY <1>6, <3>1 DEF Gives
  <2>2. QED
    BY <1>3, <1>4, <1>5, <1>6, <1>8, <1>10, <2>1 DEF Right
<1>11. QED
  BY <1>5, <1>9, <1>10 DEF Inv

LEMMA ReuseKeeps ==
  ASSUME Inv, NEW k \in Key, NEW v \in Val \cup {NULL}, v \in Val, SetReuse(k, v) PROVE Inv'
<1>0. Typed
  BY DEF Inv
<1>1. PICK x : x = At(k, cap) /\ x = Index(k)
  BY <1>0, OwnBucket
<1>2. PICK i : i = First(Usable(buckets[x], k))
  OBVIOUS
<1>3. PICK N : N = buckets'
  OBVIOUS
<1>4. PICK Q : Q = put'
  OBVIOUS
<1>5. /\ Usable(buckets[x], k) # {} /\ buckets[x][i].value = NULL /\ ret' = NULL
      /\ Replaces(N, buckets, x, i, EntryOf(k, v)) /\ Puts(Q, put, k, v) /\ due' = put[k]
      /\ cap' = cap /\ len' = len + 1 /\ v # NULL
      /\ shadowed' = (shadowed \/ \E j \in Holding(buckets[x], k) : j > i)
  BY <1>1, <1>2, <1>3, <1>4, HashMapAssumption DEF SetReuse, Store, Replaces, EntryOf, Puts
<1>6. i \in Slots(buckets[x]) /\ \A j \in Slots(buckets[x]) : buckets[x][j].key = k => j = i \/ j > i
  BY <1>0, <1>1, <1>2, <1>5, UsableSlot
<1>7. Filled(cap, buckets) /\ put \in [Key -> Val \cup {NULL}] /\ len = Cardinality(LiveIn(cap, buckets)) /\ len \in Nat
  BY <1>0, LiveCounted DEF Typed
<1>8. /\ Filled(cap, N)
      /\ Cardinality(LiveIn(cap, N)) = Cardinality(LiveIn(cap, buckets))
                                       + (IF v # NULL THEN 1 ELSE 0) - (IF buckets[x][i].value # NULL THEN 1 ELSE 0)
      /\ UniqueIn(cap, buckets) /\ Holds(cap, buckets, put)
         /\ (\/ buckets[x][i].key = k
             \/ buckets[x][i].value = NULL /\ \A j \in Slots(buckets[x]) : buckets[x][j].key # k)
         => UniqueIn(cap, N) /\ Holds(cap, N, Q)
  <2>1. /\ Filled(cap, buckets) /\ put \in [Key -> Val \cup {NULL}] /\ i \in Slots(buckets[x]) /\ x = At(k, cap)
        /\ Replaces(N, buckets, x, i, EntryOf(k, v)) /\ Puts(Q, put, k, v)
    BY <1>1, <1>5, <1>6, <1>7
  <2>2. QED
    BY <2>1, StoreKeeps
<1>9. Typed'
  <2>1. ret' \in Val \cup {NULL} /\ due' \in Val \cup {NULL} /\ Q \in [Key -> Val \cup {NULL}]
    BY <1>5, <1>7 DEF Puts
  <2>2. shadowed' \in BOOLEAN
    BY <1>0, <1>5 DEF Typed
  <2>3. Cardinality(LiveIn(cap, N)) = len + 1
    BY <1>5, <1>7, <1>8
  <2>4. QED
    BY <1>0, <1>3, <1>4, <1>5, <1>8, <2>1, <2>2, <2>3 DEF Typed
<1>10. ASSUME Right, ~shadowed' PROVE Right'
  <2>1. \A j \in Slots(buckets[x]) : buckets[x][j].key = k => j = i
    <3>1. \A j \in Holding(buckets[x], k) : ~(j > i)
      BY <1>5, <1>10
    <3>2. QED
      BY <1>6, <3>1 DEF Holding, Slots
  <2>2. \/ buckets[x][i].key = k
        \/ buckets[x][i].value = NULL /\ \A j \in Slots(buckets[x]) : buckets[x][j].key # k
    BY <1>5, <2>1
  <2>3. put[k] = NULL
    <3>1. Gives(buckets[x], k, put[k])
      BY <1>1, <1>10 DEF Right, Holds
    <3>2. QED
      BY <1>5, <1>6, <2>2, <3>1 DEF Gives
  <2>4. QED
    BY <1>3, <1>4, <1>5, <1>8, <1>10, <2>2, <2>3 DEF Right
<1>11. QED
  BY <1>5, <1>9, <1>10 DEF Inv

LEMMA NewKeeps ==
  ASSUME Inv, NEW k \in Key, NEW v \in Val, SetNew(k, v) PROVE Inv'
<1>0. Typed
  BY DEF Inv
<1>1. PICK x : x = At(k, cap) /\ x = Index(k)
  BY <1>0, OwnBucket
<1>2. PICK N : N = buckets'
  OBVIOUS
<1>3. PICK Q : Q = put'
  OBVIOUS
<1>4. /\ Usable(buckets[x], k) = {} /\ Len(buckets[x]) < Entries /\ ret' = NULL
      /\ Appends(N, buckets, x, EntryOf(k, v)) /\ Puts(Q, put, k, v) /\ due' = put[k]
      /\ cap' = cap /\ len' = len + 1 /\ shadowed' = shadowed
  BY <1>1, <1>2, <1>3 DEF SetNew, Appends, EntryOf, Puts
<1>5. \A j \in Slots(buckets[x]) : buckets[x][j].key # k
  BY <1>4 DEF Usable, Slots
<1>6. Filled(cap, buckets) /\ put \in [Key -> Val \cup {NULL}] /\ len = Cardinality(LiveIn(cap, buckets)) /\ len \in Nat
  BY <1>0, LiveCounted DEF Typed
<1>7. /\ Filled(cap, N)
      /\ Cardinality(LiveIn(cap, N)) = Cardinality(LiveIn(cap, buckets)) + 1
      /\ UniqueIn(cap, buckets) /\ Holds(cap, buckets, put) /\ (\A j \in Slots(buckets[x]) : buckets[x][j].key # k)
         => UniqueIn(cap, N) /\ Holds(cap, N, Q)
  <2>1. /\ Filled(cap, buckets) /\ put \in [Key -> Val \cup {NULL}] /\ x = At(k, cap)
        /\ Len(buckets[x]) < Entries /\ Appends(N, buckets, x, EntryOf(k, v)) /\ Puts(Q, put, k, v)
    BY <1>1, <1>4, <1>6
  <2>2. QED
    BY <2>1, AppendKeeps
<1>8. Typed'
  <2>1. ret' \in Val \cup {NULL} /\ due' \in Val \cup {NULL} /\ Q \in [Key -> Val \cup {NULL}]
    BY <1>4, <1>6 DEF Puts
  <2>2. QED
    BY <1>0, <1>2, <1>3, <1>4, <1>6, <1>7, <2>1 DEF Typed
<1>9. ASSUME Right PROVE Right'
  <2>1. put[k] = NULL
    <3>1. Gives(buckets[x], k, put[k])
      BY <1>1, <1>9 DEF Right, Holds
    <3>2. QED
      BY <1>5, <3>1 DEF Gives
  <2>2. QED
    BY <1>2, <1>3, <1>4, <1>5, <1>7, <1>9, <2>1 DEF Right
<1>10. QED
  BY <1>4, <1>8, <1>9 DEF Inv

LEMMA DelKeeps ==
  ASSUME Inv, NEW k \in Key, Del(k) PROVE Inv'
<1>0. Typed
  BY DEF Inv
<1>1. PICK x : x = At(k, cap) /\ x = Index(k)
  BY <1>0, OwnBucket
<1>2. PICK i : i = First(Holding(buckets[x], k))
  OBVIOUS
<1>3. PICK N : N = buckets'
  OBVIOUS
<1>4. PICK Q : Q = put'
  OBVIOUS
<1>5. /\ Puts(Q, put, k, NULL) /\ due' = put[k] /\ cap' = cap /\ shadowed' = shadowed
      /\ ret' = IF Holding(buckets[x], k) # {} THEN buckets[x][i].value ELSE NULL
      /\ IF Holding(buckets[x], k) # {} /\ buckets[x][i].value # NULL
         THEN N = [buckets EXCEPT ![x][i].value = NULL] /\ len' = len - 1
         ELSE N = buckets /\ len' = len
  BY <1>1, <1>2, <1>3, <1>4 DEF Del, Puts
<1>6. Filled(cap, buckets) /\ put \in [Key -> Val \cup {NULL}] /\ len = Cardinality(LiveIn(cap, buckets)) /\ len \in Nat
  BY <1>0, LiveCounted DEF Typed
<1>7. due' \in Val \cup {NULL} /\ Q \in [Key -> Val \cup {NULL}]
  BY <1>5, <1>6 DEF Puts
<1>8. Holding(buckets[x], k) # {} => i \in Slots(buckets[x]) /\ buckets[x][i].key = k
  BY <1>1, <1>0, <1>2, HoldingSlot
<1>9. Holding(buckets[x], k) # {} => buckets[x][i] \in Entry
  BY <1>0, <1>1, <1>8, OwnBucket DEF Slots
<1>10. ret' \in Val \cup {NULL}
  BY <1>5, <1>9 DEF Entry
<1>11. ASSUME Right PROVE ret' = due'
  <2>1. Gives(buckets[x], k, put[k])
    BY <1>1, <1>11 DEF Right, Holds
  <2>2. CASE Holding(buckets[x], k) # {}
    BY <1>5, <1>8, <2>1, <2>2 DEF Gives
  <2>3. CASE Holding(buckets[x], k) = {}
    <3>1. \A j \in Slots(buckets[x]) : buckets[x][j].key # k
      BY <2>3 DEF Holding, Slots
    <3>2. QED
      BY <1>5, <2>1, <2>3, <3>1 DEF Gives
  <2>4. QED
    BY <2>2, <2>3
<1>12. CASE Holding(buckets[x], k) # {} /\ buckets[x][i].value # NULL
  <2>1. Replaces(N, buckets, x, i, EntryOf(k, NULL))
    <3>1. [buckets[x][i] EXCEPT !.value = NULL] = EntryOf(k, NULL)
      BY <1>8, <1>9, <1>12 DEF Entry, EntryOf
    <3>2. N = [buckets EXCEPT ![x] = [buckets[x] EXCEPT ![i] = [buckets[x][i] EXCEPT !.value = NULL]]]
      BY <1>5, <1>12
    <3>3. QED
      BY <3>1, <3>2 DEF Replaces
  <2>2. /\ Filled(cap, N)
        /\ Cardinality(LiveIn(cap, N)) = Cardinality(LiveIn(cap, buckets))
                                         + (IF NULL # NULL THEN 1 ELSE 0) - (IF buckets[x][i].value # NULL THEN 1 ELSE 0)
        /\ UniqueIn(cap, buckets) /\ Holds(cap, buckets, put)
           /\ (\/ buckets[x][i].key = k
               \/ buckets[x][i].value = NULL /\ \A j \in Slots(buckets[x]) : buckets[x][j].key # k)
           => UniqueIn(cap, N) /\ Holds(cap, N, Q)
    <3>1. /\ Filled(cap, buckets) /\ put \in [Key -> Val \cup {NULL}] /\ i \in Slots(buckets[x]) /\ x = At(k, cap)
          /\ Replaces(N, buckets, x, i, EntryOf(k, NULL)) /\ Puts(Q, put, k, NULL) /\ NULL \in Val \cup {NULL}
      BY <1>1, <1>5, <1>6, <1>8, <1>12, <2>1
    <3>2. QED
      BY <3>1, StoreKeeps
  <2>3. Cardinality(LiveIn(cap, N)) = len - 1 /\ len' = len - 1
    BY <1>5, <1>6, <1>12, <2>2
  <2>4. Typed'
    BY <1>0, <1>3, <1>4, <1>5, <1>7, <1>10, <2>2, <2>3 DEF Typed
  <2>5. ASSUME Right PROVE Right'
    BY <1>3, <1>4, <1>5, <1>8, <1>11, <1>12, <2>2, <2>5 DEF Right
  <2>6. QED
    BY <1>5, <2>4, <2>5 DEF Inv
<1>13. CASE ~(Holding(buckets[x], k) # {} /\ buckets[x][i].value # NULL)
  <2>1. N = buckets /\ len' = len
    BY <1>5, <1>13
  <2>2. Typed'
    BY <1>0, <1>3, <1>4, <1>5, <1>7, <1>10, <2>1 DEF Typed
  <2>3. ASSUME Right PROVE Right'
    <3>1. put[k] = NULL
      BY <1>5, <1>11, <1>13, <2>3
    <3>2. Q = put
      BY <1>5, <1>6, <3>1 DEF Puts
    <3>3. QED
      BY <1>3, <1>4, <1>5, <1>11, <2>1, <2>3, <3>2 DEF Right
  <2>4. QED
    BY <1>5, <2>2, <2>3 DEF Inv
<1>14. QED
  BY <1>12, <1>13

\* The numbers of buckets are multiples of each other.
LEMMA GrownCap ==
  ASSUME NEW c \in Caps, NEW d \in Caps, d > c
  PROVE  c \in Nat \ {0} /\ d \in Nat \ {0} /\ \E m \in Nat \ {0} : d = c * m
<1>1. PICK i \in 0 .. MaxDoublings : c = CapAfter[i]
  BY DEF Caps
<1>2. PICK j \in 0 .. MaxDoublings : d = CapAfter[j]
  BY DEF Caps
<1> HIDE DEF CapAfter
<1>3. i <= j \/ j <= i
  BY HashMapAssumption
<1>4. c \in Nat \ {0} /\ d \in Nat \ {0}
  BY <1>1, <1>2, <1>3, CapsDivide
<1>5. CASE i <= j
  BY <1>1, <1>2, <1>4, <1>5, CapsDivide
<1>6. CASE j <= i
  <2>1. d <= c
    BY <1>1, <1>2, <1>6, CapsDivide
  <2>2. QED
    BY <1>4, <2>1
<1>7. QED
  BY <1>3, <1>5, <1>6

LEMMA GrowKeeps ==
  ASSUME Inv, NEW k \in Key, NEW v \in Val, SetGrow(k, v) PROVE Inv'
<1>0. Typed
  BY DEF Inv
<1>1. PICK y : y = At(k, cap) /\ y = Index(k)
  BY <1>0, OwnBucket
<1>2. PICK c : c = First({d \in Doublings : Room(d, k)})
  OBVIOUS
<1>3. PICK R : R = Rehashed(c)
  OBVIOUS
<1>4. PICK x : x = At(k, c)
  OBVIOUS
<1>5. PICK N : N = buckets'
  OBVIOUS
<1>6. PICK Q : Q = put'
  OBVIOUS
<1>7. /\ Usable(buckets[y], k) = {} /\ {d \in Doublings : Room(d, k)} # {} /\ ret' = NULL
      /\ N = [R EXCEPT ![x] = Append(@, EntryOf(k, v))] /\ Puts(Q, put, k, v) /\ due' = put[k]
      /\ cap' = c /\ len' = len + 1 /\ shadowed' = shadowed
  BY <1>1, <1>2, <1>3, <1>4, <1>5, <1>6 DEF SetGrow, EntryOf, Puts, At
<1>8. c \in Caps /\ c > cap /\ Room(c, k)
  <2>1. {d \in Doublings : Room(d, k)} \subseteq Nat
    <3>1. cap \in Caps
      BY <1>0 DEF Typed
    <3>2. QED
      BY <3>1, GrownCap DEF Doublings
  <2>2. c \in {d \in Doublings : Room(d, k)}
    BY <1>2, <1>7, <2>1, FirstIs
  <2>3. QED
    BY <2>2 DEF Doublings
<1>9. PICK m \in Nat \ {0} : c = cap * m
  BY <1>0, <1>8, GrownCap DEF Typed
<1>10. (\A i \in 0 .. c-1 : Len(R[i]) <= Entries) /\ Len(R[x]) < Entries
  BY <1>3, <1>4, <1>8 DEF Room, At
<1>11. Filled(cap, buckets) /\ put \in [Key -> Val \cup {NULL}] /\ len = Cardinality(LiveIn(cap, buckets)) /\ len \in Nat
  BY <1>0, LiveCounted DEF Typed
<1>12. /\ Filled(c, R)
       /\ UniqueIn(cap, buckets) => UniqueIn(c, R)
       /\ \A P : Holds(cap, buckets, P) => Holds(c, R, P)
       /\ Cardinality(LiveIn(c, R)) = Cardinality(LiveIn(cap, buckets))
       /\ \A i \in 0 .. c-1 : \A j \in Slots(R[i]) : R[i][j].value # NULL
  <2>1. RehashOf(R, buckets, cap, c)
    BY <1>3 DEF RehashOf, Rehashed
  <2>2. Filled(cap, buckets)
    BY <1>11
  <2>3. QED
    BY <1>9, <1>10, <2>1, <2>2, RehashedTable
<1>13. x \in 0 .. c-1
  BY <1>4, <1>12, BucketOf DEF Filled, At
<1>14. /\ Filled(c, N)
       /\ Cardinality(LiveIn(c, N)) = Cardinality(LiveIn(c, R)) + 1
       /\ UniqueIn(c, R) /\ Holds(c, R, put) /\ (\A j \in Slots(R[x]) : R[x][j].key # k)
          => UniqueIn(c, N) /\ Holds(c, N, Q)
  <2>1. /\ Filled(c, R) /\ put \in [Key -> Val \cup {NULL}] /\ x = At(k, c)
        /\ Len(R[x]) < Entries /\ Puts(Q, put, k, v)
    BY <1>4, <1>7, <1>10, <1>11, <1>12
  <2>2. Appends(N, R, x, EntryOf(k, v))
    BY <1>7, <1>13 DEF Appends
  <2>3. QED
    BY <2>1, <2>2, AppendKeeps
<1>15. Typed'
  <2>1. ret' \in Val \cup {NULL} /\ due' \in Val \cup {NULL} /\ Q \in [Key -> Val \cup {NULL}]
    BY <1>7, <1>11 DEF Puts
  <2>2. Cardinality(LiveIn(c, N)) = len + 1
    BY <1>11, <1>12, <1>14
  <2>3. QED
    BY <1>0, <1>5, <1>6, <1>7, <1>8, <1>14, <2>1, <2>2 DEF Typed
<1>16. ASSUME Right PROVE Right'
  <2>1. put[k] = NULL
    <3>1. Gives(buckets[y], k, put[k])
      BY <1>1, <1>16 DEF Right, Holds
    <3>2. \A j \in Slots(buckets[y]) : buckets[y][j].key # k
      BY <1>7 DEF Usable, Slots
    <3>3. QED
      BY <3>1, <3>2 DEF Gives
  <2>2. UniqueIn(c, R) /\ Holds(c, R, put)
    BY <1>12, <1>16 DEF Right
  <2>3. \A j \in Slots(R[x]) : R[x][j].key # k
    <3>1. Gives(R[x], k, put[k])
      BY <1>4, <2>2 DEF Holds
    <3>2. \A j \in Slots(R[x]) : R[x][j].value # NULL
      BY <1>12, <1>13
    <3>3. QED
      BY <2>1, <3>1, <3>2 DEF Gives
  <2>4. QED
    BY <1>5, <1>6, <1>7, <1>14, <2>1, <2>2, <2>3 DEF Right
<1>17. QED
  BY <1>7, <1>15, <1>16 DEF Inv

\* Buckets without an entry hold nothing.
LEMMA EmptyTable ==
  ASSUME NEW c \in Nat \ {0}, NEW B, B = [i \in 0 .. c-1 |-> <<>>], NEW P, P = [k \in Key |-> NULL]
  PROVE  /\ Filled(c, B) /\ Cardinality(LiveIn(c, B)) = 0
         /\ UniqueIn(c, B) /\ Holds(c, B, P) /\ P \in [Key -> Val \cup {NULL}]
<1>1. \A i \in 0 .. c-1 : B[i] = <<>> /\ B[i] \in Seq(Entry) /\ Len(B[i]) = 0 /\ Slots(B[i]) = {}
  BY DEF Slots
<1>2. Filled(c, B)
  <2>1. \A i \in 0 .. c-1 : Len(B[i]) <= Entries
    BY <1>1, HashMapAssumption
  <2>2. \A i \in 0 .. c-1 : \A j \in 1 .. Len(B[i]) : Hash(B[i][j].key) % c = i
    BY <1>1
  <2>3. B \in [0 .. c-1 -> Seq(Entry)]
    BY <1>1
  <2>4. QED
    BY <2>1, <2>2, <2>3 DEF Filled
<1>3. LiveIn(c, B) = {}
  <2>1. \A s : s \in LiveIn(c, B) <=> Live(s, 0 .. c-1, B)
    BY <1>2, LiveSlotsOf
  <2>2. \A s : ~Live(s, 0 .. c-1, B)
    BY <1>1 DEF Live
  <2>3. QED
    BY <2>1, <2>2
<1>4. UniqueIn(c, B)
  BY <1>1 DEF UniqueIn, Unique
<1>5. ASSUME NEW k \in Key PROVE Gives(B[At(k, c)], k, P[k])
  <2>1. Slots(B[At(k, c)]) = {}
    BY <1>1, BucketOf DEF At
  <2>2. QED
    BY <2>1 DEF Gives
<1>6. QED
  BY <1>2, <1>3, <1>4, <1>5, FS_EmptySet DEF Holds

LEMMA ClearKeeps == ASSUME Inv, Clear PROVE Inv'
<1>0. Typed
  BY DEF Inv
<1>1. cap \in Nat \ {0}
  BY <1>0 DEF Typed, Filled
<1>2. PICK N : N = buckets'
  OBVIOUS
<1>3. PICK Q : Q = put'
  OBVIOUS
<1>4. /\ Filled(cap, N) /\ Cardinality(LiveIn(cap, N)) = 0
      /\ UniqueIn(cap, N) /\ Holds(cap, N, Q) /\ Q \in [Key -> Val \cup {NULL}]
  BY <1>1, <1>2, <1>3, EmptyTable DEF Clear
<1>5. Typed'
  BY <1>0, <1>2, <1>3, <1>4 DEF Typed, Clear
<1>6. Right'
  BY <1>2, <1>3, <1>4 DEF Right, Clear
<1>7. QED
  BY <1>5, <1>6 DEF Inv

LEMMA InitHolds == Init => Inv
<1> SUFFICES ASSUME Init PROVE Inv
  OBVIOUS
<1>1. cap = InitBuckets /\ cap \in Nat \ {0}
  BY HashMapAssumption DEF Init
<1>2. PICK B : B = buckets
  OBVIOUS
<1>3. PICK P : P = put
  OBVIOUS
<1>4. /\ Filled(cap, B) /\ Cardinality(LiveIn(cap, B)) = 0
      /\ UniqueIn(cap, B) /\ Holds(cap, B, P) /\ P \in [Key -> Val \cup {NULL}]
  BY <1>1, <1>2, <1>3, EmptyTable DEF Init
<1>5. cap \in Caps
  <2>1. 0 \in 0 .. MaxDoublings
    BY HashMapAssumption
  <2> HIDE DEF CapAfter
  <2>2. QED
    BY <1>1, <2>1, CapAfterDef DEF Caps
<1>6. Typed
  BY <1>2, <1>3, <1>4, <1>5 DEF Typed, Init
<1>7. Right
  BY <1>2, <1>3, <1>4 DEF Right, Init
<1>8. QED
  BY <1>6, <1>7 DEF Inv

LEMMA NextKeeps == Inv /\ [Next]_vars => Inv'
<1> SUFFICES ASSUME Inv, [Next]_vars PROVE Inv'
  OBVIOUS
<1>1. ASSUME NEW k \in Key, NEW v \in Val, Set(k, v) PROVE Inv'
  <2>1. v \in Val \cup {NULL}
    OBVIOUS
  <2>2. CASE SetReplace(k, v)
    BY <2>1, <2>2, ReplaceKeeps
  <2>3. CASE SetReuse(k, v)
    BY <2>1, <2>3, ReuseKeeps
  <2>4. CASE SetNew(k, v)
    BY <2>4, NewKeeps
  <2>5. CASE SetGrow(k, v)
    BY <2>5, GrowKeeps
  <2>6. QED
    BY <1>1, <2>2, <2>3, <2>4, <2>5 DEF Set
<1>2. ASSUME NEW k \in Key, Del(k) PROVE Inv'
  BY <1>2, DelKeeps
<1>3. CASE Clear
  BY <1>3, ClearKeeps
<1>4. CASE UNCHANGED vars
  BY <1>4 DEF vars, Inv, Typed, Right
<1>5. QED
  BY <1>1, <1>2, <1>3, <1>4 DEF Next

\* Tables are filled as they should be and counted, and right until a key is
\* shadowed.
LEMMA Invariance == Spec => []Inv
<1>1. QED
  BY InitHolds, NextKeeps, PTL DEF Spec

-----------------------------------------------------------------------------
(* What follows                                                             *)

LEMMA TypesHold == Typed => TypeOK
<1> SUFFICES ASSUME Typed PROVE TypeOK
  OBVIOUS
<1>1. cap \in Caps /\ len \in Nat /\ buckets \in [0 .. cap-1 -> Seq(Entry)]
  BY LiveCounted DEF Typed, Filled
<1>2. \A i \in 0 .. cap-1 : /\ Len(buckets[i]) <= Entries
                            /\ \A j \in 1 .. Len(buckets[i]) : Index(buckets[i][j].key) = i
  BY DEF Typed, Filled, Index
<1>3. QED
  BY <1>1, <1>2 DEF TypeOK, Typed

\* The bucket that Get looks into is that of Set.
LEMMA SameBucket ==
  ASSUME \A d \in 0 .. MaxDoublings : Word % CapAfter[d] = 0, Typed, NEW k \in Key
  PROVE  GetIndex(k) = At(k, cap)
<1>1. PICK d \in 0 .. MaxDoublings : cap = CapAfter[d]
  BY DEF Typed, Caps
<1> HIDE DEF CapAfter
<1>2. cap \in Nat \ {0} /\ Word \in Nat \ {0} /\ Hash(k) \in Nat
  BY HashMapAssumption DEF Typed, Filled
<1>3. Word % cap = 0
  BY <1>1
<1>4. PICK m \in Nat : Word = cap * m
  <2>1. PICK m \in Nat : Word = cap * m + (Word % cap)
    BY <1>2, Remainder
  <2>2. cap * m \in Nat
    BY <1>2
  <2>3. QED
    BY <1>3, <2>1, <2>2
<1>5. m # 0
  BY <1>2, <1>4
<1>6. (Hash(k) % (cap * m)) % cap = Hash(k) % cap
  BY <1>2, <1>5, RemainderOfMultiple
<1>7. QED
  BY <1>4, <1>6 DEF GetIndex, At

LEMMA LookupFinds ==
  ASSUME \A d \in 0 .. MaxDoublings : Word % CapAfter[d] = 0, Typed, Right, NEW k \in Key
  PROVE  Lookup(k) = put[k]
<1>1. PICK b : b = buckets[At(k, cap)]
  OBVIOUS
<1>2. Lookup(k) = IF Holding(b, k) = {} THEN NULL ELSE b[First(Holding(b, k))].value
  BY <1>1, SameBucket DEF Lookup
<1>3. Gives(b, k, put[k])
  BY <1>1 DEF Right, Holds
<1>4. CASE Holding(b, k) = {}
  <2>1. \A j \in Slots(b) : b[j].key # k
    BY <1>4 DEF Holding, Slots
  <2>2. QED
    BY <1>2, <1>3, <1>4, <2>1 DEF Gives
<1>5. CASE Holding(b, k) # {}
  <2>1. First(Holding(b, k)) \in Slots(b) /\ b[First(Holding(b, k))].key = k
    BY <1>1, <1>5, HoldingSlot
  <2>2. QED
    BY <1>2, <1>3, <1>5, <2>1 DEF Gives
<1>6. QED
  BY <1>4, <1>5

\* Live slots and present keys are one to one.
LEMMA LiveKeys ==
  ASSUME Typed, Right
  PROVE  /\ {buckets[s[1]][s[2]].key : s \in LiveIn(cap, buckets)} = Present
         /\ Cardinality(LiveIn(cap, buckets)) = Cardinality(Present)
<1>1. PICK L : L = LiveIn(cap, buckets)
  OBVIOUS
<1> DEFINE h == [s \in L |-> buckets[s[1]][s[2]].key]
<1>2. ASSUME NEW s \in L
      PROVE  \E i \in 0 .. cap-1 : \E j \in Slots(buckets[i]) :
               s = <<i, j>> /\ buckets[i][j].value # NULL /\ h[s] = buckets[i][j].key
  <2>1. Live(s, 0 .. cap-1, buckets)
    BY <1>1, LiveSlotsOf DEF Typed
  <2>2. PICK i \in 0 .. cap-1 : \E j \in Slots(buckets[i]) : s = <<i, j>> /\ buckets[i][j].value # NULL
    BY <2>1 DEF Live
  <2>3. PICK j \in Slots(buckets[i]) : s = <<i, j>> /\ buckets[i][j].value # NULL
    BY <2>2
  <2>4. s[1] = i /\ s[2] = j
    BY <2>3
  <2>5. h[s] = buckets[i][j].key
    BY <2>4
  <2>6. QED
    BY <2>3, <2>5
<1>3. {buckets[s[1]][s[2]].key : s \in L} = {h[s] : s \in L} /\ h = [s \in L |-> h[s]]
  OBVIOUS
<1> HIDE DEF h
<1>4. ASSUME NEW i \in 0 .. cap-1, NEW j \in Slots(buckets[i])
      PROVE  /\ buckets[i][j].key \in Key /\ At(buckets[i][j].key, cap) = i
             /\ put[buckets[i][j].key] = buckets[i][j].value
  <2>1. buckets[i][j] \in Entry /\ Hash(buckets[i][j].key) % cap = i
    BY DEF Typed, Filled, Slots
  <2>2. buckets[i][j].key \in Key /\ At(buckets[i][j].key, cap) = i
    BY <2>1 DEF Entry, At
  <2>3. Gives(buckets[i], buckets[i][j].key, put[buckets[i][j].key])
    BY <2>2 DEF Right, Holds
  <2>4. QED
    BY <2>2, <2>3 DEF Gives
<1>5. ASSUME NEW s \in L PROVE h[s] \in Present
  <2>1. PICK i \in 0 .. cap-1 : \E j \in Slots(buckets[i]) :
               s = <<i, j>> /\ buckets[i][j].value # NULL /\ h[s] = buckets[i][j].key
    BY <1>2
  <2>2. PICK j \in Slots(buckets[i]) : buckets[i][j].value # NULL /\ h[s] = buckets[i][j].key
    BY <2>1
  <2>3. buckets[i][j].key \in Key /\ put[buckets[i][j].key] = buckets[i][j].value
    BY <1>4
  <2>4. QED
    BY <2>2, <2>3 DEF Present
<1>6. ASSUME NEW s \in L, NEW t \in L, h[s] = h[t] PROVE s = t
  <2>1. PICK i \in 0 .. cap-1 : \E j \in Slots(buckets[i]) :
               s = <<i, j>> /\ buckets[i][j].value # NULL /\ h[s] = buckets[i][j].key
    BY <1>2
  <2>2. PICK j \in Slots(buckets[i]) : s = <<i, j>> /\ h[s] = buckets[i][j].key
    BY <2>1
  <2>3. PICK y \in 0 .. cap-1 : \E w \in Slots(buckets[y]) :
               t = <<y, w>> /\ buckets[y][w].value # NULL /\ h[t] = buckets[y][w].key
    BY <1>2
  <2>4. PICK w \in Slots(buckets[y]) : t = <<y, w>> /\ h[t] = buckets[y][w].key
    BY <2>3
  <2>5. At(buckets[i][j].key, cap) = i /\ At(buckets[y][w].key, cap) = y
    BY <1>4
  <2>6. i = y
    BY <1>6, <2>2, <2>4, <2>5
  <2>7. Unique(buckets[i]) /\ buckets[i][j].key = buckets[i][w].key
    BY <1>6, <2>2, <2>4, <2>6 DEF Right, UniqueIn
  <2>8. j = w
    BY <2>6, <2>7 DEF Unique
  <2>9. QED
    BY <2>2, <2>4, <2>6, <2>8
<1>7. ASSUME NEW k \in Present PROVE \E s \in L : h[s] = k
  <2>1. k \in Key /\ put[k] # NULL
    BY DEF Present
  <2>2. PICK x \in 0 .. cap-1 : x = At(k, cap)
    BY <2>1, OwnBucket
  <2>3. Gives(buckets[x], k, put[k])
    BY <2>1, <2>2 DEF Right, Holds
  <2>4. PICK j \in Slots(buckets[x]) : buckets[x][j].key = k /\ buckets[x][j].value = put[k]
    BY <2>1, <2>3 DEF Gives
  <2>5. Live(<<x, j>>, 0 .. cap-1, buckets)
    BY <2>1, <2>4 DEF Live
  <2>6. <<x, j>> \in L
    BY <1>1, <2>5, LiveSlotsOf DEF Typed
  <2>7. PICK i \in 0 .. cap-1 : \E w \in Slots(buckets[i]) :
               <<x, j>> = <<i, w>> /\ h[<<x, j>>] = buckets[i][w].key
    BY <1>2, <2>6
  <2>8. PICK w \in Slots(buckets[i]) : <<x, j>> = <<i, w>> /\ h[<<x, j>>] = buckets[i][w].key
    BY <2>7
  <2>9. x = i /\ j = w
    BY <2>8
  <2>10. h[<<x, j>>] = k
    BY <2>4, <2>8, <2>9
  <2>11. QED
    BY <2>6, <2>10
<1>8. {h[s] : s \in L} = Present
  BY <1>5, <1>7
<1>9. h \in [L -> Present]
  BY <1>3, <1>5
<1>10. h \in Bijection(L, Present)
  BY <1>6, <1>7, <1>9 DEF Bijection, Injection, Surjection, IsInjective
<1>11. ExistsBijection(L, Present)
  BY <1>10 DEF ExistsBijection
<1>12. IsFiniteSet(L)
  BY <1>1, LiveCounted
<1>13. IsFiniteSet(Present)
  BY <1>11, <1>12, FS_Bijection
<1>14. Cardinality(L) = Cardinality(Present)
  BY <1>11, <1>12, <1>13, FS_Bijection
<1>15. QED
  BY <1>1, <1>3, <1>8, <1>14

\* The table is well formed: buckets are never overfull, every entry is in the
\* bucket of its key, whatever was set, deleted, cleared and rehashed.
THEOREM TypeCorrect == Spec => []TypeOK
<1>1. Inv => TypeOK
  BY TypesHold DEF Inv
<1>2. QED
  BY <1>1, Invariance, PTL

\* The map holds each key once, and its length is the number of keys and of the
\* entries that iterating visits, until a key is shadowed.
THEOREM EntriesAreCounted == Spec => []OneEntryPerKey
<1>1. Inv => OneEntryPerKey
  <2> SUFFICES ASSUME Inv, ~shadowed PROVE OneEntryPerKey
    BY DEF OneEntryPerKey
  <2>1. Typed /\ Right
    BY DEF Inv
  <2>2. LiveSlots = LiveIn(cap, buckets)
    BY DEF LiveSlots, LiveIn
  <2>3. QED
    BY <2>1, <2>2, LiveKeys DEF OneEntryPerKey, Typed
<1>2. QED
  BY <1>1, Invariance, PTL

\* In a table that has been doubled every bucket has room for the entries it gets.
NewBucketsFit == \A c \in Doublings : \A i \in 0 .. c-1 : Len(Rehashed(c)[i]) <= Entries

LEMMA DrawsFewer ==
  ASSUME NEW s, NEW b \in Seq(Entry), NEW c, NEW i, NEW g, Draws(s, b, c, i, g)
  PROVE  Len(s) <= Len(b)
<1>1. Len(s) \in Nat /\ Len(b) \in Nat
  BY DEF Draws
<1> DEFINE h == [j \in Slots(s) |-> g[j]]
<1>2. h \in [Slots(s) -> Slots(b)]
  BY DEF Draws
<1>3. \A j, k \in Slots(s) : h[j] = h[k] => j = k
  BY DEF Draws
<1> HIDE DEF h
<1>4. h \in Injection(Slots(s), Slots(b))
  BY <1>2, <1>3 DEF Injection, IsInjective
<1>5. IsFiniteSet(Slots(b)) /\ Cardinality(Slots(b)) = Len(b) /\ Cardinality(Slots(s)) = Len(s)
  <2>1. \A n \in Nat : IsFiniteSet(1 .. n) /\ Cardinality(1 .. n) = n
    BY FS_Interval
  <2>2. QED
    BY <1>1, <2>1 DEF Slots
<1>6. Cardinality(Slots(s)) <= Cardinality(Slots(b))
  BY <1>4, <1>5, FS_Injection
<1>7. QED
  BY <1>5, <1>6

\* mapGrow never finds a new bucket full: the branch that frees the new table
\* and doubles once more ("need to grow further") is never taken.
THEOREM NothingIsRehashed == Spec => []NewBucketsFit
<1>1. Inv => NewBucketsFit
  <2> SUFFICES ASSUME Typed, NEW c \in Doublings, NEW i \in 0 .. c-1
               PROVE  Len(Rehashed(c)[i]) <= Entries
    BY DEF Inv, NewBucketsFit
  <2>1. cap \in Nat \ {0} /\ c \in Nat
    BY GrownCap DEF Typed, Filled, Doublings
  <2>2. PICK y \in 0 .. cap-1 : y = i % cap
    <3>1. i \in Nat
      BY <2>1
    <3>2. i % cap \in 0 .. cap-1
      BY <2>1, <3>1, Remainder
    <3>3. QED
      BY <3>2
  <2>3. PICK b \in Seq(Entry) : b = buckets[y] /\ Len(b) <= Entries
    BY <2>2 DEF Typed, Filled
  <2>4. PICK s : s = Moved(b, c, i)
    OBVIOUS
  <2>5. s = Rehashed(c)[i]
    BY <2>2, <2>3, <2>4 DEF Rehashed
  <2>6. PICK g : Draws(s, b, c, i, g)
    BY <2>4, MovedDraws
  <2>7. Len(s) \in Nat /\ Len(b) \in Nat /\ Len(s) <= Len(b)
    <3>1. Len(s) <= Len(b)
      BY <2>6, DrawsFewer
    <3>2. s \in Seq(Entry)
      BY <2>6 DEF Draws
    <3>3. QED
      BY <3>1, <3>2
  <2>8. QED
    BY <2>3, <2>5, <2>7, HashMapAssumption
<1>2. QED
  BY <1>1, Invariance, PTL

\* Get finds what was put last and Set and Del return what was there, until a
\* key is shadowed, if the numbers of buckets divide that of the hashes Get uses.
THEOREM AnswersAreRight ==
  ASSUME \A d \in 0 .. MaxDoublings : Word % CapAfter[d] = 0
  PROVE  Spec => []AnswersUnshadowed
<1>1. Inv => AnswersUnshadowed
  <2> SUFFICES ASSUME Inv, ~shadowed PROVE AnswersUnshadowed
    BY DEF AnswersUnshadowed
  <2>1. Typed /\ Right
    BY DEF Inv
  <2>2. \A k \in Key : Lookup(k) = put[k]
    BY <2>1, LookupFinds
  <2>3. QED
    BY <2>1, <2>2 DEF AnswersUnshadowed, Right
<1>2. QED
  BY <1>1, Invariance, PTL

=============================================================================
