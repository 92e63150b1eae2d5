-------------------------- MODULE StealOrderProofs --------------------------
(* A round of stealing tries every P that is busy all the while, and none   *)
(* twice, for any numbers of Ps up to COMAXPROCS_MAX.  Steps of a size that *)
(* has no divisor in common with the number of Ps come to a P again only    *)
(* when they have been to all of them.                                      *)
EXTENDS StealOrder, FiniteSetTheorems, SequenceTheorems, WellFoundedInduction, TLAPS

-----------------------------------------------------------------------------
(* Numbers                                                                  *)

\* A set of numbers has a least one.
LEMMA Least == ASSUME NEW S, S \subseteq Nat, S # {} PROVE \E n \in S : \A j \in S : n <= j
<1>1. PICK n \in S : \A j \in S : ~(<<j, n>> \in OpToRel(<, Nat))
  BY NatLessThanWellFounded, WFMin
<1>2. \A j \in S : ~(j < n)
  BY <1>1 DEF OpToRel
<1>3. QED
  BY <1>2

\* Division with remainder.
LEMMA Division ==
  ASSUME NEW d \in Nat, d > 0, NEW x \in Int
  PROVE  x = d * (x \div d) + (x % d) /\ x \div d \in Int /\ x % d \in 0 .. d - 1
BY SMT

\* A number has one quotient and one remainder.
LEMMA ModUnique ==
  ASSUME NEW d \in Nat, d > 0, NEW q \in Int, NEW r \in Nat, r < d
  PROVE  (d * q + r) % d = r
<1> DEFINE x == d * q + r
           q2 == x \div d
           r2 == x % d
           e == q - q2
<1>1. x \in Int /\ q2 \in Int /\ r2 \in Nat /\ r2 < d /\ x = d * q2 + r2
  BY SMT
<1>2. d * e = r2 - r /\ e \in Int
  BY <1>1
<1> HIDE DEF e
<1>3. -d < d * e /\ d * e < d
  BY <1>1, <1>2
<1>4. CASE e >= 1
  BY <1>2, <1>3, <1>4
<1>5. CASE e <= -1
  BY <1>2, <1>3, <1>5
<1>6. CASE e = 0
  BY <1>1, <1>2, <1>6
<1>7. QED
  BY <1>2, <1>4, <1>5, <1>6

\* Divisors: what d leaves no remainder of is d times something.
LEMMA Divides ==
  ASSUME NEW d \in Nat, d > 0, NEW x \in Int
  PROVE  x % d = 0 <=> \E q \in Int : x = d * q
<1>1. ASSUME x % d = 0 PROVE \E q \in Int : x = d * q
  <2>1. x = d * (x \div d) /\ x \div d \in Int
    BY <1>1, Division
  <2>2. QED
    BY <2>1
<1>2. ASSUME NEW q \in Int, x = d * q PROVE x % d = 0
  <2>1. (d * q + 0) % d = 0
    BY ModUnique
  <2>2. d * q + 0 = x
    BY <1>2
  <2>3. QED
    BY <2>1, <2>2
<1>3. QED
  BY <1>1, <1>2

-----------------------------------------------------------------------------
(* The greatest common divisor                                              *)

Common(a, b) == {d \in 1 .. a : a % d = 0 /\ b % d = 0}

LEMMA GcdGreatest ==
  ASSUME NEW a \in Nat, a > 0, NEW b \in Nat
  PROVE  gcd(a, b) \in Common(a, b) /\ \A e \in Common(a, b) : e <= gcd(a, b)
<1> DEFINE D == Common(a, b)
           S == {a - d : d \in D}
<1>1. 1 \in D
  <2>1. a % 1 = 0 /\ b % 1 = 0 /\ 1 \in 1 .. a
    OBVIOUS
  <2>2. QED
    BY <2>1 DEF Common
<1>2. D \subseteq 1 .. a
  BY DEF Common
<1> HIDE DEF D
<1>3. S \subseteq Nat /\ S # {}
  BY <1>1, <1>2
<1>4. PICK m \in S : \A j \in S : m <= j
  <2> HIDE DEF S
  <2>1. QED
    BY <1>3, Least
<1>5. PICK g \in D : m = a - g
  BY <1>4
<1>6. \A e \in D : e <= g
  <2>1. TAKE e \in D
  <2>2. a - e \in S
    OBVIOUS
  <2>3. a - g <= a - e
    BY <1>4, <1>5, <2>2
  <2>4. QED
    BY <1>2, <2>3
<1>7. gcd(a, b) = CHOOSE d \in D : \A e \in D : e <= d
  BY DEF gcd, D, Common
<1>8. gcd(a, b) \in D /\ \A e \in D : e <= gcd(a, b)
  BY <1>5, <1>6, <1>7
<1>9. QED
  BY <1>8 DEF D

\* Numbers that are coprime have no divisor in common but 1.
LEMMA CoprimeDivisor ==
  ASSUME NEW a \in Nat, a > 0, NEW b \in Nat, gcd(a, b) = 1,
         NEW e \in Nat, e > 0, NEW s \in Int, NEW t \in Int, a = e * s, b = e * t
  PROVE  e = 1
<1>1. e <= a
  <2>1. s >= 1
    <3>1. CASE s <= 0
      <4>1. e * s <= 0
        BY <3>1
      <4>2. QED
        BY <4>1
    <3>2. QED
      BY <3>1
  <2>2. e * (s - 1) >= 0
    BY <2>1
  <2>3. e * s = e * (s - 1) + e
    OBVIOUS
  <2>4. QED
    BY <2>2, <2>3
<1>2. a % e = 0 /\ b % e = 0
  BY Divides
<1>3. e \in Common(a, b)
  BY <1>1, <1>2 DEF Common
<1>4. QED
  BY <1>3, GcdGreatest

\* Fewer than n steps of a size that is coprime to n do not lead back.
LEMMA NoReturn ==
  ASSUME NEW n \in Nat, n > 0, NEW a \in Nat, a > 0, gcd(a, n) = 1,
         NEW k \in 1 .. n-1
  PROVE  (k * a) % n # 0
<1> DEFINE S == {d \in 1 .. n : (d * a) % n = 0}
<1>1. SUFFICES ASSUME (k * a) % n = 0 PROVE FALSE
  OBVIOUS
<1>2. k \in S /\ S \subseteq Nat
  BY <1>1
<1>3. PICK d \in S : \A j \in S : d <= j
  <2> HIDE DEF S
  <2>1. QED
    BY <1>2, Least
<1>4. d \in 1 .. n-1 /\ (d * a) % n = 0
  BY <1>2, <1>3
<1>5. PICK m \in Int : d * a = n * m
  BY <1>4, Divides
\* The least number of steps that leads back divides n.
<1> DEFINE q == n \div d
           r == n % d
<1>6. n = d * q + r /\ q \in Int /\ r \in 0 .. d - 1
  BY <1>4, Division
<1> HIDE DEF q, r
<1>7. r = 0
  <2>1. r * a = n * (a - q * m)
    <3>1. r = n - d * q
      BY <1>4, <1>6
    <3>2. r * a = n * a - (d * q) * a
      BY <1>4, <1>6, <3>1
    <3>3. (d * q) * a = q * (d * a)
      BY <1>4, <1>6
    <3>4. q * (n * m) = n * (q * m)
      BY <1>5, <1>6
    <3>5. n * (a - q * m) = n * a - n * (q * m)
      BY <1>5, <1>6
    <3>6. QED
      BY <1>5, <3>2, <3>3, <3>4, <3>5
  <2>2. (r * a) % n = 0
    <3>1. r * a \in Int /\ a - q * m \in Int
      BY <1>4, <1>5, <1>6
    <3>2. QED
      BY <2>1, <3>1, Divides
  <2>3. CASE r > 0
    <3>1. r \in 1 .. n /\ r < d
      BY <1>4, <1>6, <2>3
    <3>2. r \in S
      BY <2>2, <3>1
    <3>3. QED
      BY <1>3, <1>4, <3>1, <3>2
  <2>4. QED
    BY <1>6, <2>3
<1>8. n = d * q
  BY <1>4, <1>6, <1>7
<1>9. q > 1
  <2>1. CASE q <= 0
    <3>1. d * q <= 0
      BY <1>4, <1>6, <2>1
    <3>2. QED
      BY <1>8, <3>1
  <2>2. CASE q = 1
    BY <1>4, <1>8, <2>2
  <2>3. QED
    BY <1>6, <2>1, <2>2
\* What remains of n divides the size of the steps.
<1>10. a = q * m
  <2>1. d * a = d * (q * m)
    <3>1. (d * q) * m = d * (q * m)
      BY <1>4, <1>5, <1>6
    <3>2. QED
      BY <1>5, <1>8, <3>1
  <2>2. d * (a - q * m) = 0 /\ a - q * m \in Int
    <3>1. q * m \in Int
      BY <1>5, <1>6
    <3>2. QED
      BY <1>4, <2>1, <3>1
  <2>3. d > 0 /\ d \in Nat
    BY <1>4
  <2> DEFINE z == a - q * m
  <2> HIDE DEF z
  <2>4. d * z = 0 /\ z \in Int
    BY <2>2 DEF z
  <2>5. z = 0
    BY <2>3, <2>4
  <2>6. QED
    BY <1>5, <1>6, <2>5 DEF z
<1>11. q = 1
  <2>1. n = q * d /\ d \in Int
    BY <1>4, <1>6, <1>8
  <2>2. q \in Nat /\ q > 0 /\ m \in Int /\ a = q * m
    BY <1>5, <1>6, <1>9, <1>10
  <2>3. QED
    BY <2>1, <2>2, CoprimeDivisor
<1>12. QED
  BY <1>9, <1>11

\* Step number k of a round that begins at p.
Place(n, p, a, k) == (p + k * a) % n

LEMMA StepsApart ==
  ASSUME NEW n \in Nat, n > 0, NEW a \in Nat, a > 0, gcd(a, n) = 1, NEW p \in Nat,
         NEW j \in 0 .. n-1, NEW k \in 0 .. n-1, j < k
  PROVE  Place(n, p, a, j) # Place(n, p, a, k)
<1> DEFINE x == p + j * a
           y == p + k * a
<1>1. SUFFICES ASSUME x % n = y % n PROVE FALSE
  BY DEF Place
<1>2. x \in Int /\ y \in Int /\ (k - j) * a = y - x
  OBVIOUS
<1> HIDE DEF x, y
<1>3. PICK u \in Int, v \in Int : x = n * u + (x % n) /\ y = n * v + (y % n)
  BY <1>2, Division
<1>4. y - x = n * (v - u) /\ v - u \in Int
  <2>1. x % n \in Int
    BY <1>2, Division
  <2>2. n * (v - u) = n * v - n * u
    OBVIOUS
  <2>3. QED
    BY <1>1, <1>3, <2>1, <2>2
<1>5. ((k - j) * a) % n = 0
  BY <1>2, <1>4, Divides
<1>6. k - j \in 1 .. n-1
  OBVIOUS
<1>7. QED
  BY <1>5, <1>6, NoReturn

\* n steps of a size that is coprime to n lead everywhere.
LEMMA AllReached ==
  ASSUME NEW n \in Nat, n > 0, NEW a \in Nat, a > 0, gcd(a, n) = 1, NEW p \in Nat,
         NEW id \in 0 .. n-1
  PROVE  \E k \in 0 .. n-1 : Place(n, p, a, k) = id
<1> DEFINE I == 0 .. n-1
           f == [k \in I |-> Place(n, p, a, k)]
<1>1. f \in Injection(I, I)
  <2>1. \A k \in I : Place(n, p, a, k) \in I
    <3>1. \A k \in I : p + k * a \in Int
      OBVIOUS
    <3>2. QED
      BY <3>1, Division DEF Place
  <2>2. \A j, k \in I : Place(n, p, a, j) = Place(n, p, a, k) => j = k
    <3>1. SUFFICES ASSUME NEW j \in I, NEW k \in I, Place(n, p, a, j) = Place(n, p, a, k)
                   PROVE  j = k
      OBVIOUS
    <3>2. ~(j < k) /\ ~(k < j)
      BY <3>1, StepsApart
    <3>3. QED
      BY <3>2
  <2> HIDE DEF I
  <2>3. QED
    BY <2>1, <2>2 DEF Injection, IsInjective
<1>2. IsFiniteSet(I)
  BY FS_Interval
<1> HIDE DEF I, f
<1>3. f \in Surjection(I, I)
  BY <1>1, <1>2, FS_Injection
<1>4. id \in I
  BY DEF I
<1>5. PICK k \in I : f[k] = id
  BY <1>3, <1>4 DEF Surjection
<1>6. QED
  BY <1>5 DEF f, I

-----------------------------------------------------------------------------
(* What randord_reset appends                                               *)

\* What it has appended after each number up to k.
Appending(c, n, k) ==
  c = [i \in 0 .. k |-> IF i = 0 THEN <<>> ELSE IF gcd(i, n) = 1 THEN Append(c[i-1], i) ELSE c[i-1]]

LEMMA AppendingExists == ASSUME NEW n, NEW u \in Nat PROVE \E c : Appending(c, n, u)
<1> DEFINE Step(i, x) == IF gcd(i, n) = 1 THEN Append(x, i) ELSE x
           S == {k \in Nat : ~ \E c : Appending(c, n, k)}
<1>1. SUFFICES ASSUME S # {} PROVE FALSE
  OBVIOUS
<1>2. PICK k \in S : \A j \in S : k <= j
  <2>1. S \subseteq Nat
    OBVIOUS
  <2> HIDE DEF S
  <2>2. QED
    BY <1>1, <2>1, Least
<1>3. k \in Nat /\ ~ \E c : Appending(c, n, k)
  BY <1>2
<1>4. CASE k = 0
  <2> DEFINE c == [i \in 0 .. 0 |-> <<>>]
  <2>1. Appending(c, n, 0)
    BY DEF Appending
  <2>2. QED
    BY <1>3, <1>4, <2>1
<1>5. CASE k # 0
  <2>1. k - 1 \in Nat /\ k - 1 \notin S
    BY <1>2, <1>3, <1>5
  <2>2. PICK b : Appending(b, n, k - 1)
    BY <2>1
  <2> DEFINE c == [i \in 0 .. k |-> IF i = 0 THEN <<>> ELSE Step(i, b[i-1])]
  <2>3. \A i \in 0 .. k - 1 : c[i] = b[i]
    <3>1. \A i \in 0 .. k - 1 : b[i] = IF i = 0 THEN <<>> ELSE Step(i, b[i-1])
      BY <2>2 DEF Appending
    <3>2. 0 .. k - 1 \subseteq 0 .. k
      BY <1>3
    <3> HIDE DEF Step
    <3>3. QED
      BY <3>1, <3>2
  <2>4. \A i \in 0 .. k : i # 0 => i - 1 \in 0 .. k - 1
    BY <1>3
  <2>5. c = [i \in 0 .. k |-> IF i = 0 THEN <<>> ELSE Step(i, c[i-1])]
    <3> HIDE DEF Step
    <3>1. QED
      BY <2>3, <2>4
  <2>6. Appending(c, n, k)
    BY <2>5 DEF Appending
  <2>7. QED
    BY <1>3, <2>6
<1>6. QED
  BY <1>4, <1>5

\* There are numbers in s, each from 1 to n and coprime to n.
Coprimes(s, n) == s \in Seq(1 .. n) /\ \A j \in 1 .. Len(s) : gcd(s[j], n) = 1

LEMMA OneIsCoprime == ASSUME NEW n \in Nat PROVE gcd(1, n) = 1
<1>1. gcd(1, n) \in Common(1, n)
  BY GcdGreatest
<1>2. QED
  BY <1>1 DEF Common

\* randord_reset appends numbers that are coprime to n, and at least one.
LEMMA ResetGives ==
  ASSUME NEW n \in Nat, n > 0
  PROVE  Coprimes(randord_reset(n), n) /\ Len(randord_reset(n)) > 0
<1> DEFINE F == CHOOSE c : Appending(c, n, n)
           Good(k) == Coprimes(F[k], n) /\ (k > 0 => Len(F[k]) > 0)
           S == {k \in 0 .. n : ~Good(k)}
<1>1. Appending(F, n, n)
  BY AppendingExists
<1>2. randord_reset(n) = F[n]
  BY DEF randord_reset, Appending
<1> HIDE DEF F
<1>3. ASSUME S # {} PROVE FALSE
  <2>1. PICK k \in S : \A j \in S : k <= j
    <3>1. S \subseteq Nat
      OBVIOUS
    <3> HIDE DEF S
    <3>2. QED
      BY <1>3, <3>1, Least
  <2>2. k \in 0 .. n /\ ~Good(k)
    BY <2>1
  <2>3. CASE k = 0
    <3>1. F[0] = <<>>
      BY <1>1 DEF Appending
    <3>2. QED
      BY <2>2, <2>3, <3>1 DEF Coprimes
  <2>4. CASE k # 0
    <3>1. k - 1 \in 0 .. n /\ k - 1 < k /\ k \in 1 .. n
      BY <2>2, <2>4
    <3>2. Good(k - 1)
      <4>1. k - 1 \notin S
        BY <2>1, <3>1
      <4> HIDE DEF Good
      <4>2. QED
        BY <3>1, <4>1
    <3>3. F[k] = IF gcd(k, n) = 1 THEN Append(F[k-1], k) ELSE F[k-1]
      BY <1>1, <2>2, <2>4 DEF Appending
    <3> DEFINE s == F[k-1]
    <3>4. s \in Seq(1 .. n) /\ \A j \in 1 .. Len(s) : gcd(s[j], n) = 1
      BY <3>2 DEF Coprimes
    <3>5. k > 1 => Len(s) > 0
      BY <3>1, <3>2
    <3> HIDE DEF s
    <3>6. CASE gcd(k, n) = 1
      <4>1. /\ Append(s, k) \in Seq(1 .. n) /\ Len(Append(s, k)) = Len(s) + 1 /\ Len(s) \in Nat
            /\ Append(s, k)[Len(s) + 1] = k /\ \A j \in 1 .. Len(s) : Append(s, k)[j] = s[j]
        BY <3>1, <3>4, AppendProperties
      <4>2. \A j \in 1 .. Len(s) + 1 : j \in 1 .. Len(s) \/ j = Len(s) + 1
        BY <4>1
      <4>3. Coprimes(Append(s, k), n) /\ Len(Append(s, k)) > 0
        BY <3>4, <3>6, <4>1, <4>2 DEF Coprimes
      <4>4. QED
        BY <2>2, <3>3, <3>6, <4>3 DEF s
    <3>7. CASE gcd(k, n) # 1
      <4>1. k > 1
        <5>1. k # 1
          BY <3>7, OneIsCoprime
        <5>2. QED
          BY <3>1, <5>1
      <4>2. QED
        BY <2>2, <3>2, <3>3, <3>5, <3>7, <4>1 DEF s
    <3>8. QED
      BY <3>6, <3>7
  <2>5. QED
    BY <2>3, <2>4
<1>4. Good(n)
  <2> HIDE DEF Good
  <2>1. QED
    BY <1>3
<1>5. QED
  BY <1>2, <1>4

-----------------------------------------------------------------------------
(* The invariant                                                            *)

\* The Ps on the idle list.
Listed == {pidle[i] : i \in DOMAIN pidle}

Typed ==
  /\ maxprocs \in Counts \cup {0} /\ junk \in Nat
  /\ enum \in [i : Nat, pos : Nat, inc : Nat, read : BOOLEAN]
  /\ enum.i <= maxprocs
  /\ pidle \in Seq(Nat) /\ tried \in Seq(Nat) /\ busy \subseteq 1 .. maxprocs-1

\* There is an order before there is a round.
Ordered ==
  IF maxprocs = 0 THEN enum = Off ELSE Coprimes(coprimes, maxprocs) /\ Len(coprimes) > 0

\* Bits are set for Ps on the list only, and no P on the list was busy all the while.
Marked == idlemask \subseteq {Bit(id) : id \in Listed} /\ busy \cap Listed = {}

\* A round that began at p is at its next P; it tried each busy P it came to
\* and tried no other than it came to, none twice.
Under(p) ==
  LET at(k) == Place(maxprocs, p, enum.inc, k)
      past == 0 .. enum.i - 1
  IN /\ enum.pos = at(enum.i)
     /\ \A id \in busy : \A k \in past : at(k) = id => \E j \in DOMAIN tried : tried[j] = id
     /\ \A j \in DOMAIN tried : \E k \in past : at(k) = tried[j]

Round ==
  enum # Off /\ enum.read =>
    /\ enum.inc > 0 /\ gcd(enum.inc, maxprocs) = 1
    /\ \E p \in 0 .. maxprocs-1 : Under(p)
    /\ IsInjective(tried)

OrderInv == Typed /\ Ordered /\ Marked /\ Round

\* Two Ps do not share a bit.
LEMMA BitsDiffer == ASSUME NEW a \in Nat, NEW b \in Nat, Bit(a) = Bit(b) PROVE a = b
<1>1. WordSize \in Nat /\ WordSize > 0
  BY StealOrderAssumption
<1>2. a \div WordSize = b \div WordSize /\ a % WordSize = b % WordSize
  BY DEF Bit
<1>3. a = WordSize * (a \div WordSize) + (a % WordSize) /\ b = WordSize * (b \div WordSize) + (b % WordSize)
  BY <1>1, Division
<1>4. QED
  BY <1>2, <1>3

\* One more step.
LEMMA NextPlace ==
  ASSUME NEW n \in Nat, n > 0, NEW p \in Nat, NEW a \in Nat, NEW k \in Nat
  PROVE  (Place(n, p, a, k) + a) % n = Place(n, p, a, k + 1)
<1> DEFINE x == p + k * a
<1>1. x \in Int /\ p + (k + 1) * a = x + a
  OBVIOUS
<1> HIDE DEF x
<1>2. PICK u \in Int : x = n * u + (x % n)
  BY <1>1, Division
<1> DEFINE y == (x % n) + a
<1>3. x % n \in Int /\ y \in Int
  BY <1>1, Division
<1>4. PICK v \in Int : y = n * v + (y % n)
  BY <1>3, Division
<1>5. y % n \in Nat /\ y % n < n
  BY <1>3, Division
<1>6. x + a = n * (u + v) + (y % n)
  <2>1. n * (u + v) = n * u + n * v
    OBVIOUS
  <2>2. x + a = n * u + y
    BY <1>1, <1>2, <1>3
  <2> HIDE DEF y
  <2>3. QED
    BY <1>1, <1>3, <1>4, <1>5, <2>1, <2>2
<1> HIDE DEF y
<1>7. (n * (u + v) + (y % n)) % n = y % n
  <2>1. u + v \in Int
    OBVIOUS
  <2> DEFINE q == u + v
             r == y % n
  <2>2. q \in Int /\ r \in Nat /\ r < n
    BY <1>5, <2>1
  <2> HIDE DEF q, r
  <2>3. (n * q + r) % n = r
    BY <2>2, ModUnique
  <2>4. QED
    BY <2>3 DEF q, r
<1>8. QED
  BY <1>1, <1>6, <1>7 DEF Place, x, y

LEMMA OrderInitHolds == OrderInit => OrderInv
<1> SUFFICES ASSUME OrderInit PROVE OrderInv
  OBVIOUS
<1>1. junk \in Nat
  BY StealOrderAssumption DEF OrderInit
<1>2. Typed
  BY <1>1 DEF OrderInit, Typed, Off
<1>3. QED
  BY <1>2 DEF OrderInit, OrderInv, Ordered, Marked, Round

LEMMA CountsOfPs == ASSUME OrderInv, maxprocs # 0 PROVE maxprocs \in Nat /\ maxprocs > 0
BY StealOrderAssumption DEF OrderInv, Typed

\* What a round knows depends on where it is, not on the masks and the list.
LEMMA RoundStays ==
  ASSUME OrderInv, UNCHANGED <<maxprocs, enum, tried>>, busy' \subseteq busy
  PROVE  Round'
<1>1. ASSUME NEW p, Under(p) PROVE Under(p)'
  BY <1>1 DEF Under
<1>2. QED
  BY <1>1 DEF OrderInv, Round

LEMMA ResizeKeeps == ASSUME OrderInv, NEW n \in Counts, s_procresize(n) PROVE OrderInv'
<1> USE DEF OrderInv, s_procresize
<1>1. n \in Nat /\ n > 0 /\ enum = Off /\ maxprocs = 0
  BY StealOrderAssumption DEF Ordered
<1>2. busy = {}
  BY <1>1 DEF Typed
<1>3. pidle' \in Seq(Nat) /\ DOMAIN pidle' = 1 .. n-1 /\ \A i \in 1 .. n-1 : pidle'[i] = i
  <2>1. n - 1 \in Nat /\ pidle' \in [1 .. n-1 -> Nat]
    BY <1>1
  <2>2. QED
    BY <2>1
<1>4. Typed'
  BY <1>1, <1>2, <1>3 DEF Typed, Off
<1>5. Ordered'
  BY <1>1, ResetGives DEF Ordered
<1>6. Marked'
  BY <1>2, <1>3 DEF Marked, Listed
<1>7. Round'
  BY <1>1 DEF Round
<1>8. QED
  BY <1>4, <1>5, <1>6, <1>7

LEMMA PutKeeps == ASSUME OrderInv, NEW id \in 1 .. maxprocs-1, s_pidleput(id) PROVE OrderInv'
<1> USE DEF OrderInv, s_pidleput
<1>1. maxprocs \in Nat /\ id \in Nat /\ pidle \in Seq(Nat)
  BY StealOrderAssumption DEF Typed
<1>2. pidle' \in Seq(Nat)
  BY <1>1
<1>3. Listed' = Listed \cup {id}
  <2>1. /\ Len(pidle') = Len(pidle) + 1 /\ Len(pidle) \in Nat
        /\ pidle'[1] = id /\ \A i \in 1 .. Len(pidle) : pidle'[i + 1] = pidle[i]
    BY <1>1
  <2>2. DOMAIN pidle' = 1 .. Len(pidle) + 1 /\ DOMAIN pidle = 1 .. Len(pidle)
    BY <1>1, <1>2, <2>1
  <2>3. \A i \in 1 .. Len(pidle) + 1 : i = 1 \/ (i - 1 \in 1 .. Len(pidle) /\ (i - 1) + 1 = i)
    BY <2>1
  <2>4. Listed' \subseteq Listed \cup {id}
    BY <2>1, <2>2, <2>3 DEF Listed
  <2>5. \A i \in 1 .. Len(pidle) : i + 1 \in 1 .. Len(pidle) + 1 /\ 1 \in 1 .. Len(pidle) + 1
    BY <2>1
  <2>6. Listed \subseteq Listed'
    <3>1. SUFFICES ASSUME NEW i \in 1 .. Len(pidle) PROVE pidle[i] \in Listed'
      BY <2>2 DEF Listed
    <3>2. i + 1 \in DOMAIN pidle' /\ pidle'[i + 1] = pidle[i]
      BY <2>1, <2>2, <2>5
    <3>3. QED
      BY <3>2 DEF Listed
  <2>7. id \in Listed'
    BY <2>1, <2>2 DEF Listed
  <2>8. QED
    BY <2>4, <2>6, <2>7
<1>4. Typed'
  BY <1>2 DEF Typed
<1>5. Marked'
  BY <1>3 DEF Marked, vbm_set
<1>6. Ordered'
  BY DEF Ordered
<1>7. Round'
  BY RoundStays
<1>8. QED
  BY <1>4, <1>5, <1>6, <1>7

LEMMA GetKeeps == ASSUME OrderInv, s_pidleget PROVE OrderInv'
<1> USE DEF OrderInv, s_pidleget
<1>1. pidle \in Seq(Nat) /\ pidle # <<>>
  BY DEF Typed
<1>2. /\ pidle' \in Seq(Nat) /\ Len(pidle') = Len(pidle) - 1 /\ Len(pidle) \in Nat /\ Len(pidle) > 0
      /\ pidle[1] \in Nat /\ \A i \in 1 .. Len(pidle) - 1 : pidle'[i] = pidle[i + 1]
  BY <1>1
<1>3. DOMAIN pidle' = 1 .. Len(pidle) - 1 /\ DOMAIN pidle = 1 .. Len(pidle)
  BY <1>1, <1>2
<1>4. Listed' \subseteq Listed /\ Listed \subseteq Listed' \cup {pidle[1]}
  <2>1. \A i \in 1 .. Len(pidle) - 1 : i + 1 \in 1 .. Len(pidle)
    BY <1>2
  <2>2. \A i \in 1 .. Len(pidle) : i = 1 \/ (i - 1 \in 1 .. Len(pidle) - 1 /\ (i - 1) + 1 = i)
    BY <1>2
  <2>3. ASSUME NEW i \in 1 .. Len(pidle) - 1 PROVE pidle'[i] \in Listed
    BY <1>2, <1>3, <2>1 DEF Listed
  <2>4. ASSUME NEW i \in 1 .. Len(pidle), i # 1 PROVE pidle[i] \in Listed'
    <3>1. i - 1 \in DOMAIN pidle' /\ pidle'[i - 1] = pidle[i]
      BY <1>2, <1>3, <2>2, <2>4
    <3>2. QED
      BY <3>1 DEF Listed
  <2>5. Listed' \subseteq Listed
    BY <1>3, <2>3 DEF Listed
  <2>6. Listed \subseteq Listed' \cup {pidle[1]}
    BY <1>3, <2>4 DEF Listed
  <2>7. QED
    BY <2>5, <2>6
<1>5. Typed'
  BY <1>2 DEF Typed
<1>6. Marked'
  BY <1>4 DEF Marked, vbm_clear
<1>7. Ordered'
  BY DEF Ordered
<1>8. Round'
  BY RoundStays
<1>9. QED
  BY <1>5, <1>6, <1>7, <1>8

LEMMA StartKeeps == ASSUME OrderInv, NEW r \in m_fastrand, StealStart(r) PROVE OrderInv'
<1> USE DEF OrderInv, StealStart
<1> DEFINE n == maxprocs
           i == r % Len(coprimes)
<1>1. n \in Nat /\ n > 0 /\ n \in Counts /\ r \in Nat
  BY StealOrderAssumption DEF Typed, m_fastrand
<1>2. Coprimes(coprimes, n) /\ Len(coprimes) > 0 /\ Len(coprimes) \in Nat
  BY <1>1 DEF Ordered, Coprimes
<1>3. i \in 0 .. Len(coprimes) - 1
  BY <1>1, <1>2, Division
<1>p. PICK p \in 0 .. n-1 : p = r % n
  BY <1>1, Division
<1>4. /\ enum' = [i |-> 0, pos |-> p, inc |-> array_get(i), read |-> Written(i)] /\ tried' = <<>>
      /\ Written(i) = (ElemSize * i < Len(coprimes))
  BY <1>p DEF randord_start, Written
<1> HIDE DEF i
<1>5. Written(i) \in BOOLEAN
  BY DEF Written
<1>6. ASSUME Written(i)
      PROVE  array_get(i) \in 1 .. n /\ gcd(array_get(i), n) = 1
  <2>1. ElemSize \in Nat /\ ElemSize * i \in Nat
    BY <1>2, <1>3, StealOrderAssumption
  <2>2. ElemSize * i + 1 \in 1 .. Len(coprimes)
    BY <1>2, <1>6, <2>1 DEF Written
  <2>3. array_get(i) = coprimes[ElemSize * i + 1]
    BY <1>6 DEF array_get
  <2>4. QED
    <3> DEFINE j == ElemSize * i + 1
    <3>1. j \in 1 .. Len(coprimes) /\ coprimes \in Seq(1 .. n) /\ gcd(coprimes[j], n) = 1
      BY <1>2, <2>2 DEF Coprimes
    <3> HIDE DEF j
    <3>2. coprimes[j] \in 1 .. n
      BY <3>1, ElementOfSeq
    <3>3. QED
      BY <2>3, <3>1, <3>2 DEF j
<1>7. array_get(i) \in Nat
  <2>1. CASE Written(i)
    BY <1>1, <1>6, <2>1
  <2>2. CASE ~Written(i)
    BY <2>2 DEF array_get, Typed
  <2>3. QED
    BY <2>1, <2>2
<1>8. Typed'
  BY <1>1, <1>p, <1>4, <1>5, <1>7 DEF Typed
<1>9. Ordered'
  BY <1>1 DEF Ordered
<1>10. Marked'
  BY DEF Marked, Listed
<1>11. ASSUME Written(i)
       PROVE  /\ enum'.inc > 0 /\ gcd(enum'.inc, maxprocs') = 1
              /\ \E q \in 0 .. maxprocs'-1 : Under(q)'
              /\ IsInjective(tried')
  <2>1. enum'.inc \in 1 .. n /\ gcd(enum'.inc, n) = 1
    BY <1>4, <1>6, <1>11
  <2>2. Place(n, p, enum'.inc, 0) = p
    <3>1. p + 0 * enum'.inc = p
      BY <1>p, <2>1
    <3>2. p % n = p
      BY <1>1, <1>p
    <3>3. QED
      BY <3>1, <3>2 DEF Place
  <2>3. Under(p)'
    <3>1. enum'.i = 0 /\ enum'.pos = p /\ maxprocs' = n /\ DOMAIN tried' = {} /\ 0 .. 0 - 1 = {}
      BY <1>4
    <3>2. QED
      BY <2>2, <3>1 DEF Under
  <2>4. IsInjective(tried')
    BY <1>4 DEF IsInjective
  <2>5. p \in 0 .. maxprocs'-1 /\ maxprocs' = n
    BY <1>p
  <2>6. \E q \in 0 .. maxprocs'-1 : Under(q)'
    BY <2>3, <2>5
  <2>7. QED
    BY <2>1, <2>4, <2>5, <2>6
<1>12. Round'
  BY <1>4, <1>11 DEF Round
<1>13. QED
  BY <1>8, <1>9, <1>10, <1>12

\* The thief is at a P it did not come to before in this round.  If that P was
\* busy all the while its bit is not set, and it is tried.
LEMMA TryRound ==
  ASSUME OrderInv, StealTry, enum.read, NEW p \in 0 .. maxprocs-1, Under(p)
  PROVE  Under(p)' /\ IsInjective(tried')
<1> DEFINE n == maxprocs
           at(k) == Place(n, p, enum.inc, k)
<1>1. /\ n \in Nat /\ n > 0 /\ p \in Nat /\ enum.i \in Nat /\ enum.inc \in Nat /\ enum.pos \in Nat
      /\ enum.i < n /\ tried \in Seq(Nat) /\ enum.inc > 0 /\ gcd(enum.inc, n) = 1 /\ IsInjective(tried)
  BY StealOrderAssumption DEF OrderInv, Typed, Round, StealTry
<1>2. /\ maxprocs' = n /\ busy' = busy /\ enum'.i = enum.i + 1 /\ enum'.inc = enum.inc
      /\ enum'.pos = (enum.pos + enum.inc) % n
  BY DEF StealTry, randenum_next, OrderInv, Typed
<1>3. enum.pos = at(enum.i) /\ enum'.pos = at(enum'.i)
  <2>1. enum.pos = at(enum.i)
    BY DEF Under
  <2>2. (at(enum.i) + enum.inc) % n = at(enum.i + 1)
    <3> DEFINE k == enum.i
               a == enum.inc
    <3>1. n \in Nat /\ n > 0 /\ p \in Nat /\ k \in Nat /\ a \in Nat
      BY <1>1
    <3> HIDE DEF n, k, a
    <3>2. (Place(n, p, a, k) + a) % n = Place(n, p, a, k + 1)
      BY <3>1, NextPlace
    <3>3. QED
      BY <3>2 DEF n, k, a
  <2>3. QED
    BY <1>2, <2>1, <2>2
<1>4. ASSUME NEW k \in 0 .. enum.i - 1 PROVE at(k) # enum.pos
  <2>1. k \in 0 .. n-1 /\ enum.i \in 0 .. n-1 /\ k < enum.i
    BY <1>1
  <2>2. QED
    BY <1>1, <1>3, <2>1, StepsApart
<1>5. \A k \in 0 .. enum'.i - 1 : k \in 0 .. enum.i - 1 \/ k = enum.i
  BY <1>1, <1>2
<1>6. \A k \in 0 .. enum.i : k \in 0 .. enum'.i - 1
  BY <1>1, <1>2
<1>7. /\ \A id \in busy : \A k \in 0 .. enum.i - 1 : at(k) = id => \E j \in DOMAIN tried : tried[j] = id
      /\ \A j \in DOMAIN tried : \E k \in 0 .. enum.i - 1 : at(k) = tried[j]
  BY DEF Under
<1>8. ASSUME enum.pos \in busy PROVE tried' = Append(tried, enum.pos)
  <2>1. enum.pos # 0 /\ ~vbm_read(idlemask, enum.pos)
    <3>1. enum.pos # 0 /\ enum.pos \notin Listed
      BY <1>8 DEF OrderInv, Typed, Marked
    <3>2. ASSUME NEW id \in Listed PROVE Bit(id) # Bit(enum.pos)
      <4>1. id \in Nat
        BY DEF Listed, OrderInv, Typed
      <4>2. QED
        BY <1>1, <3>1, <4>1, BitsDiffer
    <3>3. QED
      BY <3>1, <3>2 DEF OrderInv, Marked, vbm_read
  <2>2. QED
    BY <2>1 DEF StealTry
<1>9. CASE tried' = tried /\ enum.pos \notin busy
  <2>1. \A id \in busy : \A k \in 0 .. enum'.i - 1 : at(k) = id => \E j \in DOMAIN tried : tried[j] = id
    BY <1>3, <1>5, <1>7, <1>9
  <2>2. \A j \in DOMAIN tried : \E k \in 0 .. enum'.i - 1 : at(k) = tried[j]
    <3>1. \A k \in 0 .. enum.i - 1 : k \in 0 .. enum.i
      BY <1>1
    <3>2. QED
      BY <1>6, <1>7, <3>1
  <2>3. QED
    BY <1>1, <1>2, <1>3, <1>9, <2>1, <2>2 DEF Under
<1>10. CASE tried' = Append(tried, enum.pos)
  <2> DEFINE m == Len(tried)
             x == enum.pos
  <2>1. /\ m \in Nat /\ Len(tried') = m + 1 /\ tried'[m + 1] = x /\ \A j \in 1 .. m : tried'[j] = tried[j]
        /\ DOMAIN tried = 1 .. m /\ DOMAIN tried' = 1 .. m + 1
    BY <1>1, <1>10, AppendProperties
  <2>2. \A j \in 1 .. m + 1 : j \in 1 .. m \/ j = m + 1
    BY <2>1
  <2>3. m + 1 \in 1 .. m + 1 /\ \A j \in 1 .. m : j \in 1 .. m + 1
    BY <2>1
  <2> HIDE DEF m, x
  <2>4. ASSUME NEW id \in busy, NEW k \in 0 .. enum'.i - 1, at(k) = id
        PROVE  \E j \in DOMAIN tried' : tried'[j] = id
    <3>1. CASE k \in 0 .. enum.i - 1
      <4>1. PICK j \in DOMAIN tried : tried[j] = id
        BY <1>7, <2>4, <3>1
      <4>2. QED
        BY <2>1, <2>3, <4>1
    <3>2. CASE k = enum.i
      BY <1>3, <2>1, <2>3, <2>4, <3>2 DEF x
    <3>3. QED
      BY <1>5, <3>1, <3>2
  <2>5. ASSUME NEW j \in DOMAIN tried' PROVE \E k \in 0 .. enum'.i - 1 : at(k) = tried'[j]
    <3>1. CASE j \in 1 .. m
      <4>1. PICK k \in 0 .. enum.i - 1 : at(k) = tried[j]
        BY <1>7, <2>1, <3>1
      <4>2. k \in 0 .. enum'.i - 1
        BY <1>1, <1>2
      <4>3. QED
        BY <2>1, <3>1, <4>1, <4>2
    <3>2. CASE j = m + 1
      <4>1. enum.i \in 0 .. enum'.i - 1
        BY <1>1, <1>2
      <4>2. QED
        BY <1>3, <2>1, <3>2, <4>1 DEF x
    <3>3. QED
      BY <2>1, <2>2, <3>1, <3>2
  <2>6. \A j \in 1 .. m : tried[j] # x
    BY <1>4, <1>7, <2>1 DEF x
  <2>7. IsInjective(tried')
    <3>1. \A a, b \in 1 .. m : tried[a] = tried[b] => a = b
      BY <1>1, <2>1 DEF IsInjective
    <3>2. \A a, b \in 1 .. m + 1 : tried'[a] = tried'[b] => a = b
      BY <2>1, <2>2, <2>6, <3>1
    <3>3. QED
      BY <2>1, <3>2 DEF IsInjective
  <2>8. Under(p)'
    BY <1>2, <1>3, <2>4, <2>5 DEF Under
  <2>9. QED
    BY <2>7, <2>8
<1>11. QED
  <2>1. tried' = tried \/ tried' = Append(tried, enum.pos)
    BY DEF StealTry
  <2>2. QED
    BY <1>8, <1>9, <1>10, <2>1

LEMMA TryKeeps == ASSUME OrderInv, StealTry PROVE OrderInv'
<1>1. maxprocs # 0 /\ maxprocs \in Nat /\ enum.i < maxprocs /\ enum \in [i : Nat, pos : Nat, inc : Nat, read : BOOLEAN]
  BY StealOrderAssumption DEF OrderInv, Typed, StealTry
<1>2. /\ enum' = [enum EXCEPT !.i = enum.i + 1, !.pos = (enum.pos + enum.inc) % maxprocs]
      /\ (enum.pos + enum.inc) % maxprocs \in Nat
  <2>1. (enum.pos + enum.inc) % maxprocs \in 0 .. maxprocs - 1
    BY <1>1, Division
  <2>2. QED
    BY <1>1, <2>1 DEF StealTry, randenum_next
<1>3. tried' \in Seq(Nat)
  BY <1>1 DEF OrderInv, Typed, StealTry
<1>4. Typed'
  <2>1. enum' \in [i : Nat, pos : Nat, inc : Nat, read : BOOLEAN] /\ enum'.i = enum.i + 1
    <3> DEFINE a == enum.i + 1
               b == (enum.pos + enum.inc) % maxprocs
    <3>1. a \in Nat /\ b \in Nat /\ enum' = [enum EXCEPT !.i = a, !.pos = b]
      BY <1>1, <1>2
    <3> HIDE DEF a, b
    <3>2. enum' \in [i : Nat, pos : Nat, inc : Nat, read : BOOLEAN] /\ enum'.i = a
      BY <1>1, <3>1
    <3>3. QED
      BY <3>2 DEF a
  <2>2. enum'.i <= maxprocs
    BY <1>1, <2>1
  <2>3. QED
    BY <1>3, <2>1, <2>2 DEF OrderInv, Typed, StealTry
<1>5. Ordered' /\ Marked'
  BY <1>1 DEF OrderInv, Ordered, Marked, Listed, StealTry
<1>6. ASSUME enum'.read
      PROVE  /\ enum'.inc > 0 /\ gcd(enum'.inc, maxprocs') = 1
             /\ \E p \in 0 .. maxprocs'-1 : Under(p)'
             /\ IsInjective(tried')
  <2>1. enum.read /\ enum'.inc = enum.inc /\ maxprocs' = maxprocs /\ enum # Off
    BY <1>1, <1>2, <1>6 DEF StealTry
  <2>2. enum.inc > 0 /\ gcd(enum.inc, maxprocs) = 1 /\ \E p \in 0 .. maxprocs-1 : Under(p)
    BY <2>1 DEF OrderInv, Round
  <2>3. PICK p \in 0 .. maxprocs-1 : Under(p)
    BY <2>2
  <2>4. Under(p)' /\ IsInjective(tried')
    BY <2>1, <2>3, TryRound
  <2>5. QED
    BY <2>1, <2>2, <2>4
<1>7. Round'
  BY <1>6 DEF Round
<1>8. QED
  BY <1>4, <1>5, <1>7 DEF OrderInv

LEMMA EndKeeps == ASSUME OrderInv, StealEnd PROVE OrderInv'
<1>1. Typed'
  BY StealOrderAssumption DEF OrderInv, Typed, StealEnd, Off
<1>2. Ordered' /\ Marked' /\ Round'
  BY DEF OrderInv, Ordered, Marked, Listed, Round, StealEnd
<1>3. QED
  BY <1>1, <1>2 DEF OrderInv

LEMMA StillKeeps == ASSUME OrderInv, UNCHANGED orderVars PROVE OrderInv'
<1>1. Typed' /\ Ordered' /\ Marked'
  BY DEF OrderInv, Typed, Ordered, Marked, Listed, orderVars
<1>2. Round'
  BY RoundStays DEF orderVars
<1>3. QED
  BY <1>1, <1>2 DEF OrderInv

LEMMA OrderNextKeeps == OrderInv /\ [OrderNext]_orderVars => OrderInv'
<1> SUFFICES ASSUME OrderInv, [OrderNext]_orderVars PROVE OrderInv'
  OBVIOUS
<1>1. CASE \E n \in Counts : s_procresize(n)
  BY <1>1, ResizeKeeps
<1>2. CASE \E id \in 1 .. maxprocs-1 : s_pidleput(id)
  BY <1>2, PutKeeps
<1>3. CASE s_pidleget
  BY <1>3, GetKeeps
<1>4. CASE \E r \in m_fastrand : StealStart(r)
  BY <1>4, StartKeeps
<1>5. CASE StealTry
  BY <1>5, TryKeeps
<1>6. CASE StealEnd
  BY <1>6, EndKeeps
<1>7. CASE UNCHANGED orderVars
  BY <1>7, StillKeeps
<1>8. QED
  BY <1>1, <1>2, <1>3, <1>4, <1>5, <1>6, <1>7 DEF OrderNext

\* After as many steps as there are Ps the thief came to every P.
LEMMA InvTriesEveryBusyP == OrderInv => TriesEveryBusyP
<1> SUFFICES ASSUME OrderInv, enum # Off, enum.i = maxprocs, enum.read
             PROVE  /\ \A id \in busy : \E j \in DOMAIN tried : tried[j] = id
                    /\ IsInjective(tried)
  BY DEF TriesEveryBusyP
<1> DEFINE n == maxprocs
<1>1. n \in Nat /\ n > 0 /\ enum.inc \in Nat /\ busy \subseteq 1 .. n-1
  BY StealOrderAssumption DEF OrderInv, Typed, Ordered
<1>2. PICK p \in 0 .. n-1 : Under(p)
  BY DEF OrderInv, Round
<1>3. ASSUME NEW id \in busy PROVE \E j \in DOMAIN tried : tried[j] = id
  <2>1. id \in 0 .. n-1 /\ enum.inc > 0 /\ gcd(enum.inc, n) = 1 /\ p \in Nat
    BY <1>1 DEF OrderInv, Round
  <2>2. PICK k \in 0 .. n-1 : Place(n, p, enum.inc, k) = id
    BY <1>1, <2>1, AllReached
  <2>3. QED
    BY <1>2, <2>2 DEF Under
<1>4. QED
  BY <1>3 DEF OrderInv, Round

\* Whatever the number of Ps, the random numbers and the Ps that become idle
\* or busy meanwhile, a round of stealing has tried every P that had work to
\* steal all the while, and none twice, when its increment was read where one
\* was written.
THEOREM RoundTriesEveryBusyP == OrderSpec => []TriesEveryBusyP
<1>1. OrderInit => OrderInv
  BY OrderInitHolds
<1>2. OrderInv /\ [OrderNext]_orderVars => OrderInv'
  BY OrderNextKeeps
<1>3. OrderInv => TriesEveryBusyP
  BY InvTriesEveryBusyP
<1>4. QED
  BY <1>1, <1>2, <1>3, PTL DEF OrderSpec
=============================================================================
