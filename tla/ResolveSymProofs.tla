-------------------------- MODULE ResolveSymProofs --------------------------
(* Theorems about the parser and the resolver, for every source, name and   *)
(* size of the scope stack: what they leave in the variables, that the one  *)
(* array of cells means what nested scopes mean, and that the package has   *)
(* its own definitions.                                                     *)
EXTENDS ResolveSym, FiniteSetTheorems, SequenceTheorems, WellFoundedInduction, TLAPS

(***************************************************************************)
(* Lemmas about the scope stack: what the walk finds in any array of       *)
(* cells, and that every operation of the parser on the stack leaves it a  *)
(* stack of scopes, one in the other.                                      *)
(***************************************************************************)

\* A set of numbers has a least one.
LEMMA LeastOf == ASSUME NEW S, S \subseteq Nat, S # {} PROVE \E n \in S : \A j \in S : n <= j
<1>1. PICK n \in S : \A j \in S : ~(<<j, n>> \in OpToRel(<, Nat))
  BY NatLessThanWellFounded, WFMin
<1>2. \A j \in S : ~(j < n)
  BY <1>1 DEF OpToRel
<1>3. QED
  BY <1>2

-----------------------------------------------------------------------------
(* The walk is defined: its equation has one solution up to any cell.       *)

\* One step of the walk, where w has the answers from the cells below.
Body(s, key, sh, w, i, base) ==
  IF i <= 1 THEN 0
  ELSE IF i - 1 = base THEN IF sh THEN 0 ELSE w[i - 1][Saved(s, i)]
  ELSE IF s.ptr[i] = key THEN s.ptr[i - 1]
  ELSE w[i - 2][base]

LEMMA SavedNat == ASSUME NEW s, NEW i PROVE Saved(s, i) \in Nat
BY DEF Saved

\* f answers from the cells up to n.
WalksTo(s, key, sh, n, f) ==
  f = [i \in 0 .. n |-> [base \in Nat |-> Body(s, key, sh, f, i, base)]]

LEMMA WalksToAt ==
  ASSUME NEW s, NEW key, NEW sh, NEW n \in Nat, NEW f, WalksTo(s, key, sh, n, f),
         NEW i \in 0 .. n, NEW base \in Nat
  PROVE  f[i][base] = Body(s, key, sh, f, i, base)
<1> DEFINE b(j, x) == Body(s, key, sh, f, j, x)
<1>1. f = [j \in 0 .. n |-> [x \in Nat |-> b(j, x)]]
  BY DEF WalksTo
<1> HIDE DEF b
<1>2. f[i][base] = b(i, base)
  BY <1>1
<1>3. QED
  BY <1>2 DEF b

\* Body looks at the answers from lower cells only.
LEMMA BodyLocal ==
  ASSUME NEW s, NEW key, NEW sh, NEW v, NEW w, NEW i \in Nat, NEW base \in Nat,
         \A j \in Nat, x \in Nat : j < i => v[j][x] = w[j][x]
  PROVE  Body(s, key, sh, v, i, base) = Body(s, key, sh, w, i, base)
<1>1. CASE i <= 1
  BY <1>1 DEF Body
<1>2. CASE ~(i <= 1)
  <2>1. i - 1 \in Nat /\ i - 2 \in Nat /\ i - 1 < i /\ i - 2 < i
    BY <1>2
  <2>2. v[i - 1][Saved(s, i)] = w[i - 1][Saved(s, i)] /\ v[i - 2][base] = w[i - 2][base]
    BY <2>1, SavedNat
  <2>3. QED
    BY <2>2 DEF Body
<1>3. QED
  BY <1>1, <1>2

LEMMA WalksAgree ==
  ASSUME NEW s, NEW key, NEW sh, NEW m \in Nat, NEW n \in Nat, NEW f, NEW g,
         WalksTo(s, key, sh, m, f), WalksTo(s, key, sh, n, g)
  PROVE  \A i \in Nat, base \in Nat : i <= m /\ i <= n => f[i][base] = g[i][base]
<1> DEFINE Wrong == {i \in Nat : i <= m /\ i <= n /\ \E base \in Nat : f[i][base] # g[i][base]}
<1> SUFFICES Wrong = {}
  OBVIOUS
<1> SUFFICES ASSUME Wrong # {} PROVE FALSE
  OBVIOUS
<1>1. PICK i \in Wrong : \A j \in Wrong : i <= j
  BY LeastOf
<1>2. \A j \in Nat, x \in Nat : j < i => f[j][x] = g[j][x]
  BY <1>1
<1>3. \A base \in Nat : Body(s, key, sh, f, i, base) = Body(s, key, sh, g, i, base)
  BY <1>1, <1>2, BodyLocal
<1>4. \A base \in Nat : f[i][base] = g[i][base]
  <2> TAKE base \in Nat
  <2>1. i \in 0 .. m /\ i \in 0 .. n
    BY <1>1
  <2>2. f[i][base] = Body(s, key, sh, f, i, base) /\ g[i][base] = Body(s, key, sh, g, i, base)
    BY <2>1, WalksToAt
  <2>3. QED
    BY <1>3, <2>2
<1>5. QED
  BY <1>1, <1>4

LEMMA WalksLonger ==
  ASSUME NEW s, NEW key, NEW sh, NEW n \in Nat, NEW f, WalksTo(s, key, sh, n, f)
  PROVE  \E g : WalksTo(s, key, sh, n + 1, g)
<1> DEFINE g == [i \in 0 .. n + 1 |-> [base \in Nat |-> Body(s, key, sh, f, i, base)]]
<1>1. \A i \in Nat, base \in Nat : i <= n => g[i][base] = f[i][base]
  <2> TAKE i \in Nat, base \in Nat
  <2> HAVE i <= n
  <2>1. f[i][base] = Body(s, key, sh, f, i, base)
    BY WalksToAt
  <2> DEFINE b(j, x) == Body(s, key, sh, f, j, x)
  <2>2. g = [j \in 0 .. n + 1 |-> [x \in Nat |-> b(j, x)]]
    OBVIOUS
  <2> HIDE DEF b, g
  <2>3. g[i][base] = b(i, base)
    BY <2>2
  <2>4. QED
    BY <2>1, <2>3 DEF b
<1>2. \A i \in Nat, base \in Nat :
        i <= n + 1 => Body(s, key, sh, g, i, base) = Body(s, key, sh, f, i, base)
  <2> HIDE DEF g
  <2> TAKE i \in Nat, base \in Nat
  <2> HAVE i <= n + 1
  <2>1. \A j \in Nat, x \in Nat : j < i => g[j][x] = f[j][x]
    BY <1>1
  <2>2. QED
    BY <2>1, BodyLocal
<1>3. WalksTo(s, key, sh, n + 1, g)
  <2> DEFINE b(j, x) == Body(s, key, sh, f, j, x)
  <2> DEFINE c(j, x) == Body(s, key, sh, g, j, x)
  <2>1. \A i \in 0 .. n + 1, base \in Nat : c(i, base) = b(i, base)
    <3> HIDE DEF g
    <3> QED BY <1>2
  <2>2. g = [j \in 0 .. n + 1 |-> [x \in Nat |-> b(j, x)]]
    OBVIOUS
  <2>3. [j \in 0 .. n + 1 |-> [x \in Nat |-> b(j, x)]] = [j \in 0 .. n + 1 |-> [x \in Nat |-> c(j, x)]]
    <3> HIDE DEF b, c, g
    <3> QED BY <2>1
  <2>4. g = [j \in 0 .. n + 1 |-> [x \in Nat |-> c(j, x)]]
    <3> HIDE DEF b, c, g
    <3> QED BY <2>2, <2>3
  <2> HIDE DEF b, g
  <2>5. QED
    BY <2>4 DEF WalksTo
<1>4. QED
  BY <1>3

LEMMA WalkBegun ==
  ASSUME NEW s, NEW key, NEW sh
  PROVE  \A n \in Nat : \E f : WalksTo(s, key, sh, n, f)
<1> DEFINE Wrong == {n \in Nat : ~\E f : WalksTo(s, key, sh, n, f)}
<1> SUFFICES ASSUME Wrong # {} PROVE FALSE
  OBVIOUS
<1>1. PICK n \in Wrong : \A j \in Wrong : n <= j
  BY LeastOf
<1>2. CASE n = 0
  <2> DEFINE g == [i \in 0 .. 0 |-> [base \in Nat |-> 0]]
  <2>1. \A h : \A i \in 0 .. 0, base \in Nat : Body(s, key, sh, h, i, base) = 0
    BY DEF Body
  <2> DEFINE c(j, x) == Body(s, key, sh, g, j, x)
  <2>2. \A i \in 0 .. 0, base \in Nat : c(i, base) = 0
    BY <2>1
  <2>3. [i \in 0 .. 0 |-> [base \in Nat |-> 0]] = [i \in 0 .. 0 |-> [base \in Nat |-> c(i, base)]]
    <3> HIDE DEF c
    <3> QED BY <2>2
  <2>4. g = [i \in 0 .. 0 |-> [base \in Nat |-> c(i, base)]]
    <3> HIDE DEF c
    <3> QED BY <2>3
  <2> HIDE DEF g
  <2>5. WalksTo(s, key, sh, 0, g)
    BY <2>4 DEF WalksTo
  <2>6. QED
    BY <1>1, <1>2, <2>5
<1>3. CASE n # 0
  <2>1. n - 1 \in Nat /\ n - 1 \notin Wrong /\ (n - 1) + 1 = n
    BY <1>1, <1>3
  <2>2. PICK f : WalksTo(s, key, sh, n - 1, f)
    BY <2>1
  <2>3. \E g : WalksTo(s, key, sh, (n - 1) + 1, g)
    BY <2>1, <2>2, WalksLonger
  <2>4. QED
    BY <1>1, <2>1, <2>3
<1>4. QED
  BY <1>2, <1>3

LEMMA WalkFixpoint ==
  ASSUME NEW s, NEW key, NEW sh
  PROVE  Walk(s, key, sh) = [i \in Nat |-> [base \in Nat |-> Body(s, key, sh, Walk(s, key, sh), i, base)]]
<1> DEFINE part(n) == CHOOSE f : WalksTo(s, key, sh, n, f)
           F == [i \in Nat |-> [base \in Nat |-> part(i)[i][base]]]
           c(w, i, x) == Body(s, key, sh, w, i, x)
<1>1. \A n \in Nat : WalksTo(s, key, sh, n, part(n))
  BY WalkBegun
<1> HIDE DEF part
<1>2. \A i \in Nat, base \in Nat : F[i][base] = part(i)[i][base]
  OBVIOUS
<1>3. \A i \in Nat, base \in Nat : part(i)[i][base] = c(F, i, base)
  <2> HIDE DEF F
  <2> TAKE i \in Nat, base \in Nat
  <2>1. \A j \in Nat, x \in Nat : j < i => part(i)[j][x] = F[j][x]
    <3> TAKE j \in Nat, x \in Nat
    <3> HAVE j < i
    <3>1. part(i)[j][x] = part(j)[j][x]
      BY <1>1, WalksAgree
    <3>2. QED
      BY <1>2, <3>1
  <2>2. part(i)[i][base] = Body(s, key, sh, part(i), i, base)
    BY <1>1, WalksToAt
  <2>3. Body(s, key, sh, part(i), i, base) = Body(s, key, sh, F, i, base)
    BY <2>1, BodyLocal
  <2>4. QED
    BY <2>2, <2>3
<1>4. [i \in Nat |-> [base \in Nat |-> part(i)[i][base]]] = [i \in Nat |-> [base \in Nat |-> c(F, i, base)]]
  <2> HIDE DEF F, c
  <2> QED BY <1>3
<1>5. F = [i \in Nat |-> [base \in Nat |-> c(F, i, base)]]
  <2> HIDE DEF c
  <2> QED BY <1>4
<1> HIDE DEF F
<1>6. \E w : w = [i \in Nat |-> [base \in Nat |-> c(w, i, base)]]
  <2> HIDE DEF c
  <2> QED BY <1>5
<1> DEFINE W == CHOOSE w : w = [i \in Nat |-> [base \in Nat |-> c(w, i, base)]]
<1>7. W = [i \in Nat |-> [base \in Nat |-> c(W, i, base)]]
  <2> HIDE DEF c
  <2> QED BY <1>6
<1>8. Walk(s, key, sh) = W
  BY DEF Walk, Body
<1>9. QED
  BY <1>7, <1>8

LEMMA WalkAt ==
  ASSUME NEW s, NEW key, NEW sh, NEW i \in Nat, NEW base \in Nat
  PROVE  Walk(s, key, sh)[i][base] = Body(s, key, sh, Walk(s, key, sh), i, base)
<1> DEFINE b(j, x) == Body(s, key, sh, Walk(s, key, sh), j, x)
<1>1. Walk(s, key, sh) = [j \in Nat |-> [x \in Nat |-> b(j, x)]]
  BY WalkFixpoint
<1> HIDE DEF b
<1>2. Walk(s, key, sh)[i][base] = b(i, base)
  BY <1>1
<1>3. QED
  BY <1>2 DEF b

\* The walk from a cell does not depend on the cells above it.
LEMMA WalkLocal ==
  ASSUME NEW s, NEW t, NEW key, NEW sh, NEW m \in Nat,
         \A i \in 1 .. m : s.ptr[i] = t.ptr[i]
  PROVE  \A i \in Nat, base \in Nat : i <= m => Walk(s, key, sh)[i][base] = Walk(t, key, sh)[i][base]
<1> DEFINE v == Walk(s, key, sh)
           w == Walk(t, key, sh)
           Wrong == {i \in Nat : i <= m /\ \E base \in Nat : v[i][base] # w[i][base]}
<1> SUFFICES ASSUME Wrong # {} PROVE FALSE
  OBVIOUS
<1>1. PICK i \in Wrong : \A j \in Wrong : i <= j
  BY LeastOf
<1>2. \A j \in Nat, x \in Nat : j < i => v[j][x] = w[j][x]
  BY <1>1
<1>3. \A base \in Nat : v[i][base] = w[i][base]
  <2> TAKE base \in Nat
  <2>1. v[i][base] = Body(s, key, sh, v, i, base) /\ w[i][base] = Body(t, key, sh, w, i, base)
    BY WalkAt
  <2> HIDE DEF v, w
  <2>2. Body(s, key, sh, v, i, base) = Body(s, key, sh, w, i, base)
    BY <1>2, BodyLocal
  <2>3. Body(s, key, sh, w, i, base) = Body(t, key, sh, w, i, base)
    <3>1. CASE i <= 1
      BY <3>1 DEF Body
    <3>2. CASE ~(i <= 1)
      <4>1. i \in 1 .. m /\ i - 1 \in 1 .. m
        BY <1>1, <3>2
      <4>2. s.ptr[i] = t.ptr[i] /\ s.ptr[i - 1] = t.ptr[i - 1]
        BY <4>1
      <4>3. QED
        BY <4>2 DEF Body, Saved
    <3>3. QED
      BY <3>1, <3>2
  <2>4. QED
    BY <2>1, <2>2, <2>3
<1>4. QED
  BY <1>1, <1>3

\* The walk of lookupsym, which goes on at a base.
No == FALSE
Deep(s, key) == Walk(s, key, No)
DeepStep(s, key, i, base) ==
  IF i <= 1 THEN 0
  ELSE IF i - 1 = base THEN Deep(s, key)[i - 1][Saved(s, i)]
  ELSE IF s.ptr[i] = key THEN s.ptr[i - 1]
  ELSE Deep(s, key)[i - 2][base]

LEMMA DeepAt ==
  ASSUME NEW s, NEW key, NEW i \in Nat, NEW base \in Nat
  PROVE  Deep(s, key)[i][base] = DeepStep(s, key, i, base)
<1>1. Walk(s, key, No)[i][base] = Body(s, key, No, Walk(s, key, No), i, base)
  BY WalkAt
<1>2. QED
  BY <1>1 DEF Deep, DeepStep, Body, No

LEMMA DeepLocal ==
  ASSUME NEW s, NEW t, NEW key, NEW m \in Nat, NEW i \in Nat, NEW base \in Nat, i <= m,
         \A j \in 1 .. m : s.ptr[j] = t.ptr[j]
  PROVE  Deep(s, key)[i][base] = Deep(t, key)[i][base]
<1>1. Walk(s, key, No)[i][base] = Walk(t, key, No)[i][base]
  BY WalkLocal
<1>2. QED
  BY <1>1 DEF Deep

-----------------------------------------------------------------------------
(* The scopes in a stack.  bs has where each begins, outermost first, and,  *)
(* last, where the innermost ends.                                          *)

Stacks(names) == [ptr : Seq(Nat \cup names), base : Nat, cap : Nat]

Scopes(s, names, bs, depth) ==
  /\ s \in Stacks(names) /\ Len(s.ptr) <= s.cap /\ 2 <= s.cap
  /\ bs \in [1 .. depth + 1 -> Nat]
  /\ bs[1] = 0 /\ bs[depth] = s.base /\ bs[depth + 1] = Len(s.ptr)
  /\ \A c, d \in 1 .. depth + 1 : c <= d => bs[c] <= bs[d]
  /\ \A d \in 2 .. depth : s.ptr[bs[d] + 1] = bs[d - 1] /\ bs[d] + 1 <= bs[d + 1]

\* What a lookup from scope d on finds.
Found(s, bs, d, nm) == Deep(s, nm)[bs[d + 1]][bs[d]]

\* A binding above the top of the current scope.
Bound(s, cap, key, n) == scopestackPush([s EXCEPT !.cap = cap], key, n)

LEMMA BoundCells ==
  ASSUME NEW names, NEW s \in Stacks(names), NEW key \in names, NEW n \in Nat, NEW cap \in Nat
  PROVE  LET t == Bound(s, cap, key, n) IN
         /\ t \in Stacks(names) /\ t.base = s.base /\ t.cap = cap /\ Len(t.ptr) = Len(s.ptr) + 2
         /\ \A i \in 1 .. Len(s.ptr) : t.ptr[i] = s.ptr[i]
         /\ t.ptr[Len(s.ptr) + 1] = n /\ t.ptr[Len(s.ptr) + 2] = key
<1> DEFINE cell == Nat \cup names
           q == s.ptr \o <<n, key>>
<1>1. s.ptr \in Seq(cell) /\ Len(s.ptr) \in Nat
  BY DEF Stacks
<1>2. <<n, key>> \in Seq(cell) /\ Len(<<n, key>>) = 2
  OBVIOUS
<1>3. /\ q \in Seq(cell) /\ Len(q) = Len(s.ptr) + 2
      /\ \A i \in 1 .. Len(s.ptr) + 2 : q[i] = IF i <= Len(s.ptr) THEN s.ptr[i] ELSE <<n, key>>[i - Len(s.ptr)]
  BY <1>1, <1>2, ConcatProperties
<1>4. q[Len(s.ptr) + 1] = n /\ q[Len(s.ptr) + 2] = key /\ \A i \in 1 .. Len(s.ptr) : q[i] = s.ptr[i]
  BY <1>1, <1>3
<1>5. Bound(s, cap, key, n) = [ptr |-> q, base |-> s.base, cap |-> cap]
  <2> DEFINE u == [s EXCEPT !.cap = cap]
  <2>1. u = [ptr |-> s.ptr, base |-> s.base, cap |-> cap]
    BY DEF Stacks
  <2> HIDE DEF u
  <2>2. [u EXCEPT !.ptr = @ \o <<n, key>>] = [ptr |-> q, base |-> s.base, cap |-> cap]
    <3>1. u.ptr \o <<n, key>> = q
      BY <2>1
    <3> HIDE DEF q
    <3>2. [u EXCEPT !.ptr = q] = [ptr |-> q, base |-> s.base, cap |-> cap]
      BY <2>1
    <3>3. QED
      BY <3>1, <3>2
  <2>3. QED
    BY <2>2 DEF Bound, scopestackPush, u
<1> HIDE DEF q
<1>6. QED
  BY <1>3, <1>4, <1>5 DEF Stacks

\* The scopes of t are those of s, and a binding more in the current one.
ScopesBound(t, cs, s, bs, names, depth, key, n) ==
  /\ Scopes(t, names, cs, depth)
  /\ \A d \in 1 .. depth : cs[d] = bs[d]
  /\ \A nm : \A d \in 1 .. depth :
       Found(t, cs, d, nm) = IF d = depth /\ nm = key THEN n ELSE Found(s, bs, d, nm)

LEMMA BoundScopes ==
  ASSUME NEW names, NEW s, NEW bs, NEW depth \in Nat \ {0}, Scopes(s, names, bs, depth),
         NEW key \in names, NEW n \in Nat, NEW cap \in Nat, Len(s.ptr) + 2 <= cap
  PROVE  \E cs : ScopesBound(Bound(s, cap, key, n), cs, s, bs, names, depth, key, n)
<1> DEFINE t == Bound(s, cap, key, n)
           len == Len(s.ptr)
           cs == [bs EXCEPT ![depth + 1] = len + 2]
<1>1. /\ s \in Stacks(names) /\ len \in Nat /\ s.base \in Nat /\ 2 <= s.cap /\ len <= s.cap /\ s.cap \in Nat
      /\ bs \in [1 .. depth + 1 -> Nat]
      /\ bs[1] = 0 /\ bs[depth] = s.base /\ bs[depth + 1] = len
      /\ \A c, d \in 1 .. depth + 1 : c <= d => bs[c] <= bs[d]
      /\ \A d \in 2 .. depth : s.ptr[bs[d] + 1] = bs[d - 1] /\ bs[d] + 1 <= bs[d + 1]
  BY DEF Scopes, Stacks
<1>2. /\ t \in Stacks(names) /\ t.base = s.base /\ t.cap = cap /\ Len(t.ptr) = len + 2
      /\ \A i \in 1 .. len : t.ptr[i] = s.ptr[i]
      /\ t.ptr[len + 1] = n /\ t.ptr[len + 2] = key
  BY <1>1, BoundCells
<1> HIDE DEF t, len
<1>3. /\ cs \in [1 .. depth + 1 -> Nat] /\ cs[depth + 1] = len + 2
      /\ \A d \in 1 .. depth : cs[d] = bs[d]
  BY <1>1
<1> HIDE DEF cs
<1>4. \A d \in 1 .. depth + 1 : bs[d] <= len
  BY <1>1
<1>5. \A c, d \in 1 .. depth + 1 : c <= d => cs[c] <= cs[d]
  <2> TAKE c, d \in 1 .. depth + 1
  <2> HAVE c <= d
  <2>1. CASE d = depth + 1
    <3>1. c = depth + 1 \/ c \in 1 .. depth
      OBVIOUS
    <3>2. QED
      BY <1>1, <1>3, <1>4, <2>1, <3>1
  <2>2. CASE d # depth + 1
    <3>1. c \in 1 .. depth /\ d \in 1 .. depth
      BY <2>2
    <3>2. QED
      BY <1>1, <1>3, <3>1
  <2>3. QED
    BY <2>1, <2>2
<1>6. \A d \in 2 .. depth : t.ptr[cs[d] + 1] = cs[d - 1] /\ cs[d] + 1 <= cs[d + 1]
  <2> TAKE d \in 2 .. depth
  <2>1. d \in 1 .. depth /\ d - 1 \in 1 .. depth /\ d + 1 \in 1 .. depth + 1
    OBVIOUS
  <2>2. cs[d] = bs[d] /\ cs[d - 1] = bs[d - 1] /\ bs[d + 1] <= cs[d + 1]
    <3>1. CASE d = depth
      BY <1>1, <1>3, <2>1, <3>1
    <3>2. CASE d # depth
      <4>1. d + 1 \in 1 .. depth
        BY <3>2
      <4>2. cs[d + 1] = bs[d + 1] /\ bs[d + 1] \in Nat
        BY <1>1, <1>3, <2>1, <4>1
      <4>3. QED
        BY <1>3, <2>1, <4>2
    <3>3. QED
      BY <3>1, <3>2
  <2>3. bs[d] \in Nat /\ bs[d + 1] \in Nat /\ cs[d + 1] \in Nat /\ bs[d] + 1 <= bs[d + 1] /\ bs[d + 1] <= len
    BY <1>1, <1>3, <1>4, <2>1, SMTT(30)
  <2>4. bs[d] + 1 \in 1 .. len
    BY <1>1, <2>3, SMTT(30)
  <2>5. t.ptr[bs[d] + 1] = s.ptr[bs[d] + 1]
    BY <1>2, <2>4
  <2>6. s.ptr[bs[d] + 1] = bs[d - 1]
    BY <1>1
  <2>7. bs[d] + 1 <= cs[d + 1]
    BY <2>2, <2>3
  <2>8. QED
    BY <2>2, <2>5, <2>6, <2>7
<1>7. Scopes(t, names, cs, depth)
  <2>1. cs[1] = 0 /\ cs[depth] = t.base
    BY <1>1, <1>2, <1>3
  <2>2. QED
    BY <1>1, <1>2, <1>3, <1>5, <1>6, <2>1 DEF Scopes
<1>8. \A nm : \A i \in Nat, base \in Nat : i <= len => Deep(t, nm)[i][base] = Deep(s, nm)[i][base]
  <2>1. len \in Nat /\ \A i \in 1 .. len : t.ptr[i] = s.ptr[i]
    BY <1>1, <1>2
  <2>2. QED
    BY <2>1, DeepLocal
<1>0. len \in Nat /\ s.base \in Nat /\ s.base <= len
  <2>1. depth \in 1 .. depth + 1
    OBVIOUS
  <2>2. QED
    BY <1>1, <1>4, <2>1
<1>9. ASSUME NEW d \in 1 .. depth, NEW nm
      PROVE  Found(t, cs, d, nm) = IF d = depth /\ nm = key THEN n ELSE Found(s, bs, d, nm)
  <2>1. CASE d # depth
    <3>1. d + 1 \in 1 .. depth
      BY <2>1
    <3>2. cs[d + 1] = bs[d + 1] /\ cs[d] = bs[d] /\ bs[d] \in Nat /\ bs[d + 1] \in Nat /\ bs[d + 1] <= len
      BY <1>1, <1>3, <1>4, <3>1, SMTT(30)
    <3>3. Deep(t, nm)[bs[d + 1]][bs[d]] = Deep(s, nm)[bs[d + 1]][bs[d]]
      BY <1>8, <3>2
    <3>4. QED
      BY <2>1, <3>2, <3>3 DEF Found
  <2>2. CASE d = depth
    <3>1. cs[d + 1] = len + 2 /\ cs[d] = s.base /\ bs[d + 1] = len /\ bs[d] = s.base /\ s.base <= len
      BY <1>1, <1>3, <1>4, <2>2
    <3>2. Deep(t, nm)[len + 2][s.base] = DeepStep(t, nm, len + 2, s.base)
      <4>1. len + 2 \in Nat
        BY <1>0
      <4>2. QED
        BY <1>0, <4>1, DeepAt, Zenon
    <3>3. Deep(t, nm)[len][s.base] = Deep(s, nm)[len][s.base]
      BY <1>0, <1>8
    <3>4. /\ ~(len + 2 <= 1) /\ (len + 2) - 1 # s.base /\ (len + 2) - 2 = len
          /\ (len + 2) - 1 = len + 1
      BY <1>0
    <3>5. Deep(t, nm)[len + 2][s.base] =
            IF t.ptr[len + 2] = nm THEN t.ptr[len + 1] ELSE Deep(t, nm)[len][s.base]
      BY <3>2, <3>4 DEF DeepStep
    <3>6. QED
      BY <1>2, <2>2, <3>1, <3>3, <3>5 DEF Found
  <2>3. QED
    BY <2>1, <2>2
<1>10. ScopesBound(t, cs, s, bs, names, depth, key, n)
  BY <1>3, <1>7, <1>9 DEF ScopesBound
<1>11. QED
  BY <1>10 DEF t

-----------------------------------------------------------------------------
(* A scope is opened, and closed.                                           *)

Opened(s, cap) == [s EXCEPT !.ptr = Append(@, s.base), !.base = Len(s.ptr), !.cap = cap]

\* The scopes of t are those of s, and an empty one.
ScopesOpened(t, cs, s, bs, names, depth) ==
  /\ Scopes(t, names, cs, depth + 1)
  /\ \A d \in 1 .. depth + 1 : cs[d] = bs[d]
  /\ \A nm : \A d \in 1 .. depth : Found(t, cs, d, nm) = Found(s, bs, d, nm)
  /\ \A nm : Found(t, cs, depth + 1, nm) = IF Len(s.ptr) = 0 THEN 0 ELSE Found(s, bs, depth, nm)

LEMMA OpenedScopes ==
  ASSUME NEW names, NEW s, NEW bs, NEW depth \in Nat \ {0}, Scopes(s, names, bs, depth),
         NEW cap \in Nat, Len(s.ptr) + 1 <= cap, 2 <= cap
  PROVE  \E cs : ScopesOpened(Opened(s, cap), cs, s, bs, names, depth)
<1> DEFINE t == Opened(s, cap)
           len == Len(s.ptr)
           cs == [d \in 1 .. depth + 2 |-> IF d = depth + 2 THEN len + 1 ELSE bs[d]]
           cell == Nat \cup names
<1>1. /\ s \in Stacks(names) /\ s.ptr \in Seq(cell) /\ len \in Nat /\ s.base \in Nat
      /\ bs \in [1 .. depth + 1 -> Nat]
      /\ bs[1] = 0 /\ bs[depth] = s.base /\ bs[depth + 1] = len
      /\ \A c, d \in 1 .. depth + 1 : c <= d => bs[c] <= bs[d]
      /\ \A d \in 2 .. depth : s.ptr[bs[d] + 1] = bs[d - 1] /\ bs[d] + 1 <= bs[d + 1]
  BY DEF Scopes, Stacks
<1>2. /\ t \in Stacks(names) /\ t.base = len /\ t.cap = cap /\ Len(t.ptr) = len + 1
      /\ \A i \in 1 .. len : t.ptr[i] = s.ptr[i]
      /\ t.ptr[len + 1] = s.base
  <2> DEFINE q == Append(s.ptr, s.base)
  <2>1. s.base \in cell
    BY <1>1
  <2> HIDE DEF cell
  <2>2. /\ q \in Seq(cell) /\ Len(q) = len + 1 /\ \A i \in 1 .. len : q[i] = s.ptr[i]
        /\ q[len + 1] = s.base
    BY <1>1, <2>1, AppendProperties
  <2>3. t = [s EXCEPT !.ptr = q, !.base = len, !.cap = cap]
    BY DEF Opened
  <2> HIDE DEF q, t
  <2>4. s \in Stacks(names) /\ q \in Seq(Nat \cup names) /\ len \in Nat
    BY <1>1, <2>2 DEF cell
  <2>5. t \in Stacks(names) /\ t.ptr = q /\ t.base = len /\ t.cap = cap
    BY <2>3, <2>4 DEF Stacks
  <2>6. QED
    BY <2>2, <2>5
<1> HIDE DEF t, len, cell
<1>3. /\ cs \in [1 .. depth + 2 -> Nat] /\ cs[depth + 2] = len + 1
      /\ \A d \in 1 .. depth + 1 : cs[d] = bs[d]
  BY <1>1
<1> HIDE DEF cs
<1>4. \A d \in 1 .. depth + 1 : bs[d] <= len
  BY <1>1
<1>5. \A c, d \in 1 .. depth + 2 : c <= d => cs[c] <= cs[d]
  <2> TAKE c, d \in 1 .. depth + 2
  <2> HAVE c <= d
  <2>1. CASE d = depth + 2
    <3>1. c = depth + 2 \/ c \in 1 .. depth + 1
      OBVIOUS
    <3>2. QED
      BY <1>1, <1>3, <1>4, <2>1, <3>1
  <2>2. CASE d # depth + 2
    <3>1. c \in 1 .. depth + 1 /\ d \in 1 .. depth + 1
      BY <2>2
    <3>2. QED
      BY <1>1, <1>3, <3>1
  <2>3. QED
    BY <2>1, <2>2
<1>6. \A d \in 2 .. depth + 1 : t.ptr[cs[d] + 1] = cs[d - 1] /\ cs[d] + 1 <= cs[d + 1]
  <2> TAKE d \in 2 .. depth + 1
  <2>1. d \in 1 .. depth + 1 /\ d - 1 \in 1 .. depth + 1 /\ cs[d] = bs[d] /\ cs[d - 1] = bs[d - 1]
    BY <1>3
  <2>2. CASE d = depth + 1
    <3>1. cs[d] = len /\ cs[d - 1] = s.base /\ cs[d + 1] = len + 1
      BY <1>1, <1>3, <2>1, <2>2
    <3>2. QED
      BY <1>1, <1>2, <3>1
  <2>3. CASE d # depth + 1
    <3>1. d \in 2 .. depth /\ d + 1 \in 1 .. depth + 1 /\ cs[d + 1] = bs[d + 1]
      BY <1>3, <2>3
    <3>2. bs[d] \in Nat /\ bs[d] + 1 <= bs[d + 1] /\ bs[d + 1] <= len /\ bs[d + 1] \in Nat
      BY <1>1, <1>4, <2>1, <3>1
    <3>3. bs[d] + 1 \in 1 .. len
      BY <1>1, <3>2, SMTT(30)
    <3>4. t.ptr[bs[d] + 1] = s.ptr[bs[d] + 1]
      BY <1>2, <3>3
    <3>5. QED
      BY <1>1, <2>1, <3>1, <3>2, <3>4
  <2>4. QED
    BY <2>2, <2>3
<1>7. Scopes(t, names, cs, depth + 1)
  <2>1. cs[1] = 0 /\ cs[depth + 1] = t.base /\ cs[(depth + 1) + 1] = Len(t.ptr)
    BY <1>1, <1>2, <1>3
  <2>2. QED
    BY <1>1, <1>2, <1>3, <1>5, <1>6, <2>1 DEF Scopes
<1>8. \A nm : \A i \in Nat, base \in Nat : i <= len => Deep(t, nm)[i][base] = Deep(s, nm)[i][base]
  <2>1. len \in Nat /\ \A i \in 1 .. len : t.ptr[i] = s.ptr[i]
    BY <1>1, <1>2
  <2>2. QED
    BY <2>1, DeepLocal
<1>0. len \in Nat /\ s.base \in Nat /\ bs[depth] = s.base /\ bs[depth + 1] = len
  BY <1>1
<1>9. ASSUME NEW d \in 1 .. depth, NEW nm PROVE Found(t, cs, d, nm) = Found(s, bs, d, nm)
  <2>1. d \in 1 .. depth + 1 /\ d + 1 \in 1 .. depth + 1
    OBVIOUS
  <2>2. cs[d + 1] = bs[d + 1] /\ cs[d] = bs[d] /\ bs[d] \in Nat /\ bs[d + 1] \in Nat /\ bs[d + 1] <= len
    BY <1>1, <1>3, <1>4, <2>1
  <2>3. QED
    <3>1. Deep(t, nm)[bs[d + 1]][bs[d]] = Deep(s, nm)[bs[d + 1]][bs[d]]
      BY <1>8, <2>2
    <3>2. QED
      BY <2>2, <3>1 DEF Found
<1>10. ASSUME NEW nm
       PROVE  Found(t, cs, depth + 1, nm) = IF len = 0 THEN 0 ELSE Found(s, bs, depth, nm)
  <2>1. Found(t, cs, depth + 1, nm) = Deep(t, nm)[len + 1][len]
    <3>1. depth + 1 \in 1 .. depth + 1 /\ (depth + 1) + 1 = depth + 2
      OBVIOUS
    <3>2. cs[depth + 1] = len /\ cs[(depth + 1) + 1] = len + 1
      BY <1>0, <1>3, <3>1
    <3>3. QED
      BY <3>2 DEF Found
  <2>2. Deep(t, nm)[len + 1][len] = DeepStep(t, nm, len + 1, len)
    <3>1. len + 1 \in Nat
      BY <1>0
    <3>2. QED
      BY <1>0, <3>1, DeepAt, ZenonT(60)
  <2>3. CASE len = 0
    <3>1. DeepStep(t, nm, len + 1, len) = 0
      BY <2>3 DEF DeepStep
    <3>2. QED
      BY <2>1, <2>2, <2>3, <3>1
  <2>4. CASE len # 0
    <3>1. ~(len + 1 <= 1) /\ (len + 1) - 1 = len
      BY <1>0, <2>4
    <3>2. Saved(t, len + 1) = s.base
      BY <1>1, <1>2 DEF Saved
    <3>3. DeepStep(t, nm, len + 1, len) = Deep(t, nm)[len][s.base]
      BY <3>1, <3>2 DEF DeepStep
    <3>4. Deep(t, nm)[len][s.base] = Deep(s, nm)[len][s.base]
      BY <1>0, <1>8
    <3>5. QED
      BY <1>0, <2>1, <2>2, <2>4, <3>3, <3>4 DEF Found
  <2>5. QED
    BY <2>3, <2>4
<1>11. ScopesOpened(t, cs, s, bs, names, depth)
  BY <1>3, <1>7, <1>9, <1>10 DEF ScopesOpened, len
<1>12. QED
  BY <1>11 DEF t

\* The scopes of t are those of s but for the innermost.
ScopesClosed(t, cs, s, bs, names, depth) ==
  /\ Scopes(t, names, cs, depth - 1)
  /\ \A d \in 1 .. depth : cs[d] = bs[d]
  /\ \A nm : \A d \in 1 .. depth - 1 : Found(t, cs, d, nm) = Found(s, bs, d, nm)

LEMMA ClosedScopes ==
  ASSUME NEW names, NEW s, NEW bs, NEW depth \in Nat, 2 <= depth, Scopes(s, names, bs, depth)
  PROVE  \E cs : ScopesClosed(popScope(s), cs, s, bs, names, depth)
<1> DEFINE t == popScope(s)
           len == Len(s.ptr)
           cs == [d \in 1 .. depth |-> bs[d]]
           cell == Nat \cup names
<1>1. /\ s \in Stacks(names) /\ s.ptr \in Seq(cell) /\ len \in Nat /\ s.base \in Nat /\ s.cap \in Nat
      /\ len <= s.cap /\ 2 <= s.cap
      /\ bs \in [1 .. depth + 1 -> Nat]
      /\ bs[1] = 0 /\ bs[depth] = s.base /\ bs[depth + 1] = len
      /\ \A c, d \in 1 .. depth + 1 : c <= d => bs[c] <= bs[d]
      /\ \A d \in 2 .. depth : s.ptr[bs[d] + 1] = bs[d - 1] /\ bs[d] + 1 <= bs[d + 1]
  BY DEF Scopes, Stacks
<1> HIDE DEF len, cell
<1>2. s.ptr[s.base + 1] = bs[depth - 1] /\ s.base + 1 <= len /\ bs[depth - 1] \in Nat
  BY <1>1, SMTT(30)
<1>3. /\ t \in Stacks(names) /\ t.base = bs[depth - 1] /\ t.cap = s.cap /\ Len(t.ptr) = s.base
      /\ \A i \in 1 .. s.base : t.ptr[i] = s.ptr[i]
  <2> DEFINE q == SubSeq(s.ptr, 1, s.base)
  <2>1. 1 \in 1 .. len + 1 /\ s.base \in 0 .. len
    BY <1>1, <1>2
  <2>2. q \in Seq(cell) /\ Len(q) = s.base /\ \A i \in 1 .. s.base : q[i] = s.ptr[i]
    <3>1. /\ q \in Seq(cell)
          /\ Len(q) = IF 1 <= s.base THEN s.base - 1 + 1 ELSE 0
          /\ \A i \in 1 .. s.base - 1 + 1 : q[i] = s.ptr[1 + i - 1]
      BY <1>1, <2>1, SubSeqProperties, SMTT(30) DEF len
    <3>2. QED
      BY <1>1, <3>1, SMTT(30)
  <2>3. t = [s EXCEPT !.ptr = q, !.base = bs[depth - 1]]
    BY <1>2 DEF popScope
  <2> HIDE DEF q, t
  <2>4. s \in Stacks(names) /\ q \in Seq(Nat \cup names) /\ bs[depth - 1] \in Nat /\ s.cap \in Nat
    BY <1>1, <1>2, <2>2 DEF cell
  <2>5. t \in Stacks(names) /\ t.ptr = q /\ t.base = bs[depth - 1] /\ t.cap = s.cap
    BY <2>3, <2>4 DEF Stacks
  <2>6. QED
    BY <2>2, <2>5
<1> HIDE DEF t
<1>4. cs \in [1 .. depth -> Nat] /\ \A d \in 1 .. depth : cs[d] = bs[d]
  BY <1>1
<1> HIDE DEF cs
<1>5. \A d \in 1 .. depth : bs[d] <= s.base
  BY <1>1
<1>6. Scopes(t, names, cs, depth - 1)
  <2>1. (depth - 1) + 1 = depth
    OBVIOUS
  <2>2. cs[1] = 0 /\ cs[depth - 1] = t.base /\ cs[depth] = Len(t.ptr)
    BY <1>1, <1>3, <1>4
  <2>3. \A c, d \in 1 .. depth : c <= d => cs[c] <= cs[d]
    BY <1>1, <1>4
  <2>4. \A d \in 2 .. depth - 1 : t.ptr[cs[d] + 1] = cs[d - 1] /\ cs[d] + 1 <= cs[d + 1]
    <3> TAKE d \in 2 .. depth - 1
    <3>1. /\ d \in 1 .. depth /\ d - 1 \in 1 .. depth /\ d + 1 \in 1 .. depth
          /\ cs[d] = bs[d] /\ cs[d - 1] = bs[d - 1] /\ cs[d + 1] = bs[d + 1]
      BY <1>4
    <3>2. bs[d] \in Nat /\ bs[d] + 1 <= bs[d + 1] /\ bs[d + 1] <= s.base /\ bs[d + 1] \in Nat
      BY <1>1, <1>5, <3>1
    <3>3. s.base \in Nat
      BY <1>1
    <3>4. bs[d] + 1 \in 1 .. s.base
      BY <3>2, <3>3
    <3>5. t.ptr[bs[d] + 1] = s.ptr[bs[d] + 1]
      BY <1>3, <3>4
    <3>6. s.ptr[bs[d] + 1] = bs[d - 1]
      BY <1>1, SMTT(30)
    <3>7. QED
      BY <3>1, <3>2, <3>5, <3>6
  <2>5. Len(t.ptr) <= t.cap
    BY <1>1, <1>2, <1>3
  <2>6. QED
    BY <1>1, <1>3, <1>4, <2>1, <2>2, <2>3, <2>4, <2>5 DEF Scopes
<1>7. ASSUME NEW d \in 1 .. depth - 1, NEW nm PROVE Found(t, cs, d, nm) = Found(s, bs, d, nm)
  <2>1. d \in 1 .. depth /\ d + 1 \in 1 .. depth
    OBVIOUS
  <2>2. /\ cs[d + 1] = bs[d + 1] /\ cs[d] = bs[d] /\ bs[d] \in Nat /\ bs[d + 1] \in Nat
        /\ bs[d + 1] <= s.base
    BY <1>1, <1>4, <1>5, <2>1
  <2>3. Deep(s, nm)[bs[d + 1]][bs[d]] = Deep(t, nm)[bs[d + 1]][bs[d]]
    <3>1. s.base \in Nat /\ \A i \in 1 .. s.base : s.ptr[i] = t.ptr[i]
      BY <1>1, <1>3
    <3>2. QED
      BY <2>2, <3>1, DeepLocal
  <2>4. QED
    BY <2>2, <2>3 DEF Found
<1>8. ScopesClosed(t, cs, s, bs, names, depth)
  BY <1>4, <1>6, <1>7 DEF ScopesClosed
<1>9. QED
  BY <1>8 DEF t

-----------------------------------------------------------------------------
(* What a stack means: e has the bindings of the open scopes, outermost     *)
(* first, last is the greatest node.                                        *)

\* x is what the scopes 1 .. d bind to a name.  The outermost, the package's, is
\* looked up elsewhere if nothing is found.
Nested(x, e, d, nm) ==
  IF x = 0 THEN \A c \in 2 .. d : e[c][nm] = 0
  ELSE \E c \in 1 .. d : e[c][nm] = x /\ \A b \in c + 1 .. d : e[b][nm] = 0

Answers(s, names, bs, e, spills, last) ==
  /\ \A nm \in names : \A d \in 1 .. Len(e) : Found(s, bs, d, nm) \in 0 .. last
  /\ ~spills => /\ \A d \in 2 .. Len(e) : bs[d] # 0
                /\ \A nm \in names : \A d \in 1 .. Len(e) : Nested(Found(s, bs, d, nm), e, d, nm)

Bindings(names, last) == [names -> 0 .. last]

ScopesMean(s, names, e, spills, last) ==
  /\ e \in Seq(Bindings(names, last)) /\ e # <<>>
  /\ \E bs : Scopes(s, names, bs, Len(e)) /\ Answers(s, names, bs, e, spills, last)

\* What holds of a stack whatever scopes are open.
LEMMA MeansStack ==
  ASSUME NEW s, NEW names, NEW e, NEW spills, NEW last \in Nat, ScopesMean(s, names, e, spills, last)
  PROVE  /\ s \in Stacks(names) /\ s.ptr \in Seq(Nat \cup names) /\ Len(s.ptr) \in Nat /\ s.base \in Nat /\ s.cap \in Nat
         /\ Len(s.ptr) <= s.cap /\ 2 <= s.cap /\ s.base <= Len(s.ptr)
         /\ Len(e) \in Nat \ {0}
<1>1. Len(e) \in Nat \ {0}
  BY EmptySeq, LenProperties DEF ScopesMean
<1>2. PICK bs : Scopes(s, names, bs, Len(e)) /\ Answers(s, names, bs, e, spills, last)
  BY DEF ScopesMean
<1> DEFINE depth == Len(e)
<1>3. /\ s \in Stacks(names) /\ Len(s.ptr) <= s.cap /\ 2 <= s.cap
      /\ bs \in [1 .. depth + 1 -> Nat]
      /\ bs[1] = 0 /\ bs[depth] = s.base /\ bs[depth + 1] = Len(s.ptr)
      /\ \A c, d \in 1 .. depth + 1 : c <= d => bs[c] <= bs[d]
  BY <1>2 DEF Scopes
<1>4. depth \in 1 .. depth + 1 /\ depth + 1 \in 1 .. depth + 1 /\ depth <= depth + 1
  BY <1>1
<1>5. s.base <= Len(s.ptr)
  BY <1>3, <1>4
<1>6. s.ptr \in Seq(Nat \cup names) /\ s.base \in Nat /\ s.cap \in Nat
  BY <1>3 DEF Stacks
<1>7. QED
  BY <1>1, <1>3, <1>5, <1>6, LenProperties

\* The current scope is the outermost.
AtBottom(s, e) == s.base = 0 <=> Len(e) = 1

LEMMA MeansBase ==
  ASSUME NEW s, NEW names, NEW e, NEW spills, NEW last \in Nat, ScopesMean(s, names, e, spills, last),
         ~spills
  PROVE  AtBottom(s, e)
<1>1. Len(e) \in Nat \ {0}
  BY EmptySeq, LenProperties DEF ScopesMean
<1>2. PICK bs : Scopes(s, names, bs, Len(e)) /\ Answers(s, names, bs, e, spills, last)
  BY DEF ScopesMean
<1>3. bs[1] = 0 /\ bs[Len(e)] = s.base
  BY <1>2 DEF Scopes
<1>4. \A d \in 2 .. Len(e) : bs[d] # 0
  BY <1>2 DEF Answers
<1>5. Len(e) = 1 \/ Len(e) \in 2 .. Len(e)
  <2>1. Len(e) \in Nat /\ Len(e) # 0
    BY <1>1
  <2>2. \A k \in Nat : k # 0 => k = 1 \/ k \in 2 .. k
    OBVIOUS
  <2>3. QED
    BY <2>1, <2>2
<1>6. QED
  BY <1>3, <1>4, <1>5 DEF AtBottom

LEMMA MeansLookup ==
  ASSUME NEW s, NEW names, NEW e, NEW spills, NEW last \in Nat, ScopesMean(s, names, e, spills, last),
         NEW nm \in names
  PROVE  /\ lookupsymDeep(s, nm) \in 0 .. last
         /\ ~spills => Nested(lookupsymDeep(s, nm), e, Len(e), nm)
<1>1. PICK bs : Scopes(s, names, bs, Len(e)) /\ Answers(s, names, bs, e, spills, last)
  BY DEF ScopesMean
<1>2. Len(e) \in 1 .. Len(e)
  <2>1. Len(e) \in Nat \ {0}
    BY MeansStack, Zenon
  <2>2. QED
    BY <2>1
<1>3. bs[Len(e)] = s.base /\ bs[Len(e) + 1] = Len(s.ptr)
  BY <1>1 DEF Scopes
<1>4. lookupsymDeep(s, nm) = Found(s, bs, Len(e), nm)
  BY <1>3 DEF lookupsymDeep, Found, Deep, No
<1>5. QED
  BY <1>1, <1>2, <1>4 DEF Answers

\* A greater tree.
LEMMA MeansMore ==
  ASSUME NEW s, NEW names, NEW e, NEW spills, NEW last \in Nat, ScopesMean(s, names, e, spills, last),
         NEW more \in Nat, last <= more
  PROVE  ScopesMean(s, names, e, spills, more)
<1>1. PICK bs : Scopes(s, names, bs, Len(e)) /\ Answers(s, names, bs, e, spills, last)
  BY DEF ScopesMean
<1>2. 0 .. last \subseteq 0 .. more
  OBVIOUS
<1>3. Bindings(names, last) \subseteq Bindings(names, more)
  BY <1>2 DEF Bindings
<1>4. e \in Seq(Bindings(names, more)) /\ e # <<>>
  BY <1>3, SeqMonotonic DEF ScopesMean
<1>5. Answers(s, names, bs, e, spills, more)
  BY <1>1, <1>2 DEF Answers
<1>6. QED
  BY <1>1, <1>4, <1>5 DEF ScopesMean

\* A history in which a scope leaked promises less.
LEMMA MeansLeaked ==
  ASSUME NEW s, NEW names, NEW e, NEW spills, NEW last \in Nat, ScopesMean(s, names, e, spills, last),
         NEW l, spills => l
  PROVE  ScopesMean(s, names, e, l, last)
BY DEF ScopesMean, Answers

\* The package's binding of a name that no inner scope binds is remembered.
LEMMA MeansRemember ==
  ASSUME NEW s, NEW names, NEW e, NEW spills, NEW last \in Nat, ScopesMean(s, names, e, spills, last),
         NEW key \in names, NEW n \in 1 .. last,
         ~spills => e[1][key] = n /\ \A c \in 2 .. Len(e) : e[c][key] = 0
  PROVE  ScopesMean(remember(s, key, n), names, e, spills, last)
<1> DEFINE depth == Len(e)
           t == Bound(s, s.cap, key, n)
<1>1. CASE ~(s.cap - Len(s.ptr) > 1)
  BY <1>1 DEF remember
<1>2. CASE s.cap - Len(s.ptr) > 1
  <2>1. PICK bs : Scopes(s, names, bs, Len(e)) /\ Answers(s, names, bs, e, spills, last)
    BY DEF ScopesMean
  <2>2. depth \in Nat \ {0} /\ s.cap \in Nat /\ Len(s.ptr) \in Nat /\ n \in Nat /\ s \in Stacks(names)
    <3>1. n \in Nat
      OBVIOUS
    <3>2. QED
      BY <3>1, MeansStack, Zenon
  <2>3. Len(s.ptr) + 2 <= s.cap
    BY <1>2, <2>2
  <2>4. remember(s, key, n) = t
    <3>1. [s EXCEPT !.cap = s.cap] = s
      BY <2>2 DEF Stacks
    <3>2. QED
      BY <1>2, <3>1 DEF remember, Bound
  <2>0. PICK cs : ScopesBound(t, cs, s, bs, names, depth, key, n)
    BY <2>1, <2>2, <2>3, BoundScopes
  <2>5. /\ Scopes(t, names, cs, depth)
        /\ \A d \in 1 .. depth : cs[d] = bs[d]
        /\ \A nm : \A d \in 1 .. depth :
             Found(t, cs, d, nm) = IF d = depth /\ nm = key THEN n ELSE Found(s, bs, d, nm)
    BY <2>0 DEF ScopesBound
  <2> HIDE DEF t
  <2>6. \A nm \in names : \A d \in 1 .. depth : Found(t, cs, d, nm) \in 0 .. last
    <3>1. n \in 0 .. last
      OBVIOUS
    <3>2. \A nm \in names : \A d \in 1 .. depth : Found(s, bs, d, nm) \in 0 .. last
      BY <2>1 DEF Answers
    <3>3. QED
      BY <2>5, <3>1, <3>2
  <2>7. ASSUME ~spills
        PROVE  /\ \A d \in 2 .. depth : cs[d] # 0
               /\ \A nm \in names : \A d \in 1 .. depth : Nested(Found(t, cs, d, nm), e, d, nm)
    <3>1. \A d \in 2 .. depth : bs[d] # 0 /\ d \in 1 .. depth
      BY <2>1, <2>7 DEF Answers
    <3>2. \A nm \in names : \A d \in 1 .. depth : Nested(Found(s, bs, d, nm), e, d, nm)
      BY <2>1, <2>7 DEF Answers
    <3>3. Nested(n, e, depth, key)
      <4>1. e[1][key] = n /\ \A c \in 2 .. depth : e[c][key] = 0
        BY <2>7
      <4>2. 1 \in 1 .. depth /\ 1 + 1 = 2
        BY <2>2
      <4>3. n # 0
        OBVIOUS
      <4>4. QED
        BY <4>1, <4>2, <4>3 DEF Nested
    <3>4. QED
      BY <2>5, <3>1, <3>2, <3>3
  <2>8. Answers(t, names, cs, e, spills, last)
    BY <2>6, <2>7 DEF Answers
  <2>9. QED
    BY <2>4, <2>5, <2>8 DEF ScopesMean
<1>3. QED
  BY <1>1, <1>2

\* The current scope binds a name.
Rebound(e, key, n) == [e EXCEPT ![Len(e)][key] = n]

LEMMA ReboundIs ==
  ASSUME NEW names, NEW last \in Nat, NEW e \in Seq(Bindings(names, last)), e # <<>>,
         NEW key \in names, NEW n \in 0 .. last
  PROVE  /\ Rebound(e, key, n) \in Seq(Bindings(names, last)) /\ Rebound(e, key, n) # <<>>
         /\ Len(Rebound(e, key, n)) = Len(e)
         /\ \A nm \in names : \A d \in 1 .. Len(e) :
              Rebound(e, key, n)[d][nm] = IF d = Len(e) /\ nm = key THEN n ELSE e[d][nm]
<1> DEFINE depth == Len(e)
           b == [e[depth] EXCEPT ![key] = n]
           f == [e EXCEPT ![depth] = b]
           B == Bindings(names, last)
<1>1. depth \in Nat /\ depth \in 1 .. depth /\ e \in [1 .. depth -> B]
  BY EmptySeq, LenProperties
<1>2. e[depth] \in [names -> 0 .. last]
  BY <1>1 DEF Bindings
<1>3. b \in [names -> 0 .. last] /\ \A nm \in names : b[nm] = IF nm = key THEN n ELSE e[depth][nm]
  BY <1>2
<1>4. b \in B
  BY <1>3 DEF Bindings
<1> HIDE DEF b, B
<1>5. f \in [1 .. depth -> B] /\ \A d \in 1 .. depth : f[d] = IF d = depth THEN b ELSE e[d]
  BY <1>1, <1>4
<1>6. Rebound(e, key, n) = f
  BY DEF Rebound, b
<1> HIDE DEF f
<1>7. f \in Seq(B) /\ Len(f) = depth
  <2>1. f \in Seq(B)
    BY <1>1, <1>5, SeqDef
  <2>2. Len(f) \in Nat /\ 1 .. depth = 1 .. Len(f)
    BY <1>5, <2>1, LenProperties
  <2>3. QED
    BY <1>1, <2>1, <2>2
<1>8. f # <<>>
  BY <1>1, <1>7, EmptySeq
<1>9. QED
  BY <1>3, <1>5, <1>6, <1>7, <1>8 DEF B

LEMMA MeansDefine ==
  ASSUME NEW s, NEW names, NEW e, NEW spills, NEW last \in Nat, ScopesMean(s, names, e, spills, last),
         NEW key \in names, NEW n \in 1 .. last
  PROVE  ScopesMean(define(s, key, n), names, Rebound(e, key, n), spills, last)
<1> DEFINE depth == Len(e)
           cap == IF s.cap - Len(s.ptr) < 2 THEN 2 * s.cap ELSE s.cap
           t == Bound(s, cap, key, n)
           f == Rebound(e, key, n)
<1>1. PICK bs : Scopes(s, names, bs, depth) /\ Answers(s, names, bs, e, spills, last)
  BY DEF ScopesMean
<1>2. depth \in Nat \ {0} /\ s.cap \in Nat /\ Len(s.ptr) \in Nat /\ n \in Nat /\ Len(s.ptr) <= s.cap /\ 2 <= s.cap
  <2>1. n \in Nat
    OBVIOUS
  <2>2. QED
    BY <2>1, MeansStack, Zenon
<1>3. cap \in Nat /\ Len(s.ptr) + 2 <= cap
  BY <1>2
<1>4. define(s, key, n) = t
  BY DEF define, scopestackGrow, Bound
<1> HIDE DEF cap
<1>0. PICK cs : ScopesBound(t, cs, s, bs, names, depth, key, n)
  BY <1>1, <1>2, <1>3, BoundScopes
<1>5. /\ Scopes(t, names, cs, depth)
      /\ \A d \in 1 .. depth : cs[d] = bs[d]
      /\ \A nm : \A d \in 1 .. depth :
           Found(t, cs, d, nm) = IF d = depth /\ nm = key THEN n ELSE Found(s, bs, d, nm)
  BY <1>0 DEF ScopesBound
<1> HIDE DEF t
<1>6. /\ f \in Seq(Bindings(names, last)) /\ f # <<>> /\ Len(f) = depth
      /\ \A nm \in names : \A d \in 1 .. depth : f[d][nm] = IF d = depth /\ nm = key THEN n ELSE e[d][nm]
  <2>1. e \in Seq(Bindings(names, last)) /\ e # <<>> /\ n \in 0 .. last
    BY DEF ScopesMean
  <2>2. QED
    BY <2>1, ReboundIs
<1> HIDE DEF f
<1>7. \A nm \in names : \A d \in 1 .. depth : Found(t, cs, d, nm) \in 0 .. last
  <2>1. n \in 0 .. last
    OBVIOUS
  <2>2. \A nm \in names : \A d \in 1 .. depth : Found(s, bs, d, nm) \in 0 .. last
    BY <1>1 DEF Answers
  <2>3. QED
    BY <1>5, <2>1, <2>2
<1>8. ASSUME ~spills, NEW nm \in names, NEW d \in 1 .. depth
      PROVE  Nested(Found(t, cs, d, nm), f, d, nm)
  <2>1. Nested(Found(s, bs, d, nm), e, d, nm)
    BY <1>1, <1>8 DEF Answers
  <2>2. CASE d = depth /\ nm = key
    <3>1. Found(t, cs, d, nm) = n /\ f[d][nm] = n /\ n # 0
      BY <1>5, <1>6, <2>2
    <3>2. d + 1 .. d = {}
      OBVIOUS
    <3>3. QED
      BY <3>1, <3>2 DEF Nested
  <2>3. CASE ~(d = depth /\ nm = key)
    <3>1. Found(t, cs, d, nm) = Found(s, bs, d, nm)
      BY <1>5, <2>3
    <3>2. \A c \in 1 .. d : f[c][nm] = e[c][nm]
      BY <1>2, <1>6, <2>3
    <3>3. \A c \in 2 .. d : c \in 1 .. d
      OBVIOUS
    <3>4. \A c \in 1 .. d : \A b \in c + 1 .. d : b \in 1 .. d
      OBVIOUS
    <3>5. QED
      BY <2>1, <3>1, <3>2, <3>3, <3>4 DEF Nested
  <2>4. QED
    BY <2>2, <2>3
<1>9. ~spills => \A d \in 2 .. depth : cs[d] # 0
  BY <1>1, <1>5 DEF Answers
<1>10. Answers(t, names, cs, f, spills, last)
  BY <1>6, <1>7, <1>8, <1>9 DEF Answers
<1>11. QED
  BY <1>4, <1>5, <1>6, <1>10 DEF ScopesMean, f

\* A scope that binds nothing is opened; on the empty stack it leaks.
Blank(names) == [nm \in names |-> 0]

LEMMA OpenIs ==
  ASSUME NEW names, NEW last \in Nat, NEW e \in Seq(Bindings(names, last))
  PROVE  /\ Append(e, Blank(names)) \in Seq(Bindings(names, last)) /\ Append(e, Blank(names)) # <<>>
         /\ Len(Append(e, Blank(names))) = Len(e) + 1
         /\ \A d \in 1 .. Len(e) : Append(e, Blank(names))[d] = e[d]
         /\ \A nm \in names : Append(e, Blank(names))[Len(e) + 1][nm] = 0
<1>1. Blank(names) \in Bindings(names, last) /\ \A nm \in names : Blank(names)[nm] = 0
  BY DEF Blank, Bindings
<1> DEFINE f == Append(e, Blank(names))
<1>2. /\ f \in Seq(Bindings(names, last)) /\ Len(f) = Len(e) + 1 /\ f[Len(e) + 1] = Blank(names)
      /\ \A d \in 1 .. Len(e) : f[d] = e[d]
  BY <1>1, AppendProperties
<1>3. Len(e) \in Nat
  BY LenProperties
<1>4. f # <<>>
  <2>1. Len(f) # 0
    BY <1>2, <1>3
  <2>2. QED
    BY <2>1, EmptySeq
<1>5. QED
  BY <1>1, <1>2, <1>4

LEMMA NestedSame ==
  ASSUME NEW x, NEW e, NEW f, NEW d \in Nat, NEW nm, Nested(x, e, d, nm),
         \A c \in 1 .. d : f[c] = e[c]
  PROVE  Nested(x, f, d, nm)
<1>1. \A c \in 2 .. d : c \in 1 .. d
  OBVIOUS
<1>2. \A c \in 1 .. d : \A b \in c + 1 .. d : b \in 1 .. d
  OBVIOUS
<1>3. QED
  BY <1>1, <1>2 DEF Nested

LEMMA NestedMore ==
  ASSUME NEW x, NEW e, NEW d \in Nat \ {0}, NEW nm, Nested(x, e, d, nm), e[d + 1][nm] = 0
  PROVE  Nested(x, e, d + 1, nm)
<1>1. \A c \in 2 .. d + 1 : c \in 2 .. d \/ c = d + 1
  OBVIOUS
<1>2. \A c \in 1 .. d : c \in 1 .. d + 1 /\ \A b \in c + 1 .. d + 1 : b \in c + 1 .. d \/ b = d + 1
  OBVIOUS
<1>3. QED
  BY <1>1, <1>2 DEF Nested

LEMMA MeansOpen ==
  ASSUME NEW s, NEW names, NEW e, NEW spills, NEW last \in Nat, ScopesMean(s, names, e, spills, last),
         NEW l, s.ptr = <<>> => l, spills => l
  PROVE  ScopesMean(pushScope(s), names, Append(e, Blank(names)), l, last)
<1> DEFINE depth == Len(e)
           cap == IF s.cap - Len(s.ptr) < 1 THEN 2 * s.cap ELSE s.cap
           t == Opened(s, cap)
           f == Append(e, Blank(names))
<1>1. PICK bs : Scopes(s, names, bs, depth) /\ Answers(s, names, bs, e, spills, last)
  BY DEF ScopesMean
<1>2. /\ depth \in Nat \ {0} /\ s \in Stacks(names) /\ s.cap \in Nat /\ Len(s.ptr) \in Nat
      /\ Len(s.ptr) <= s.cap /\ 2 <= s.cap /\ s.ptr \in Seq(Nat \cup names)
  BY MeansStack, Zenon
<1>3. cap \in Nat /\ Len(s.ptr) + 1 <= cap /\ 2 <= cap
  BY <1>2
<1>4. pushScope(s) = t
  BY DEF pushScope, scopestackGrow, Opened
<1> HIDE DEF cap
<1>5. PICK cs : ScopesOpened(t, cs, s, bs, names, depth)
  BY <1>1, <1>2, <1>3, OpenedScopes
<1>6. /\ Scopes(t, names, cs, depth + 1)
      /\ \A d \in 1 .. depth + 1 : cs[d] = bs[d]
      /\ \A nm : \A d \in 1 .. depth : Found(t, cs, d, nm) = Found(s, bs, d, nm)
      /\ \A nm : Found(t, cs, depth + 1, nm) = IF Len(s.ptr) = 0 THEN 0 ELSE Found(s, bs, depth, nm)
  BY <1>5 DEF ScopesOpened
<1>7. /\ f \in Seq(Bindings(names, last)) /\ f # <<>> /\ Len(f) = depth + 1
      /\ \A d \in 1 .. depth : f[d] = e[d]
      /\ \A nm \in names : f[depth + 1][nm] = 0
  <2>1. e \in Seq(Bindings(names, last))
    BY DEF ScopesMean
  <2>2. QED
    BY <2>1, OpenIs
<1> HIDE DEF t, f
<1>8. \A nm \in names : \A d \in 1 .. depth : Found(s, bs, d, nm) \in 0 .. last
  BY <1>1 DEF Answers
<1> HIDE DEF depth
<1>9. depth \in 1 .. depth /\ \A d \in 1 .. depth + 1 : d \in 1 .. depth \/ d = depth + 1
  BY <1>2
<1>10. ASSUME NEW nm \in names, NEW d \in 1 .. depth + 1 PROVE Found(t, cs, d, nm) \in 0 .. last
  <2>1. 0 \in 0 .. last
    OBVIOUS
  <2>2. QED
    BY <1>6, <1>8, <1>9, <2>1
<1>11. ASSUME ~l, NEW nm \in names, NEW d \in 1 .. depth + 1
       PROVE  Nested(Found(t, cs, d, nm), f, d, nm)
  <2>1. Len(s.ptr) # 0
    BY <1>2, <1>11, EmptySeq
  <2>2. \A c \in 1 .. depth : Nested(Found(s, bs, c, nm), e, c, nm)
    BY <1>1, <1>11 DEF Answers, depth
  <2>3. CASE d \in 1 .. depth
    <3>1. d \in Nat /\ \A c \in 1 .. d : f[c] = e[c]
      BY <1>2, <1>7, <2>3
    <3>2. Found(t, cs, d, nm) = Found(s, bs, d, nm) /\ Nested(Found(s, bs, d, nm), e, d, nm)
      BY <1>6, <2>2, <2>3
    <3>3. QED
      BY <3>1, <3>2, NestedSame
  <2>4. CASE d = depth + 1
    <3>1. Found(t, cs, depth + 1, nm) = Found(s, bs, depth, nm)
      BY <1>6, <2>1
    <3>2. Nested(Found(s, bs, depth, nm), e, depth, nm) /\ depth \in Nat
      BY <1>2, <1>9, <2>2
    <3>3. Nested(Found(s, bs, depth, nm), f, depth, nm)
      BY <1>7, <3>2, NestedSame
    <3>4. Nested(Found(s, bs, depth, nm), f, depth + 1, nm)
      BY <1>2, <1>7, <3>3, NestedMore
    <3>5. QED
      BY <2>4, <3>1, <3>4
  <2>5. QED
    BY <1>9, <2>3, <2>4
<1>12. ASSUME ~l PROVE \A d \in 2 .. depth + 1 : cs[d] # 0
  <2>1. Len(s.ptr) # 0
    BY <1>2, <1>12, EmptySeq
  <2>2. \A d \in 2 .. depth : bs[d] # 0
    BY <1>1, <1>12 DEF Answers, depth
  <2>3. bs[depth + 1] = Len(s.ptr)
    BY <1>1 DEF Scopes
  <2>4. \A d \in 2 .. depth + 1 : d \in 1 .. depth + 1 /\ (d \in 2 .. depth \/ d = depth + 1)
    BY <1>2
  <2>5. QED
    BY <1>6, <2>1, <2>2, <2>3, <2>4
<1>13. Answers(t, names, cs, f, l, last)
  BY <1>7, <1>10, <1>11, <1>12 DEF Answers
<1>14. QED
  BY <1>4, <1>6, <1>7, <1>13 DEF ScopesMean, f

\* The innermost scope is closed.
Closed(e) == SubSeq(e, 1, Len(e) - 1)

LEMMA ClosedIs ==
  ASSUME NEW names, NEW last \in Nat, NEW e \in Seq(Bindings(names, last)), 2 <= Len(e)
  PROVE  /\ Closed(e) \in Seq(Bindings(names, last)) /\ Closed(e) # <<>>
         /\ Len(Closed(e)) = Len(e) - 1
         /\ \A d \in 1 .. Len(e) - 1 : Closed(e)[d] = e[d]
<1> DEFINE f == Closed(e)
           n == Len(e) - 1
<1>1. Len(e) \in Nat /\ n \in 1 .. Len(e) /\ 1 \in 1 .. Len(e) + 1 /\ n \in 0 .. Len(e)
  BY LenProperties
<1>2. /\ f \in Seq(Bindings(names, last))
      /\ Len(f) = IF 1 <= n THEN n - 1 + 1 ELSE 0
      /\ \A i \in 1 .. n - 1 + 1 : f[i] = e[1 + i - 1]
  BY <1>1, SubSeqProperties DEF Closed
<1>3. Len(f) = n /\ \A i \in 1 .. n : f[i] = e[i]
  BY <1>1, <1>2
<1>4. f # <<>>
  <2>1. Len(f) # 0
    BY <1>1, <1>3
  <2>2. QED
    BY <2>1, EmptySeq
<1>5. QED
  BY <1>2, <1>3, <1>4

LEMMA MeansClose ==
  ASSUME NEW s, NEW names, NEW e, NEW spills, NEW last \in Nat, ScopesMean(s, names, e, spills, last),
         2 <= Len(e)
  PROVE  ScopesMean(popScope(s), names, Closed(e), spills, last)
<1> DEFINE depth == Len(e)
           t == popScope(s)
           f == Closed(e)
<1>1. PICK bs : Scopes(s, names, bs, depth) /\ Answers(s, names, bs, e, spills, last)
  BY DEF ScopesMean
<1>2. depth \in Nat \ {0}
  BY MeansStack, Zenon
<1>3. PICK cs : ScopesClosed(t, cs, s, bs, names, depth)
  BY <1>1, <1>2, ClosedScopes
<1>4. /\ Scopes(t, names, cs, depth - 1)
      /\ \A d \in 1 .. depth : cs[d] = bs[d]
      /\ \A nm : \A d \in 1 .. depth - 1 : Found(t, cs, d, nm) = Found(s, bs, d, nm)
  BY <1>3 DEF ScopesClosed
<1>5. /\ f \in Seq(Bindings(names, last)) /\ f # <<>> /\ Len(f) = depth - 1
      /\ \A d \in 1 .. depth - 1 : f[d] = e[d]
  <2>1. e \in Seq(Bindings(names, last))
    BY DEF ScopesMean
  <2>2. QED
    BY <2>1, ClosedIs
<1> HIDE DEF t, f
<1>6. \A d \in 1 .. depth - 1 : d \in 1 .. depth /\ d \in Nat /\ \A c \in 1 .. d : c \in 1 .. depth - 1
  BY <1>2
<1>7. \A d \in 2 .. depth - 1 : d \in 2 .. depth /\ d \in 1 .. depth
  BY <1>2
<1>8. \A nm \in names : \A d \in 1 .. depth - 1 : Found(t, cs, d, nm) \in 0 .. last
  BY <1>1, <1>4, <1>6 DEF Answers
<1>9. ASSUME ~spills, NEW nm \in names, NEW d \in 1 .. depth - 1
      PROVE  Nested(Found(t, cs, d, nm), f, d, nm)
  <2>1. Nested(Found(s, bs, d, nm), e, d, nm) /\ d \in Nat
    BY <1>1, <1>6, <1>9 DEF Answers
  <2>2. \A c \in 1 .. d : f[c] = e[c]
    BY <1>5, <1>6
  <2>3. Nested(Found(s, bs, d, nm), f, d, nm)
    BY <2>1, <2>2, NestedSame
  <2>4. QED
    BY <1>4, <2>3
<1>10. ~spills => \A d \in 2 .. depth - 1 : cs[d] # 0
  BY <1>1, <1>4, <1>7 DEF Answers
<1>11. Answers(t, names, cs, f, spills, last)
  BY <1>5, <1>8, <1>9, <1>10 DEF Answers
<1>12. QED
  BY <1>4, <1>5, <1>11 DEF ScopesMean, t, f

-----------------------------------------------------------------------------
(* The inductive invariant.                                                 *)

\* A node of a tree whose greatest node is last.
NodeT(last) ==
  {d \in [kind : Kinds, name : Name \cup {NoName}, target : 0 .. last, typ : 0 .. last,
          kids : Seq(1 .. last), unres : BOOLEAN, const : BOOLEAN, isconst : BOOLEAN, used : BOOLEAN] :
     d.kind = "Id" => d.name \in Name}

\* A tree of such nodes; the file is no identifier.
Tree(a, last) ==
  /\ a \in Seq(NodeT(last)) /\ Len(a) \in Nat /\ last <= Len(a)
  /\ File \in 1 .. Len(a) /\ a[File].kind # "Id"

\* The entries of the call stack: those that give the node they have, those that
\* have a name to bind, those that end a scope, those that wait for no value.
Giving == {"child", "as", "convert", "list", "then", "block", "body", "fun", "struct", "signature",
           "field", "fieldend", "param"}
Naming == {"vartype", "mkvar", "declare", "field"}
Scoped == {"endblock", "signature", "body", "fun", "struct"}
Fresh == {"prefix", "signature", "body", "struct"}
Ops == Giving \cup Naming \cup Scoped \cup Fresh \cup {"infix", "file"}
Flags == {"", "stmt", "rvalue", "operand", "type", "var", "const"}

FrameT(last) ==
  {f \in [op : Ops, n : 0 .. last, flags : Flags, name : Name \cup {NoName}] :
     (f.op \in Giving => f.n # 0) /\ (f.op \in Naming => f.name \in Name)}

\* The scopes that the entries of the call stack are in.
Open(td) == Cardinality({i \in 1 .. Len(td) : td[i].op \in Scoped})

\* Entries that may be pushed, in scopes more.
Frames(ks, last, scopes) ==
  /\ ks \in Seq(FrameT(last))
  /\ \A i \in 1 .. Len(ks) : ks[i].op # "file"
  /\ Open(ks) = scopes

\* The file is at the bottom of the call stack.
Stacked(td, last, depth) ==
  /\ td \in Seq(FrameT(last)) /\ td # <<>>
  /\ \A i \in 1 .. Len(td) : td[i].op = "file" <=> i = Len(td)
  /\ Open(td) + 1 = depth

PackageMeans(p, e, l, last) ==
  /\ p \in [Name -> 0 .. last]
  /\ ~l => \A nm \in Name : (IF p[nm] = 0 THEN GlobalScope[nm] ELSE p[nm]) = e[1][nm]

Given(v, td) == v # 0 \/ td[1].op \in Fresh

Parsing ==
  /\ Stacked(todo, Len(ast), Len(env))
  /\ Given(val, todo)

\* The calls of the resolver.
CallT(last) == [n : 1 .. last, rest : Seq(1 .. last)]

\* An identifier on the call stack of the resolver names something.
Calls(td, a, last) ==
  /\ td \in Seq(CallT(last))
  /\ \A i \in 1 .. Len(td) : a[td[i].n].kind = "Id" => a[td[i].n].target # 0

Resolving == Calls(todo, ast, Len(ast))

Control ==
  /\ Tree(ast, Len(ast)) /\ Bad <= Len(ast)
  /\ val \in 0 .. Len(ast) /\ next \in {"semi", "any"} /\ taken \in 0 .. MaxSource
  /\ status \in {"parse", "resolve", "done", "failed", "panic"}
  /\ PackageMeans(pkgscope, env, leaked, Len(ast))
  /\ status = "parse" => Parsing
  /\ status = "resolve" => Resolving

IInv == Control /\ ScopesMean(scope, Name, env, leaked, Len(ast))

-----------------------------------------------------------------------------
(* Trees.                                                                   *)

LEMMA NodeMore ==
  ASSUME NEW last \in Nat, NEW more \in Nat, last <= more
  PROVE  NodeT(last) \subseteq NodeT(more)
<1>1. 0 .. last \subseteq 0 .. more /\ 1 .. last \subseteq 1 .. more
  OBVIOUS
<1>2. Seq(1 .. last) \subseteq Seq(1 .. more)
  BY <1>1, SeqMonotonic
<1>3. QED
  BY <1>1, <1>2 DEF NodeT

LEMMA TreeMore ==
  ASSUME NEW a, NEW last \in Nat, NEW more \in Nat, last <= more, Tree(a, last), more <= Len(a)
  PROVE  Tree(a, more)
<1>1. a \in Seq(NodeT(more))
  BY NodeMore, SeqMonotonic DEF Tree
<1>2. QED
  BY <1>1 DEF Tree

LEMMA TreeNode ==
  ASSUME NEW a, NEW last \in Nat, Tree(a, last), NEW n \in 1 .. Len(a)
  PROVE  a[n] \in NodeT(last)
BY ElementOfSeq DEF Tree

LEMMA TreeAppend ==
  ASSUME NEW a, NEW last \in Nat, Tree(a, last), NEW d \in NodeT(last)
  PROVE  Tree(Append(a, d), last) /\ Len(Append(a, d)) = Len(a) + 1
BY AppendProperties DEF Tree

\* A node is replaced, if it is there.
With(a, n, d) == [a EXCEPT ![n] = d]

LEMMA TreePut ==
  ASSUME NEW a, NEW last \in Nat, Tree(a, last), NEW n, NEW d,
         n \in 1 .. Len(a) => d \in NodeT(last) /\ d.kind \in {a[n].kind, "TypeCast"}
  PROVE  Tree(With(a, n, d), last) /\ Len(With(a, n, d)) = Len(a)
<1> DEFINE b == With(a, n, d)
           N == NodeT(last)
<1>1. Len(a) \in Nat /\ a \in [1 .. Len(a) -> N] /\ last <= Len(a)
  BY LenProperties DEF Tree
<1> HIDE DEF N
<1>2. b \in [1 .. Len(a) -> N]
  BY <1>1 DEF N, With
<1>7. b[File].kind # "Id"
  BY <1>1 DEF Tree, With
<1> HIDE DEF b
<1>3. b \in Seq(N)
  BY <1>1, <1>2, SeqDef
<1>4. Len(b) \in Nat /\ 1 .. Len(a) = 1 .. Len(b)
  BY <1>2, <1>3, LenProperties
<1>5. Len(b) = Len(a)
  BY <1>1, <1>4
<1>6. QED
  BY <1>1, <1>3, <1>5, <1>7 DEF Tree, b, N

\* Assignments to the fields of a node.
LEMMA NodeFields ==
  ASSUME NEW last \in Nat, NEW d \in NodeT(last)
  PROVE  /\ \A x \in Seq(1 .. last) : [d EXCEPT !.kids = x] \in NodeT(last)
         /\ \A x \in 0 .. last : [d EXCEPT !.target = x] \in NodeT(last)
         /\ \A x \in 0 .. last : [d EXCEPT !.typ = x] \in NodeT(last)
         /\ \A x \in BOOLEAN : [d EXCEPT !.unres = x] \in NodeT(last)
         /\ \A x \in BOOLEAN : [d EXCEPT !.const = x] \in NodeT(last)
         /\ \A x \in BOOLEAN : [d EXCEPT !.isconst = x] \in NodeT(last)
         /\ \A x \in BOOLEAN : [d EXCEPT !.used = x] \in NodeT(last)
         /\ \A x \in Name : [d EXCEPT !.name = x] \in NodeT(last)
         /\ \A x \in Kinds \ {"Id"} : [d EXCEPT !.kind = x] \in NodeT(last)
         /\ d.kind # "Id" => [d EXCEPT !.name = NoName] \in NodeT(last)
BY DEF NodeT

LEMMA NodeKind ==
  ASSUME NEW last, NEW d \in NodeT(last)
  PROVE  \A x : /\ [d EXCEPT !.kids = x].kind = d.kind /\ [d EXCEPT !.target = x].kind = d.kind
                /\ [d EXCEPT !.typ = x].kind = d.kind /\ [d EXCEPT !.unres = x].kind = d.kind
                /\ [d EXCEPT !.const = x].kind = d.kind /\ [d EXCEPT !.used = x].kind = d.kind
                /\ [d EXCEPT !.kind = x].kind = x
BY DEF NodeT

LEMMA Either == \A x, y : (x \/ y) \in BOOLEAN
OBVIOUS

LEMMA AdoptTree ==
  ASSUME NEW a, NEW last \in Nat, Tree(a, last), NEW n, NEW c \in 1 .. last
  PROVE  Tree(Adopt(a, n, c), last) /\ Len(Adopt(a, n, c)) = Len(a)
<1> DEFINE d == [a[n] EXCEPT !.kids = Append(@, c)]
<1>1. n \in 1 .. Len(a) => d \in NodeT(last) /\ d.kind = a[n].kind
  <2> SUFFICES ASSUME n \in 1 .. Len(a) PROVE d \in NodeT(last) /\ d.kind = a[n].kind
    OBVIOUS
  <2>1. a[n] \in NodeT(last)
    BY TreeNode
  <2>2. a[n].kids \in Seq(1 .. last)
    BY <2>1 DEF NodeT
  <2>3. Append(a[n].kids, c) \in Seq(1 .. last)
    BY <2>2, AppendProperties
  <2>4. QED
    BY <2>1, <2>3, NodeFields, NodeKind
<1>2. Adopt(a, n, c) = With(a, n, d)
  BY DEF Adopt, With
<1> HIDE DEF d
<1>3. QED
  BY <1>1, <1>2, TreePut

LEMMA TransferTree ==
  ASSUME NEW a, NEW last \in Nat, Tree(a, last), NEW n, NEW c
  PROVE  Tree(NodeTransferUnresolved(a, n, c), last) /\ Len(NodeTransferUnresolved(a, n, c)) = Len(a)
<1> DEFINE x == a[n].unres \/ a[c].unres
           d == [a[n] EXCEPT !.unres = x]
<1>1. x \in BOOLEAN
  BY Either, Zenon
<1>2. NodeTransferUnresolved(a, n, c) = With(a, n, d)
  BY DEF NodeTransferUnresolved, With
<1> HIDE DEF x
<1>3. n \in 1 .. Len(a) => d \in NodeT(last) /\ d.kind = a[n].kind
  BY <1>1, TreeNode, NodeFields, NodeKind
<1> HIDE DEF d
<1>4. QED
  BY <1>2, <1>3, TreePut

LEMMA AdoptFlaggedTree ==
  ASSUME NEW a, NEW last \in Nat, Tree(a, last), NEW n, NEW c \in 1 .. last
  PROVE  Tree(AdoptFlagged(a, n, c), last) /\ Len(AdoptFlagged(a, n, c)) = Len(a)
BY AdoptTree, TransferTree DEF AdoptFlagged

-----------------------------------------------------------------------------
(* Names are looked up.                                                     *)

\* What a call gives: a tree, a stack that means the scopes that are open, and a
\* node of the tree.
IsResult(r) == r = [a |-> r.a, s |-> r.s, n |-> r.n]

Holds(r, last) ==
  /\ IsResult(r)
  /\ Tree(r.a, last)
  /\ ScopesMean(r.s, Name, env, leaked, last)
  /\ r.n \in 1 .. Len(r.a)

LEMMA LookupMeans ==
  ASSUME NEW last \in Nat, Bad <= last, PackageMeans(pkgscope, env, leaked, last),
         NEW s, ScopesMean(s, Name, env, leaked, last), NEW key \in Name
  PROVE  /\ lookupsym(s, key).n \in 0 .. last
         /\ ScopesMean(lookupsym(s, key).s, Name, env, leaked, last)
<1> DEFINE local == lookupsymDeep(s, key)
           global == ScopeLookup(key)
<1>1. local \in 0 .. last
  BY MeansLookup
<1>2. global \in 0 .. last
  BY DEF ScopeLookup, GlobalScope, PackageMeans, Prim, Bad
<1>3. CASE local # 0
  <2>1. lookupsym(s, key) = [n |-> local, s |-> s]
    BY <1>3 DEF lookupsym
  <2> HIDE DEF local
  <2>2. QED
    BY <1>1, <2>1
<1>4. CASE local = 0 /\ global = 0
  <2>1. lookupsym(s, key) = [n |-> global, s |-> s]
    BY <1>4 DEF lookupsym
  <2> HIDE DEF global
  <2>2. QED
    BY <1>2, <2>1
<1>5. CASE local = 0 /\ global # 0
  <2> DEFINE t == remember(s, key, global)
  <2>1. lookupsym(s, key) = [n |-> global, s |-> t]
    BY <1>5 DEF lookupsym
  <2>2. ~leaked => Nested(local, env, Len(env), key)
    BY MeansLookup
  <2>3. ~leaked => env[1][key] = global /\ \A c \in 2 .. Len(env) : env[c][key] = 0
    BY <1>5, <2>2 DEF Nested, PackageMeans, ScopeLookup
  <2>4. global \in 1 .. last
    BY <1>2, <1>5
  <2> HIDE DEF global
  <2>5. ScopesMean(t, Name, env, leaked, last)
    BY <2>3, <2>4, MeansRemember
  <2> HIDE DEF t
  <2>6. QED
    BY <1>2, <2>1, <2>5
<1>6. QED
  BY <1>3, <1>4, <1>5

LEMMA SimplifyIs ==
  ASSUME NEW a, NEW s, NEW id, NEW rvalue
  PROVE  /\ IsResult(simplify_id(a, s, id, rvalue))
         /\ simplify_id(a, s, id, rvalue).a = a
         /\ simplify_id(a, s, id, rvalue).s = s
         /\ simplify_id(a, s, id, rvalue).n \in {Prim, id}
<1> DEFINE t == IF rvalue THEN Unwind(a, a[id].target) ELSE a[id].target
           n == IF a[t].kind = "Prim" THEN Prim ELSE id
<1>1. simplify_id(a, s, id, rvalue) = [a |-> a, s |-> s, n |-> n]
  BY DEF simplify_id, Result
<1>2. n \in {Prim, id}
  OBVIOUS
<1> HIDE DEF n
<1>3. QED
  BY <1>1, <1>2 DEF IsResult

\* The identifier is bound to t.
BoundId(a, id, t) ==
  [a EXCEPT ![id].target = t, ![id].typ = a[t].typ, ![id].unres = @ \/ givesMark(a, t),
            ![t].used = @ \/ a[t].kind = "Var"]

LEMMA BoundIdTree ==
  ASSUME NEW a, NEW last \in Nat, Tree(a, last), NEW id \in 1 .. Len(a), NEW t \in 1 .. last
  PROVE  Tree(BoundId(a, id, t), last) /\ Len(BoundId(a, id, t)) = Len(a)
<1> DEFINE x == a[id].unres \/ givesMark(a, t)
           d1 == [a[id] EXCEPT !.target = t]
           d2 == [d1 EXCEPT !.typ = a[t].typ]
           d == [d2 EXCEPT !.unres = x]
           b == With(a, id, d)
           y == b[t].used \/ a[t].kind = "Var"
           e == [b[t] EXCEPT !.used = y]
<1>1. x \in BOOLEAN /\ y \in BOOLEAN
  BY Either, Zenon
<1>2. t \in 1 .. Len(a) /\ t \in 0 .. last
  BY DEF Tree
<1>3. a[t] \in NodeT(last) /\ a[id] \in NodeT(last)
  BY <1>2, TreeNode
<1>4. a[t].typ \in 0 .. last
  BY <1>3 DEF NodeT
<1>5. BoundId(a, id, t) = With(b, t, e)
  <2>1. a \in [1 .. Len(a) -> NodeT(last)]
    BY LenProperties DEF Tree
  <2> DEFINE z == [a EXCEPT ![id].target = t, ![id].typ = a[t].typ, ![id].unres = @ \/ givesMark(a, t)]
  <2>2. z = b
    BY <2>1 DEF With
  <2>3. BoundId(a, id, t) = [z EXCEPT ![t].used = @ \/ a[t].kind = "Var"]
    BY Zenon DEF BoundId
  <2> HIDE DEF z, b
  <2>4. [z EXCEPT ![t].used = @ \/ a[t].kind = "Var"] = With(b, t, e)
    BY <2>2 DEF With
  <2>5. QED
    BY <2>3, <2>4
<1>6. d1 \in NodeT(last) /\ d1.kind = a[id].kind
  BY <1>2, <1>3, NodeFields, NodeKind
<1>7. d2 \in NodeT(last) /\ d2.kind = a[id].kind
  BY <1>4, <1>6, NodeFields, NodeKind, ZenonT(60)
<1> HIDE DEF d2, x
<1>8. d \in NodeT(last) /\ d.kind = a[id].kind
  <2>1. d \in NodeT(last)
    BY <1>1, <1>7, NodeFields
  <2>2. d.kind = d2.kind
    BY <1>7, NodeKind
  <2>3. QED
    BY <1>7, <2>1, <2>2
<1> HIDE DEF d
<1>9. Tree(b, last) /\ Len(b) = Len(a)
  BY <1>8, TreePut
<1> HIDE DEF b, y
<1>10. b[t] \in NodeT(last)
  BY <1>2, <1>9, TreeNode
<1>11. e \in NodeT(last) /\ e.kind = b[t].kind
  BY <1>1, <1>10, NodeFields, NodeKind
<1> HIDE DEF e
<1>12. Tree(With(b, t, e), last) /\ Len(With(b, t, e)) = Len(b)
  BY <1>9, <1>11, TreePut
<1>13. QED
  BY <1>5, <1>9, <1>12

LEMMA ResolveIdHolds ==
  ASSUME NEW last \in Nat, Bad <= last, PackageMeans(pkgscope, env, leaked, last),
         NEW s, ScopesMean(s, Name, env, leaked, last),
         NEW a, Tree(a, last), NEW id \in 1 .. Len(a), a[id].kind = "Id", NEW rvalue
  PROVE  /\ Holds(resolve_id(a, s, id, rvalue), last)
         /\ Len(resolve_id(a, s, id, rvalue).a) = Len(a)
         /\ resolve_id(a, s, id, rvalue).n \in {Prim, id}
<1> DEFINE r == resolve_id(a, s, id, rvalue)
           found == lookupsym(s, a[id].name)
           t == found.n
<1>1. a[id] \in NodeT(last) /\ Len(a) \in Nat /\ last <= Len(a)
  BY TreeNode DEF Tree
<1>2. a[id].name \in Name
  BY <1>1 DEF NodeT
<1>3. t \in 0 .. last /\ ScopesMean(found.s, Name, env, leaked, last)
  BY <1>2, LookupMeans
<1>4. Prim \in 1 .. Len(a)
  BY <1>1 DEF Prim, Bad
<1> HIDE DEF found
<1>5. CASE t = 0
  <2> DEFINE d == [a[id] EXCEPT !.unres = TRUE]
             b == With(a, id, d)
  <2>1. r = Result(b, s, id)
    BY <1>5 DEF resolve_id, With, found
  <2>2. d \in NodeT(last) /\ d.kind = a[id].kind
    BY <1>1, NodeFields, NodeKind
  <2> HIDE DEF d
  <2>3. Tree(b, last) /\ Len(b) = Len(a)
    BY <2>2, TreePut
  <2> HIDE DEF b
  <2>4. IsResult(r) /\ r.a = b /\ r.s = s /\ r.n = id
    BY <2>1 DEF Result, IsResult
  <2> HIDE DEF r
  <2>5. QED
    BY <2>3, <2>4 DEF Holds, r
<1>6. CASE t # 0
  <2> DEFINE b == BoundId(a, id, t)
  <2>1. r = simplify_id(b, found.s, id, rvalue)
    BY <1>6 DEF resolve_id, BoundId, found
  <2>2. t \in 1 .. last
    BY <1>3, <1>6
  <2>3. Tree(b, last) /\ Len(b) = Len(a)
    BY <2>2, BoundIdTree
  <2> HIDE DEF b
  <2>4. IsResult(r) /\ r.a = b /\ r.s = found.s /\ r.n \in {Prim, id}
    BY <2>1, SimplifyIs
  <2> HIDE DEF r
  <2>5. QED
    BY <1>3, <1>4, <2>3, <2>4 DEF Holds, r
<1>7. QED
  BY <1>5, <1>6

Yes == TRUE

LEMMA UseAsRValueHolds ==
  ASSUME NEW last \in Nat, Bad <= last, PackageMeans(pkgscope, env, leaked, last),
         NEW s, ScopesMean(s, Name, env, leaked, last),
         NEW a, Tree(a, last), NEW e \in 1 .. Len(a)
  PROVE  /\ Holds(useAsRValue(a, s, e), last)
         /\ Len(useAsRValue(a, s, e).a) = Len(a)
         /\ useAsRValue(a, s, e).n \in {Prim, e}
<1> DEFINE r == useAsRValue(a, s, e)
<1>1. Prim \in 1 .. Len(a)
  BY DEF Tree, Prim, Bad
<1>2. CASE a[e].kind # "Id"
  <2>1. r = [a |-> a, s |-> s, n |-> e]
    BY <1>2 DEF useAsRValue, Result
  <2> HIDE DEF r
  <2>2. IsResult(r) /\ r.a = a /\ r.s = s /\ r.n = e
    BY <2>1 DEF IsResult
  <2>3. QED
    BY <2>2 DEF Holds, r
<1>3. CASE a[e].kind = "Id" /\ a[e].target # 0
  <2>1. r = simplify_id(a, s, e, Yes)
    BY <1>3 DEF useAsRValue, Yes
  <2> HIDE DEF r
  <2>2. IsResult(r) /\ r.a = a /\ r.s = s /\ r.n \in {Prim, e}
    BY <2>1, SimplifyIs
  <2>3. QED
    BY <1>1, <2>2 DEF Holds, r
<1>4. CASE a[e].kind = "Id" /\ a[e].target = 0
  <2>1. r = resolve_id(a, s, e, Yes)
    BY <1>4 DEF useAsRValue, Yes
  <2> HIDE DEF r
  <2>2. QED
    BY <1>4, <2>1, ResolveIdHolds DEF r
<1>5. QED
  BY <1>2, <1>3, <1>4

\* A new identifier is looked up.
NewId(a, name) == Append(a, named("Id", name))

LEMMA NamedT ==
  ASSUME NEW last \in Nat, NEW kind \in Kinds, NEW name \in Name
  PROVE  named(kind, name) \in NodeT(last) /\ named(kind, name).kind = kind
<1>1. <<>> \in Seq(1 .. last) /\ FALSE \in BOOLEAN /\ 0 \in 0 .. last
  BY EmptySeq
<1>2. QED
  BY <1>1 DEF named, mknode, NodeT

LEMMA MknodeT ==
  ASSUME NEW last \in Nat, NEW kind \in Kinds \ {"Id"}
  PROVE  mknode(kind) \in NodeT(last) /\ mknode(kind).kind = kind
<1>1. <<>> \in Seq(1 .. last) /\ FALSE \in BOOLEAN /\ 0 \in 0 .. last
  BY EmptySeq
<1>2. QED
  BY <1>1 DEF mknode, NodeT

LEMMA NewIdHolds ==
  ASSUME NEW last \in Nat, Bad <= last, PackageMeans(pkgscope, env, leaked, last),
         NEW s, ScopesMean(s, Name, env, leaked, last),
         NEW a, Tree(a, last), NEW name \in Name, NEW rvalue, NEW r,
         r = resolve_id(NewId(a, name), s, Len(a) + 1, rvalue)
  PROVE  Holds(r, last) /\ Len(r.a) = Len(a) + 1 /\ r.n \in {Prim, Len(a) + 1}
<1> DEFINE b == NewId(a, name)
           d == named("Id", name)
<1>1. d \in NodeT(last) /\ d.kind = "Id"
  <2>1. "Id" \in Kinds
    BY DEF Kinds
  <2>2. QED
    BY <2>1, NamedT
<1> HIDE DEF d
<1>2. /\ Tree(b, last) /\ Len(b) = Len(a) + 1 /\ b[Len(a) + 1] = d /\ Len(a) \in Nat
  BY <1>1, TreeAppend, AppendProperties DEF NewId, Tree, d
<1> HIDE DEF b
<1>3. Len(a) + 1 \in 1 .. Len(b) /\ b[Len(a) + 1].kind = "Id"
  BY <1>1, <1>2
<1>4. QED
  BY <1>2, <1>3, ResolveIdHolds DEF b

LEMMA DropHolds ==
  ASSUME NEW last \in Nat, Bad <= last, NEW id, id = last + 1,
         NEW r, Holds(r, last), Len(r.a) = id, r.n \in {Prim, id}
  PROVE  Holds(Drop(r, id), last) /\ Drop(r, id).n \in {Prim, id}
<1>1. CASE r.n = id
  BY <1>1 DEF Drop
<1>2. CASE r.n # id
  <2> DEFINE b == SubSeq(r.a, 1, id - 1)
  <2>1. Drop(r, id) = [a |-> b, s |-> r.s, n |-> r.n]
    <3>1. Drop(r, id) = [r EXCEPT !.a = b]
      BY <1>2 DEF Drop
    <3>2. r = [a |-> r.a, s |-> r.s, n |-> r.n]
      BY DEF Holds, IsResult
    <3> HIDE DEF b
    <3>3. QED
      BY <3>1, <3>2
  <2>2. Tree(r.a, last) /\ r.n = Prim
    BY <1>2 DEF Holds
  <2>3. b \in Seq(NodeT(last)) /\ Len(b) = last
    <3>1. r.a \in Seq(NodeT(last)) /\ 1 \in 1 .. Len(r.a) + 1 /\ last \in 0 .. Len(r.a)
      BY <2>2 DEF Tree
    <3>2. /\ SubSeq(r.a, 1, last) \in Seq(NodeT(last))
          /\ Len(SubSeq(r.a, 1, last)) = IF 1 <= last THEN last - 1 + 1 ELSE 0
      BY <3>1, SubSeqProperties
    <3>3. id - 1 = last
      OBVIOUS
    <3>4. QED
      BY <3>2, <3>3
  <2>4. File \in 1 .. last /\ b[File] = r.a[File]
    <3>1. r.a \in Seq(NodeT(last)) /\ 1 \in 1 .. Len(r.a) + 1 /\ last \in 0 .. Len(r.a)
      BY <2>2 DEF Tree
    <3>2. \A i \in 1 .. last - 1 + 1 : SubSeq(r.a, 1, last)[i] = r.a[1 + i - 1]
      BY <3>1, SubSeqProperties
    <3>3. File \in 1 .. last - 1 + 1 /\ 1 + File - 1 = File /\ id - 1 = last /\ File \in 1 .. last
      BY DEF File, Bad
    <3>4. QED
      BY <3>2, <3>3
  <2> HIDE DEF b
  <2>5. Prim \in 1 .. Len(b)
    BY <2>3 DEF Prim, Bad
  <2>6. QED
    BY <2>1, <2>2, <2>3, <2>4, <2>5 DEF Holds, Tree, IsResult
<1>3. QED
  BY <1>1, <1>2

-----------------------------------------------------------------------------
(* The call stack.                                                          *)

LEMMA OpenNat == ASSUME NEW td, Len(td) \in Nat PROVE Open(td) \in Nat
<1> DEFINE S == {i \in 1 .. Len(td) : td[i].op \in Scoped}
<1>1. IsFiniteSet(1 .. Len(td))
  BY FS_Interval
<1>2. S \subseteq 1 .. Len(td)
  OBVIOUS
<1> HIDE DEF S
<1>3. IsFiniteSet(S)
  BY <1>1, <1>2, FS_Subset
<1>4. Cardinality(S) \in Nat
  BY <1>3, FS_CardinalityType
<1>5. QED
  BY <1>4 DEF Open, S

LEMMA OpenEmpty == Open(<<>>) = 0
<1>1. {i \in 1 .. Len(<<>>) : <<>>[i].op \in Scoped} = {}
  BY EmptySeq
<1>2. QED
  BY <1>1, FS_EmptySet DEF Open

LEMMA OpenOne ==
  ASSUME NEW f PROVE Open(<<f>>) = IF f.op \in Scoped THEN 1 ELSE 0
<1> DEFINE S == {i \in 1 .. Len(<<f>>) : <<f>>[i].op \in Scoped}
<1>1. S = IF f.op \in Scoped THEN {1} ELSE {}
  OBVIOUS
<1> HIDE DEF S
<1>2. Cardinality(S) = IF f.op \in Scoped THEN 1 ELSE 0
  BY <1>1, FS_EmptySet, FS_Singleton
<1>3. QED
  BY <1>2 DEF Open, S

LEMMA OpenConcat ==
  ASSUME NEW T, NEW p \in Seq(T), NEW q \in Seq(T)
  PROVE  Open(p \o q) = Open(p) + Open(q)
<1> DEFINE m == Len(p)
           n == Len(q)
           A == {i \in 1 .. m : p[i].op \in Scoped}
           B == {i \in 1 .. n : q[i].op \in Scoped}
           C == {i \in m + 1 .. m + n : (p \o q)[i].op \in Scoped}
           f == [i \in B |-> i + m]
<1>1. /\ m \in Nat /\ n \in Nat /\ Len(p \o q) = m + n
      /\ \A i \in 1 .. m + n : (p \o q)[i] = IF i <= m THEN p[i] ELSE q[i - m]
  BY ConcatProperties, LenProperties
<1>2. \A i \in 1 .. m : (p \o q)[i] = p[i]
  BY <1>1
<1>3. \A i \in 1 .. n : (p \o q)[i + m] = q[i] /\ i + m \in m + 1 .. m + n /\ (i + m) - m = i
  BY <1>1
<1>4. \A i \in m + 1 .. m + n : i - m \in 1 .. n /\ (i - m) + m = i /\ (p \o q)[i] = q[i - m]
  BY <1>1
<1> HIDE DEF m, n
<1>5. IsFiniteSet(A) /\ IsFiniteSet(B) /\ IsFiniteSet(C)
  <2>1. IsFiniteSet(1 .. m) /\ IsFiniteSet(1 .. n) /\ IsFiniteSet(m + 1 .. m + n)
    <3>1. 1 \in Int /\ m \in Int /\ n \in Int /\ m + 1 \in Int /\ m + n \in Int
      BY <1>1
    <3>2. QED
      BY <3>1, FS_Interval
  <2>2. A \subseteq 1 .. m /\ B \subseteq 1 .. n /\ C \subseteq m + 1 .. m + n
    OBVIOUS
  <2> HIDE DEF A, B, C
  <2>3. QED
    BY <2>1, <2>2, FS_Subset
<1>6. {i \in 1 .. m + n : (p \o q)[i].op \in Scoped} = A \cup C
  BY <1>1, <1>2, <1>4
<1>7. A \cap C = {}
  BY <1>1
<1>8. f \in Bijection(B, C)
  <2>1. f \in [B -> C]
    BY <1>3
  <2>2. \A i, j \in B : f[i] = f[j] => i = j
    BY <1>1
  <2>3. \A k \in C : \E i \in B : f[i] = k
    <3> TAKE k \in C
    <3>1. k - m \in B /\ (k - m) + m = k
      BY <1>4
    <3>2. QED
      BY <3>1
  <2> HIDE DEF f, B, C
  <2>4. f \in Injection(B, C)
    BY <2>1, <2>2 DEF Injection, IsInjective
  <2>5. f \in Surjection(B, C)
    BY <2>1, <2>3 DEF Surjection
  <2>6. QED
    BY <2>4, <2>5 DEF Bijection
<1> HIDE DEF A, B, C, f
<1>9. Cardinality(C) = Cardinality(B)
  BY <1>5, <1>8, FS_Bijection DEF ExistsBijection
<1>10. Cardinality(A \cup C) = Cardinality(A) + Cardinality(C) - Cardinality(A \cap C)
  BY <1>5, FS_Union
<1>11. Cardinality(A \cap C) = 0
  BY <1>7, FS_EmptySet
<1>12. Cardinality(A) \in Nat /\ Cardinality(C) \in Nat
  BY <1>5, FS_CardinalityType
<1>13. Cardinality(A \cup C) = Cardinality(A) + Cardinality(B)
  BY <1>9, <1>10, <1>11, <1>12
<1>14. QED
  BY <1>1, <1>6, <1>13 DEF Open, A, B, m, n

LEMMA FrameMore ==
  ASSUME NEW last \in Nat, NEW more \in Nat, last <= more
  PROVE  FrameT(last) \subseteq FrameT(more)
<1>1. 0 .. last \subseteq 0 .. more
  OBVIOUS
<1>2. QED
  BY <1>1 DEF FrameT

LEMMA StackedMore ==
  ASSUME NEW last \in Nat, NEW more \in Nat, last <= more, NEW td, NEW depth, Stacked(td, last, depth)
  PROVE  Stacked(td, more, depth)
BY FrameMore, SeqMonotonic DEF Stacked

\* The entry on the top, and those below.
LEMMA StackedTop ==
  ASSUME NEW last \in Nat, NEW td, NEW depth, Stacked(td, last, depth)
  PROVE  /\ td[1] = Head(td) /\ Head(td) \in FrameT(last) /\ Len(td) \in Nat \ {0}
         /\ Head(td).op = "file" <=> Len(td) = 1
         /\ Head(td).op # "file" =>
              Stacked(Tail(td), last, IF Head(td).op \in Scoped THEN depth - 1 ELSE depth)
<1> DEFINE T == FrameT(last)
           q == Tail(td)
           h == Head(td)
<1>1. td \in Seq(T) /\ td # <<>> /\ Open(td) + 1 = depth
  BY DEF Stacked
<1> HIDE DEF T
<1>2. /\ h \in T /\ q \in Seq(T) /\ td = <<h>> \o q /\ Len(q) = Len(td) - 1
      /\ \A i \in 1 .. Len(q) : q[i] = td[i + 1]
  BY <1>1, HeadTailProperties, ConcatProperties
<1>3. Len(td) \in Nat \ {0} /\ td[1] = h
  BY <1>1, EmptySeq, HeadTailProperties
<1>4. h.op = "file" <=> Len(td) = 1
  <2>1. 1 \in 1 .. Len(td)
    BY <1>3
  <2>2. QED
    BY <1>3, <2>1 DEF Stacked
<1> HIDE DEF q, h
<1>5. ASSUME h.op # "file" PROVE Stacked(q, last, IF h.op \in Scoped THEN depth - 1 ELSE depth)
  <2>1. Len(q) \in Nat /\ Len(q) # 0
    BY <1>2, <1>3, <1>4, <1>5
  <2>2. q # <<>>
    BY <2>1, EmptySeq
  <2>3. \A i \in 1 .. Len(q) : q[i].op = "file" <=> i = Len(q)
    <3> TAKE i \in 1 .. Len(q)
    <3>1. i + 1 \in 1 .. Len(td) /\ (i + 1 = Len(td) <=> i = Len(q)) /\ q[i] = td[i + 1]
      BY <1>2, <1>3, <2>1
    <3>2. QED
      BY <3>1 DEF Stacked
  <2>4. <<h>> \in Seq(T)
    BY <1>2
  <2>5. Open(td) = Open(<<h>>) + Open(q)
    BY <1>2, <2>4, OpenConcat
  <2>6. Open(<<h>>) = (IF h.op \in Scoped THEN 1 ELSE 0) /\ Open(q) \in Nat
    BY <2>1, OpenOne, OpenNat
  <2>7. Open(q) + 1 = IF h.op \in Scoped THEN depth - 1 ELSE depth
    BY <1>1, <2>5, <2>6
  <2>8. QED
    BY <1>2, <2>2, <2>3, <2>7 DEF Stacked, T
<1>6. QED
  BY <1>2, <1>3, <1>4, <1>5 DEF T, q, h

LEMMA StackedPush ==
  ASSUME NEW last \in Nat, NEW td, NEW depth \in Nat, Stacked(td, last, depth),
         NEW ks, NEW k \in Nat, Frames(ks, last, k)
  PROVE  Stacked(ks \o td, last, depth + k)
<1> DEFINE T == FrameT(last)
           q == ks \o td
<1>1. td \in Seq(T) /\ td # <<>> /\ Open(td) + 1 = depth /\ ks \in Seq(T) /\ Open(ks) = k
  BY DEF Stacked, Frames
<1> HIDE DEF T
<1>2. /\ q \in Seq(T) /\ Len(q) = Len(ks) + Len(td)
      /\ \A i \in 1 .. Len(ks) + Len(td) : q[i] = IF i <= Len(ks) THEN ks[i] ELSE td[i - Len(ks)]
      /\ Len(ks) \in Nat /\ Len(td) \in Nat /\ Len(td) # 0
  BY <1>1, ConcatProperties, LenProperties, EmptySeq
<1>3. Open(q) = Open(ks) + Open(td) /\ Open(td) \in Nat
  BY <1>1, <1>2, OpenConcat, OpenNat
<1> HIDE DEF q
<1>4. q # <<>>
  <2>1. Len(q) # 0
    BY <1>2
  <2>2. QED
    BY <2>1, EmptySeq
<1>5. ASSUME NEW i \in 1 .. Len(q) PROVE q[i].op = "file" <=> i = Len(q)
  <2>1. CASE i <= Len(ks)
    <3>1. i \in 1 .. Len(ks) /\ i # Len(q) /\ q[i] = ks[i]
      BY <1>2, <2>1
    <3>2. QED
      BY <3>1 DEF Frames
  <2>2. CASE ~(i <= Len(ks))
    <3>1. i - Len(ks) \in 1 .. Len(td) /\ (i - Len(ks) = Len(td) <=> i = Len(q)) /\ q[i] = td[i - Len(ks)]
      BY <1>2, <2>2
    <3>2. QED
      BY <3>1 DEF Stacked
  <2>3. QED
    BY <2>1, <2>2
<1>6. Open(q) + 1 = depth + k
  BY <1>1, <1>3
<1>7. QED
  BY <1>2, <1>4, <1>5, <1>6 DEF Stacked, T, q

\* What is pushed begins with an entry that waits for no value.
Starting(ks) == ks # <<>> /\ ks[1].op \in Fresh

LEMMA FramesNone == ASSUME NEW last \in Nat PROVE Frames(<<>>, last, 0)
BY OpenEmpty, EmptySeq DEF Frames

LEMMA FramesOne ==
  ASSUME NEW last \in Nat, NEW f \in FrameT(last), f.op # "file"
  PROVE  /\ Frames(<<f>>, last, IF f.op \in Scoped THEN 1 ELSE 0)
         /\ f.op \in Fresh => Starting(<<f>>)
<1>1. <<f>> \in Seq(FrameT(last)) /\ Len(<<f>>) = 1 /\ <<f>>[1] = f /\ <<f>> # <<>>
  OBVIOUS
<1>2. QED
  BY <1>1, OpenOne DEF Frames, Starting

LEMMA FramesConcat ==
  ASSUME NEW last \in Nat, NEW p, NEW q, NEW i \in Nat, NEW j \in Nat,
         Frames(p, last, i), Frames(q, last, j)
  PROVE  Frames(p \o q, last, i + j) /\ (Starting(p) => Starting(p \o q))
<1> DEFINE T == FrameT(last)
           r == p \o q
<1>1. p \in Seq(T) /\ q \in Seq(T)
  BY DEF Frames
<1> HIDE DEF T
<1>2. /\ r \in Seq(T) /\ Len(r) = Len(p) + Len(q) /\ Len(p) \in Nat /\ Len(q) \in Nat
      /\ \A k \in 1 .. Len(p) + Len(q) : r[k] = IF k <= Len(p) THEN p[k] ELSE q[k - Len(p)]
  BY <1>1, ConcatProperties, LenProperties
<1>3. Open(r) = i + j
  BY <1>1, OpenConcat DEF Frames
<1> HIDE DEF r
<1>4. ASSUME NEW k \in 1 .. Len(r) PROVE r[k].op # "file"
  <2>1. CASE k <= Len(p)
    <3>1. k \in 1 .. Len(p) /\ r[k] = p[k]
      BY <1>2, <2>1
    <3>2. QED
      BY <3>1 DEF Frames
  <2>2. CASE ~(k <= Len(p))
    <3>1. k - Len(p) \in 1 .. Len(q) /\ r[k] = q[k - Len(p)]
      BY <1>2, <2>2
    <3>2. QED
      BY <3>1 DEF Frames
  <2>3. QED
    BY <2>1, <2>2
<1>5. ASSUME Starting(p) PROVE Starting(r)
  <2>1. Len(p) # 0
    BY <1>1, <1>5, EmptySeq DEF Starting
  <2>2. r[1] = p[1] /\ Len(r) # 0
    BY <1>2, <2>1
  <2>3. r # <<>>
    BY <2>2, EmptySeq
  <2>4. QED
    BY <1>5, <2>2, <2>3 DEF Starting
<1>6. QED
  BY <1>2, <1>3, <1>4, <1>5 DEF Frames, T, r

LEMMA FrameIs ==
  ASSUME NEW last \in Nat, NEW op \in Ops, NEW n \in 0 .. last, NEW flags \in Flags,
         NEW name \in Name \cup {NoName},
         op \in Giving => n # 0, op \in Naming => name \in Name
  PROVE  Frame(op, n, flags, name) \in FrameT(last) /\ Frame(op, n, flags, name).op = op
BY DEF Frame, FrameT

LEMMA FramesOn ==
  ASSUME NEW last \in Nat, NEW op \in Ops \ (Naming \cup {"file"}), NEW n \in 0 .. last,
         op \in Giving => n # 0
  PROVE  /\ Frames(On(op, n), last, IF op \in Scoped THEN 1 ELSE 0)
         /\ op \in Fresh => Starting(On(op, n))
<1>1. "" \in Flags /\ NoName \in Name \cup {NoName}
  BY DEF Flags
<1>2. op \in Ops /\ op \notin Naming /\ op # "file"
  OBVIOUS
<1> DEFINE f == Frame(op, n, "", NoName)
<1>3. f \in FrameT(last) /\ f.op = op
  BY <1>1, <1>2 DEF Frame, FrameT
<1>4. On(op, n) = <<f>>
  BY DEF On
<1> HIDE DEF f
<1>5. Frames(<<f>>, last, IF f.op \in Scoped THEN 1 ELSE 0) /\ (f.op \in Fresh => Starting(<<f>>))
  BY <1>2, <1>3, FramesOne
<1>6. QED
  BY <1>3, <1>4, <1>5

LEMMA FramesNamed ==
  ASSUME NEW last \in Nat, NEW op \in Naming, NEW n \in 0 .. last, NEW flags \in Flags,
         NEW name \in Name, op = "field" => n # 0
  PROVE  Frames(<<Frame(op, n, flags, name)>>, last, 0)
<1> DEFINE f == Frame(op, n, flags, name)
<1>1. op \in Ops /\ (op \in Giving => n # 0) /\ name \in Name \cup {NoName} /\ op \notin Scoped /\ op # "file"
  BY DEF Ops, Giving, Naming, Scoped
<1>2. f \in FrameT(last) /\ f.op = op
  BY <1>1, FrameIs
<1> HIDE DEF f
<1>3. Frames(<<f>>, last, 0)
  BY <1>1, <1>2, FramesOne
<1>4. QED
  BY <1>3 DEF f

LEMMA FramesExpr ==
  ASSUME NEW last \in Nat, NEW flags \in Flags
  PROVE  Frames(expr(flags), last, 0) /\ Starting(expr(flags))
<1> DEFINE f == Frame("prefix", 0, flags, NoName)
           g == Frame("infix", 0, flags, NoName)
<1>1. f \in FrameT(last) /\ f.op = "prefix" /\ g \in FrameT(last) /\ g.op = "infix"
  BY FrameIs DEF Ops, Giving, Naming, Scoped, Fresh
<1> HIDE DEF f, g
<1>2. Frames(<<f>>, last, 0) /\ Starting(<<f>>) /\ Frames(<<g>>, last, 0)
  BY <1>1, FramesOne DEF Scoped, Fresh
<1>3. Frames(<<f>> \o <<g>>, last, 0 + 0) /\ Starting(<<f>> \o <<g>>)
  BY <1>2, FramesConcat
<1>4. QED
  BY <1>2, <1>3 DEF expr, prefixExpr, infixExpr, f, g

-----------------------------------------------------------------------------
(* Steps of the parser.                                                     *)

\* A tree that is no smaller and a stack for it.
Grown(r) ==
  /\ Tree(r.a, Len(r.a)) /\ Len(ast) <= Len(r.a)
  /\ ScopesMean(r.s, Name, env, leaked, Len(r.a))
  /\ r.n \in 0 .. Len(r.a)

LEMMA HoldsGrown ==
  ASSUME NEW r, Len(ast) \in Nat, Holds(r, Len(ast)) PROVE Grown(r) /\ r.n # 0
<1>1. Tree(r.a, Len(ast)) /\ ScopesMean(r.s, Name, env, leaked, Len(ast)) /\ r.n \in 1 .. Len(r.a)
  BY DEF Holds
<1>2. Len(r.a) \in Nat /\ Len(ast) <= Len(r.a)
  BY <1>1 DEF Tree
<1>3. Tree(r.a, Len(r.a))
  BY <1>1, <1>2, TreeMore
<1>4. ScopesMean(r.s, Name, env, leaked, Len(r.a))
  BY <1>1, <1>2, MeansMore
<1>5. QED
  BY <1>1, <1>2, <1>3, <1>4 DEF Grown

\* The stack below an entry, and the entry.
LEMMA Below ==
  ASSUME IInv, status = "parse"
  PROVE  /\ Stacked(todo, Len(ast), Len(env)) /\ Stacked(Ended, Len(ast), Len(env))
         /\ Len(ast) \in Nat /\ Len(env) \in Nat \ {0}
         /\ Top \in FrameT(Len(ast)) /\ Head(todo) \in FrameT(Len(ast))
         /\ Head(todo).op \notin Fresh => val \in 1 .. Len(ast)
         /\ Top.op \notin Fresh => val \in 1 .. Len(ast)
         /\ Top.op = "file" <=> Len(Ended) = 1
         /\ Top.op # "file" =>
              Stacked(Tail(Ended), Len(ast), IF Top.op \in Scoped THEN Len(env) - 1 ELSE Len(env))
<1>1. /\ Stacked(todo, Len(ast), Len(env)) /\ Given(val, todo) /\ val \in 0 .. Len(ast)
      /\ Len(ast) \in Nat
  BY DEF IInv, Control, Parsing, Tree
<1>2. Len(env) \in Nat \ {0}
  <2>1. ScopesMean(scope, Name, env, leaked, Len(ast))
    BY DEF IInv
  <2>2. QED
    BY <1>1, <2>1, MeansStack, Zenon
<1>3. /\ todo[1] = Head(todo) /\ Head(todo) \in FrameT(Len(ast))
      /\ Head(todo).op # "file" =>
           Stacked(Tail(todo), Len(ast), IF Head(todo).op \in Scoped THEN Len(env) - 1 ELSE Len(env))
  BY <1>1, StackedTop
<1>4. Stacked(Ended, Len(ast), Len(env))
  BY <1>1, <1>3 DEF Ended, Scoped
<1>5. /\ Top \in FrameT(Len(ast)) /\ (Top.op = "file" <=> Len(Ended) = 1)
      /\ Top.op # "file" =>
           Stacked(Tail(Ended), Len(ast), IF Top.op \in Scoped THEN Len(env) - 1 ELSE Len(env))
  BY <1>1, <1>4, StackedTop DEF Top
<1>6. Head(todo).op \notin Fresh => val \in 1 .. Len(ast)
  BY <1>1, <1>3 DEF Given
<1>7. Top.op \notin Fresh => val \in 1 .. Len(ast)
  <2>1. CASE Head(todo).op = "infix"
    BY <1>6, <2>1 DEF Fresh
  <2>2. CASE Head(todo).op # "infix"
    BY <1>6, <2>2 DEF Top, Ended
  <2>3. QED
    BY <2>1, <2>2
<1>8. QED
  BY <1>1, <1>2, <1>3, <1>4, <1>5, <1>6, <1>7

LEMMA PackageMore ==
  ASSUME NEW p, NEW e, NEW l, NEW last \in Nat, NEW more \in Nat, last <= more,
         PackageMeans(p, e, l, last)
  PROVE  PackageMeans(p, e, l, more)
<1>1. 0 .. last \subseteq 0 .. more
  OBVIOUS
<1>2. QED
  BY <1>1 DEF PackageMeans

LEMMA TakenFits ==
  ASSUME IInv, Take \/ UNCHANGED taken, Fits, Len(todo') \in Nat, DOMAIN todo' = 1 .. Len(todo')
  PROVE  taken' \in 0 .. MaxSource
<1> DEFINE S == {i \in DOMAIN todo' : todo'[i].op = "prefix"}
<1>1. taken' \in Nat
  BY DEF IInv, Control, Take
<1>2. IsFiniteSet(S)
  <2>1. IsFiniteSet(1 .. Len(todo'))
    BY FS_Interval
  <2>2. S \subseteq 1 .. Len(todo')
    OBVIOUS
  <2>3. QED
    BY <2>1, <2>2, FS_Subset
<1>3. Cardinality(S) \in Nat
  BY <1>2, FS_CardinalityType
<1>4. taken' + Cardinality(S) <= MaxSource
  BY DEF Fits
<1>5. QED
  BY <1>1, <1>3, <1>4, ParserAssumption

\* A step of the parser after which it goes on.
LEMMA Goes ==
  ASSUME IInv, NEW r, NEW stack, Put(r, stack), status' = "parse", Take \/ UNCHANGED taken,
         next' \in {"semi", "any"},
         Tree(r.a, Len(r.a)), Bad <= Len(r.a), r.n \in 0 .. Len(r.a),
         ScopesMean(r.s, Name, env', leaked', Len(r.a)),
         PackageMeans(pkgscope', env', leaked', Len(r.a)),
         Stacked(stack, Len(r.a), Len(env')), Given(r.n, stack)
  PROVE  IInv'
<1>1. ast' = r.a /\ scope' = r.s /\ val' = r.n /\ todo' = stack /\ Fits
  BY DEF Put
<1>2. Len(todo') \in Nat /\ DOMAIN todo' = 1 .. Len(todo')
  BY <1>1, LenProperties DEF Stacked
<1>3. taken' \in 0 .. MaxSource
  BY <1>1, <1>2, TakenFits
<1>4. QED
  BY <1>1, <1>3 DEF IInv, Control, Parsing

\* The scopes stay.
Still == pkgscope' = pkgscope /\ status' = status /\ env' = env /\ leaked' = leaked

LEMMA QuietStill == ASSUME Quiet PROVE Still
BY DEF Quiet, history, Still

LEMMA StillGoes ==
  ASSUME IInv, status = "parse", NEW r, NEW stack, Put(r, stack), Still, Take \/ UNCHANGED taken,
         next' \in {"semi", "any"}, Grown(r),
         Stacked(stack, Len(r.a), Len(env)), Given(r.n, stack)
  PROVE  IInv'
<1>1. Tree(ast, Len(ast)) /\ Bad <= Len(ast) /\ PackageMeans(pkgscope, env, leaked, Len(ast))
  BY DEF IInv, Control
<1>2. Len(r.a) \in Nat /\ Len(ast) <= Len(r.a) /\ Len(ast) \in Nat
  BY <1>1 DEF Grown, Tree
<1>3. PackageMeans(pkgscope, env, leaked, Len(r.a))
  BY <1>1, <1>2, PackageMore
<1>4. pkgscope' = pkgscope /\ status' = "parse" /\ env' = env /\ leaked' = leaked
  BY DEF Still
<1>5. Bad <= Len(r.a)
  BY <1>1, <1>2 DEF Bad
<1>6. QED
  BY <1>3, <1>4, <1>5, Goes DEF Grown

LEMMA StackedGiven ==
  ASSUME NEW last \in Nat, NEW td, NEW depth \in Nat, Stacked(td, last, depth),
         NEW ks, NEW k \in Nat, Frames(ks, last, k), NEW v, v # 0 \/ Starting(ks)
  PROVE  Stacked(ks \o td, last, depth + k) /\ Given(v, ks \o td)
<1>1. Stacked(ks \o td, last, depth + k)
  BY StackedPush
<1>2. ASSUME Starting(ks) PROVE (ks \o td)[1] = ks[1]
  <2>1. ks \in Seq(FrameT(last)) /\ td \in Seq(FrameT(last)) /\ ks # <<>>
    BY <1>2 DEF Frames, Stacked, Starting
  <2>2. Len(ks) \in Nat \ {0} /\ Len(td) \in Nat
    BY <2>1, EmptySeq, LenProperties
  <2>3. 1 \in 1 .. Len(ks) + Len(td) /\ 1 <= Len(ks)
    BY <2>2
  <2>4. QED
    BY <2>1, <2>3, ConcatProperties
<1>3. QED
  BY <1>1, <1>2 DEF Given, Starting

\* The entry on the top gives place to others.
LEMMA GoQuiet ==
  ASSUME IInv, status = "parse", NEW r, NEW ks, Go(r, ks), Quiet, Take \/ UNCHANGED taken,
         next' \in {"semi", "any"}, Grown(r), Top.op # "file",
         Frames(ks, Len(r.a), IF Top.op \in Scoped THEN 1 ELSE 0), r.n # 0 \/ Starting(ks)
  PROVE  IInv'
<1> DEFINE k == IF Top.op \in Scoped THEN 1 ELSE 0
           td == Tail(Ended)
           depth == IF Top.op \in Scoped THEN Len(env) - 1 ELSE Len(env)
<1>1. Stacked(td, Len(ast), depth) /\ Len(env) \in Nat \ {0} /\ Len(ast) \in Nat
  BY Below
<1>2. depth \in Nat /\ k \in Nat /\ depth + k = Len(env)
  BY <1>1
<1>3. Len(r.a) \in Nat /\ Len(ast) <= Len(r.a)
  BY DEF Grown, Tree
<1>4. Put(r, ks \o td)
  BY DEF Go
<1> HIDE DEF td, depth, k
<1>5. Stacked(td, Len(r.a), depth)
  BY <1>1, <1>3, StackedMore
<1>6. Stacked(ks \o td, Len(r.a), depth + k) /\ Given(r.n, ks \o td)
  BY <1>2, <1>3, <1>5, StackedGiven DEF k
<1>7. QED
  BY <1>2, <1>4, <1>6, QuietStill, StillGoes

\* Others go on top of all entries.
LEMMA LoopStill ==
  ASSUME IInv, status = "parse", NEW r, NEW ks, Loop(r, ks), Still, Take \/ UNCHANGED taken,
         next' \in {"semi", "any"}, Grown(r), Frames(ks, Len(r.a), 0), r.n # 0 \/ Starting(ks)
  PROVE  IInv'
<1>1. Stacked(todo, Len(ast), Len(env)) /\ Len(env) \in Nat \ {0} /\ Len(ast) \in Nat
  BY Below
<1>2. Len(r.a) \in Nat /\ Len(ast) <= Len(r.a)
  BY DEF Grown, Tree
<1>3. Put(r, ks \o todo)
  BY DEF Loop
<1>4. Stacked(todo, Len(r.a), Len(env))
  BY <1>1, <1>2, StackedMore
<1>5. Stacked(ks \o todo, Len(r.a), Len(env) + 0) /\ Given(r.n, ks \o todo)
  BY <1>1, <1>2, <1>4, StackedGiven
<1>6. Len(env) + 0 = Len(env)
  BY <1>1
<1>7. QED
  BY <1>3, <1>5, <1>6, StillGoes

\* An entry comes back after the others.
LEMMA Returns ==
  ASSUME IInv, status = "parse", NEW last \in Nat, Len(ast) <= last, NEW ks, Frames(ks, last, 0)
  PROVE  (ks \o <<Top>>) \o Tail(Ended) = ks \o Ended
<1> DEFINE T == FrameT(last)
<1>1. Stacked(Ended, Len(ast), Len(env)) /\ Len(ast) \in Nat
  BY Below
<1>2. Stacked(Ended, last, Len(env))
  BY <1>1, StackedMore
<1>3. Ended \in Seq(T) /\ Ended # <<>> /\ ks \in Seq(T)
  BY <1>2 DEF Stacked, Frames
<1> HIDE DEF T
<1>4. Top \in T /\ Tail(Ended) \in Seq(T) /\ <<Top>> \o Tail(Ended) = Ended
  BY <1>3, HeadTailProperties, ConcatProperties DEF Top
<1>5. <<Top>> \in Seq(T)
  BY <1>4
<1>6. (ks \o <<Top>>) \o Tail(Ended) = ks \o (<<Top>> \o Tail(Ended))
  BY <1>3, <1>4, <1>5, ConcatAssociative
<1>7. QED
  BY <1>4, <1>6

LEMMA AgainQuiet ==
  ASSUME IInv, status = "parse", NEW r, NEW ks, Go(r, ks \o <<Top>>), Quiet, Take \/ UNCHANGED taken,
         next' \in {"semi", "any"}, Grown(r), Frames(ks, Len(r.a), 0), r.n # 0 \/ Starting(ks)
  PROVE  IInv'
<1>1. Stacked(Ended, Len(ast), Len(env)) /\ Len(env) \in Nat \ {0} /\ Len(ast) \in Nat
  BY Below
<1>2. Len(r.a) \in Nat /\ Len(ast) <= Len(r.a)
  BY DEF Grown, Tree
<1>3. Put(r, ks \o Ended)
  BY <1>2, Returns DEF Go
<1>4. Stacked(Ended, Len(r.a), Len(env))
  BY <1>1, <1>2, StackedMore
<1>5. Stacked(ks \o Ended, Len(r.a), Len(env) + 0) /\ Given(r.n, ks \o Ended)
  BY <1>1, <1>2, <1>4, StackedGiven
<1>6. Len(env) + 0 = Len(env)
  BY <1>1
<1>7. QED
  BY <1>3, <1>5, <1>6, QuietStill, StillGoes

\* The current tree and stack, and what they become when a node is added.
LEMMA Current ==
  ASSUME IInv
  PROVE  /\ Tree(ast, Len(ast)) /\ Bad <= Len(ast) /\ Len(ast) \in Nat
         /\ New \in Nat /\ Len(ast) < New
         /\ PackageMeans(pkgscope, env, leaked, Len(ast))
         /\ ScopesMean(scope, Name, env, leaked, Len(ast))
         /\ val \in 0 .. Len(ast)
BY DEF IInv, Control, Tree, New

LEMMA TreeGrown ==
  ASSUME IInv, NEW a, NEW last, NEW n, Tree(a, last), last \in {Len(ast), Len(a)},
         Len(ast) <= Len(a), n \in 0 .. Len(a)
  PROVE  Grown(Result(a, scope, n)) /\ Result(a, scope, n).a = a /\ Result(a, scope, n).n = n
<1>1. Len(ast) \in Nat /\ Len(a) \in Nat /\ ScopesMean(scope, Name, env, leaked, Len(ast))
  BY Current DEF Tree
<1>2. Tree(a, Len(a))
  <2>1. last \in Nat /\ last <= Len(a)
    BY <1>1
  <2>2. QED
    BY <1>1, <2>1, TreeMore
<1>3. ScopesMean(scope, Name, env, leaked, Len(a))
  BY <1>1, MeansMore
<1>4. QED
  BY <1>2, <1>3 DEF Grown, Result

LEMMA AppendGrown ==
  ASSUME IInv, NEW d \in NodeT(Len(ast))
  PROVE  /\ Tree(Append(ast, d), Len(ast)) /\ Len(Append(ast, d)) = New
         /\ Tree(Append(ast, d), New)
<1>1. Tree(ast, Len(ast)) /\ Len(ast) \in Nat
  BY Current
<1>2. Tree(Append(ast, d), Len(ast)) /\ Len(Append(ast, d)) = Len(ast) + 1
  BY <1>1, TreeAppend
<1>3. Tree(Append(ast, d), Len(ast) + 1)
  <2>1. Len(ast) + 1 \in Nat /\ Len(ast) <= Len(ast) + 1 /\ Len(ast) + 1 <= Len(Append(ast, d))
    BY <1>1, <1>2
  <2>2. QED
    BY <1>1, <1>2, <2>1, TreeMore
<1>4. QED
  BY <1>2, <1>3 DEF New

LEMMA GiveQuiet ==
  ASSUME IInv, status = "parse", Quiet, Take \/ UNCHANGED taken, next' \in {"semi", "any"},
         Top.op \notin Scoped, Top.op # "file",
         NEW a, NEW last, NEW n, Tree(a, last), last \in {Len(ast), Len(a)}, Len(ast) <= Len(a),
         n \in 1 .. Len(a), Return(a, n)
  PROVE  IInv'
<1> DEFINE r == Result(a, scope, n)
<1>1. Len(a) \in Nat /\ n \in 0 .. Len(a) /\ n # 0
  BY DEF Tree
<1>2. Grown(r) /\ r.a = a /\ r.n = n
  BY <1>1, TreeGrown
<1>3. Go(r, <<>>)
  BY DEF Return
<1> HIDE DEF r
<1>4. Frames(<<>>, Len(r.a), 0)
  BY <1>1, <1>2, FramesNone
<1>5. QED
  BY <1>1, <1>2, <1>3, <1>4, GoQuiet

LEMMA ThenQuiet ==
  ASSUME IInv, status = "parse", Quiet, Take \/ UNCHANGED taken, next' \in {"semi", "any"},
         Top.op # "file",
         NEW a, NEW last, NEW ks, Tree(a, last), last \in {Len(ast), Len(a)}, Len(ast) <= Len(a),
         Then(a, ks), Frames(ks, Len(a), IF Top.op \in Scoped THEN 1 ELSE 0), val # 0 \/ Starting(ks)
  PROVE  IInv'
<1> DEFINE r == Result(a, scope, val)
<1>1. Len(a) \in Nat /\ val \in 0 .. Len(a)
  BY Current DEF Tree
<1>2. Grown(r) /\ r.a = a /\ r.n = val
  BY <1>1, TreeGrown
<1>3. Go(r, ks)
  BY DEF Then
<1> HIDE DEF r
<1>4. QED
  BY <1>2, <1>3, GoQuiet

LEMMA ThenAgain ==
  ASSUME IInv, status = "parse", Quiet, Take \/ UNCHANGED taken, next' \in {"semi", "any"},
         NEW a, NEW last, NEW ks, Tree(a, last), last \in {Len(ast), Len(a)}, Len(ast) <= Len(a),
         Then(a, ks \o <<Top>>), Frames(ks, Len(a), 0), val # 0 \/ Starting(ks)
  PROVE  IInv'
<1> DEFINE r == Result(a, scope, val)
<1>1. Len(a) \in Nat /\ val \in 0 .. Len(a)
  BY Current DEF Tree
<1>2. Grown(r) /\ r.a = a /\ r.n = val
  BY <1>1, TreeGrown
<1>3. Go(r, ks \o <<Top>>)
  BY DEF Then
<1> HIDE DEF r
<1>4. QED
  BY <1>2, <1>3, AgainQuiet

\* An expression, and what waits for it.
LEMMA FramesWait ==
  ASSUME NEW last \in Nat, NEW flags \in Flags, NEW ks, NEW k \in Nat, Frames(ks, last, k)
  PROVE  Frames(expr(flags) \o ks, last, k) /\ Starting(expr(flags) \o ks)
<1>1. Frames(expr(flags), last, 0) /\ Starting(expr(flags))
  BY FramesExpr
<1>2. Frames(expr(flags) \o ks, last, 0 + k) /\ Starting(expr(flags) \o ks)
  BY <1>1, FramesConcat
<1>3. QED
  BY <1>2

-----------------------------------------------------------------------------
(* Prefix parselets.                                                        *)

LEMMA StepPLiteral == ASSUME IInv, PLiteral PROVE IInv'
<1> DEFINE n == IF Top.flags = "type" THEN Prim ELSE Lit
<1>1. status = "parse" /\ Quiet /\ Take /\ next' = "any" /\ Top.op = "prefix" /\ Return(ast, n)
  BY DEF PLiteral, Prefix, At, Consumed
<1>2. n \in 1 .. Len(ast) /\ Tree(ast, Len(ast)) /\ Len(ast) \in Nat
  BY Current DEF Prim, Lit, Bad
<1> HIDE DEF n
<1>3. Top.op \notin Scoped /\ Top.op # "file" /\ next' \in {"semi", "any"}
  BY <1>1 DEF Scoped
<1>4. QED
  BY <1>1, <1>2, <1>3, GiveQuiet

LEMMA StepPId == ASSUME IInv, PId PROVE IInv'
<1>1. PICK name \in Name :
         LET a == NewId(ast, name)
         IN \/ /\ next' \in {"semi", "any"}
               /\ Go(Drop(resolve_id(a, scope, New, Yes), New), <<>>)
            \/ /\ next' \in {"semi", "any"}
               /\ Return(a, New)
  BY DEF PId, NewId, Consumed, Yes
<1>2. status = "parse" /\ Quiet /\ Take /\ Top.op = "prefix" /\ Top.op \notin Scoped /\ Top.op # "file"
  BY DEF PId, Prefix, At, Scoped
<1>3. next' \in {"semi", "any"}
  BY <1>1
<1> DEFINE a == NewId(ast, name)
           q == resolve_id(a, scope, New, Yes)
           r == Drop(q, New)
<1>4. Tree(ast, Len(ast)) /\ Len(ast) \in Nat /\ Bad <= Len(ast)
      /\ PackageMeans(pkgscope, env, leaked, Len(ast)) /\ ScopesMean(scope, Name, env, leaked, Len(ast))
  BY Current
<1>5. Tree(a, Len(ast)) /\ Len(a) = New
  <2>1. named("Id", name) \in NodeT(Len(ast))
    BY <1>4, NamedT DEF Kinds
  <2>2. QED
    BY <2>1, AppendGrown DEF NewId
<1>6. CASE Go(r, <<>>)
  <2>1. Holds(q, Len(ast)) /\ Len(q.a) = Len(ast) + 1 /\ q.n \in {Prim, Len(ast) + 1}
    BY <1>4, NewIdHolds DEF New
  <2> HIDE DEF q
  <2>2. Holds(r, Len(ast))
    BY <1>4, <2>1, DropHolds DEF New
  <2> HIDE DEF r
  <2>3. Grown(r) /\ r.n # 0
    BY <1>4, <2>2, HoldsGrown
  <2>4. Frames(<<>>, Len(r.a), 0)
    BY <2>3, FramesNone DEF Grown, Tree
  <2>5. QED
    BY <1>2, <1>3, <1>6, <2>3, <2>4, GoQuiet
<1>7. CASE Return(a, New)
  <2>1. New \in 1 .. Len(a) /\ Len(ast) <= Len(a)
    BY <1>4, <1>5 DEF New
  <2> HIDE DEF a
  <2>2. QED
    BY <1>2, <1>3, <1>5, <1>7, <2>1, GiveQuiet
<1>8. QED
  BY <1>1, <1>6, <1>7

LEMMA StepPVarOrConst == ASSUME IInv, PVarOrConst PROVE IInv'
<1>1. PICK name \in Name, keyword \in {"var", "const"} :
        \/ Then(ast, expr("type") \o <<Frame("vartype", 0, keyword, name)>>)
        \/ Then(ast, expr("rvalue") \o <<Frame("mkvar", 0, keyword, name)>>)
  BY DEF PVarOrConst
<1>2. status = "parse" /\ Quiet /\ Take /\ Top.op = "prefix" /\ Top.op \notin Scoped /\ Top.op # "file"
      /\ next' \in {"semi", "any"}
  BY DEF PVarOrConst, Prefix, At, Scoped, Consumed
<1>3. Tree(ast, Len(ast)) /\ Len(ast) \in Nat
  BY Current
<1>4. ASSUME NEW flags \in Flags, NEW op \in {"vartype", "mkvar"},
             Then(ast, expr(flags) \o <<Frame(op, 0, keyword, name)>>)
      PROVE  IInv'
  <2> DEFINE f == Frame(op, 0, keyword, name)
  <2>1. op \in Naming /\ op # "field"
    BY DEF Naming
  <2>0. 0 \in 0 .. Len(ast)
    BY <1>3
  <2>5. keyword \in Flags
    BY <1>1 DEF Flags
  <2>2. Frames(<<f>>, Len(ast), 0)
    BY <1>3, <2>0, <2>1, <2>5, FramesNamed
  <2> HIDE DEF f
  <2>3. Frames(expr(flags) \o <<f>>, Len(ast), 0) /\ Starting(expr(flags) \o <<f>>)
    BY <1>3, <2>2, FramesWait
  <2>4. QED
    BY <1>2, <1>3, <1>4, <2>3, ThenQuiet DEF f
<1>5. QED
  BY <1>1, <1>4 DEF Flags

\* A node whose child follows.
LEMMA FramesChild ==
  ASSUME NEW last \in Nat, NEW flags \in Flags, NEW n \in 1 .. last,
         NEW op \in {"child", "list", "convert", "as"}
  PROVE  /\ Frames(expr(flags) \o On(op, n), last, 0)
         /\ Starting(expr(flags) \o On(op, n))
         /\ Frames(On(op, n), last, 0)
<1>1. op \in Ops \ (Naming \cup {"file"}) /\ op \notin Scoped /\ n \in 0 .. last /\ n # 0
  BY DEF Ops, Naming, Scoped, Giving
<1>2. Frames(On(op, n), last, 0)
  BY <1>1, FramesOn
<1>3. QED
  BY <1>2, FramesWait

LEMMA StepOpens ==
  ASSUME IInv, NEW kind \in Kinds \ {"Id"}, NEW flagss, NEW operand \in Flags, Opens(kind, flagss, operand)
  PROVE  IInv'
<1>1. /\ status = "parse" /\ Quiet /\ Take /\ Top.op = "prefix" /\ Top.op \notin Scoped /\ Top.op # "file"
      /\ next' \in {"semi", "any"}
      /\ Then(Append(ast, mknode(kind)), expr(operand) \o On("child", New))
  BY DEF Opens, Prefix, At, Scoped, Consumed
<1> DEFINE a == Append(ast, mknode(kind))
           ks == expr(operand) \o On("child", New)
<1>2. Len(ast) \in Nat /\ New \in Nat /\ Len(ast) < New
  BY Current
<1>3. Tree(a, Len(ast)) /\ Len(a) = New /\ Len(ast) <= Len(a)
  <2>1. mknode(kind) \in NodeT(Len(ast))
    BY <1>2, MknodeT
  <2>2. QED
    BY <1>2, <2>1, AppendGrown
<1>4. Frames(ks, Len(a), 0) /\ Starting(ks)
  <2>1. New \in 1 .. New /\ New \in Nat
    BY <1>2
  <2>2. QED
    BY <1>3, <2>1, FramesChild
<1> HIDE DEF a, ks
<1>5. Then(a, ks)
  BY <1>1 DEF a, ks
<1>6. QED
  BY <1>1, <1>3, <1>4, <1>5, ThenQuiet

LEMMA StepPPrefixOp == ASSUME IInv, PPrefixOp PROVE IInv'
<1>1. Opens("Unary", anywhere, "operand") \/ Opens("Ref", anywhere, "rvalue")
  BY DEF PPrefixOp
<1>2. /\ "Unary" \in Kinds \ {"Id"} /\ "Ref" \in Kinds \ {"Id"}
      /\ "operand" \in Flags /\ "rvalue" \in Flags
  BY DEF Kinds, Flags
<1>3. QED
  BY <1>1, <1>2, StepOpens

LEMMA StepRefType == ASSUME IInv, pRefType PROVE IInv'
<1>1. "RefType" \in Kinds \ {"Id"} /\ "type" \in Flags
  BY DEF Kinds, Flags
<1>2. QED
  BY <1>1, StepOpens DEF pRefType

LEMMA StepPReturn == ASSUME IInv, PReturn PROVE IInv'
<1>1. "Return" \in Kinds \ {"Id"} /\ "rvalue" \in Flags
  BY DEF Kinds, Flags
<1>2. QED
  BY <1>1, StepOpens DEF PReturn

LEMMA StepArrayLit == ASSUME IInv, pArrayLit PROVE IInv'
<1> DEFINE a == Append(ast, mknode("Array"))
           ks == expr("rvalue") \o On("list", New)
<1>1. /\ status = "parse" /\ Quiet /\ Take /\ Top.op = "prefix" /\ Top.op \notin Scoped /\ Top.op # "file"
      /\ next' \in {"semi", "any"}
      /\ Return(a, New) \/ Then(a, ks)
  BY DEF pArrayLit, Prefix, At, Scoped, Consumed
<1>2. Len(ast) \in Nat /\ New \in Nat /\ Len(ast) < New /\ New \in 1 .. New
  BY Current
<1>3. Tree(a, Len(ast)) /\ Len(a) = New /\ Len(ast) <= Len(a)
  <2>1. mknode("Array") \in NodeT(Len(ast))
    BY <1>2, MknodeT DEF Kinds
  <2>2. QED
    BY <1>2, <2>1, AppendGrown
<1>4. Frames(ks, Len(a), 0) /\ Starting(ks)
  <2>1. "rvalue" \in Flags
    BY DEF Flags
  <2>2. QED
    BY <1>2, <1>3, <2>1, FramesChild
<1> HIDE DEF a, ks
<1>5. CASE Return(a, New)
  BY <1>1, <1>2, <1>3, <1>5, GiveQuiet
<1>6. CASE Then(a, ks)
  BY <1>1, <1>3, <1>4, <1>6, ThenQuiet
<1>7. QED
  BY <1>1, <1>5, <1>6

LEMMA StepPIf == ASSUME IInv, PIf PROVE IInv'
<1> DEFINE a == Append(ast, mknode("If"))
           f == Frame("then", New, Top.flags, NoName)
           ks == expr("rvalue") \o <<f>>
<1>1. /\ status = "parse" /\ Quiet /\ Take /\ Top.op = "prefix" /\ Top.op \notin Scoped /\ Top.op # "file"
      /\ next' \in {"semi", "any"}
      /\ Then(a, ks)
  BY DEF PIf, Prefix, At, Scoped, Consumed
<1>2. Len(ast) \in Nat /\ New \in Nat /\ Len(ast) < New /\ New \in 0 .. New /\ New # 0
  BY Current
<1>3. Tree(a, Len(ast)) /\ Len(a) = New /\ Len(ast) <= Len(a)
  <2>1. mknode("If") \in NodeT(Len(ast))
    BY <1>2, MknodeT DEF Kinds
  <2>2. QED
    BY <1>2, <2>1, AppendGrown
<1>4. Frames(ks, Len(a), 0) /\ Starting(ks)
  <2>1. Top.flags \in Flags
    BY <1>1, Below DEF FrameT
  <2>2. "then" \in Ops /\ "then" \notin Naming /\ "then" \notin Scoped /\ NoName \in Name \cup {NoName}
    BY DEF Ops, Giving, Naming, Scoped
  <2>3. f \in FrameT(New) /\ f.op = "then"
    BY <1>2, <2>1, <2>2, FrameIs
  <2> HIDE DEF f
  <2>4. Frames(<<f>>, New, 0)
    BY <1>2, <2>2, <2>3, FramesOne
  <2>5. "rvalue" \in Flags
    BY DEF Flags
  <2>6. QED
    BY <1>2, <1>3, <2>4, <2>5, FramesWait
<1> HIDE DEF a, ks
<1>5. QED
  BY <1>1, <1>3, <1>4, ThenQuiet

-----------------------------------------------------------------------------
(* Steps that open, close and fill scopes.                                  *)

LEMMA GoScopes ==
  ASSUME IInv, status = "parse", NEW r, NEW ks, Go(r, ks), status' = "parse", Take \/ UNCHANGED taken,
         next' \in {"semi", "any"}, Top.op # "file",
         Tree(r.a, Len(r.a)), Len(ast) <= Len(r.a), r.n \in 0 .. Len(r.a),
         ScopesMean(r.s, Name, env', leaked', Len(r.a)),
         PackageMeans(pkgscope', env', leaked', Len(r.a)),
         NEW k \in Nat, Frames(ks, Len(r.a), k), r.n # 0 \/ Starting(ks),
         Len(env') = (IF Top.op \in Scoped THEN Len(env) - 1 ELSE Len(env)) + k
  PROVE  IInv'
<1> DEFINE td == Tail(Ended)
           depth == IF Top.op \in Scoped THEN Len(env) - 1 ELSE Len(env)
<1>1. Stacked(td, Len(ast), depth) /\ Len(env) \in Nat \ {0} /\ Len(ast) \in Nat
  BY Below
<1>2. depth \in Nat /\ depth + k = Len(env')
  BY <1>1
<1>3. Len(r.a) \in Nat /\ Len(ast) <= Len(r.a)
  BY DEF Tree
<1>4. Put(r, ks \o td)
  BY DEF Go
<1> HIDE DEF td, depth
<1>5. Stacked(td, Len(r.a), depth)
  BY <1>1, <1>3, StackedMore
<1>6. Stacked(ks \o td, Len(r.a), depth + k) /\ Given(r.n, ks \o td)
  BY <1>2, <1>3, <1>5, StackedGiven
<1>7. Bad <= Len(r.a)
  BY <1>1, <1>3, Current DEF Bad
<1>8. QED
  BY <1>2, <1>4, <1>6, <1>7, Goes

LEMMA PackageOpen ==
  ASSUME NEW p, NEW e, NEW l, NEW last \in Nat, PackageMeans(p, e, l, last),
         e \in Seq(Bindings(Name, last)), e # <<>>, NEW m, l => m
  PROVE  PackageMeans(p, Append(e, Blank(Name)), m, last)
<1>1. 1 \in 1 .. Len(e)
  BY EmptySeq
<1>2. Append(e, Blank(Name))[1] = e[1]
  BY <1>1, OpenIs
<1> DEFINE f == Append(e, Blank(Name))
<1> HIDE DEF f
<1>3. QED
  BY <1>2 DEF PackageMeans, f

LEMMA PackageClose ==
  ASSUME NEW p, NEW e, NEW l, NEW last \in Nat, PackageMeans(p, e, l, last),
         e \in Seq(Bindings(Name, last)), 2 <= Len(e)
  PROVE  PackageMeans(p, Closed(e), l, last)
<1>1. Len(e) \in Nat
  BY LenProperties
<1>2. 1 \in 1 .. Len(e) - 1
  BY <1>1
<1>3. Closed(e)[1] = e[1]
  BY <1>2, ClosedIs
<1>4. QED
  BY <1>3 DEF PackageMeans

LEMMA PackageDefine ==
  ASSUME NEW p, NEW e, NEW l, NEW last \in Nat, PackageMeans(p, e, l, last),
         e \in Seq(Bindings(Name, last)), e # <<>>,
         NEW base, ~l => (base = 0 <=> Len(e) = 1),
         NEW key \in Name, NEW n \in 1 .. last
  PROVE  PackageMeans(IF base = 0 THEN [p EXCEPT ![key] = n] ELSE p, Rebound(e, key, n), l, last)
<1> DEFINE q == IF base = 0 THEN [p EXCEPT ![key] = n] ELSE p
           f == Rebound(e, key, n)
<1>1. n \in 0 .. last /\ 1 \in 1 .. Len(e)
  BY EmptySeq
<1>2. \A nm \in Name : \A d \in 1 .. Len(e) : f[d][nm] = IF d = Len(e) /\ nm = key THEN n ELSE e[d][nm]
  BY <1>1, ReboundIs
<1>3. \A nm \in Name : f[1][nm] = IF Len(e) = 1 /\ nm = key THEN n ELSE e[1][nm]
  BY <1>1, <1>2
<1>4. p \in [Name -> 0 .. last]
  BY DEF PackageMeans
<1>5. q \in [Name -> 0 .. last] /\ \A nm \in Name : q[nm] = IF base = 0 /\ nm = key THEN n ELSE p[nm]
  BY <1>1, <1>4
<1> HIDE DEF f, q
<1>6. ASSUME ~l, NEW nm \in Name PROVE (IF q[nm] = 0 THEN GlobalScope[nm] ELSE q[nm]) = f[1][nm]
  <2>1. (IF p[nm] = 0 THEN GlobalScope[nm] ELSE p[nm]) = e[1][nm]
    BY <1>6 DEF PackageMeans
  <2>2. base = 0 <=> Len(e) = 1
    BY <1>6
  <2>3. n # 0
    OBVIOUS
  <2>4. QED
    BY <1>3, <1>5, <2>1, <2>2, <2>3
<1>7. QED
  BY <1>5, <1>6 DEF PackageMeans, q, f

\* The scopes and the package after a binding in the current scope.
LEMMA DefinedMeans ==
  ASSUME NEW last \in Nat, NEW s, ScopesMean(s, Name, env, leaked, last),
         PackageMeans(pkgscope, env, leaked, last), NEW name \in Name, NEW n \in 1 .. last,
         Defined(s, name, n)
  PROVE  /\ ScopesMean(define(s, name, n), Name, env', leaked, last)
         /\ PackageMeans(pkgscope', env', leaked, last)
         /\ Len(env') = Len(env)
<1>1. env' = Rebound(env, name, n) /\ pkgscope' = IF s.base = 0 THEN [pkgscope EXCEPT ![name] = n] ELSE pkgscope
  BY DEF Defined, Rebound
<1>2. ScopesMean(define(s, name, n), Name, Rebound(env, name, n), leaked, last)
  BY MeansDefine
<1>3. env \in Seq(Bindings(Name, last)) /\ env # <<>>
  BY DEF ScopesMean
<1>4. ~leaked => (s.base = 0 <=> Len(env) = 1)
  <2>1. ASSUME ~leaked PROVE AtBottom(s, env)
    BY <2>1, MeansBase
  <2>2. QED
    BY <2>1 DEF AtBottom
<1>5. PackageMeans(IF s.base = 0 THEN [pkgscope EXCEPT ![name] = n] ELSE pkgscope,
                   Rebound(env, name, n), leaked, last)
  BY <1>3, <1>4, PackageDefine
<1>6. Len(Rebound(env, name, n)) = Len(env)
  BY <1>3, ReboundIs
<1>7. QED
  BY <1>1, <1>2, <1>5, <1>6

LEMMA OpenedMeans ==
  ASSUME NEW last \in Nat, NEW s, NEW e, NEW p, NEW l, ScopesMean(s, Name, e, l, last),
         PackageMeans(p, e, l, last), NEW m, l => m, s.ptr = <<>> => m
  PROVE  /\ ScopesMean(pushScope(s), Name, Append(e, Blank(Name)), m, last)
         /\ PackageMeans(p, Append(e, Blank(Name)), m, last)
         /\ Len(Append(e, Blank(Name))) = Len(e) + 1
<1>1. e \in Seq(Bindings(Name, last)) /\ e # <<>>
  BY DEF ScopesMean
<1>2. ScopesMean(pushScope(s), Name, Append(e, Blank(Name)), m, last)
  BY MeansOpen
<1>3. QED
  BY <1>1, <1>2, PackageOpen, OpenIs

LEMMA StepPBlock == ASSUME IInv, PBlock PROVE IInv'
<1> DEFINE a == Append(ast, mknode("Block"))
           ks == expr("stmt") \o On("block", New) \o On("endblock", 0)
           r == Result(a, pushScope(scope), val)
<1>1. /\ status = "parse" /\ Take /\ Top.op = "prefix" /\ Top.op \notin Scoped /\ Top.op # "file"
      /\ next' \in {"semi", "any"} /\ pkgscope' = pkgscope /\ status' = "parse"
      /\ env' = Append(env, Blank(Name)) /\ leaked' = (leaked \/ scope.ptr = <<>>)
      /\ Go(r, ks)
  BY DEF PBlock, Prefix, At, Scoped, Consumed, ScopePushed, Blank
<1>2. /\ Len(ast) \in Nat /\ New \in Nat /\ Len(ast) <= New /\ New \in 0 .. New /\ New # 0
      /\ PackageMeans(pkgscope, env, leaked, Len(ast)) /\ ScopesMean(scope, Name, env, leaked, Len(ast))
      /\ val \in 0 .. New
  BY Current DEF New
<1>3. Tree(a, New) /\ Len(a) = New
  <2>1. mknode("Block") \in NodeT(Len(ast))
    BY <1>2, MknodeT DEF Kinds
  <2>2. QED
    BY <2>1, AppendGrown
<1>4. Frames(ks, New, 1) /\ Starting(ks)
  <2>1. /\ "stmt" \in Flags /\ "block" \in Ops \ (Naming \cup {"file"}) /\ "block" \notin Scoped
        /\ "endblock" \in Ops \ (Naming \cup {"file"}) /\ "endblock" \in Scoped /\ "endblock" \notin Giving
    BY DEF Flags, Ops, Giving, Naming, Scoped
  <2>2. Frames(On("block", New), New, 0)
    BY <1>2, <2>1, FramesOn
  <2>3. Frames(expr("stmt") \o On("block", New), New, 0) /\ Starting(expr("stmt") \o On("block", New))
    BY <1>2, <2>1, <2>2, FramesWait
  <2>4. Frames(On("endblock", 0), New, 1)
    BY <1>2, <2>1, FramesOn
  <2>5. Frames(ks, New, 0 + 1) /\ Starting(ks)
    BY <1>2, <2>3, <2>4, FramesConcat
  <2>6. QED
    BY <2>5
<1>5. ScopesMean(scope, Name, env, leaked, New) /\ PackageMeans(pkgscope, env, leaked, New)
  BY <1>2, MeansMore, PackageMore
<1>6. (leaked => leaked') /\ (scope.ptr = <<>> => leaked')
  BY <1>1
<1>7. /\ ScopesMean(pushScope(scope), Name, env', leaked', New) /\ PackageMeans(pkgscope', env', leaked', New)
      /\ Len(env') = Len(env) + 1
  BY <1>1, <1>2, <1>5, <1>6, OpenedMeans
<1>8. r.a = a /\ r.s = pushScope(scope) /\ r.n = val
  BY DEF Result
<1> HIDE DEF a, ks, r
<1>9. QED
  BY <1>1, <1>2, <1>3, <1>4, <1>7, <1>8, GoScopes

LEMMA NamedOther ==
  ASSUME NEW last \in Nat, NEW kind \in Kinds \ {"Id"}, NEW name \in Name \cup {NoName}
  PROVE  named(kind, name) \in NodeT(last) /\ named(kind, name).kind = kind /\ named(kind, name).name = name
<1>1. <<>> \in Seq(1 .. last) /\ FALSE \in BOOLEAN /\ 0 \in 0 .. last
  BY EmptySeq
<1>2. QED
  BY <1>1 DEF named, mknode, NodeT

\* What a function or a struct does to the scopes.
LEMMA BindAndOpenIs ==
  ASSUME NEW node, NEW ks, BindAndOpen(node, ks)
  PROVE  /\ node.name = NoName =>
              /\ Go(Result(Append(ast, node), pushScope(scope), val), ks)
              /\ env' = Append(env, Blank(Name)) /\ pkgscope' = pkgscope
              /\ leaked' = (leaked \/ scope.ptr = <<>>)
         /\ node.name # NoName =>
              LET s == define(scope, node.name, New) IN
              /\ Go(Result(Append(ast, node), pushScope(s), val), ks)
              /\ env' = Append(Rebound(env, node.name, New), Blank(Name))
              /\ pkgscope' = IF s.base = 0 THEN [pkgscope EXCEPT ![node.name] = New] ELSE pkgscope
              /\ leaked' = (leaked \/ s.ptr = <<>>)
<1>1. CASE node.name = NoName
  BY <1>1 DEF BindAndOpen, Blank
<1>2. CASE node.name # NoName
  <2> DEFINE s == define(scope, node.name, New)
             q == [<<pkgscope>> EXCEPT ![1][node.name] = New]
  <2>1. /\ Go(Result(Append(ast, node), pushScope(s), val), ks)
        /\ env' = Append(Rebound(env, node.name, New), Blank(Name))
        /\ pkgscope' = IF s.base = 0 THEN q[1] ELSE pkgscope
        /\ leaked' = (leaked \/ s.ptr = <<>>)
    BY <1>2 DEF BindAndOpen, Blank, Rebound
  <2>2. q[1] = [pkgscope EXCEPT ![node.name] = New]
    OBVIOUS
  <2> HIDE DEF q
  <2>3. QED
    BY <1>2, <2>1, <2>2
<1>3. QED
  BY <1>1, <1>2

LEMMA DefineBase ==
  ASSUME NEW s, NEW key, NEW n, NEW names, s \in Stacks(names)
  PROVE  define(s, key, n).base = s.base
BY DEF define, scopestackPush, scopestackGrow, Stacks

LEMMA StepBindAndOpen ==
  ASSUME IInv, status = "parse", status' = "parse", Take, Top.op = "prefix", next' = "any",
         NEW kind \in Kinds \ {"Id"}, NEW name \in Name \cup {NoName}, NEW ks, Frames(ks, New, 1), Starting(ks),
         BindAndOpen(named(kind, name), ks)
  PROVE  IInv'
<1> DEFINE node == named(kind, name)
           a == Append(ast, node)
<1>1. Top.op \notin Scoped /\ Top.op # "file" /\ next' \in {"semi", "any"}
  BY DEF Scoped
<1>2. /\ Len(ast) \in Nat /\ New \in Nat /\ Len(ast) <= New /\ New \in 1 .. New
      /\ PackageMeans(pkgscope, env, leaked, Len(ast)) /\ ScopesMean(scope, Name, env, leaked, Len(ast))
      /\ val \in 0 .. New
  BY Current DEF New
<1>3. node \in NodeT(Len(ast)) /\ node.name = name
  BY <1>2, NamedOther
<1> HIDE DEF node
<1>4. Tree(a, New) /\ Len(a) = New
  BY <1>3, AppendGrown
<1>5. ScopesMean(scope, Name, env, leaked, New) /\ PackageMeans(pkgscope, env, leaked, New)
  BY <1>2, MeansMore, PackageMore
<1>6. BindAndOpen(node, ks)
  BY DEF node
<1> HIDE DEF a
<1>7. ASSUME NEW s, NEW e, ScopesMean(s, Name, e, leaked, New), PackageMeans(pkgscope', e, leaked, New),
             Len(e) = Len(env), env' = Append(e, Blank(Name)), leaked' = (leaked \/ s.ptr = <<>>),
             Go(Result(a, pushScope(s), val), ks)
      PROVE  IInv'
  <2> DEFINE r == Result(a, pushScope(s), val)
  <2>1. (leaked => leaked') /\ (s.ptr = <<>> => leaked')
    BY <1>7
  <2>2. /\ ScopesMean(pushScope(s), Name, env', leaked', New) /\ PackageMeans(pkgscope', env', leaked', New)
        /\ Len(env') = Len(env) + 1
    BY <1>2, <1>7, <2>1, OpenedMeans
  <2>3. r.a = a /\ r.s = pushScope(s) /\ r.n = val
    BY DEF Result
  <2>4. Go(r, ks)
    BY <1>7
  <2> HIDE DEF r
  <2>5. QED
    BY <1>1, <1>2, <1>4, <2>2, <2>3, <2>4, GoScopes
<1>8. CASE name = NoName
  <2>1. /\ Go(Result(a, pushScope(scope), val), ks)
        /\ env' = Append(env, Blank(Name)) /\ pkgscope' = pkgscope
        /\ leaked' = (leaked \/ scope.ptr = <<>>)
    BY <1>3, <1>6, <1>8, BindAndOpenIs DEF a
  <2>2. QED
    BY <1>5, <1>7, <2>1
<1>9. CASE name # NoName
  <2> DEFINE s == define(scope, name, New)
             e == Rebound(env, name, New)
  <2>1. /\ Go(Result(a, pushScope(s), val), ks)
        /\ env' = Append(e, Blank(Name))
        /\ pkgscope' = IF s.base = 0 THEN [pkgscope EXCEPT ![name] = New] ELSE pkgscope
        /\ leaked' = (leaked \/ s.ptr = <<>>)
    BY <1>3, <1>6, <1>9, BindAndOpenIs DEF a
  <2>2. name \in Name
    BY <1>9
  <2>3. s.base = scope.base
    <3>1. scope \in Stacks(Name)
      BY <1>2, MeansStack, Zenon
    <3>2. QED
      BY <3>1, DefineBase
  <2>4. ScopesMean(s, Name, e, leaked, New)
    BY <1>2, <1>5, <2>2, MeansDefine
  <2>5. env \in Seq(Bindings(Name, New)) /\ env # <<>>
    BY <1>5 DEF ScopesMean
  <2>6. Len(e) = Len(env)
    <3>1. New \in 0 .. New
      BY <1>2
    <3>2. QED
      BY <1>2, <2>2, <2>5, <3>1, ReboundIs
  <2>7. ~leaked => (scope.base = 0 <=> Len(env) = 1)
    <3>1. ASSUME ~leaked PROVE AtBottom(scope, env)
      BY <1>2, <3>1, MeansBase
    <3>2. QED
      BY <3>1 DEF AtBottom
  <2> HIDE DEF s, e
  <2>8. PackageMeans(IF scope.base = 0 THEN [pkgscope EXCEPT ![name] = New] ELSE pkgscope, e, leaked, New)
    BY <1>2, <1>5, <2>2, <2>5, <2>7, PackageDefine DEF e
  <2>9. PackageMeans(pkgscope', e, leaked, New)
    BY <2>1, <2>3, <2>8
  <2>10. QED
    BY <1>7, <2>1, <2>4, <2>6, <2>9
<1>10. QED
  BY <1>8, <1>9

LEMMA StepPFun == ASSUME IInv, PFun PROVE IInv'
<1>1. PICK name \in Name \cup {NoName} :
        \/ BindAndOpen(named("Fun", name), On("signature", New))
        \/ \E param \in Name \cup {NoName} :
             BindAndOpen(named("Fun", name),
                         expr("type") \o <<Frame("param", New, "", param)>> \o On("signature", New))
  BY DEF PFun
<1>2. status = "parse" /\ Take /\ Top.op = "prefix" /\ next' = "any" /\ status' = "parse"
  BY DEF PFun, Prefix, At, BindAndOpen, Consumed
<1>3. "Fun" \in Kinds \ {"Id"} /\ "type" \in Flags /\ "" \in Flags
  BY DEF Kinds, Flags
<1>4. New \in Nat /\ New \in 0 .. New /\ New # 0
  BY Current
<1>5. Frames(On("signature", New), New, 1) /\ Starting(On("signature", New))
  <2>1. "signature" \in Ops \ (Naming \cup {"file"}) /\ "signature" \in Scoped /\ "signature" \in Fresh
    BY DEF Ops, Naming, Scoped, Giving, Fresh
  <2>2. QED
    BY <1>4, <2>1, FramesOn
<1>6. CASE BindAndOpen(named("Fun", name), On("signature", New))
  BY <1>1, <1>2, <1>3, <1>5, <1>6, StepBindAndOpen
<1>7. ASSUME NEW param \in Name \cup {NoName},
             BindAndOpen(named("Fun", name),
                         expr("type") \o <<Frame("param", New, "", param)>> \o On("signature", New))
      PROVE IInv'
  <2> DEFINE f == Frame("param", New, "", param)
             ks == expr("type") \o <<f>>
             ls == ks \o On("signature", New)
  <2>1. f \in FrameT(New) /\ f.op = "param"
    <3>1. "param" \in Ops /\ "param" \notin Naming
      BY DEF Ops, Giving, Naming
    <3>2. param \in Name \cup {NoName}
      BY <1>7
    <3>3. f = [op |-> "param", n |-> New, flags |-> "", name |-> param]
      BY DEF Frame
    <3> HIDE DEF f, ks, ls
    <3>4. QED
      BY <1>3, <1>4, <3>1, <3>2, <3>3 DEF FrameT
  <2> HIDE DEF f
  <2>2. Frames(<<f>>, New, 0)
    <3>1. f.op \notin Scoped /\ f.op # "file"
      BY <2>1 DEF Scoped
    <3>2. QED
      BY <1>4, <2>1, <3>1, FramesOne
  <2>3. Frames(ks, New, 0) /\ Starting(ks)
    BY <1>3, <1>4, <2>2, FramesWait
  <2> HIDE DEF ks
  <2>4. Frames(ls, New, 0 + 1) /\ Starting(ls)
    BY <1>4, <1>5, <2>3, FramesConcat
  <2>5. Frames(ls, New, 1)
    BY <2>4
  <2>6. BindAndOpen(named("Fun", name), ls)
    BY <1>7 DEF ks, f
  <2> HIDE DEF ls
  <2>7. QED
    BY <1>1, <1>2, <1>3, <2>4, <2>5, <2>6, StepBindAndOpen
<1>8. QED
  BY <1>1, <1>6, <1>7

LEMMA StepPStructType == ASSUME IInv, PStructType PROVE IInv'
<1>1. PICK name \in Name \cup {NoName} : BindAndOpen(named("Struct", name), On("struct", New))
  BY DEF PStructType
<1>2. status = "parse" /\ Take /\ Top.op = "prefix" /\ next' = "any" /\ status' = "parse"
  BY DEF PStructType, Prefix, At, BindAndOpen, Consumed
<1>3. "Struct" \in Kinds \ {"Id"}
  BY DEF Kinds
<1>4. New \in Nat /\ New \in 0 .. New /\ New # 0
  BY Current
<1>5. Frames(On("struct", New), New, 1) /\ Starting(On("struct", New))
  <2>1. "struct" \in Ops \ (Naming \cup {"file"}) /\ "struct" \in Scoped /\ "struct" \in Fresh
    BY DEF Ops, Naming, Scoped, Giving, Fresh
  <2>2. QED
    BY <1>4, <2>1, FramesOn
<1>6. QED
  BY <1>1, <1>2, <1>3, <1>5, StepBindAndOpen

\* The nodes of variables.
LEMMA VarT ==
  ASSUME NEW last \in Nat, NEW name \in Name \cup {NoName}, NEW typ \in 0 .. last, NEW x \in BOOLEAN
  PROVE  /\ [named("Var", name) EXCEPT !.const = TRUE, !.isconst = TRUE] \in NodeT(last)
         /\ [named("Var", name) EXCEPT !.const = TRUE, !.typ = typ, !.isconst = x] \in NodeT(last)
         /\ [named("Var", name) EXCEPT !.const = TRUE, !.typ = typ, !.unres = x] \in NodeT(last)
<1>1. <<>> \in Seq(1 .. last) /\ TRUE \in BOOLEAN /\ FALSE \in BOOLEAN /\ 0 \in 0 .. last /\ "Var" \in Kinds
  BY EmptySeq DEF Kinds
<1>2. QED
  BY <1>1 DEF named, mknode, NodeT

LEMMA StepPTypeDef == ASSUME IInv, PTypeDef PROVE IInv'
<1>1. PICK name \in Name :
        LET v == [named("Var", name) EXCEPT !.const = TRUE, !.isconst = TRUE]
        IN /\ Go(Result(Append(ast, v), define(scope, name, New), val), expr("type") \o On("child", New))
           /\ Defined(scope, name, New)
  BY DEF PTypeDef
<1>2. /\ status = "parse" /\ Take /\ Top.op = "prefix" /\ Top.op \notin Scoped /\ Top.op # "file"
      /\ next' \in {"semi", "any"} /\ status' = "parse" /\ leaked' = leaked
  BY DEF PTypeDef, Prefix, At, Scoped, Consumed
<1> DEFINE v == [named("Var", name) EXCEPT !.const = TRUE, !.isconst = TRUE]
           a == Append(ast, v)
           s == define(scope, name, New)
           ks == expr("type") \o On("child", New)
           r == Result(a, s, val)
<1>3. Go(r, ks) /\ Defined(scope, name, New)
  BY <1>1
<1>4. /\ Len(ast) \in Nat /\ New \in Nat /\ Len(ast) <= New /\ New \in 1 .. New /\ 0 \in 0 .. Len(ast)
      /\ PackageMeans(pkgscope, env, leaked, Len(ast)) /\ ScopesMean(scope, Name, env, leaked, Len(ast))
      /\ val \in 0 .. New
  BY Current DEF New
<1>5. Tree(a, New) /\ Len(a) = New
  <2>1. v \in NodeT(Len(ast))
    <3>1. name \in Name \cup {NoName}
      BY <1>1
    <3>2. \E x : x \in BOOLEAN
      OBVIOUS
    <3>3. QED
      BY <1>4, <3>1, <3>2, VarT, Zenon
  <2> HIDE DEF v
  <2>2. QED
    BY <2>1, AppendGrown
<1> HIDE DEF v
<1>6. ScopesMean(scope, Name, env, leaked, New) /\ PackageMeans(pkgscope, env, leaked, New)
  BY <1>4, MeansMore, PackageMore
<1>7. /\ ScopesMean(s, Name, env', leaked', New) /\ PackageMeans(pkgscope', env', leaked', New)
      /\ Len(env') = Len(env)
  <2>1. name \in Name
    BY <1>1
  <2>2. QED
    BY <1>2, <1>3, <1>4, <1>6, <2>1, DefinedMeans
<1>8. r.a = a /\ r.s = s /\ r.n = val
  BY DEF Result
<1>9. Frames(ks, New, 0) /\ Starting(ks)
  BY <1>4, FramesChild DEF Flags
<1>10. Len(env') = (IF Top.op \in Scoped THEN Len(env) - 1 ELSE Len(env)) + 0
  <2>1. Len(env) \in Nat
    BY <1>2, Below
  <2>2. QED
    BY <1>2, <1>7, <2>1
<1> HIDE DEF a, ks, r, s
<1>11. QED
  BY <1>2, <1>3, <1>4, <1>5, <1>7, <1>8, <1>9, <1>10, GoScopes

-----------------------------------------------------------------------------
(* Infix parselets.                                                         *)

LEMMA ResultIs ==
  \A a, s, n : /\ Result(a, s, n).a = a /\ Result(a, s, n).s = s /\ Result(a, s, n).n = n
               /\ IsResult(Result(a, s, n))
BY DEF Result, IsResult

LEMMA ResultPut ==
  ASSUME NEW r, IsResult(r)
  PROVE  /\ \A x : [r EXCEPT !.n = x] = Result(r.a, r.s, x)
         /\ \A x : [r EXCEPT !.a = x] = Result(x, r.s, r.n)
         /\ \A x, y : [r EXCEPT !.a = x, !.n = y] = Result(x, r.s, y)
         /\ \A x : [r EXCEPT !.s = x] = Result(r.a, x, r.n)
<1> DEFINE a == r.a
           s == r.s
           n == r.n
<1>1. r = [a |-> a, s |-> s, n |-> n]
  BY DEF IsResult
<1> HIDE DEF a, s, n
<1>2. r.a = a /\ r.s = s /\ r.n = n
  BY DEF a, s, n
<1>3. ASSUME NEW x PROVE [r EXCEPT !.n = x] = [a |-> a, s |-> s, n |-> x]
  BY <1>1
<1>4. ASSUME NEW x PROVE [r EXCEPT !.a = x] = [a |-> x, s |-> s, n |-> n]
  BY <1>1
<1>5. ASSUME NEW x PROVE [r EXCEPT !.s = x] = [a |-> a, s |-> x, n |-> n]
  BY <1>1
<1>6. ASSUME NEW x, NEW y PROVE [r EXCEPT !.a = x, !.n = y] = [a |-> x, s |-> s, n |-> y]
  <2>1. [r EXCEPT !.a = x, !.n = y] = [[r EXCEPT !.a = x] EXCEPT !.n = y]
    BY Zenon
  <2>2. [r EXCEPT !.a = x, !.n = y] = [[a |-> x, s |-> s, n |-> n] EXCEPT !.n = y]
    BY <1>4, <2>1
  <2>3. QED
    BY <2>2
<1>7. QED
  BY <1>2, <1>3, <1>4, <1>5, <1>6, ZenonT(60) DEF Result

\* An infix parselet may come.
LEMMA InfixIs ==
  ASSUME IInv, NEW parselet, NEW flagss, Infix(parselet, flagss)
  PROVE  status = "parse" /\ Take /\ val \in 1 .. Len(ast)
<1>1. status = "parse" /\ Take /\ Head(todo).op = "infix"
  BY DEF Infix
<1>2. Head(todo).op \notin Fresh
  BY <1>1 DEF Fresh
<1>3. QED
  BY <1>1, <1>2, Below

LEMMA IdName == ASSUME IInv, NEW n \in 1 .. Len(ast), ast[n].kind = "Id" PROVE ast[n].name \in Name
<1>1. Tree(ast, Len(ast)) /\ Len(ast) \in Nat
  BY Current
<1>2. ast[n] \in NodeT(Len(ast))
  BY <1>1, TreeNode
<1>3. QED
  BY <1>2 DEF NodeT

LEMMA StepPIdTrailing == ASSUME IInv, PIdTrailing PROVE IInv'
<1>1. PICK name \in Name, k \in {"mkvar", "declare"} :
        LET r == Drop(resolve_id(NewId(ast, name), scope, New, No), New)
            rest == Frame(k, r.n, "var", ast[val].name)
        IN Loop([r EXCEPT !.n = val], IF k = "mkvar" THEN expr("rvalue") \o <<rest>> ELSE <<rest>>)
  BY DEF PIdTrailing, NewId, No
<1>2. /\ status = "parse" /\ Take /\ val \in 1 .. Len(ast) /\ Still /\ next' \in {"semi", "any"}
      /\ ast[val].kind = "Id"
  BY InfixIs, QuietStill DEF PIdTrailing, Consumed
<1> DEFINE q == resolve_id(NewId(ast, name), scope, New, No)
           r == Drop(q, New)
           nm == ast[val].name
           rest == Frame(k, r.n, "var", nm)
           p == [r EXCEPT !.n = val]
           ks == expr("rvalue") \o <<rest>>
<1>3. Loop(p, IF k = "mkvar" THEN ks ELSE <<rest>>)
  BY <1>1
<1>4. /\ Tree(ast, Len(ast)) /\ Len(ast) \in Nat /\ Bad <= Len(ast) /\ New = Len(ast) + 1
      /\ PackageMeans(pkgscope, env, leaked, Len(ast)) /\ ScopesMean(scope, Name, env, leaked, Len(ast))
  BY Current DEF New
<1>5. nm \in Name
  BY <1>2, IdName
<1>6. Holds(r, Len(ast)) /\ IsResult(r)
  <2>1. name \in Name
    BY <1>1
  <2>2. Holds(q, Len(ast)) /\ Len(q.a) = Len(ast) + 1 /\ q.n \in {Prim, Len(ast) + 1}
    BY <1>4, <2>1, NewIdHolds
  <2> HIDE DEF q
  <2>3. QED
    BY <1>4, <2>2, DropHolds DEF Holds
<1> HIDE DEF r, nm
<1>7. Grown(r) /\ r.n # 0
  BY <1>4, <1>6, HoldsGrown
<1>8. Len(r.a) \in Nat /\ r.n \in 0 .. Len(r.a) /\ val \in 0 .. Len(r.a) /\ val # 0
  BY <1>2, <1>4, <1>7 DEF Grown, Tree
<1>9. p.a = r.a /\ p.s = r.s /\ p.n = val
  <2>1. p = Result(r.a, r.s, val)
    BY <1>6, ResultPut, Zenon
  <2> HIDE DEF p
  <2>2. QED
    BY <2>1 DEF Result
<1> HIDE DEF p
<1>10. Grown(p)
  BY <1>7, <1>8, <1>9 DEF Grown
<1>11. Frames(<<rest>>, Len(r.a), 0)
  <2>1. k \in Naming /\ k # "field" /\ "var" \in Flags
    BY <1>1 DEF Naming, Flags
  <2>2. QED
    BY <1>5, <1>8, <2>1, FramesNamed
<1> HIDE DEF rest
<1>12. Frames(ks, Len(r.a), 0)
  BY <1>8, <1>11, FramesWait DEF Flags
<1> HIDE DEF ks
<1>13. CASE k = "mkvar"
  BY <1>2, <1>3, <1>8, <1>9, <1>10, <1>12, <1>13, LoopStill
<1>14. CASE k # "mkvar"
  BY <1>2, <1>3, <1>8, <1>9, <1>10, <1>11, <1>14, LoopStill
<1>15. QED
  BY <1>13, <1>14

\* A step that stops the parser.
LEMMA StepPanic ==
  ASSUME IInv, status = "parse", status' = "panic", Take \/ UNCHANGED taken, Fits \/ UNCHANGED taken,
         UNCHANGED <<ast, scope, val, todo, next, pkgscope, history>>
  PROVE  IInv'
<1>1. /\ ast' = ast /\ scope' = scope /\ val' = val /\ todo' = todo /\ next' = next
      /\ pkgscope' = pkgscope /\ env' = env /\ leaked' = leaked
  BY DEF history
<1>2. todo \in Seq(FrameT(Len(ast)))
  BY Below DEF Stacked
<1>3. Len(todo') \in Nat /\ DOMAIN todo' = 1 .. Len(todo')
  BY <1>1, <1>2, LenProperties
<1>4. taken' \in 0 .. MaxSource
  BY <1>3, TakenFits DEF IInv, Control
<1>5. QED
  BY <1>1, <1>4 DEF IInv, Control

\* What the identifier at hand names, looked up if that was not done.
LEMMA HoldsVal ==
  ASSUME IInv, val \in 1 .. Len(ast), ast[val].kind = "Id", NEW r,
         r = IF ast[val].target = 0 THEN resolve_id(ast, scope, val, No) ELSE Result(ast, scope, val)
  PROVE  Holds(r, Len(ast)) /\ Len(r.a) = Len(ast)
<1>1. /\ Tree(ast, Len(ast)) /\ Len(ast) \in Nat /\ Bad <= Len(ast)
      /\ PackageMeans(pkgscope, env, leaked, Len(ast)) /\ ScopesMean(scope, Name, env, leaked, Len(ast))
  BY Current
<1>2. CASE ast[val].target = 0
  BY <1>1, <1>2, ResolveIdHolds
<1>3. CASE ast[val].target # 0
  <2>1. r = Result(ast, scope, val)
    BY <1>3
  <2>2. r.a = ast /\ r.s = scope /\ r.n = val /\ IsResult(r)
    BY <2>1 DEF Result, IsResult
  <2>3. QED
    BY <1>1, <2>2 DEF Holds
<1>4. QED
  BY <1>2, <1>3

\* A variable is set: it is no constant.
LEMMA SetTree ==
  ASSUME NEW a, NEW last \in Nat, Tree(a, last), NEW t \in 1 .. last
  PROVE  LET b == [a EXCEPT ![t].const = FALSE, ![t].used = TRUE] IN Tree(b, last) /\ Len(b) = Len(a)
<1> DEFINE d1 == [a[t] EXCEPT !.const = No]
           d == [d1 EXCEPT !.used = Yes]
           c == With(a, t, d1)
           b == [a EXCEPT ![t].const = FALSE, ![t].used = TRUE]
<1>1. a[t] \in NodeT(last) /\ No \in BOOLEAN /\ Yes \in BOOLEAN
  BY TreeNode DEF Tree, Yes, No
<1>2. d1 \in NodeT(last) /\ d1.kind = a[t].kind
  BY <1>1, NodeFields, NodeKind
<1>3. t \in 1 .. Len(a) /\ a \in [1 .. Len(a) -> NodeT(last)]
  BY LenProperties DEF Tree
<1>4. b = With(c, t, [c[t] EXCEPT !.used = Yes])
  BY Zenon DEF With, Yes, No
<1>5. c[t] = d1
  BY <1>3 DEF With
<1> HIDE DEF b, c, d1
<1>6. Tree(c, last) /\ Len(c) = Len(a)
  BY <1>2, TreePut DEF c
<1>7. d \in NodeT(last) /\ d.kind = d1.kind
  BY <1>1, <1>2, NodeFields, NodeKind
<1>8. b = With(c, t, d)
  BY <1>4, <1>5
<1> HIDE DEF d
<1>9. Tree(With(c, t, d), last) /\ Len(With(c, t, d)) = Len(c)
  BY <1>5, <1>6, <1>7, TreePut
<1>10. QED
  BY <1>6, <1>8, <1>9 DEF b

LEMMA StepAssign == ASSUME IInv, pAssignToId PROVE IInv'
<1> DEFINE r == IF ast[val].target = 0 THEN resolve_id(ast, scope, val, No) ELSE Result(ast, scope, val)
           t == r.a[r.n].target
           assign == [mknode("Assign") EXCEPT !.target = t]
           set == [r.a EXCEPT ![t].const = FALSE, ![t].used = TRUE]
           a == Append(set, assign)
           p == [r EXCEPT !.a = a]
           ks == expr("rvalue") \o On("child", New)
           nm == ast[val].name
           ls == expr("rvalue") \o <<Frame("mkvar", 0, "var", nm)>>
<1>1. /\ status = "parse" /\ Take /\ val \in 1 .. Len(ast) /\ ast[val].kind = "Id"
  BY InfixIs DEF pAssignToId
<1>2. \/ /\ status' = "panic" /\ UNCHANGED <<ast, scope, val, todo, next, pkgscope, history>> /\ Fits
      \/ /\ r.a[r.n].kind = "Id" /\ isKind(r.a, t, "Var") /\ Still /\ next' \in {"semi", "any"}
         /\ Loop([r EXCEPT !.a = Append([@ EXCEPT ![t].const = FALSE, ![t].used = TRUE], assign)], ks)
      \/ Loop(r, ls) /\ Still /\ next' \in {"semi", "any"}
  BY QuietStill DEF pAssignToId, No, Still, history, Consumed
<1>3. /\ Len(ast) \in Nat /\ New = Len(ast) + 1
  BY Current DEF New
<1>4. Holds(r, Len(ast)) /\ Len(r.a) = Len(ast)
  BY <1>1, HoldsVal
<1>5. nm \in Name
  BY <1>1, IdName
<1> HIDE DEF r, nm
<1>6. [r EXCEPT !.a = Append([@ EXCEPT ![t].const = FALSE, ![t].used = TRUE], assign)] = p
  BY <1>4 DEF Holds, IsResult
<1> HIDE DEF t, p, assign, set
<1>7. CASE /\ status' = "panic" /\ UNCHANGED <<ast, scope, val, todo, next, pkgscope, history>> /\ Fits
  BY <1>1, <1>7, StepPanic
<1>8. CASE isKind(r.a, t, "Var") /\ Still /\ next' \in {"semi", "any"} /\ Loop(p, ks)
  <2>1. t \in 1 .. Len(ast)
    <3>1. r.a[r.n] \in NodeT(Len(ast))
      BY <1>3, <1>4, TreeNode DEF Holds
    <3>2. t \in 0 .. Len(ast)
      BY <3>1 DEF NodeT, t
    <3>3. t # 0
      BY <1>8 DEF isKind
    <3>4. QED
      BY <3>2, <3>3
  <2>2. Tree(set, Len(ast)) /\ Len(set) = Len(ast)
    BY <1>3, <1>4, <2>1, SetTree DEF Holds, set
  <2>3. assign \in NodeT(Len(ast))
    <3>1. mknode("Assign") \in NodeT(Len(ast)) /\ t \in 0 .. Len(ast)
      BY <1>3, <2>1, MknodeT DEF Kinds
    <3>2. QED
      BY <1>3, <3>1, NodeFields, NodeKind DEF assign
  <2>4. Tree(a, Len(ast)) /\ Len(a) = New
    BY <1>3, <2>2, <2>3, TreeAppend
  <2>5. p.a = a /\ p.s = r.s /\ p.n = r.n
    <3> HIDE DEF a
    <3>1. p = Result(a, r.s, r.n)
      BY <1>4, ResultPut DEF Holds, p
    <3>2. QED
      BY <3>1 DEF Result
  <2> HIDE DEF a
  <2>6. r.n \in 1 .. Len(a) /\ r.n # 0
    BY <1>3, <1>4, <2>4 DEF Holds
  <2>7. Holds(p, Len(ast))
    <3>1. IsResult(p)
      <4>1. p = Result(a, r.s, r.n)
        BY <1>4, ResultPut DEF Holds, p
      <4>2. QED
        BY <4>1, ResultIs
    <3>2. QED
      BY <1>4, <2>4, <2>5, <2>6, <3>1 DEF Holds
  <2>8. Grown(p) /\ p.n # 0
    BY <1>3, <2>7, HoldsGrown
  <2>9. Frames(ks, New, 0)
    <3>1. New \in Nat /\ New \in 1 .. New
      BY <1>3
    <3>2. QED
      BY <3>1, FramesChild DEF Flags
  <2> HIDE DEF ks
  <2>10. QED
    BY <1>1, <1>8, <2>4, <2>5, <2>8, <2>9, LoopStill
<1>9. CASE Loop(r, ls) /\ Still /\ next' \in {"semi", "any"}
  <2>1. Grown(r) /\ r.n # 0
    BY <1>3, <1>4, HoldsGrown
  <2> DEFINE f == Frame("mkvar", 0, "var", nm)
  <2>2. Frames(<<f>>, Len(ast), 0)
    <3>1. "mkvar" \in Naming /\ "mkvar" # "field" /\ "var" \in Flags
      BY DEF Naming, Flags
    <3>2. 0 \in 0 .. Len(ast)
      BY <1>3
    <3>3. QED
      BY <1>3, <1>5, <3>1, <3>2, FramesNamed
  <2> HIDE DEF f
  <2>3. Frames(ls, Len(ast), 0)
    <3>1. Frames(expr("rvalue") \o <<f>>, Len(ast), 0)
      BY <1>3, <2>2, FramesWait DEF Flags
    <3>2. QED
      BY <3>1 DEF f
  <2> HIDE DEF ls
  <2>4. QED
    BY <1>1, <1>4, <1>9, <2>1, <2>3, LoopStill
<1>10. QED
  BY <1>2, <1>6, <1>7, <1>8, <1>9

LEMMA OnLeftHolds ==
  ASSUME IInv, val \in 1 .. Len(ast), NEW kind \in Kinds \ {"Id"}
  PROVE  /\ Holds(OnLeft(kind), Len(ast)) /\ Len(OnLeft(kind).a) = New /\ OnLeft(kind).n = New
<1> DEFINE b == Append(ast, mknode(kind))
           q == useAsRValue(b, scope, val)
           a == AdoptFlagged(q.a, New, q.n)
<1>1. /\ Tree(ast, Len(ast)) /\ Len(ast) \in Nat /\ Bad <= Len(ast) /\ New = Len(ast) + 1
      /\ PackageMeans(pkgscope, env, leaked, Len(ast)) /\ ScopesMean(scope, Name, env, leaked, Len(ast))
  BY Current DEF New
<1>2. Tree(b, Len(ast)) /\ Len(b) = New
  BY <1>1, MknodeT, AppendGrown
<1> HIDE DEF b
<1>3. Holds(q, Len(ast)) /\ Len(q.a) = New /\ q.n \in {Prim, val}
  <2>1. val \in 1 .. Len(b)
    BY <1>1, <1>2
  <2>2. QED
    BY <1>1, <1>2, <2>1, UseAsRValueHolds
<1>4. OnLeft(kind) = [q EXCEPT !.a = a, !.n = New]
  <2>1. OnLeft(kind) = [q EXCEPT !.a = AdoptFlagged(q.a, New, q.n), !.n = New]
    BY Zenon DEF OnLeft, b
  <2>2. QED
    BY <2>1
<1> HIDE DEF q
<1>5. q.n \in 1 .. Len(ast)
  BY <1>1, <1>3 DEF Prim, Bad
<1>6. Tree(a, Len(ast)) /\ Len(a) = New
  BY <1>1, <1>3, <1>5, AdoptFlaggedTree DEF Holds
<1> HIDE DEF a
<1>7. OnLeft(kind) = Result(a, q.s, New)
  <2>1. IsResult(q)
    BY <1>3 DEF Holds
  <2>2. [q EXCEPT !.a = a, !.n = New] = Result(a, q.s, New)
    <3> DEFINE x == q.s
               y == q.n
               p == [q EXCEPT !.a = a]
    <3>1. p = [a |-> a, s |-> x, n |-> y]
      <4>1. p = Result(a, x, y)
        BY <2>1, ResultPut
      <4>2. QED
        BY <4>1 DEF Result
    <3>2. [q EXCEPT !.a = a, !.n = New] = [p EXCEPT !.n = New]
      BY Zenon
    <3> HIDE DEF p, x, y
    <3>3. [p EXCEPT !.n = New] = [a |-> a, s |-> x, n |-> New]
      BY <3>1
    <3>4. QED
      BY <3>2, <3>3 DEF x, Result
  <2>3. QED
    BY <1>4, <2>2, Zenon
<1>8. /\ OnLeft(kind).a = a /\ OnLeft(kind).s = q.s /\ OnLeft(kind).n = New /\ IsResult(OnLeft(kind))
  BY <1>7, ResultIs
<1>9. New \in 1 .. Len(a)
  BY <1>1, <1>6
<1>10. QED
  BY <1>3, <1>6, <1>8, <1>9 DEF Holds

LEMMA StepOnLeft ==
  ASSUME IInv, NEW kind \in Kinds \ {"Id"}, NEW flagss, NEW operand \in Flags, Infix(kind, flagss),
         Loop(OnLeft(kind), expr(operand) \o On("child", New)), Consumed, Quiet
  PROVE  IInv'
<1>1. status = "parse" /\ Take /\ val \in 1 .. Len(ast) /\ Still /\ next' \in {"semi", "any"}
  BY InfixIs, QuietStill DEF Consumed
<1>2. Len(ast) \in Nat /\ New \in Nat /\ New \in 1 .. New
  BY Current
<1> DEFINE r == OnLeft(kind)
           ks == expr(operand) \o On("child", New)
<1>3. Holds(r, Len(ast)) /\ Len(r.a) = New
  BY <1>1, OnLeftHolds
<1>4. Frames(ks, New, 0)
  BY <1>2, FramesChild
<1> HIDE DEF r, ks
<1>5. Grown(r) /\ r.n # 0
  BY <1>2, <1>3, HoldsGrown
<1>6. Loop(r, ks)
  BY DEF r, ks
<1>7. QED
  BY <1>1, <1>3, <1>4, <1>5, <1>6, LoopStill

LEMMA StepPInfixOp == ASSUME IInv, PInfixOp PROVE IInv'
<1>1. \/ Infix("BinOp", {"stmt", "rvalue"}) /\ Loop(OnLeft("BinOp"), expr("operand") \o On("child", New))
      \/ Infix("Index", anywhere) /\ Loop(OnLeft("Index"), expr("rvalue") \o On("child", New))
      \/ Infix("Assign", {"stmt", "rvalue"}) /\ Loop(OnLeft("Assign"), expr("rvalue") \o On("child", New))
  BY DEF PInfixOp
<1>2. /\ "BinOp" \in Kinds \ {"Id"} /\ "Index" \in Kinds \ {"Id"} /\ "Assign" \in Kinds \ {"Id"}
      /\ "operand" \in Flags /\ "rvalue" \in Flags
  BY DEF Kinds, Flags
<1>3. Consumed /\ Quiet
  BY DEF PInfixOp
<1>4. QED
  BY <1>1, <1>2, <1>3, StepOnLeft

LEMMA StepPPostfixOp == ASSUME IInv, PPostfixOp PROVE IInv'
<1>1. /\ status = "parse" /\ Take /\ val \in 1 .. Len(ast) /\ Still /\ next' \in {"semi", "any"}
      /\ Loop(OnLeft("Unary"), <<>>)
  BY InfixIs, QuietStill DEF PPostfixOp, Consumed
<1>2. Len(ast) \in Nat /\ New \in Nat
  BY Current
<1> DEFINE r == OnLeft("Unary")
<1>3. Holds(r, Len(ast)) /\ Len(r.a) = New
  BY <1>1, OnLeftHolds DEF Kinds
<1> HIDE DEF r
<1>4. Grown(r) /\ r.n # 0
  BY <1>2, <1>3, HoldsGrown
<1>5. Frames(<<>>, New, 0)
  BY <1>2, FramesNone
<1>6. QED
  BY <1>1, <1>3, <1>4, <1>5, LoopStill DEF r

LEMMA StepPCall == ASSUME IInv, PCall PROVE IInv'
<1> DEFINE r == OnLeft("Call")
           cast == [r.a[New] EXCEPT !.kind = "TypeCast"]
           b == With(r.a, New, cast)
           a == Append(r.a, mknode("Tuple"))
           ks == expr("rvalue") \o On("convert", New)
           ls == expr("rvalue") \o On("list", New + 1) \o On("child", New)
<1>1. /\ status = "parse" /\ Take /\ val \in 1 .. Len(ast) /\ Still /\ next' \in {"semi", "any"}
  BY InfixIs, QuietStill DEF PCall, Consumed
<1>2. \/ Loop(r, <<>>)
      \/ Loop([r EXCEPT !.a[New].kind = "TypeCast"], ks)
      \/ Loop([r EXCEPT !.a = a], ls)
  BY DEF PCall
<1>3. Len(ast) \in Nat /\ New \in Nat /\ New \in 1 .. New /\ Len(ast) <= New
  BY Current
<1>4. Holds(r, Len(ast)) /\ Len(r.a) = New
  BY <1>1, OnLeftHolds DEF Kinds
<1>5. [r EXCEPT !.a[New].kind = "TypeCast"] = [r EXCEPT !.a = b]
  BY <1>4 DEF Holds, IsResult, With
<1>6. ASSUME NEW c, NEW qs, Tree(c, Len(ast)), New <= Len(c), Frames(qs, Len(c), 0), Loop([r EXCEPT !.a = c], qs)
      PROVE  IInv'
  <2> DEFINE p == [r EXCEPT !.a = c]
  <2>1. p = Result(c, r.s, r.n)
    BY <1>4, ResultPut DEF Holds
  <2>2. p.a = c /\ p.s = r.s /\ p.n = r.n /\ IsResult(p)
    BY <2>1 DEF Result, IsResult
  <2>3. Loop(p, qs)
    BY <1>6
  <2> HIDE DEF p
  <2>4. Len(c) \in Nat
    BY <1>6 DEF Tree
  <2>5. r.n \in 1 .. Len(c)
    BY <1>3, <1>4, <1>6, <2>4 DEF Holds
  <2>6. Holds(p, Len(ast))
    BY <1>4, <1>6, <2>2, <2>5 DEF Holds
  <2>7. Grown(p) /\ p.n # 0
    BY <1>3, <2>6, HoldsGrown
  <2>8. QED
    BY <1>1, <1>6, <2>2, <2>3, <2>7, LoopStill
<1>7. CASE Loop(r, <<>>)
  <2>1. Grown(r) /\ r.n # 0
    BY <1>3, <1>4, HoldsGrown
  <2>2. Frames(<<>>, Len(r.a), 0)
    BY <1>3, <1>4, FramesNone
  <2> HIDE DEF r
  <2>3. QED
    BY <1>1, <1>7, <2>1, <2>2, LoopStill
<1>8. CASE Loop([r EXCEPT !.a = b], ks)
  <2>1. Tree(b, Len(ast)) /\ Len(b) = New
    <3>1. r.a[New] \in NodeT(Len(ast))
      BY <1>3, <1>4, TreeNode DEF Holds
    <3>2. "TypeCast" \in Kinds \ {"Id"}
      BY DEF Kinds
    <3>3. cast \in NodeT(Len(ast)) /\ cast.kind = "TypeCast"
      BY <1>3, <3>1, <3>2, NodeFields, NodeKind, ZenonT(60)
    <3> HIDE DEF cast, r
    <3>4. QED
      BY <1>3, <1>4, <3>3, TreePut DEF Holds
  <2>2. Frames(ks, New, 0)
    BY <1>3, FramesChild DEF Flags
  <2> HIDE DEF r, b, ks
  <2>3. QED
    BY <1>3, <1>6, <1>8, <2>1, <2>2
<1>9. CASE Loop([r EXCEPT !.a = a], ls)
  <2>1. Tree(a, Len(ast)) /\ Len(a) = New + 1
    <3>1. mknode("Tuple") \in NodeT(Len(ast))
      BY <1>3, MknodeT DEF Kinds
    <3> HIDE DEF r
    <3>2. QED
      BY <1>3, <1>4, <3>1, TreeAppend DEF Holds
  <2>2. Frames(ls, New + 1, 0)
    <3> DEFINE ps == expr("rvalue") \o On("list", New + 1)
    <3>1. New + 1 \in Nat /\ New \in 1 .. New + 1 /\ New + 1 \in 1 .. New + 1 /\ "rvalue" \in Flags
      BY <1>3 DEF Flags
    <3>2. Frames(ps, New + 1, 0)
      BY <3>1, FramesChild
    <3>3. Frames(On("child", New), New + 1, 0)
      BY <3>1, FramesChild
    <3> HIDE DEF ps
    <3>4. Frames(ps \o On("child", New), New + 1, 0 + 0)
      BY <3>1, <3>2, <3>3, FramesConcat
    <3>5. QED
      BY <3>4 DEF ps
  <2> HIDE DEF r, a, ls
  <2>3. New <= New + 1
    BY <1>3
  <2>4. QED
    BY <1>3, <1>6, <1>9, <2>1, <2>2, <2>3
<1>10. QED
  BY <1>2, <1>5, <1>7, <1>8, <1>9

LEMMA StepPAs == ASSUME IInv, PAs PROVE IInv'
<1> DEFINE b == Append(ast, mknode("TypeCast"))
           a == Adopt(b, New, val)
           r == Result(a, scope, val)
           ks == expr("type") \o On("as", New)
<1>1. /\ status = "parse" /\ Take /\ val \in 1 .. Len(ast) /\ Still /\ next' \in {"semi", "any"}
      /\ Loop(r, ks)
  BY InfixIs, QuietStill DEF PAs, Consumed
<1>2. Len(ast) \in Nat /\ New \in Nat /\ New \in 1 .. New /\ Len(ast) <= New /\ val # 0
  BY <1>1, Current
<1>3. Tree(b, Len(ast)) /\ Len(b) = New
  BY <1>2, MknodeT, AppendGrown DEF Kinds
<1> HIDE DEF b
<1>4. Tree(a, Len(ast)) /\ Len(a) = New
  BY <1>1, <1>2, <1>3, AdoptTree
<1> HIDE DEF a
<1>5. Grown(r) /\ r.a = a /\ r.n = val
  <2>1. val \in 0 .. Len(a)
    BY <1>1, <1>2, <1>4
  <2>2. QED
    BY <1>2, <1>4, <2>1, TreeGrown
<1>6. Frames(ks, New, 0)
  BY <1>2, FramesChild DEF Flags
<1> HIDE DEF r, ks
<1>7. QED
  BY <1>1, <1>2, <1>4, <1>5, <1>6, LoopStill

-----------------------------------------------------------------------------
(* What waits for a value.                                                  *)

LEMMA AtIs ==
  ASSUME IInv, NEW op, At(op)
  PROVE  /\ status = "parse" /\ Top.op = op /\ Top.flags \in Flags /\ Top.n \in 0 .. Len(ast)
         /\ op \notin Fresh => val \in 1 .. Len(ast)
         /\ op \in Giving => Top.n \in 1 .. Len(ast)
         /\ op \in Naming => Top.name \in Name
         /\ Top.name \in Name \cup {NoName}
         /\ Len(ast) \in Nat /\ Tree(ast, Len(ast)) /\ val \in 0 .. Len(ast)
         /\ next \in {"semi", "any"}
<1>1. status = "parse" /\ Top.op = op
  BY DEF At
<1>2. /\ Top \in FrameT(Len(ast)) /\ Len(ast) \in Nat
      /\ Top.op \notin Fresh => val \in 1 .. Len(ast)
  BY <1>1, Below
<1>3. /\ Top.flags \in Flags /\ Top.n \in 0 .. Len(ast) /\ (Top.op \in Giving => Top.n # 0)
      /\ (Top.op \in Naming => Top.name \in Name) /\ Top.name \in Name \cup {NoName}
  BY <1>2 DEF FrameT
<1>4. next \in {"semi", "any"}
  BY DEF IInv, Control
<1>5. QED
  BY <1>1, <1>2, <1>3, <1>4, Current

LEMMA StepChild == ASSUME IInv, Child PROVE IInv'
<1> DEFINE n == Top.n
           a == AdoptFlagged(ast, n, val)
           t == ast[val].target
           d == [a[t] EXCEPT !.const = No]
           b == With(a, t, d)
<1>1. At("child") /\ UNCHANGED taken /\ UNCHANGED next /\ Quiet /\ (Return(a, n) \/ Return(b, n))
  BY DEF Child, Resume, With, No
<1>2. "child" \in Giving /\ "child" \notin Fresh /\ "child" \notin Scoped /\ "child" # "file"
  BY DEF Giving, Fresh, Scoped
<1>3. /\ status = "parse" /\ Top.op = "child" /\ val \in 1 .. Len(ast) /\ n \in 1 .. Len(ast)
      /\ Len(ast) \in Nat /\ Tree(ast, Len(ast)) /\ next' \in {"semi", "any"}
  BY <1>1, <1>2, AtIs
<1> HIDE DEF n, t
<1>4. Tree(a, Len(ast)) /\ Len(a) = Len(ast)
  BY <1>3, AdoptFlaggedTree
<1> HIDE DEF a
<1>5. Tree(b, Len(ast)) /\ Len(b) = Len(ast)
  <2>1. ASSUME t \in 1 .. Len(a) PROVE d \in NodeT(Len(ast)) /\ d.kind = a[t].kind
    <3>1. a[t] \in NodeT(Len(ast)) /\ No \in BOOLEAN
      BY <1>3, <1>4, <2>1, TreeNode DEF No
    <3>2. QED
      BY <1>3, <3>1, NodeFields, NodeKind
  <2> HIDE DEF d
  <2>2. QED
    BY <1>3, <1>4, <2>1, TreePut
<1> HIDE DEF b
<1>6. CASE Return(a, n)
  BY <1>1, <1>2, <1>3, <1>4, <1>6, GiveQuiet
<1>7. CASE Return(b, n)
  BY <1>1, <1>2, <1>3, <1>5, <1>7, GiveQuiet
<1>8. QED
  BY <1>1, <1>6, <1>7

LEMMA StepAs == ASSUME IInv, As PROVE IInv'
<1> DEFINE n == Top.n
           kids == <<val>> \o ast[n].kids
           d == [ast[n] EXCEPT !.kids = kids]
           a == With(ast, n, d)
<1>1. At("as") /\ UNCHANGED taken /\ UNCHANGED next /\ Quiet /\ Return(a, n)
  BY DEF As, Resume, With
<1>2. "as" \in Giving /\ "as" \notin Fresh /\ "as" \notin Scoped /\ "as" # "file"
  BY DEF Giving, Fresh, Scoped
<1>3. /\ status = "parse" /\ Top.op = "as" /\ val \in 1 .. Len(ast) /\ n \in 1 .. Len(ast)
      /\ Len(ast) \in Nat /\ Tree(ast, Len(ast)) /\ next' \in {"semi", "any"}
  BY <1>1, <1>2, AtIs
<1> HIDE DEF n
<1>4. Tree(a, Len(ast)) /\ Len(a) = Len(ast)
  <2>1. ast[n] \in NodeT(Len(ast))
    BY <1>3, TreeNode
  <2>2. ast[n].kids \in Seq(1 .. Len(ast)) /\ <<val>> \in Seq(1 .. Len(ast))
    BY <1>3, <2>1 DEF NodeT
  <2>3. kids \in Seq(1 .. Len(ast))
    BY <2>2, ConcatProperties
  <2> HIDE DEF kids
  <2>4. d \in NodeT(Len(ast)) /\ d.kind = ast[n].kind
    BY <1>3, <2>1, <2>3, NodeFields, NodeKind
  <2> HIDE DEF d
  <2>5. QED
    BY <1>3, <2>4, TreePut
<1> HIDE DEF a
<1>5. QED
  BY <1>1, <1>2, <1>3, <1>4, GiveQuiet

LEMMA StepConvert == ASSUME IInv, Convert PROVE IInv'
<1> DEFINE n == Top.n
           a == Adopt(ast, n, val)
           v == IF ast[val].typ = Prim THEN val ELSE n
<1>1. At("convert") /\ UNCHANGED taken /\ UNCHANGED next /\ Quiet /\ Return(a, v)
  BY DEF Convert, Resume
<1>2. "convert" \in Giving /\ "convert" \notin Fresh /\ "convert" \notin Scoped /\ "convert" # "file"
  BY DEF Giving, Fresh, Scoped
<1>3. /\ status = "parse" /\ Top.op = "convert" /\ val \in 1 .. Len(ast) /\ n \in 1 .. Len(ast)
      /\ Len(ast) \in Nat /\ Tree(ast, Len(ast)) /\ next' \in {"semi", "any"}
  BY <1>1, <1>2, AtIs
<1> HIDE DEF n
<1>4. Tree(a, Len(ast)) /\ Len(a) = Len(ast)
  BY <1>3, AdoptTree
<1>5. v \in 1 .. Len(ast)
  BY <1>3
<1> HIDE DEF a, v
<1>6. QED
  BY <1>1, <1>2, <1>3, <1>4, <1>5, GiveQuiet

LEMMA StepList == ASSUME IInv, List PROVE IInv'
<1> DEFINE n == Top.n
           a == Adopt(ast, n, val)
<1>1. /\ At("list") /\ UNCHANGED taken /\ next' \in {"semi", "any"} /\ Quiet
      /\ Return(a, n) \/ Then(a, expr("rvalue") \o <<Top>>)
  BY DEF List, Resume, Consumed
<1>2. "list" \in Giving /\ "list" \notin Fresh /\ "list" \notin Scoped /\ "list" # "file"
  BY DEF Giving, Fresh, Scoped
<1>3. /\ status = "parse" /\ Top.op = "list" /\ val \in 1 .. Len(ast) /\ n \in 1 .. Len(ast)
      /\ Len(ast) \in Nat /\ Tree(ast, Len(ast))
  BY <1>1, <1>2, AtIs
<1>4. Tree(a, Len(ast)) /\ Len(a) = Len(ast)
  BY <1>3, AdoptTree
<1>5. Frames(expr("rvalue"), Len(ast), 0) /\ Starting(expr("rvalue"))
  BY <1>3, FramesExpr DEF Flags
<1> HIDE DEF n, a
<1>6. CASE Return(a, n)
  BY <1>1, <1>2, <1>3, <1>4, <1>6, GiveQuiet
<1>7. CASE Then(a, expr("rvalue") \o <<Top>>)
  BY <1>1, <1>3, <1>4, <1>5, <1>7, ThenAgain
<1>8. QED
  BY <1>1, <1>6, <1>7

LEMMA StepThenBranch == ASSUME IInv, ThenBranch PROVE IInv'
<1> DEFINE n == Top.n
           fl == Top.flags
           b == Adopt(ast, n, val)
           c == AdoptFlagged(ast, n, val)
           m == ast[n].kids[1]
           a == NodeTransferUnresolved(c, n, m)
           ks == expr(fl) \o On("child", n)
<1>1. /\ At("then") /\ UNCHANGED taken /\ next' \in {"semi", "any"} /\ Quiet
      /\ Then(b, expr("rvalue") \o <<Top>>) \/ Return(a, n) \/ Then(a, ks)
  <2>1. next \in {"semi", "any"}
    BY DEF IInv, Control
  <2>2. QED
    BY <2>1 DEF ThenBranch, Resume, Consumed
<1>2. "then" \in Giving /\ "then" \notin Fresh /\ "then" \notin Scoped /\ "then" # "file"
  BY DEF Giving, Fresh, Scoped
<1>3. /\ status = "parse" /\ Top.op = "then" /\ val \in 1 .. Len(ast) /\ n \in 1 .. Len(ast)
      /\ Len(ast) \in Nat /\ Tree(ast, Len(ast)) /\ fl \in Flags
  BY <1>1, <1>2, AtIs
<1>4. Frames(expr("rvalue"), Len(ast), 0) /\ Starting(expr("rvalue"))
  BY <1>3, FramesExpr DEF Flags
<1> HIDE DEF n, m, fl
<1>5. Tree(b, Len(ast)) /\ Len(b) = Len(ast) /\ Tree(c, Len(ast)) /\ Len(c) = Len(ast)
  BY <1>3, AdoptTree, AdoptFlaggedTree
<1> HIDE DEF b, c
<1>6. Tree(a, Len(ast)) /\ Len(a) = Len(ast)
  BY <1>3, <1>5, TransferTree
<1>7. Frames(ks, Len(ast), 0) /\ Starting(ks)
  BY <1>3, FramesChild
<1> HIDE DEF a, ks
<1>8. CASE Then(b, expr("rvalue") \o <<Top>>)
  BY <1>1, <1>3, <1>4, <1>5, <1>8, ThenAgain
<1>9. CASE Return(a, n)
  BY <1>1, <1>2, <1>3, <1>6, <1>9, GiveQuiet
<1>10. CASE Then(a, ks)
  BY <1>1, <1>2, <1>3, <1>6, <1>7, <1>10, ThenQuiet
<1>11. QED
  BY <1>1, <1>8, <1>9, <1>10

LEMMA FrameTo ==
  ASSUME NEW last, NEW f \in FrameT(last), NEW op, NEW n
  PROVE  [f EXCEPT !.op = op, !.n = n] = Frame(op, n, f.flags, f.name)
<1> DEFINE x == f.op
           y == f.n
           z == f.flags
           w == f.name
           g == [f EXCEPT !.op = op]
<1>1. f = [op |-> x, n |-> y, flags |-> z, name |-> w]
  BY DEF FrameT
<1>2. [f EXCEPT !.op = op, !.n = n] = [g EXCEPT !.n = n]
  BY Zenon
<1> HIDE DEF x, y, z, w
<1>3. g = [op |-> op, n |-> y, flags |-> z, name |-> w]
  BY <1>1
<1> HIDE DEF g
<1>4. [g EXCEPT !.n = n] = [op |-> op, n |-> n, flags |-> z, name |-> w]
  BY <1>3
<1>5. QED
  BY <1>2, <1>4 DEF z, w, Frame

LEMMA StepVarType == ASSUME IInv, VarType PROVE IInv'
<1> DEFINE f == [Top EXCEPT !.op = "mkvar", !.n = val]
           g == [Top EXCEPT !.op = "declare", !.n = val]
           nm == Top.name
           fl == Top.flags
<1>1. /\ At("vartype") /\ UNCHANGED taken /\ UNCHANGED next /\ Quiet
      /\ Then(ast, expr("rvalue") \o <<f>>) \/ Then(ast, <<g>>)
  BY DEF VarType, Resume
<1>2. "vartype" \in Naming /\ "vartype" \notin Fresh /\ "vartype" \notin Scoped /\ "vartype" # "file"
  BY DEF Naming, Fresh, Scoped
<1>3. /\ status = "parse" /\ Top.op = "vartype" /\ val \in 1 .. Len(ast) /\ nm \in Name /\ fl \in Flags
      /\ Len(ast) \in Nat /\ Tree(ast, Len(ast)) /\ next' \in {"semi", "any"}
  BY <1>1, <1>2, AtIs
<1>4. Top \in FrameT(Len(ast))
  BY <1>3, Below
<1>5. f = Frame("mkvar", val, fl, nm) /\ g = Frame("declare", val, fl, nm)
  BY <1>4, FrameTo, Zenon
<1> HIDE DEF f, g, nm, fl
<1>6. Frames(<<f>>, Len(ast), 0) /\ Frames(<<g>>, Len(ast), 0)
  <2>1. "mkvar" \in Naming /\ "declare" \in Naming /\ "mkvar" # "field" /\ "declare" # "field"
    BY DEF Naming
  <2>2. val \in 0 .. Len(ast)
    BY <1>3
  <2>3. QED
    BY <1>3, <1>5, <2>1, <2>2, FramesNamed
<1>7. Frames(expr("rvalue") \o <<f>>, Len(ast), 0)
  BY <1>3, <1>6, FramesWait DEF Flags
<1>8. val # 0
  BY <1>3
<1>9. CASE Then(ast, expr("rvalue") \o <<f>>)
  BY <1>1, <1>2, <1>3, <1>7, <1>8, <1>9, ThenQuiet
<1>10. CASE Then(ast, <<g>>)
  BY <1>1, <1>2, <1>3, <1>6, <1>8, <1>10, ThenQuiet
<1>11. QED
  BY <1>1, <1>9, <1>10

\* A variable with its initializer.
LEMMA SetInitHolds ==
  ASSUME NEW last \in Nat, Bad <= last, PackageMeans(pkgscope, env, leaked, last),
         NEW s, ScopesMean(s, Name, env, leaked, last),
         NEW a, Tree(a, last), NEW n \in 1 .. Len(a), NEW init \in 1 .. last, NEW r,
         r = set_var_init(a, s, n, init)
  PROVE  Holds(r, last) /\ Len(r.a) = Len(a) /\ r.n = n
<1> DEFINE q == useAsRValue(a, s, init)
           typ == IF a[n].typ = 0 THEN q.a[q.n].typ ELSE a[n].typ
           c == AdoptFlagged(q.a, n, q.n)
           d == [c[n] EXCEPT !.typ = typ]
           b == With(c, n, d)
<1>1. init \in 1 .. Len(a) /\ last <= Len(a) /\ Len(a) \in Nat
  BY DEF Tree
<1>2. Holds(q, last) /\ Len(q.a) = Len(a) /\ q.n \in {Prim, init}
  BY <1>1, UseAsRValueHolds
<1>3. r = [q EXCEPT !.a = b, !.n = n]
  <2>1. r = [q EXCEPT !.a = [c EXCEPT ![n].typ = typ], !.n = n]
    BY Zenon DEF set_var_init
  <2> HIDE DEF q, typ, c
  <2>2. QED
    BY <2>1 DEF With
<1> HIDE DEF q
<1>4. q.n \in 1 .. last
  BY <1>2 DEF Prim, Bad
<1>5. Tree(c, last) /\ Len(c) = Len(a)
  BY <1>2, <1>4, AdoptFlaggedTree DEF Holds
<1>6. typ \in 0 .. last
  <2>1. a[n] \in NodeT(last) /\ q.a[q.n] \in NodeT(last)
    BY <1>2, TreeNode DEF Holds
  <2>2. QED
    BY <2>1 DEF NodeT
<1> HIDE DEF c, typ
<1>7. Tree(b, last) /\ Len(b) = Len(a)
  <2>1. d \in NodeT(last) /\ d.kind = c[n].kind
    BY <1>5, <1>6, TreeNode, NodeFields, NodeKind
  <2> HIDE DEF d
  <2>2. QED
    BY <1>5, <2>1, TreePut
<1> HIDE DEF b
<1>8. r = Result(b, q.s, n)
  <2> DEFINE x == q.s
             y == q.n
             p == [q EXCEPT !.a = b]
  <2>1. p = [a |-> b, s |-> x, n |-> y]
    <3>1. p = Result(b, x, y)
      BY <1>2, ResultPut DEF Holds
    <3>2. QED
      BY <3>1 DEF Result
  <2>2. r = [p EXCEPT !.n = n]
    BY <1>3, Zenon
  <2> HIDE DEF p, x, y
  <2>3. [p EXCEPT !.n = n] = [a |-> b, s |-> x, n |-> n]
    BY <2>1
  <2>4. QED
    BY <2>2, <2>3 DEF x, Result
<1>9. r.a = b /\ r.s = q.s /\ r.n = n /\ IsResult(r)
  BY <1>8 DEF Result, IsResult
<1>10. QED
  BY <1>2, <1>7, <1>9 DEF Holds

LEMMA StepMakeVarOf ==
  ASSUME IInv, status = "parse", UNCHANGED taken, Top.op \notin Scoped, Top.op # "file",
         NEW name \in Name, NEW init \in 0 .. Len(ast), NEW typ \in 0 .. Len(ast), NEW isconst \in BOOLEAN,
         make_var(name, init, typ, isconst)
  PROVE  IInv'
<1> DEFINE v == [named("Var", name) EXCEPT !.const = TRUE, !.typ = typ, !.isconst = isconst]
           a == Append(ast, v)
           r == IF init = 0 THEN Result(a, scope, New) ELSE set_var_init(a, scope, New, init)
           p == [r EXCEPT !.s = define(r.s, name, New)]
<1>1. /\ Go(p, <<>>) /\ Defined(r.s, name, New) /\ next' = next /\ status' = "parse" /\ leaked' = leaked
  BY DEF make_var
<1>2. /\ Tree(ast, Len(ast)) /\ Len(ast) \in Nat /\ Bad <= Len(ast) /\ New = Len(ast) + 1
      /\ PackageMeans(pkgscope, env, leaked, Len(ast)) /\ ScopesMean(scope, Name, env, leaked, Len(ast))
      /\ New \in Nat /\ New \in 1 .. New /\ Len(ast) <= New
  BY Current DEF New
<1>3. Tree(a, Len(ast)) /\ Len(a) = New
  <2>1. v \in NodeT(Len(ast))
    <3>1. name \in Name \cup {NoName}
      OBVIOUS
    <3>2. QED
      BY <1>2, <3>1, VarT, Zenon
  <2> HIDE DEF v
  <2>2. QED
    BY <2>1, AppendGrown
<1> HIDE DEF a
<1>4. Holds(r, Len(ast)) /\ Len(r.a) = New /\ r.n = New
  <2>1. CASE init = 0
    <3>1. r = Result(a, scope, New)
      BY <2>1
    <3>2. r.a = a /\ r.s = scope /\ r.n = New /\ IsResult(r)
      BY <3>1 DEF Result, IsResult
    <3> HIDE DEF r
    <3>3. QED
      BY <1>2, <1>3, <3>2 DEF Holds
  <2>2. CASE init # 0
    <3>1. r = set_var_init(a, scope, New, init)
      BY <2>2
    <3>2. init \in 1 .. Len(ast) /\ New \in 1 .. Len(a)
      BY <1>2, <1>3, <2>2
    <3> HIDE DEF r
    <3>3. QED
      BY <1>2, <1>3, <3>1, <3>2, SetInitHolds
  <2>3. QED
    BY <2>1, <2>2
<1> HIDE DEF r
<1> DEFINE s == define(r.s, name, New)
<1>5. p.a = r.a /\ p.s = s /\ p.n = New
  <2>1. p = Result(r.a, s, r.n)
    BY <1>4, ResultPut DEF Holds
  <2> HIDE DEF s
  <2>2. QED
    BY <1>4, <2>1 DEF Result
<1> HIDE DEF p, s
<1>6. Tree(r.a, New) /\ ScopesMean(r.s, Name, env, leaked, New)
  <2>1. Grown(r)
    BY <1>2, <1>4, HoldsGrown
  <2>2. QED
    BY <1>4, <2>1 DEF Grown
<1>7. PackageMeans(pkgscope, env, leaked, New)
  BY <1>2, PackageMore
<1>8. /\ ScopesMean(s, Name, env', leaked', New) /\ PackageMeans(pkgscope', env', leaked', New)
      /\ Len(env') = Len(env)
  BY <1>1, <1>2, <1>6, <1>7, DefinedMeans DEF s
<1>9. Frames(<<>>, New, 0)
  BY <1>2, FramesNone
<1>10. Len(env') = (IF Top.op \in Scoped THEN Len(env) - 1 ELSE Len(env)) + 0
  <2>1. Len(env) \in Nat
    BY Below
  <2>2. QED
    BY <1>8, <2>1
<1>11. next' \in {"semi", "any"}
  BY <1>1 DEF IInv, Control
<1>12. p.n \in 0 .. New /\ p.n # 0
  BY <1>2, <1>5
<1>13. QED
  BY <1>1, <1>2, <1>4, <1>5, <1>6, <1>8, <1>9, <1>10, <1>11, <1>12, GoScopes

LEMMA StepMakeVar == ASSUME IInv, MakeVar PROVE IInv'
<1>1. CASE Resume("mkvar") /\ make_var(Top.name, val, Top.n, Top.flags = "const")
  <2>1. "mkvar" \in Naming /\ "mkvar" \notin Fresh /\ "mkvar" \notin Scoped /\ "mkvar" # "file"
    BY DEF Naming, Fresh, Scoped
  <2>2. At("mkvar") /\ UNCHANGED taken
    BY <1>1 DEF Resume
  <2>3. /\ status = "parse" /\ Top.op = "mkvar" /\ Top.name \in Name /\ Top.n \in 0 .. Len(ast)
        /\ val \in 0 .. Len(ast)
    BY <2>1, <2>2, AtIs
  <2> DEFINE x == Top.flags = "const"
  <2>4. x \in BOOLEAN
    BY Zenon
  <2>5. make_var(Top.name, val, Top.n, x)
    BY <1>1
  <2> HIDE DEF x
  <2>6. QED
    BY <2>1, <2>2, <2>3, <2>4, <2>5, StepMakeVarOf
<1>2. CASE Resume("declare") /\ make_var(Top.name, 0, Top.n, FALSE)
  <2>1. "declare" \in Naming /\ "declare" \notin Fresh /\ "declare" \notin Scoped /\ "declare" # "file"
    BY DEF Naming, Fresh, Scoped
  <2>2. At("declare") /\ UNCHANGED taken
    BY <1>2 DEF Resume
  <2>3. /\ status = "parse" /\ Top.op = "declare" /\ Top.name \in Name /\ Top.n \in 0 .. Len(ast)
        /\ Len(ast) \in Nat
    BY <2>1, <2>2, AtIs
  <2>4. make_var(Top.name, 0, Top.n, No)
    BY <1>2, Zenon DEF No
  <2>5. No \in BOOLEAN /\ 0 \in 0 .. Len(ast)
    BY <2>3 DEF No
  <2>6. QED
    BY <2>1, <2>2, <2>3, <2>4, <2>5, StepMakeVarOf
<1>3. QED
  BY <1>1, <1>2 DEF MakeVar

LEMMA KidsPut ==
  ASSUME NEW S, NEW q \in Seq(S), NEW i, NEW x \in S PROVE [q EXCEPT ![i] = x] \in Seq(S)
<1> DEFINE m == Len(q)
           b == [q EXCEPT ![i] = x]
<1>1. m \in Nat /\ q \in [1 .. m -> S]
  BY LenProperties
<1> HIDE DEF m
<1>2. b \in [1 .. m -> S]
  BY <1>1
<1> HIDE DEF b
<1>3. QED
  BY <1>1, <1>2, SeqDef DEF b

\* The last child of a block is replaced by what it is used as.
LastUsed(r, n, i, x, m) == [r EXCEPT !.a[n].kids[i] = x, !.n = m]

LEMMA LastUsedHolds ==
  ASSUME NEW last \in Nat, NEW r, Holds(r, last), NEW n, NEW i, NEW x \in 1 .. last,
         NEW m \in 1 .. Len(r.a), NEW p, p = LastUsed(r, n, i, x, m)
  PROVE  Holds(p, last) /\ Len(p.a) = Len(r.a) /\ p.n = m
<1> DEFINE a == r.a
           kids == [a[n].kids EXCEPT ![i] = x]
           d == [a[n] EXCEPT !.kids = kids]
           b == With(a, n, d)
           s == r.s
           y == r.n
           g == [r EXCEPT !.a = b]
<1>1. r = [a |-> a, s |-> s, n |-> y] /\ Tree(a, last)
  BY DEF Holds, IsResult
<1>2. [r EXCEPT !.a[n].kids[i] = x] = g
  BY <1>1 DEF With
<1>3. p = [g EXCEPT !.n = m]
  <2> DEFINE h == [r EXCEPT !.a[n].kids[i] = x]
  <2>1. p = [h EXCEPT !.n = m]
    BY Zenon DEF LastUsed
  <2> HIDE DEF h, g
  <2>2. h = g
    BY <1>2 DEF h
  <2>3. QED
    BY <2>1, <2>2
<1>4. Tree(b, last) /\ Len(b) = Len(a)
  <2>1. ASSUME n \in 1 .. Len(a) PROVE d \in NodeT(last) /\ d.kind = a[n].kind
    <3>1. a[n] \in NodeT(last)
      BY <1>1, <2>1, TreeNode
    <3>2. a[n].kids \in Seq(1 .. last)
      BY <3>1 DEF NodeT
    <3> HIDE DEF a
    <3>3. kids \in Seq(1 .. last)
      BY <3>2, KidsPut
    <3> HIDE DEF kids
    <3>4. QED
      BY <3>1, <3>3, NodeFields, NodeKind
  <2> HIDE DEF d, a
  <2>2. QED
    BY <1>1, <2>1, TreePut
<1> HIDE DEF b, a, s, y
<1>5. g = [a |-> b, s |-> s, n |-> y]
  BY <1>1
<1> HIDE DEF g
<1>6. p = [a |-> b, s |-> s, n |-> m]
  BY <1>3, <1>5
<1>7. p.a = b /\ p.s = s /\ p.n = m /\ IsResult(p)
  <2>1. p = Result(b, s, m)
    BY <1>6 DEF Result
  <2>2. QED
    BY <2>1, ResultIs
<1>8. QED
  BY <1>4, <1>7 DEF Holds, a, s

LEMMA StepBlockMember == ASSUME IInv, BlockMember PROVE IInv'
<1> DEFINE n == Top.n
           a == AdoptFlagged(ast, n, val)
           i == Len(a[n].kids)
           u == a[val].used \/ a[val].kind = "Var"
           d == [a[val] EXCEPT !.used = u]
           b == With(a, val, d)
           r == useAsRValue(b, scope, val)
           m == IF i = 1 THEN r.n ELSE n
           p == [r EXCEPT !.a[n].kids[i] = r.n, !.n = m]
<1>1. /\ At("block") /\ UNCHANGED taken /\ next' \in {"semi", "any"} /\ Quiet
      /\ Then(a, expr("stmt") \o <<Top>>) \/ Go(p, <<>>)
  <2>1. [a EXCEPT ![val].used = @ \/ a[val].kind = "Var"] = b
    BY DEF With
  <2>2. /\ At("block") /\ UNCHANGED taken /\ next' \in {"semi", "any"} /\ Quiet
        /\ \/ Then(a, expr("stmt") \o <<Top>>)
           \/ LET q == useAsRValue([a EXCEPT ![val].used = @ \/ a[val].kind = "Var"], scope, val)
              IN Go([q EXCEPT !.a[n].kids[i] = q.n, !.n = IF i = 1 THEN q.n ELSE n], <<>>)
    BY DEF BlockMember, Resume, Consumed
  <2>3. QED
    BY <2>1, <2>2
<1>2. "block" \in Giving /\ "block" \notin Fresh /\ "block" \notin Scoped /\ "block" # "file"
  BY DEF Giving, Fresh, Scoped
<1>3. /\ status = "parse" /\ Top.op = "block" /\ val \in 1 .. Len(ast) /\ n \in 1 .. Len(ast)
  BY <1>1, <1>2, AtIs
<1>4. /\ Tree(ast, Len(ast)) /\ Len(ast) \in Nat /\ Bad <= Len(ast)
      /\ PackageMeans(pkgscope, env, leaked, Len(ast)) /\ ScopesMean(scope, Name, env, leaked, Len(ast))
  BY Current
<1>5. u \in BOOLEAN
  BY Either, Zenon
<1> HIDE DEF u, n
<1>6. Tree(a, Len(ast)) /\ Len(a) = Len(ast)
  BY <1>3, <1>4, AdoptFlaggedTree
<1> HIDE DEF a, i
<1>7. Tree(b, Len(ast)) /\ Len(b) = Len(ast)
  <2>1. a[val] \in NodeT(Len(ast))
    BY <1>3, <1>4, <1>6, TreeNode
  <2>2. d \in NodeT(Len(ast)) /\ d.kind = a[val].kind
    BY <1>4, <1>5, <2>1, NodeFields, NodeKind
  <2> HIDE DEF d
  <2>3. QED
    BY <1>4, <1>6, <2>2, TreePut
<1> HIDE DEF b
<1>8. Holds(r, Len(ast)) /\ Len(r.a) = Len(ast) /\ r.n \in {Prim, val}
  BY <1>3, <1>4, <1>7, UseAsRValueHolds
<1> HIDE DEF r
<1>9. r.n \in 1 .. Len(ast) /\ m \in 1 .. Len(r.a)
  BY <1>3, <1>4, <1>8 DEF Prim, Bad
<1>10. Holds(p, Len(ast)) /\ Len(p.a) = Len(ast)
  <2>1. p = LastUsed(r, n, i, r.n, m)
    BY DEF LastUsed
  <2> HIDE DEF m, p
  <2>2. QED
    BY <1>4, <1>8, <1>9, <2>1, LastUsedHolds
<1> HIDE DEF p
<1>11. CASE Go(p, <<>>)
  <2>1. Grown(p) /\ p.n # 0
    BY <1>4, <1>10, HoldsGrown
  <2>2. Frames(<<>>, Len(p.a), 0)
    BY <1>4, <1>10, FramesNone
  <2>3. QED
    BY <1>1, <1>2, <1>3, <1>11, <2>1, <2>2, GoQuiet
<1>12. CASE Then(a, expr("stmt") \o <<Top>>)
  <2>1. Frames(expr("stmt"), Len(a), 0) /\ Starting(expr("stmt"))
    BY <1>4, <1>6, FramesExpr DEF Flags
  <2>2. QED
    BY <1>1, <1>3, <1>4, <1>6, <1>12, <2>1, ThenAgain
<1>13. QED
  BY <1>1, <1>11, <1>12

\* The scope of an entry ends with it.
LEMMA StepCloses ==
  ASSUME IInv, status = "parse", Take \/ UNCHANGED taken, next' \in {"semi", "any"},
         Top.op \in Scoped,
         NEW a, Tree(a, Len(ast)), Len(a) = Len(ast), NEW n \in 1 .. Len(a),
         Go(Result(a, popScope(scope), n), <<>>), env' = Closed(env),
         UNCHANGED <<pkgscope, status, leaked>>
  PROVE  IInv'
<1> DEFINE s == popScope(scope)
           r == Result(a, s, n)
           td == Tail(Ended)
<1>1. /\ Len(ast) \in Nat
      /\ PackageMeans(pkgscope, env, leaked, Len(ast)) /\ ScopesMean(scope, Name, env, leaked, Len(ast))
  BY Current
<1>2. Top.op # "file"
  BY DEF Scoped
<1>3. 2 <= Len(env) /\ Len(env) \in Nat
  <2>1. Stacked(td, Len(ast), Len(env) - 1) /\ Len(env) \in Nat \ {0}
    BY <1>2, Below
  <2> HIDE DEF td
  <2>2. Len(td) \in Nat /\ Open(td) + 1 = Len(env) - 1
    BY <2>1, LenProperties DEF Stacked
  <2>3. Open(td) \in Nat
    BY <2>2, OpenNat
  <2>4. QED
    BY <2>1, <2>2, <2>3
<1>4. env \in Seq(Bindings(Name, Len(ast)))
  BY <1>1 DEF ScopesMean
<1>5. ScopesMean(s, Name, env', leaked', Len(ast))
  BY <1>1, <1>3, MeansClose
<1>6. PackageMeans(pkgscope', env', leaked', Len(ast)) /\ Len(env') = Len(env) - 1
  BY <1>1, <1>3, <1>4, PackageClose, ClosedIs
<1> HIDE DEF s
<1>7. r.a = a /\ r.s = s /\ r.n = n
  BY DEF Result
<1>8. Go(r, <<>>)
  BY DEF s
<1> HIDE DEF r
<1>9. Frames(<<>>, Len(ast), 0)
  BY <1>1, FramesNone
<1>10. Len(env') = (IF Top.op \in Scoped THEN Len(env) - 1 ELSE Len(env)) + 0
  BY <1>3, <1>6
<1>11. status' = "parse" /\ r.n \in 0 .. Len(ast) /\ r.n # 0
  BY <1>1, <1>7
<1>12. QED
  BY <1>1, <1>2, <1>5, <1>6, <1>7, <1>8, <1>9, <1>10, <1>11, GoScopes

LEMMA StepEndBlock == ASSUME IInv, EndBlock PROVE IInv'
<1>1. /\ At("endblock") /\ UNCHANGED taken /\ UNCHANGED next /\ UNCHANGED <<pkgscope, status, leaked>>
      /\ Go(Result(ast, popScope(scope), val), <<>>) /\ env' = Closed(env)
  BY DEF EndBlock, Resume, popScopeAndCheckUnused, Closed
<1>2. "endblock" \in Scoped /\ "endblock" \notin Fresh
  BY DEF Scoped, Fresh
<1>3. /\ status = "parse" /\ Top.op = "endblock" /\ val \in 1 .. Len(ast)
      /\ Tree(ast, Len(ast)) /\ next' \in {"semi", "any"}
  BY <1>1, <1>2, AtIs
<1>4. QED
  BY <1>1, <1>2, <1>3, StepCloses

LEMMA StepEndFun == ASSUME IInv, EndFun PROVE IInv'
<1> DEFINE n == Top.n
           a == AdoptFlagged(ast, n, val)
<1>1. /\ At("fun") /\ UNCHANGED taken /\ UNCHANGED next /\ UNCHANGED <<pkgscope, status, leaked>>
      /\ Go(Result(a, popScope(scope), n), <<>>) /\ env' = Closed(env)
  BY DEF EndFun, Resume, popScopeAndCheckUnused, Closed
<1>2. "fun" \in Scoped /\ "fun" \notin Fresh /\ "fun" \in Giving
  BY DEF Scoped, Fresh, Giving
<1>3. /\ status = "parse" /\ Top.op = "fun" /\ val \in 1 .. Len(ast) /\ n \in 1 .. Len(ast)
      /\ Tree(ast, Len(ast)) /\ Len(ast) \in Nat /\ next' \in {"semi", "any"}
  BY <1>1, <1>2, AtIs
<1> HIDE DEF n
<1>4. Tree(a, Len(ast)) /\ Len(a) = Len(ast)
  BY <1>3, AdoptFlaggedTree
<1> HIDE DEF a
<1>5. QED
  BY <1>1, <1>2, <1>3, <1>4, StepCloses

LEMMA StepEndStruct == ASSUME IInv, EndStruct PROVE IInv'
<1>1. /\ At("struct") /\ UNCHANGED taken /\ next' \in {"semi", "any"}
      /\ UNCHANGED <<pkgscope, status, leaked>>
      /\ Go(Result(ast, popScope(scope), Top.n), <<>>) /\ env' = Closed(env)
  BY DEF EndStruct, Resume, Closed
<1>2. "struct" \in Scoped /\ "struct" \in Giving
  BY DEF Scoped, Giving
<1>3. /\ status = "parse" /\ Top.op = "struct" /\ Top.n \in 1 .. Len(ast) /\ Tree(ast, Len(ast))
  BY <1>1, <1>2, AtIs
<1>4. QED
  BY <1>1, <1>2, <1>3, StepCloses

LEMMA StepParam == ASSUME IInv, Param PROVE IInv'
<1> DEFINE n == Top.n
           name == Top.name
           u == ast[val].unres
           v == [named("Var", name) EXCEPT !.const = TRUE, !.typ = val, !.unres = u]
           b == Append(ast, v)
           a == AdoptFlagged(b, n, New)
           s == define(scope, name, New)
           r == Result(a, s, val)
<1>1. /\ At("param") /\ UNCHANGED taken /\ next' \in {"semi", "any"} /\ status' = status /\ leaked' = leaked
      /\ \/ Then(a, <<>>) /\ Quiet
         \/ name # NoName /\ Go(r, <<>>) /\ Defined(scope, name, New)
  BY DEF Param, Resume, Consumed, Quiet, history
<1>2. "param" \in Giving /\ "param" \notin Fresh /\ "param" \notin Scoped /\ "param" # "file"
  BY DEF Giving, Fresh, Scoped
<1>3. /\ status = "parse" /\ Top.op = "param" /\ val \in 1 .. Len(ast) /\ n \in 1 .. Len(ast)
      /\ name \in Name \cup {NoName}
  BY <1>1, <1>2, AtIs
<1> HIDE DEF n, name
<1>4. /\ Tree(ast, Len(ast)) /\ Len(ast) \in Nat /\ New = Len(ast) + 1
      /\ PackageMeans(pkgscope, env, leaked, Len(ast)) /\ ScopesMean(scope, Name, env, leaked, Len(ast))
      /\ New \in Nat /\ New \in 1 .. New /\ Len(ast) <= New
  BY Current DEF New
<1>5. v \in NodeT(Len(ast))
  <2>1. ast[val] \in NodeT(Len(ast))
    BY <1>3, <1>4, TreeNode
  <2>2. u \in BOOLEAN
    BY <2>1 DEF NodeT
  <2>3. val \in 0 .. Len(ast)
    BY <1>3, <1>4
  <2> HIDE DEF u
  <2>4. QED
    BY <1>3, <1>4, <2>2, <2>3, VarT, Zenon
<1> HIDE DEF v
<1>6. Tree(b, New) /\ Len(b) = New
  BY <1>5, AppendGrown
<1> HIDE DEF b
<1>7. Tree(a, New) /\ Len(a) = New
  BY <1>4, <1>6, AdoptFlaggedTree
<1>8. Frames(<<>>, New, 0) /\ val # 0 /\ val \in 0 .. New
  BY <1>3, <1>4, FramesNone
<1> HIDE DEF a
<1>9. CASE Then(a, <<>>) /\ Quiet
  BY <1>1, <1>2, <1>3, <1>4, <1>7, <1>8, <1>9, ThenQuiet
<1>10. CASE name # NoName /\ Go(r, <<>>) /\ Defined(scope, name, New)
  <2>1. name \in Name
    BY <1>3, <1>10
  <2>2. ScopesMean(scope, Name, env, leaked, New) /\ PackageMeans(pkgscope, env, leaked, New)
    BY <1>4, MeansMore, PackageMore
  <2>3. /\ ScopesMean(s, Name, env', leaked', New) /\ PackageMeans(pkgscope', env', leaked', New)
        /\ Len(env') = Len(env)
    BY <1>1, <1>4, <1>10, <2>1, <2>2, DefinedMeans
  <2>4. r.a = a /\ r.s = s /\ r.n = val
    BY DEF Result
  <2>5. Len(env') = (IF Top.op \in Scoped THEN Len(env) - 1 ELSE Len(env)) + 0
    <3>1. Len(env) \in Nat
      BY <1>3, Below
    <3>2. QED
      BY <1>2, <1>3, <2>3, <3>1
  <2> HIDE DEF r, s
  <2>6. status' = "parse" /\ Top.op # "file"
    BY <1>1, <1>2, <1>3
  <2>7. QED
    BY <1>1, <1>3, <1>4, <1>7, <1>8, <1>10, <2>3, <2>4, <2>5, <2>6, GoScopes
<1>11. QED
  BY <1>1, <1>9, <1>10

\* What a function waits for, in its scope.
LEMMA FramesFun ==
  ASSUME NEW last \in Nat, NEW n \in 1 .. last
  PROVE  /\ Frames(On("body", n), last, 1) /\ Starting(On("body", n))
         /\ Frames(On("fun", n), last, 1)
<1>1. /\ "body" \in Ops \ (Naming \cup {"file"}) /\ "body" \in Scoped /\ "body" \in Fresh
      /\ "fun" \in Ops \ (Naming \cup {"file"}) /\ "fun" \in Scoped
  BY DEF Ops, Naming, Scoped, Giving, Fresh
<1>2. n \in 0 .. last /\ n # 0
  OBVIOUS
<1>3. QED
  BY <1>1, <1>2, FramesOn

LEMMA StepSignature == ASSUME IInv, Signature PROVE IInv'
<1> DEFINE n == Top.n
           ps == expr("type") \o On("child", n)
           ks == ps \o On("body", n)
<1>1. /\ At("signature") /\ UNCHANGED taken /\ next' \in {"semi", "any"} /\ Quiet
      /\ Then(ast, On("body", n)) \/ Then(ast, ks)
  BY DEF Signature, Resume, Consumed
<1>2. "signature" \in Giving /\ "signature" \in Fresh /\ "signature" \in Scoped /\ "signature" # "file"
  BY DEF Giving, Fresh, Scoped
<1>3. /\ status = "parse" /\ Top.op = "signature" /\ n \in 1 .. Len(ast)
      /\ Tree(ast, Len(ast)) /\ Len(ast) \in Nat
  BY <1>1, <1>2, AtIs
<1> HIDE DEF n
<1>4. Frames(On("body", n), Len(ast), 1) /\ Starting(On("body", n))
  BY <1>3, FramesFun
<1>5. Frames(ks, Len(ast), 1) /\ Starting(ks)
  <2>1. Frames(ps, Len(ast), 0) /\ Starting(ps)
    BY <1>3, FramesChild DEF Flags
  <2> HIDE DEF ps
  <2>2. Frames(ks, Len(ast), 0 + 1) /\ Starting(ks)
    BY <1>3, <1>4, <2>1, FramesConcat
  <2>3. QED
    BY <2>2
<1> HIDE DEF ks
<1>6. CASE Then(ast, On("body", n))
  BY <1>1, <1>2, <1>3, <1>4, <1>6, ThenQuiet
<1>7. CASE Then(ast, ks)
  BY <1>1, <1>2, <1>3, <1>5, <1>7, ThenQuiet
<1>8. QED
  BY <1>1, <1>6, <1>7

LEMMA StepFunBody == ASSUME IInv, FunBody PROVE IInv'
<1> DEFINE n == Top.n
           a == Append(ast, mknode("Block"))
           ks == expr("rvalue") \o On("fun", n)
           ps == expr("stmt") \o On("block", New)
           ls == ps \o On("fun", n)
<1>1. /\ At("body") /\ next' \in {"semi", "any"}
      /\ \/ UNCHANGED taken /\ Then(ast, ks) /\ Quiet
         \/ UNCHANGED taken /\ Then(a, ls) /\ Quiet
         \/ /\ Take /\ Go(Result(ast, popScope(scope), n), <<>>) /\ env' = Closed(env)
            /\ UNCHANGED <<pkgscope, status, leaked>>
  BY DEF FunBody, Consumed, Closed
<1>2. "body" \in Giving /\ "body" \in Fresh /\ "body" \in Scoped /\ "body" # "file"
  BY DEF Giving, Fresh, Scoped
<1>3. /\ status = "parse" /\ Top.op = "body" /\ n \in 1 .. Len(ast)
      /\ Tree(ast, Len(ast)) /\ Len(ast) \in Nat
  BY <1>1, <1>2, AtIs
<1> HIDE DEF n
<1>4. New \in Nat /\ New \in 1 .. New /\ n \in 1 .. New /\ Len(ast) <= New /\ New \in 0 .. New /\ New # 0
  BY <1>3 DEF New
<1>5. Frames(ks, Len(ast), 1) /\ Starting(ks)
  BY <1>3, FramesFun, FramesWait DEF Flags
<1>6. Tree(a, Len(ast)) /\ Len(a) = New
  BY <1>3, MknodeT, AppendGrown DEF Kinds
<1>7. Frames(ls, New, 1) /\ Starting(ls)
  <2>1. "block" \in Ops \ (Naming \cup {"file"}) /\ "block" \notin Scoped
    BY DEF Ops, Naming, Scoped, Giving
  <2>2. Frames(On("block", New), New, 0)
    BY <1>4, <2>1, FramesOn
  <2>3. Frames(ps, New, 0) /\ Starting(ps)
    BY <1>4, <2>2, FramesWait DEF Flags
  <2> HIDE DEF ps
  <2>4. Frames(On("fun", n), New, 1)
    BY <1>4, FramesFun
  <2>5. Frames(ls, New, 0 + 1) /\ Starting(ls)
    BY <1>4, <2>3, <2>4, FramesConcat
  <2>6. QED
    BY <2>5
<1> HIDE DEF a, ks, ls
<1>8. CASE UNCHANGED taken /\ Then(ast, ks) /\ Quiet
  BY <1>1, <1>2, <1>3, <1>5, <1>8, ThenQuiet
<1>9. CASE UNCHANGED taken /\ Then(a, ls) /\ Quiet
  BY <1>1, <1>2, <1>3, <1>4, <1>6, <1>7, <1>9, ThenQuiet
<1>10. CASE /\ Take /\ Go(Result(ast, popScope(scope), n), <<>>) /\ env' = Closed(env)
            /\ UNCHANGED <<pkgscope, status, leaked>>
  BY <1>1, <1>2, <1>3, <1>10, StepCloses
<1>11. QED
  BY <1>1, <1>8, <1>9, <1>10

LEMMA StepField == ASSUME IInv, Field PROVE IInv'
<1>1. PICK name \in Name :
        LET a == Append(ast, named("Field", name))
            field == <<Frame("field", New, "", name)>>
            r == resolve_id(NewId(a, name), scope, New + 1, No)
        IN \/ Then(a, expr("type") \o field \o <<Top>>)
           \/ Go(r, field \o <<Top>>)
  BY DEF Field, NewId, No
<1> DEFINE a == Append(ast, named("Field", name))
           f == Frame("field", New, "", name)
           r == resolve_id(NewId(a, name), scope, New + 1, No)
           ks == expr("type") \o <<f>>
<1>2. At("struct") /\ Take /\ next' \in {"semi", "any"} /\ Quiet
  BY DEF Field, Consumed
<1>3. status = "parse"
  BY <1>2 DEF At
<1>4. /\ Tree(ast, Len(ast)) /\ Len(ast) \in Nat /\ Bad <= Len(ast) /\ New = Len(ast) + 1
      /\ PackageMeans(pkgscope, env, leaked, Len(ast)) /\ ScopesMean(scope, Name, env, leaked, Len(ast))
      /\ New \in Nat /\ New \in 0 .. New /\ New # 0 /\ Len(ast) <= New
      /\ New + 1 \in Nat /\ New \in 0 .. New + 1
  BY Current DEF New
<1>5. Tree(a, Len(ast)) /\ Len(a) = New
  <2>1. "Field" \in Kinds /\ name \in Name
    BY <1>1 DEF Kinds
  <2>2. QED
    BY <1>4, <2>1, NamedT, AppendGrown
<1>6. "field" \in Naming /\ "" \in Flags /\ name \in Name
  BY <1>1 DEF Naming, Flags
<1>7. Frames(<<f>>, New, 0) /\ Frames(<<f>>, New + 1, 0)
  BY <1>4, <1>6, FramesNamed
<1>8. Then(a, ks \o <<Top>>) \/ Go(r, <<f>> \o <<Top>>)
  BY <1>1
<1> HIDE DEF a, f
<1>9. Frames(ks, New, 0) /\ Starting(ks)
  BY <1>4, <1>7, FramesWait DEF Flags
<1>10. Holds(r, Len(ast)) /\ Len(r.a) = New + 1
  <2>1. r = resolve_id(NewId(a, name), scope, Len(a) + 1, No)
    BY <1>5
  <2> HIDE DEF r
  <2>2. Holds(r, Len(ast)) /\ Len(r.a) = Len(a) + 1
    <3>1. name \in Name
      BY <1>6
    <3>2. Holds(r, Len(ast)) /\ Len(r.a) = Len(a) + 1
      BY <1>4, <1>5, <2>1, <3>1, NewIdHolds
    <3>3. QED
      BY <3>2
  <2>3. QED
    BY <1>5, <2>2
<1> HIDE DEF r, ks
<1>11. CASE Then(a, ks \o <<Top>>)
  BY <1>2, <1>3, <1>4, <1>5, <1>9, <1>11, ThenAgain
<1>12. CASE Go(r, <<f>> \o <<Top>>)
  <2>1. Grown(r) /\ r.n # 0
    BY <1>4, <1>10, HoldsGrown
  <2>2. QED
    BY <1>2, <1>3, <1>7, <1>10, <1>12, <2>1, AgainQuiet
<1>13. QED
  BY <1>8, <1>11, <1>12

LEMMA StepFieldDefined == ASSUME IInv, FieldDefined PROVE IInv'
<1> DEFINE n == Top.n
           name == Top.name
           a == [ast EXCEPT ![n].typ = val]
           s == define(scope, name, n)
           r == Result(a, s, val)
           inits == {<<>>, expr("rvalue") \o On("child", n)}
<1>1. /\ At("field") /\ UNCHANGED taken
      /\ \/ syntaxerrp
         \/ /\ \E init \in inits : Go(r, init \o On("fieldend", n))
            /\ Defined(scope, name, n) /\ next' \in {"semi", "any"} /\ status' = status /\ leaked' = leaked
  BY DEF FieldDefined, Resume, Consumed
<1>2. /\ "field" \in Giving /\ "field" \in Naming /\ "field" \notin Fresh /\ "field" \notin Scoped
      /\ "field" # "file"
  BY DEF Giving, Naming, Fresh, Scoped
<1>3. /\ status = "parse" /\ Top.op = "field" /\ val \in 1 .. Len(ast) /\ n \in 1 .. Len(ast)
      /\ name \in Name
  BY <1>1, <1>2, AtIs
<1> HIDE DEF n, name
<1>4. /\ Tree(ast, Len(ast)) /\ Len(ast) \in Nat
      /\ PackageMeans(pkgscope, env, leaked, Len(ast)) /\ ScopesMean(scope, Name, env, leaked, Len(ast))
  BY Current
<1>5. CASE syntaxerrp
  BY <1>1, <1>3, <1>5, StepPanic DEF syntaxerrp
<1>6. CASE /\ \E init \in inits : Go(r, init \o On("fieldend", n))
           /\ Defined(scope, name, n) /\ next' \in {"semi", "any"} /\ status' = status /\ leaked' = leaked
  <2>1. PICK init \in inits : Go(r, init \o On("fieldend", n))
    BY <1>6
  <2> DEFINE ks == init \o On("fieldend", n)
  <2>2. Tree(a, Len(ast)) /\ Len(a) = Len(ast)
    <3> DEFINE d == [ast[n] EXCEPT !.typ = val]
    <3>1. ast[n] \in NodeT(Len(ast)) /\ val \in 0 .. Len(ast)
      BY <1>3, <1>4, TreeNode
    <3>2. d \in NodeT(Len(ast)) /\ d.kind = ast[n].kind
      BY <1>4, <3>1, NodeFields, NodeKind
    <3>3. a = With(ast, n, d)
      BY DEF With
    <3> HIDE DEF d, a
    <3>4. QED
      BY <1>4, <3>2, <3>3, TreePut
  <2>3. Frames(ks, Len(ast), 0)
    <3>1. Frames(init, Len(ast), 0)
      <4>1. Frames(<<>>, Len(ast), 0)
        BY <1>4, FramesNone
      <4>2. Frames(expr("rvalue") \o On("child", n), Len(ast), 0)
        BY <1>3, <1>4, FramesChild DEF Flags
      <4>3. init = <<>> \/ init = expr("rvalue") \o On("child", n)
        BY <2>1
      <4>4. QED
        BY <4>1, <4>2, <4>3
    <3>2. "fieldend" \in Ops \ (Naming \cup {"file"}) /\ "fieldend" \notin Scoped
      BY DEF Ops, Naming, Giving, Scoped
    <3>3. n \in 0 .. Len(ast) /\ n # 0
      BY <1>3, <1>4
    <3>4. Frames(On("fieldend", n), Len(ast), 0)
      BY <1>4, <3>2, <3>3, FramesOn
    <3>5. Frames(ks, Len(ast), 0 + 0)
      BY <1>4, <3>1, <3>4, FramesConcat
    <3>6. QED
      BY <3>5
  <2>4. /\ ScopesMean(s, Name, env', leaked', Len(ast)) /\ PackageMeans(pkgscope', env', leaked', Len(ast))
        /\ Len(env') = Len(env)
    BY <1>3, <1>4, <1>6, DefinedMeans
  <2>5. r.a = a /\ r.s = s /\ r.n = val
    BY DEF Result
  <2>6. Len(env') = (IF Top.op \in Scoped THEN Len(env) - 1 ELSE Len(env)) + 0
    <3>1. Len(env) \in Nat
      BY <1>3, Below
    <3>2. QED
      BY <1>2, <1>3, <2>4, <3>1
  <2>7. Go(r, ks)
    BY <2>1
  <2>8. status' = "parse" /\ Top.op # "file" /\ val \in 0 .. Len(ast) /\ val # 0 /\ Len(ast) <= Len(ast)
    BY <1>2, <1>3, <1>4, <1>6
  <2> HIDE DEF r, s, ks, a
  <2>9. QED
    BY <1>1, <1>3, <1>4, <1>6, <2>2, <2>3, <2>4, <2>5, <2>6, <2>7, <2>8, GoScopes
<1>7. QED
  BY <1>1, <1>5, <1>6

LEMMA StepFieldEnd == ASSUME IInv, FieldEnd PROVE IInv'
<1> DEFINE n == Top.n
           struct == Tail(Ended)[1].n
           m == ast[n].typ
           b == NodeTransferUnresolved(ast, n, m)
           a == AdoptFlagged(b, struct, n)
<1>1. At("fieldend") /\ UNCHANGED taken /\ next' \in {"semi", "any"} /\ Quiet /\ Then(a, <<>>)
  BY DEF FieldEnd, Resume, Consumed
<1>2. /\ "fieldend" \in Giving /\ "fieldend" \notin Fresh /\ "fieldend" \notin Scoped /\ "fieldend" # "file"
  BY DEF Giving, Fresh, Scoped
<1>3. /\ status = "parse" /\ Top.op = "fieldend" /\ val \in 1 .. Len(ast) /\ n \in 1 .. Len(ast)
      /\ Tree(ast, Len(ast)) /\ Len(ast) \in Nat
  BY <1>1, <1>2, AtIs
<1> HIDE DEF n, struct, m
<1>4. Tree(b, Len(ast)) /\ Len(b) = Len(ast)
  BY <1>3, TransferTree
<1> HIDE DEF b
<1>5. Tree(a, Len(ast)) /\ Len(a) = Len(ast)
  BY <1>3, <1>4, AdoptFlaggedTree
<1> HIDE DEF a
<1>6. Frames(<<>>, Len(a), 0) /\ val # 0
  BY <1>3, <1>5, FramesNone
<1>7. QED
  BY <1>1, <1>2, <1>3, <1>5, <1>6, ThenQuiet

LEMMA StepFileMember == ASSUME IInv, FileMember PROVE IInv'
<1> DEFINE a == AdoptFlagged(ast, File, val)
<1>1. /\ At("file") /\ UNCHANGED taken
      /\ \/ Then(a, expr("stmt") \o <<Top>>) /\ next' \in {"semi", "any"} /\ Quiet
         \/ /\ Then(a, <<>>)
            /\ status' \in {"failed", "resolve", "done"}
            /\ UNCHANGED <<next, pkgscope, env, leaked>>
  BY DEF FileMember, Resume, Consumed, history
<1>2. "file" \notin Fresh
  BY DEF Fresh
<1>3. /\ status = "parse" /\ Top.op = "file" /\ val \in 1 .. Len(ast)
      /\ Tree(ast, Len(ast)) /\ Len(ast) \in Nat
  BY <1>1, <1>2, AtIs
<1>4. Tree(a, Len(ast)) /\ Len(a) = Len(ast)
  BY <1>3, AdoptFlaggedTree
<1> HIDE DEF a
<1>5. CASE Then(a, expr("stmt") \o <<Top>>) /\ next' \in {"semi", "any"} /\ Quiet
  <2>1. Frames(expr("stmt"), Len(a), 0) /\ Starting(expr("stmt"))
    BY <1>3, <1>4, FramesExpr DEF Flags
  <2>2. QED
    BY <1>1, <1>3, <1>4, <1>5, <2>1, ThenAgain
<1>6. CASE /\ Then(a, <<>>)
           /\ status' \in {"failed", "resolve", "done"}
           /\ UNCHANGED <<next, pkgscope, env, leaked>>
  <2>1. Stacked(Ended, Len(ast), Len(env)) /\ Len(Ended) = 1
    BY <1>3, Below
  <2>2. Tail(Ended) = <<>>
    <3> DEFINE T == FrameT(Len(ast))
               q == Tail(Ended)
    <3>1. Ended \in Seq(T) /\ Ended # <<>>
      BY <2>1 DEF Stacked
    <3> HIDE DEF T
    <3>2. q \in Seq(T) /\ Len(q) = 0
      BY <2>1, <3>1, HeadTailProperties
    <3> HIDE DEF q
    <3>3. q = <<>>
      BY <3>2, EmptySeq
    <3>4. QED
      BY <3>3 DEF q
  <2>3. ast' = a /\ scope' = scope /\ val' = val /\ todo' = <<>> \o Tail(Ended)
    BY <1>6 DEF Then, Go, Put, Result
  <2>4. todo' = <<>>
    BY <2>2, <2>3
  <2>5. Resolving'
    <3>1. <<>> \in Seq(CallT(Len(ast'))) /\ Len(<<>>) = 0
      BY EmptySeq
    <3>2. Calls(<<>>, ast', Len(ast'))
      BY <3>1 DEF Calls
    <3>3. QED
      BY <2>4, <3>2 DEF Resolving
  <2>6. QED
    BY <1>1, <1>4, <1>6, <2>3, <2>5 DEF IInv, Control
<1>7. QED
  BY <1>1, <1>5, <1>6

-----------------------------------------------------------------------------
(* Steps of the resolver.                                                   *)

NonNull(c) == IF c = 0 THEN <<>> ELSE <<c>>

LEMMA NonNullT == ASSUME NEW last \in Nat, NEW c \in 0 .. last PROVE NonNull(c) \in Seq(1 .. last)
<1>1. CASE c = 0
  BY <1>1, EmptySeq DEF NonNull
<1>2. CASE c # 0
  <2>1. c \in 1 .. last
    BY <1>2
  <2>2. <<c>> \in Seq(1 .. last)
    BY <2>1
  <2>3. QED
    BY <1>2, <2>2 DEF NonNull
<1>3. QED
  BY <1>1, <1>2

LEMMA ReverseT == ASSUME NEW S, NEW q \in Seq(S) PROVE Reverse(q) \in Seq(S)
<1> DEFINE m == Len(q)
           b == [i \in 1 .. m |-> q[(m - i) + 1]]
<1>1. m \in Nat /\ q \in [1 .. m -> S]
  BY LenProperties
<1>2. Reverse(q) = b
  BY DEF Reverse
<1> HIDE DEF m
<1>3. b \in [1 .. m -> S]
  BY <1>1
<1> HIDE DEF b
<1>4. QED
  BY <1>1, <1>2, <1>3, SeqDef

LEMMA FrontT == ASSUME NEW S, NEW q \in Seq(S), Len(q) > 2 PROVE Front(q) \in Seq(S)
<1>1. Len(q) \in Nat
  BY LenProperties
<1>2. 1 \in 1 .. Len(q) + 1 /\ Len(q) - 1 \in 0 .. Len(q)
  BY <1>1
<1>3. SubSeq(q, 1, Len(q) - 1) \in Seq(S)
  BY <1>2, SubSeqProperties
<1>4. QED
  BY <1>3 DEF Front

LEMMA ChildrenT == ASSUME IInv, NEW n \in 1 .. Len(ast) PROVE Children(n) \in Seq(1 .. Len(ast))
<1> DEFINE S == 1 .. Len(ast)
           kids == ast[n].kids
           tg == NonNull(ast[n].target)
           rest == CASE ast[n].kind = "Assign" -> tg \o kids
                     [] ast[n].kind \in {"Call", "TypeCast"} -> Reverse(kids)
                     [] ast[n].kind = "If" -> IF Len(kids) > 2 THEN Front(kids) ELSE kids
                     [] ast[n].kind = "Id" -> tg
                     [] OTHER -> kids
<1>1. Tree(ast, Len(ast)) /\ Len(ast) \in Nat
  BY Current
<1>2. ast[n] \in NodeT(Len(ast))
  BY <1>1, TreeNode
<1>3. kids \in Seq(S) /\ ast[n].target \in 0 .. Len(ast) /\ ast[n].typ \in 0 .. Len(ast)
  BY <1>2 DEF NodeT
<1>4. tg \in Seq(S) /\ NonNull(ast[n].typ) \in Seq(S)
  BY <1>1, <1>3, NonNullT
<1>5. Children(n) = NonNull(ast[n].typ) \o rest
  BY DEF Children, NonNull
<1> HIDE DEF S, kids, tg
<1>6. tg \o kids \in Seq(S) /\ Reverse(kids) \in Seq(S) /\ (Len(kids) > 2 => Front(kids) \in Seq(S))
  BY <1>3, <1>4, ConcatProperties, ReverseT, FrontT
<1>7. rest \in Seq(S)
  BY <1>3, <1>4, <1>6
<1> HIDE DEF rest
<1>8. QED
  BY <1>4, <1>5, <1>7, ConcatProperties DEF S

\* Calls are pushed and popped.
LEMMA CallsPush ==
  ASSUME NEW last \in Nat, NEW td, NEW a, Calls(td, a, last), NEW c \in CallT(last),
         a[c.n].kind = "Id" => a[c.n].target # 0
  PROVE  Calls(<<c>> \o td, a, last)
<1> DEFINE T == CallT(last)
           q == <<c>> \o td
<1>1. td \in Seq(T) /\ <<c>> \in Seq(T) /\ Len(<<c>>) = 1 /\ <<c>>[1] = c
  BY DEF Calls
<1> HIDE DEF T
<1>2. /\ q \in Seq(T) /\ Len(q) = 1 + Len(td) /\ Len(td) \in Nat
      /\ \A i \in 1 .. 1 + Len(td) : q[i] = IF i <= 1 THEN <<c>>[i] ELSE td[i - 1]
  BY <1>1, ConcatProperties, LenProperties
<1> HIDE DEF q
<1>3. ASSUME NEW i \in 1 .. Len(q) PROVE a[q[i].n].kind = "Id" => a[q[i].n].target # 0
  <2>1. CASE i = 1
    <3>1. q[i] = c
      BY <1>1, <1>2, <2>1
    <3>2. QED
      BY <3>1
  <2>2. CASE i # 1
    <3>1. i - 1 \in 1 .. Len(td) /\ q[i] = td[i - 1]
      BY <1>2, <2>2
    <3>2. QED
      BY <3>1 DEF Calls
  <2>3. QED
    BY <2>1, <2>2
<1>4. QED
  BY <1>2, <1>3 DEF Calls, T, q

LEMMA CallsTop ==
  ASSUME NEW last \in Nat, NEW td, NEW a, Calls(td, a, last), td # <<>>
  PROVE  /\ Head(td) \in CallT(last) /\ Calls(Tail(td), a, last)
         /\ a[Head(td).n].kind = "Id" => a[Head(td).n].target # 0
<1> DEFINE T == CallT(last)
           q == Tail(td)
<1>1. td \in Seq(T)
  BY DEF Calls
<1> HIDE DEF T
<1>2. /\ Head(td) \in T /\ Head(td) = td[1] /\ q \in Seq(T) /\ Len(q) = Len(td) - 1
      /\ \A i \in 1 .. Len(q) : q[i] = td[i + 1]
  BY <1>1, HeadTailProperties
<1>3. Len(td) \in Nat \ {0}
  BY <1>1, EmptySeq, LenProperties
<1> HIDE DEF q
<1>4. ASSUME NEW i \in 1 .. Len(q) PROVE a[q[i].n].kind = "Id" => a[q[i].n].target # 0
  <2>1. i + 1 \in 1 .. Len(td) /\ q[i] = td[i + 1]
    BY <1>2, <1>3
  <2>2. QED
    BY <2>1 DEF Calls
<1>5. 1 \in 1 .. Len(td)
  BY <1>3
<1>6. a[td[1].n].kind = "Id" => a[td[1].n].target # 0
  BY <1>5 DEF Calls
<1>7. QED
  BY <1>2, <1>4, <1>6 DEF Calls, T, q

\* A change of the tree that leaves kinds and what identifiers name.
Steady(a, b) == \A i \in 1 .. Len(a) : b[i].kind = a[i].kind /\ (a[i].target # 0 => b[i].target # 0)

LEMMA SteadyCalls ==
  ASSUME NEW last \in Nat, NEW td, NEW a, NEW b, Calls(td, a, last), Steady(a, b), Len(a) = last
  PROVE  Calls(td, b, last)
<1>1. ASSUME NEW i \in 1 .. Len(td) PROVE b[td[i].n].kind = "Id" => b[td[i].n].target # 0
  <2>1. td[i] \in CallT(last)
    BY ElementOfSeq DEF Calls
  <2>2. td[i].n \in 1 .. Len(a)
    BY <2>1 DEF CallT
  <2>3. QED
    BY <2>2 DEF Calls, Steady
<1>2. QED
  BY <1>1 DEF Calls

LEMMA SteadyPut ==
  ASSUME NEW a, NEW last \in Nat, Tree(a, last), NEW n \in 1 .. Len(a), NEW d,
         d.kind = a[n].kind, a[n].target # 0 => d.target # 0
  PROVE  Steady(a, With(a, n, d))
<1>1. a \in [1 .. Len(a) -> NodeT(last)]
  BY LenProperties DEF Tree
<1>2. \A i \in 1 .. Len(a) : With(a, n, d)[i] = IF i = n THEN d ELSE a[i]
  BY <1>1 DEF With
<1>3. QED
  BY <1>2 DEF Steady

LEMMA NodeTarget ==
  ASSUME NEW last, NEW d \in NodeT(last)
  PROVE  \A x : /\ [d EXCEPT !.target = x].target = x
                /\ [d EXCEPT !.typ = x].target = d.target /\ [d EXCEPT !.unres = x].target = d.target
                /\ [d EXCEPT !.used = x].target = d.target
BY DEF NodeT

\* A step of the resolver.
LEMMA Walks ==
  ASSUME IInv, status = "resolve", Untouched, Tree(ast', Len(ast)), Len(ast') = Len(ast),
         status' \in {"resolve", "done", "failed"}, Calls(todo', ast', Len(ast))
  PROVE  IInv'
<1>1. /\ scope' = scope /\ pkgscope' = pkgscope /\ val' = val /\ taken' = taken /\ next' = next
      /\ env' = env /\ leaked' = leaked
  BY DEF Untouched, history
<1>2. QED
  BY <1>1 DEF IInv, Control, Resolving

LEMMA StepResolveFile == ASSUME IInv, ResolveFile PROVE IInv'
<1> DEFINE c == Call(File, Children(File))
<1>1. /\ status = "resolve" /\ status' = status /\ ast' = ast /\ Untouched /\ todo' = <<c>>
  BY DEF ResolveFile
<1>2. Tree(ast, Len(ast)) /\ Len(ast) \in Nat
  BY Current
<1>3. File \in 1 .. Len(ast) /\ ast[File].kind # "Id"
  BY <1>2 DEF Tree
<1>4. c \in CallT(Len(ast)) /\ c.n = File
  BY <1>3, ChildrenT DEF Call, CallT
<1> HIDE DEF c
<1>5. Calls(<<>>, ast, Len(ast))
  BY EmptySeq DEF Calls
<1>6. Calls(<<c>> \o <<>>, ast, Len(ast))
  BY <1>2, <1>3, <1>4, <1>5, CallsPush
<1>7. <<c>> \o <<>> = <<c>>
  BY <1>4, ConcatEmptySeq
<1>8. QED
  BY <1>1, <1>2, <1>6, <1>7, Walks

LEMMA CallEnters ==
  ASSUME IInv, NEW n \in 1 .. Len(ast), NEW rest \in Seq(1 .. Len(ast))
  PROVE  Call(n, rest) \in CallT(Len(ast)) /\ Call(n, rest).n = n
BY DEF Call, CallT

\* The child that is visited next, and what remains.
LEMMA NextChild ==
  ASSUME IInv, Visiting
  PROVE  /\ Child1 \in 1 .. Len(ast) /\ Calls(Caller, ast, Len(ast))
         /\ status = "resolve"
<1> DEFINE S == 1 .. Len(ast)
           T == CallT(Len(ast))
           h == Head(todo)
           q == h.rest
           s == SubSeq(q, Next1 + 1, Len(q))
           c == [h EXCEPT !.rest = s]
<1>1. status = "resolve" /\ todo # <<>> /\ Marked # {}
  BY DEF Visiting, Walking
<1>2. Tree(ast, Len(ast)) /\ Len(ast) \in Nat
  BY Current
<1>3. Calls(todo, ast, Len(ast))
  BY <1>1 DEF IInv, Control, Resolving
<1>4. /\ h \in T /\ Calls(Tail(todo), ast, Len(ast))
      /\ ast[h.n].kind = "Id" => ast[h.n].target # 0
  BY <1>1, <1>2, <1>3, CallsTop
<1>5. q \in Seq(S) /\ h.n \in S
  BY <1>4 DEF CallT
<1>6. Marked \subseteq 1 .. Len(q) /\ Len(q) \in Nat
  BY <1>5, LenProperties DEF Marked
<1>7. Next1 \in Marked
  <2>1. Marked \subseteq Nat
    BY <1>6
  <2>2. \E i \in Marked : \A j \in Marked : i <= j
    BY <1>1, <2>1, LeastOf
  <2>3. QED
    BY <2>2 DEF Next1
<1>8. Next1 \in 1 .. Len(q)
  BY <1>6, <1>7
<1>9. Child1 \in S
  <2>1. q[Next1] \in S
    BY <1>5, <1>8, ElementOfSeq
  <2>2. QED
    BY <2>1 DEF Child1
<1>10. s \in Seq(S)
  <2>1. Next1 + 1 \in 1 .. Len(q) + 1 /\ Len(q) \in 0 .. Len(q)
    BY <1>6, <1>8
  <2>2. QED
    BY <1>5, <2>1, SubSeqProperties
<1>11. Caller = <<c>> \o Tail(todo)
  BY DEF Caller
<1> HIDE DEF s, q
<1>12. c \in T /\ c.n = h.n
  BY <1>4, <1>10 DEF CallT
<1> HIDE DEF c, h, S, T
<1>13. Calls(<<c>> \o Tail(todo), ast, Len(ast))
  BY <1>2, <1>4, <1>12, CallsPush DEF T
<1>14. QED
  BY <1>1, <1>9, <1>11, <1>13 DEF S

LEMMA StepEnter == ASSUME IInv, Enter PROVE IInv'
<1> DEFINE c == Call(Child1, Children(Child1))
<1>1. /\ Visiting /\ (ast[Child1].kind = "Id" => ast[Child1].target # 0)
      /\ todo' = <<c>> \o Caller /\ ast' = ast /\ status' = status /\ Untouched
  BY DEF Enter
<1>2. Child1 \in 1 .. Len(ast) /\ Calls(Caller, ast, Len(ast)) /\ status = "resolve"
  BY <1>1, NextChild
<1>3. Tree(ast, Len(ast)) /\ Len(ast) \in Nat
  BY Current
<1>4. c \in CallT(Len(ast)) /\ c.n = Child1
  BY <1>2, ChildrenT, CallEnters
<1> HIDE DEF c
<1>5. Calls(<<c>> \o Caller, ast, Len(ast))
  BY <1>1, <1>2, <1>3, <1>4, CallsPush
<1>6. QED
  BY <1>1, <1>2, <1>3, <1>5, Walks

LEMMA StepLookUp == ASSUME IInv, LookUp PROVE IInv'
<1> DEFINE n == Child1
           t == ScopeLookup(ast[n].name)
           last == Len(ast)
           undefined == [ast EXCEPT ![n].target = Bad]
           defined == [ast EXCEPT ![n].unres = FALSE, ![n].target = t,
                                  ![t].used = @ \/ ast[t].kind = "Var"]
<1>1. /\ Visiting /\ status' = status /\ Untouched
      /\ ast[n].kind = "Id" /\ ast[n].target = 0
      /\ \/ t = 0 /\ ast' = undefined /\ todo' = Caller
         \/ t # 0 /\ ast' = defined /\ todo' = <<Call(n, <<t>>)>> \o Caller
  BY DEF LookUp
<1>2. n \in 1 .. last /\ Calls(Caller, ast, last) /\ status = "resolve"
  BY <1>1, NextChild
<1> HIDE DEF n
<1>3. Tree(ast, last) /\ last \in Nat /\ Bad <= last /\ PackageMeans(pkgscope, env, leaked, last)
  BY Current
<1>4. ast[n] \in NodeT(last)
  BY <1>2, <1>3, TreeNode
<1>5. t \in 0 .. last
  <2>1. ast[n].name \in Name
    BY <1>1, <1>4 DEF NodeT
  <2>2. QED
    BY <1>3, <2>1 DEF ScopeLookup, GlobalScope, PackageMeans, Prim, Bad
<1>6. CASE t = 0 /\ ast' = undefined /\ todo' = Caller
  <2> DEFINE d == [ast[n] EXCEPT !.target = Bad]
  <2>1. Bad \in 0 .. last /\ Bad # 0
    BY <1>3 DEF Bad
  <2>2. d \in NodeT(last)
    BY <1>3, <1>4, <2>1, NodeFields
  <2>3. d.kind = ast[n].kind /\ d.target = Bad
    BY <1>4, NodeKind, NodeTarget
  <2>4. undefined = With(ast, n, d)
    BY DEF With
  <2> HIDE DEF d, undefined
  <2>5. Tree(undefined, last) /\ Len(undefined) = last
    BY <1>3, <2>2, <2>3, <2>4, TreePut
  <2>6. Steady(ast, undefined)
    BY <1>2, <1>3, <2>1, <2>3, <2>4, SteadyPut
  <2>7. Calls(Caller, undefined, last)
    BY <1>2, <1>3, <2>6, SteadyCalls
  <2>8. QED
    BY <1>1, <1>2, <1>6, <2>5, <2>7, Walks
<1>7. CASE t # 0 /\ ast' = defined /\ todo' = <<Call(n, <<t>>)>> \o Caller
  <2> DEFINE d1 == [ast[n] EXCEPT !.unres = FALSE]
             d == [d1 EXCEPT !.target = t]
             b == With(ast, n, d)
             y == b[t].used \/ ast[t].kind = "Var"
             e == [b[t] EXCEPT !.used = y]
             c == Call(n, <<t>>)
  <2>1. y \in BOOLEAN
    BY Either, Zenon
  <2>2. t \in 1 .. last
    BY <1>5, <1>7
  <2>3. defined = With(b, t, e)
    <3>1. ast \in [1 .. last -> NodeT(last)]
      BY <1>3, LenProperties DEF Tree
    <3> DEFINE z == [ast EXCEPT ![n].unres = FALSE, ![n].target = t]
    <3>2. z = b
      BY <3>1 DEF With
    <3>3. defined = [z EXCEPT ![t].used = @ \/ ast[t].kind = "Var"]
      BY Zenon
    <3> HIDE DEF z, b
    <3>4. [z EXCEPT ![t].used = @ \/ ast[t].kind = "Var"] = With(b, t, e)
      BY <3>2 DEF With
    <3>5. QED
      BY <3>3, <3>4
  <2>4. d1 \in NodeT(last) /\ d1.kind = ast[n].kind
    BY <1>3, <1>4, NodeFields, NodeKind
  <2> HIDE DEF d1
  <2>5. d \in NodeT(last)
    BY <1>3, <1>5, <2>4, NodeFields
  <2>6. d.kind = ast[n].kind /\ d.target = t
    BY <2>4, NodeKind, NodeTarget
  <2> HIDE DEF d, t
  <2>7. Tree(b, last) /\ Len(b) = last
    BY <1>3, <2>5, <2>6, TreePut
  <2>8. Steady(ast, b)
    BY <1>2, <1>3, <1>7, <2>6, SteadyPut
  <2>9. b[n].target # 0
    <3>1. ast \in [1 .. last -> NodeT(last)]
      BY <1>3, LenProperties DEF Tree
    <3>2. b[n] = d
      BY <1>2, <3>1 DEF With
    <3>3. QED
      BY <1>7, <2>6, <3>2
  <2> HIDE DEF b, y
  <2>10. b[t] \in NodeT(last)
    BY <1>3, <2>2, <2>7, TreeNode
  <2>11. e \in NodeT(last)
    BY <1>3, <2>1, <2>10, NodeFields
  <2>12. e.kind = b[t].kind /\ e.target = b[t].target
    BY <2>10, NodeKind, NodeTarget
  <2> HIDE DEF e, defined
  <2>13. Tree(defined, last) /\ Len(defined) = last
    BY <1>3, <2>3, <2>7, <2>11, <2>12, TreePut
  <2>14. Steady(b, defined)
    BY <1>3, <2>2, <2>3, <2>7, <2>12, SteadyPut
  <2>15. Calls(Caller, b, last)
    BY <1>2, <1>3, <2>8, SteadyCalls
  <2>16. Calls(Caller, defined, last)
    BY <1>3, <2>7, <2>14, <2>15, SteadyCalls
  <2>17. defined[n].target # 0
    BY <1>2, <2>7, <2>9, <2>14 DEF Steady
  <2>18. c \in CallT(last) /\ c.n = n
    <3>1. <<t>> \in Seq(1 .. last)
      BY <2>2
    <3>2. QED
      BY <1>2, <3>1, CallEnters
  <2> HIDE DEF c
  <2>19. Calls(<<c>> \o Caller, defined, last)
    BY <1>3, <2>16, <2>17, <2>18, CallsPush
  <2>20. todo' = <<c>> \o Caller
    BY <1>7 DEF c
  <2>21. QED
    BY <1>1, <1>2, <1>7, <2>13, <2>19, <2>20, Walks
<1>8. QED
  BY <1>1, <1>6, <1>7

LEMMA StepLeave == ASSUME IInv, Leave PROVE IInv'
<1> DEFINE n == Head(todo).n
           last == Len(ast)
           typ == IF ast[n].kind = "Id" THEN ast[ast[n].target].typ ELSE ast[n].typ
           d1 == [ast[n] EXCEPT !.unres = FALSE]
           d == [d1 EXCEPT !.typ = typ]
           a == [ast EXCEPT ![n].unres = FALSE, ![n].typ = typ]
<1>1. /\ status = "resolve" /\ todo # <<>> /\ ast' = a /\ todo' = Tail(todo) /\ Untouched
      /\ status' \in {status, "failed", "done"}
  BY DEF Leave, Walking
<1>2. Tree(ast, last) /\ last \in Nat
  BY Current
<1>3. Calls(todo, ast, last)
  BY <1>1 DEF IInv, Control, Resolving
<1>4. /\ Head(todo) \in CallT(last) /\ Calls(Tail(todo), ast, last)
      /\ ast[n].kind = "Id" => ast[n].target # 0
  BY <1>1, <1>2, <1>3, CallsTop
<1>5. n \in 1 .. last
  BY <1>4 DEF CallT
<1> HIDE DEF n
<1>6. ast[n] \in NodeT(last)
  BY <1>2, <1>5, TreeNode
<1>7. typ \in 0 .. last
  <2>1. ast[n].target \in 0 .. last /\ ast[n].typ \in 0 .. last
    BY <1>6 DEF NodeT
  <2>2. CASE ast[n].kind = "Id"
    <3>1. ast[n].target \in 1 .. last
      BY <1>4, <2>1, <2>2
    <3>2. ast[ast[n].target] \in NodeT(last)
      BY <1>2, <3>1, TreeNode
    <3>3. ast[ast[n].target].typ \in 0 .. last
      BY <3>2 DEF NodeT
    <3>4. QED
      BY <2>2, <3>3
  <2>3. CASE ast[n].kind # "Id"
    BY <2>1, <2>3
  <2>4. QED
    BY <2>2, <2>3
<1> HIDE DEF typ
<1>8. a = With(ast, n, d)
  <2>1. ast \in [1 .. last -> NodeT(last)]
    BY <1>2, LenProperties DEF Tree
  <2>2. QED
    BY <2>1 DEF With
<1>9. d1 \in NodeT(last)
  BY <1>2, <1>6, NodeFields
<1>10. d1.kind = ast[n].kind /\ d1.target = ast[n].target
  BY <1>6, NodeKind, NodeTarget
<1> HIDE DEF d1
<1>11. d \in NodeT(last)
  BY <1>2, <1>7, <1>9, NodeFields
<1>12. d.kind = ast[n].kind /\ d.target = ast[n].target
  BY <1>9, <1>10, NodeKind, NodeTarget
<1> HIDE DEF d, a
<1>13. Tree(a, last) /\ Len(a) = last
  BY <1>2, <1>8, <1>11, <1>12, TreePut
<1>14. Steady(ast, a)
  BY <1>2, <1>5, <1>8, <1>12, SteadyPut
<1>15. Calls(Tail(todo), a, last)
  BY <1>2, <1>4, <1>14, SteadyCalls
<1>16. status' \in {"resolve", "failed", "done"}
  BY <1>1
<1>17. QED
  BY <1>1, <1>13, <1>15, <1>16, Walks

-----------------------------------------------------------------------------
(* The initial states, and every step.                                      *)

LEMMA PreludeTree ==
  /\ Tree(Prelude, 5) /\ Len(Prelude) = 5
<1> DEFINE v == [mknode("Var") EXCEPT !.const = TRUE, !.kids = <<Lit>>]
           p == mknode("Prim")
           l == mknode("Lit")
           f == mknode("File")
           b == mknode("Bad")
           q == <<p, l, f, b, v>>
<1>1. p \in NodeT(5) /\ l \in NodeT(5) /\ f \in NodeT(5) /\ b \in NodeT(5) /\ f.kind = "File"
  BY MknodeT DEF Kinds
<1>2. v \in NodeT(5)
  <2> DEFINE w == mknode("Var")
             u == [w EXCEPT !.const = Yes]
  <2>1. w \in NodeT(5)
    BY MknodeT DEF Kinds
  <2>2. Yes \in BOOLEAN /\ <<Lit>> \in Seq(1 .. 5)
    BY DEF Yes, Lit
  <2> HIDE DEF w
  <2>3. u \in NodeT(5)
    BY <2>1, <2>2, NodeFields
  <2>4. v = [u EXCEPT !.kids = <<Lit>>]
    BY Zenon DEF Yes, w
  <2> HIDE DEF u
  <2>5. QED
    BY <2>2, <2>3, <2>4, NodeFields
<1>3. Prelude = q
  BY DEF Prelude
<1> HIDE DEF p, l, f, b, v
<1>4. q \in Seq(NodeT(5)) /\ Len(q) = 5 /\ q[3] = f
  BY <1>1, <1>2
<1> HIDE DEF q
<1>5. f.kind # "Id"
  BY <1>1
<1>6. QED
  BY <1>3, <1>4, <1>5 DEF Tree, File

\* Before anything is parsed the stack is empty and one scope, the package's, is open.
LEMMA EmptyMeans ==
  ASSUME NEW names, NEW storage \in Nat, 2 <= storage, NEW last \in Nat,
         NEW b \in Bindings(names, last)
  PROVE  ScopesMean(EmptyStack(storage), names, <<b>>, No, last)
<1> DEFINE s == EmptyStack(storage)
           bs == [d \in 1 .. 2 |-> 0]
           e == <<b>>
           B == Bindings(names, last)
<1>1. s.ptr = <<>> /\ s.base = 0 /\ s.cap = storage
  BY DEF EmptyStack
<1>2. s \in Stacks(names)
  <2>1. <<>> \in Seq(Nat \cup names)
    BY EmptySeq
  <2>2. QED
    BY <2>1 DEF EmptyStack, Stacks
<1>3. e \in Seq(B) /\ e # <<>> /\ Len(e) = 1
  BY DEF e
<1>4. Len(s.ptr) = 0
  BY <1>1, EmptySeq
<1> HIDE DEF s, e
<1>5. Scopes(s, names, bs, Len(e))
  BY <1>1, <1>2, <1>3, <1>4 DEF Scopes
<1>6. \A nm \in names : \A d \in 1 .. Len(e) : Found(s, bs, d, nm) = 0
  <2> TAKE nm \in names
  <2> TAKE d \in 1 .. Len(e)
  <2>1. bs[d] = 0 /\ bs[d + 1] = 0
    BY <1>3
  <2>2. Deep(s, nm)[0][0] = DeepStep(s, nm, 0, 0)
    BY DeepAt
  <2>3. QED
    BY <2>1, <2>2 DEF Found, DeepStep
<1> HIDE DEF bs
<1>7. \A nm \in names : \A d \in 1 .. Len(e) : Nested(Found(s, bs, d, nm), e, d, nm)
  BY <1>3, <1>6 DEF Nested
<1>8. \A d \in 2 .. Len(e) : bs[d] # 0
  BY <1>3
<1>9. Answers(s, names, bs, e, No, last)
  BY <1>6, <1>7, <1>8 DEF Answers
<1>10. QED
  BY <1>3, <1>5, <1>9 DEF ScopesMean, s, e, B

LEMMA FrameBare ==
  ASSUME NEW last \in Nat, NEW op \in Ops \ (Giving \cup Naming), NEW flags \in Flags
  PROVE  Frame(op, 0, flags, NoName) \in FrameT(last) /\ Frame(op, 0, flags, NoName).op = op
BY DEF Frame, FrameT

LEMMA InitTodo ==
  ASSUME NEW td, td = expr("stmt") \o On("file", 0)
  PROVE  Stacked(td, 5, 1) /\ td[1].op \in Fresh
<1> DEFINE T == FrameT(5)
           q == On("file", 0)
           f == Frame("file", 0, "", NoName)
<1>1. f \in T /\ f.op = "file"
  <2>1. "file" \in Ops /\ "file" \notin Giving /\ "file" \notin Naming /\ "" \in Flags
    BY DEF Ops, Flags, Giving, Naming
  <2>2. QED
    BY <2>1, FrameBare
<1>2. q = <<f>>
  BY DEF On
<1> HIDE DEF T, f
<1>3. q \in Seq(T) /\ q # <<>> /\ Len(q) = 1 /\ q[1] = f
  BY <1>1, <1>2
<1>4. Open(q) = 0
  BY <1>1, <1>2, OpenOne DEF Scoped
<1> HIDE DEF q
<1>5. Stacked(q, 5, 1)
  BY <1>1, <1>3, <1>4 DEF Stacked, T
<1>6. Frames(expr("stmt"), 5, 0) /\ Starting(expr("stmt"))
  BY FramesExpr DEF Flags
<1> DEFINE ks == expr("stmt")
<1> HIDE DEF ks
<1>7. Frames(ks, 5, 0) /\ Starting(ks) /\ td = ks \o q
  BY <1>6 DEF ks, q
<1>8. Stacked(td, 5, 1 + 0)
  BY <1>5, <1>7, StackedPush
<1>9. td[1] = ks[1]
  <2>1. ks \in Seq(T) /\ ks # <<>>
    BY <1>7 DEF Frames, Starting, T
  <2>2. Len(ks) \in Nat \ {0}
    BY <2>1, EmptySeq, LenProperties
  <2>3. 1 \in 1 .. Len(ks) + Len(q) /\ 1 <= Len(ks)
    BY <1>3, <2>2
  <2>4. QED
    BY <1>3, <1>7, <2>1, <2>3, ConcatProperties
<1>10. QED
  BY <1>7, <1>8, <1>9 DEF Starting

LEMMA InitInv == Init => IInv
<1> SUFFICES ASSUME Init PROVE IInv
  OBVIOUS
<1>1. /\ ast = Prelude /\ scope = EmptyStack(Storage) /\ val = 0 /\ taken = 0 /\ next = "any"
      /\ status = "parse" /\ leaked = No
      /\ todo = expr("stmt") \o On("file", 0)
      /\ pkgscope \in {[nm \in Name |-> 0]} \cup
           {[[nm \in Name |-> 0] EXCEPT ![name] = Len(Prelude)] : name \in Name \ Basic}
  BY DEF Init, ParseInit, No
<1>2. Tree(ast, 5) /\ Len(ast) = 5
  BY <1>1, PreludeTree
<1>3. pkgscope \in [Name -> 0 .. 5]
  BY <1>1, PreludeTree
<1> DEFINE b == [nm \in Name |-> ScopeLookup(nm)]
<1>4. env = <<b>>
  BY DEF Init, ParseInit
<1>5. b \in Bindings(Name, 5)
  BY <1>3 DEF ScopeLookup, GlobalScope, Prim, Bindings
<1>6. ScopesMean(scope, Name, env, leaked, 5)
  <2>1. Storage \in Nat /\ 2 <= Storage
    BY ParserAssumption
  <2> HIDE DEF b
  <2>2. QED
    BY <1>1, <1>4, <1>5, <2>1, EmptyMeans
<1>7. PackageMeans(pkgscope, env, leaked, 5)
  <2>1. \A nm \in Name : b[nm] = IF pkgscope[nm] = 0 THEN GlobalScope[nm] ELSE pkgscope[nm]
    BY DEF ScopeLookup
  <2> HIDE DEF b
  <2>2. env[1] = b
    BY <1>4
  <2>3. QED
    BY <1>3, <2>1, <2>2 DEF PackageMeans
<1>8. Len(env) = 1
  BY <1>4
<1>9. Stacked(todo, 5, 1) /\ todo[1].op \in Fresh
  BY <1>1, InitTodo
<1>10. Parsing
  BY <1>2, <1>8, <1>9 DEF Parsing, Given
<1>11. taken \in 0 .. MaxSource /\ val \in 0 .. Len(ast) /\ Bad <= Len(ast)
  BY <1>1, <1>2, ParserAssumption DEF Bad
<1>12. next \in {"semi", "any"} /\ status \in {"parse", "resolve", "done", "failed", "panic"} /\ status # "resolve"
  BY <1>1
<1>13. QED
  BY <1>2, <1>6, <1>7, <1>10, <1>11, <1>12 DEF IInv, Control

LEMMA StepStutter == ASSUME IInv, UNCHANGED vars PROVE IInv'
<1>1. /\ ast' = ast /\ scope' = scope /\ pkgscope' = pkgscope /\ todo' = todo /\ val' = val
      /\ taken' = taken /\ next' = next /\ status' = status /\ env' = env /\ leaked' = leaked
  BY DEF vars, history
<1>2. QED
  BY <1>1 DEF IInv, Control, Parsing, Resolving

LEMMA StepInv == IInv /\ [Next]_vars => IInv'
<1> SUFFICES ASSUME IInv, [Next]_vars PROVE IInv'
  OBVIOUS
<1>1. ASSUME PLiteral \/ PId \/ PVarOrConst \/ PPrefixOp \/ pRefType \/ PReturn \/ pArrayLit \/ PBlock
             \/ PIf \/ PFun \/ PStructType \/ PTypeDef
      PROVE  IInv'
  BY <1>1, StepPLiteral, StepPId, StepPVarOrConst, StepPPrefixOp, StepRefType, StepPReturn, StepArrayLit,
     StepPBlock, StepPIf, StepPFun, StepPStructType, StepPTypeDef, Zenon
<1>2. ASSUME PIdTrailing \/ pAssignToId \/ PInfixOp \/ PPostfixOp \/ PCall \/ PAs
      PROVE  IInv'
  BY <1>2, StepPIdTrailing, StepAssign, StepPInfixOp, StepPPostfixOp, StepPCall, StepPAs, Zenon
<1>3. ASSUME Child \/ As \/ Convert \/ List \/ ThenBranch \/ VarType \/ MakeVar \/ BlockMember \/ EndBlock
      PROVE  IInv'
  BY <1>3, StepChild, StepAs, StepConvert, StepList, StepThenBranch, StepVarType, StepMakeVar,
     StepBlockMember, StepEndBlock, Zenon
<1>4. ASSUME Param \/ Signature \/ FunBody \/ EndFun \/ Field \/ FieldDefined \/ FieldEnd \/ EndStruct
             \/ FileMember
      PROVE  IInv'
  BY <1>4, StepParam, StepSignature, StepFunBody, StepEndFun, StepField, StepFieldDefined, StepFieldEnd,
     StepEndStruct, StepFileMember, Zenon
<1>5. CASE ParseNext
  BY <1>1, <1>2, <1>3, <1>4, <1>5, Zenon DEF ParseNext
<1>6. CASE ResolveFile \/ Enter \/ LookUp \/ Leave
  BY <1>6, StepResolveFile, StepEnter, StepLookUp, StepLeave, Zenon
<1>7. CASE UNCHANGED vars
  BY <1>7, StepStutter
<1>8. QED
  BY <1>5, <1>6, <1>7, Zenon DEF Next

LEMMA AlwaysInv == Spec => []IInv
BY InitInv, StepInv, PTL DEF Spec

-----------------------------------------------------------------------------
(* Theorems.                                                                *)

LEMMA InvTypes == ASSUME IInv PROVE TypeOK
<1>1. Tree(ast, Len(ast)) /\ Len(ast) \in Nat /\ val \in 0 .. Len(ast)
  BY Current
<1>2. Nodes \cup {0} = 0 .. Len(ast)
  BY <1>1 DEF Nodes
<1>3. ASSUME NEW n \in Nodes
      PROVE  /\ ast[n].kind \in Kinds
             /\ ast[n].target \in 0 .. Len(ast) /\ ast[n].typ \in 0 .. Len(ast)
             /\ \A k \in DOMAIN ast[n].kids : ast[n].kids[k] \in Nodes
  <2>1. ast[n] \in NodeT(Len(ast))
    BY <1>1, TreeNode DEF Nodes
  <2>2. ast[n].kids \in Seq(Nodes)
    BY <2>1 DEF NodeT, Nodes
  <2>3. \A k \in DOMAIN ast[n].kids : ast[n].kids[k] \in Nodes
    BY <2>2, ElementOfSeq, LenProperties
  <2>4. QED
    BY <2>1, <2>3 DEF NodeT
<1>4. Len(scope.ptr) <= scope.cap /\ scope.base <= Len(scope.ptr)
  <2>1. ScopesMean(scope, Name, env, leaked, Len(ast))
    BY Current
  <2>2. QED
    BY <1>1, <2>1, MeansStack, Zenon
<1>5. pkgscope \in [Name -> Nodes \cup {0}]
  BY <1>2 DEF IInv, Control, PackageMeans
<1>6. val \in Nodes \cup {0}
  BY <1>1, <1>2
<1>7. /\ next \in {"semi", "any"} /\ taken \in 0 .. MaxSource
      /\ status \in {"parse", "resolve", "done", "failed", "panic"}
  BY DEF IInv, Control
<1>8. QED
  BY <1>3, <1>4, <1>5, <1>6, <1>7 DEF TypeOK

\* Every variable of the parser and of the resolver has its type, whatever is
\* parsed: what nodes own and refer to are nodes, an identifier has a name, and the
\* cells of the scope stack fit the allocation.
THEOREM TypeCorrect == Spec => []TypeOK
<1>1. IInv => TypeOK
  BY InvTypes
<1>2. QED
  BY <1>1, AlwaysInv, PTL

\* The package's scope has what the top level of its files defines and nothing
\* else, whatever scopes were opened, unless the first scope of a file was opened
\* before anything was bound.
THEOREM PackageKeepsItsOwn == Spec => []PackageScope
<1>1. IInv => PackageMeans(pkgscope, env, leaked, Len(ast))
  BY Current
<1>2. IInv => PackageScope
  BY <1>1 DEF PackageMeans, PackageScope, ScopeLookup
<1>3. QED
  BY <1>2, AlwaysInv, PTL

LEMMA InnermostIs ==
  ASSUME NEW nm, NEW c \in Nat, c \in 1 .. Len(env), env[c][nm] # 0,
         \A b \in c + 1 .. Len(env) : env[b][nm] = 0
  PROVE  Innermost(nm) = env[c][nm]
<1> DEFINE S == {d \in 1 .. Len(env) : env[d][nm] # 0}
<1>1. c \in S
  OBVIOUS
<1>2. \A d \in S : d \in Nat /\ d <= c
  <2> SUFFICES ASSUME NEW d \in S, ~(d <= c) PROVE FALSE
    OBVIOUS
  <2>1. d \in 1 .. Len(env) /\ env[d][nm] # 0
    OBVIOUS
  <2>2. d \in c + 1 .. Len(env)
    BY <2>1
  <2>3. QED
    BY <2>1, <2>2
<1>3. Innermost(nm) = IF S = {} THEN 0 ELSE env[Max(S)][nm]
  BY DEF Innermost
<1> HIDE DEF S
<1>4. \A d \in S : (\A e \in S : d >= e) => d = c
  <2> TAKE d \in S
  <2> HAVE \A e \in S : d >= e
  <2>1. d >= c /\ d \in Nat /\ d <= c
    BY <1>1, <1>2
  <2>2. QED
    BY <2>1
<1>5. Max(S) = c
  <2>1. \A e \in S : c >= e
    BY <1>2
  <2>2. \E d \in S : \A e \in S : d >= e
    BY <1>1, <2>1
  <2>3. Max(S) \in S /\ \A e \in S : Max(S) >= e
    BY <2>2, Zenon DEF Max
  <2>4. QED
    BY <1>4, <2>3
<1>6. QED
  BY <1>1, <1>3, <1>5

LEMMA InnermostNone ==
  ASSUME NEW nm, \A d \in 1 .. Len(env) : env[d][nm] = 0
  PROVE  Innermost(nm) = 0
BY DEF Innermost

LEMMA InvScopes == ASSUME IInv PROVE ScopesAgree
<1> SUFFICES ASSUME ~leaked, NEW nm \in Name PROVE lookupsym(scope, nm).n = Innermost(nm)
  BY Zenon DEF ScopesAgree
<1> DEFINE local == lookupsymDeep(scope, nm)
           global == ScopeLookup(nm)
<1>1. /\ PackageMeans(pkgscope, env, leaked, Len(ast)) /\ ScopesMean(scope, Name, env, leaked, Len(ast))
      /\ Len(ast) \in Nat
  BY Current
<1>2. lookupsym(scope, nm).n = IF local # 0 THEN local ELSE global
  BY DEF lookupsym
<1>3. Nested(local, env, Len(env), nm)
  BY <1>1, MeansLookup
<1>4. global = env[1][nm]
  BY <1>1 DEF ScopeLookup, PackageMeans
<1>5. Len(env) \in Nat \ {0}
  BY <1>1, EmptySeq, LenProperties DEF ScopesMean
<1> HIDE DEF local, global
<1>6. CASE local # 0
  <2>1. PICK c \in 1 .. Len(env) : env[c][nm] = local /\ \A b \in c + 1 .. Len(env) : env[b][nm] = 0
    BY <1>3, <1>6 DEF Nested
  <2>2. c \in Nat
    BY <1>5, <2>1
  <2>3. Innermost(nm) = env[c][nm]
    BY <1>6, <2>1, <2>2, InnermostIs
  <2>4. QED
    BY <1>2, <1>6, <2>1, <2>3
<1>7. CASE local = 0
  <2>1. \A d \in 2 .. Len(env) : env[d][nm] = 0
    BY <1>3, <1>7 DEF Nested
  <2>2. CASE global = 0
    <3>1. \A d \in 1 .. Len(env) : d = 1 \/ d \in 2 .. Len(env)
      BY <1>5
    <3>2. \A d \in 1 .. Len(env) : env[d][nm] = 0
      BY <1>4, <2>1, <2>2, <3>1
    <3>3. QED
      BY <1>2, <1>7, <2>2, <3>2, InnermostNone
  <2>3. CASE global # 0
    <3>1. 1 \in 1 .. Len(env) /\ 1 \in Nat /\ 1 + 1 = 2
      BY <1>5
    <3>2. \A b \in 1 + 1 .. Len(env) : env[b][nm] = 0
      BY <2>1, <3>1
    <3>3. Innermost(nm) = env[1][nm]
      BY <1>4, <2>3, <3>1, <3>2, InnermostIs
    <3>4. QED
      BY <1>2, <1>4, <1>7, <3>3
  <2>4. QED
    BY <2>2, <2>3
<1>8. QED
  BY <1>6, <1>7

\* One array of cells stands for the nested scopes of a file: through every push
\* and pop of a scope, every definition, and every binding of the package that a
\* lookup leaves in the current scope, a name means its innermost binding.
THEOREM ArrayIsScopes == Spec => []ScopesAgree
<1>1. IInv => ScopesAgree
  BY InvScopes
<1>2. QED
  BY <1>1, AlwaysInv, PTL
=============================================================================
