------------------------------- MODULE RBTree -------------------------------
(***************************************************************************)
(* The left-leaning red-black tree (src/src/co/util/rbtree.c.h) as sym.c    *)
(* uses it, to intern symbols: a 2-3-4 tree of keys that are ordered by     *)
(* their hash, then their length, then their bytes.                        *)
(*                                                                         *)
(* A tree is a value: Nil, or a node and its two subtrees.  An operation is *)
(* one action: the pool's lock is held around it (SymPool.tla).            *)
(***************************************************************************)
EXTENDS Integers, Sequences, FiniteSets

CONSTANTS TreeKey,     \* keys: a hash and then the bytes
          RemovedKey,  \* those that are deleted: none by sym.c
          MaxDeletes   \* bound: deletions since the tree was empty

ASSUME RBTreeAssumption ==
  /\ \A k \in TreeKey : k \in Seq(Nat) /\ k # <<>>
  /\ RemovedKey \subseteq TreeKey /\ MaxDeletes \in Nat

VARIABLES tree,    \* SymPool.root
          kept,    \* history: the keys inserted and not deleted
          added,   \* what the last RBInsert said: was the key new
          deletes, \* deletions since the tree was empty
          failed   \* an assertion has failed

treeVars == <<tree, kept, added, deletes, failed>>

-----------------------------------------------------------------------------
(* Nodes                                                                    *)

Nil == [isred |-> FALSE]
rbNewNode(k) == [key |-> k, isred |-> TRUE, left |-> Nil, right |-> Nil]
isred(n) == n.isred

flipColor(n) == [n EXCEPT !.isred = ~@, !.left.isred = ~@, !.right.isred = ~@]

rotateLeft(l) ==
  [l.right EXCEPT !.left = [l EXCEPT !.right = l.right.left, !.isred = TRUE], !.isred = l.isred]

rotateRight(r) ==
  [r.left EXCEPT !.right = [r EXCEPT !.left = r.left.right, !.isred = TRUE], !.isred = r.isred]

\* Mutation of RBCmp: the bytes come before the length.
RBCmpBytes(a, b) ==
  LET differ == {i \in DOMAIN a \cap DOMAIN b : a[i] # b[i]}
      i == CHOOSE j \in differ : \A d \in differ : j <= d
  IN IF differ = {} THEN Len(a) - Len(b) ELSE a[i] - b[i]

\* Negative, zero or positive, as a comes before b, is b, or comes after it.
RBCmp(a, b) ==
  LET differ == {i \in DOMAIN a : a[i] # b[i]}
      i == CHOOSE j \in differ : \A d \in differ : j <= d
  IN IF a[1] # b[1] THEN a[1] - b[1]
     ELSE IF Len(a) # Len(b) THEN Len(a) - Len(b)
     ELSE IF a = b THEN 0 ELSE a[i] - b[i]

\* The search of symget and symfind, which compares by hand as RBCmp does.
RECURSIVE symlookup(_, _)
symlookup(n, k) ==
  LET before == \/ k[1] < n.key[1]
                \/ /\ k[1] = n.key[1]
                   /\ \/ Len(k) < Len(n.key)
                      \/ Len(k) = Len(n.key) /\ RBCmp(k, n.key) < 0
  IN /\ n # Nil
     /\ k = n.key \/ symlookup(IF before THEN n.left ELSE n.right, k)

RECURSIVE RBHas(_, _)
RBHas(n, k) ==
  LET cmp == RBCmp(k, n.key)
      child == IF cmp < 0 THEN n.left ELSE n.right
  IN cmp = 0 \/ (child # Nil /\ RBHas(child, k))

RECURSIVE RBCount(_)
RBCount(n) == 1 + (IF n.left = Nil THEN 0 ELSE RBCount(n.left))
                + (IF n.right = Nil THEN 0 ELSE RBCount(n.right))

-----------------------------------------------------------------------------
(* Insert                                                                   *)

LeanLeft(n) == IF isred(n.right) /\ ~isred(n.left) THEN rotateLeft(n) ELSE n
Balance(n) == IF isred(n.left) /\ isred(n.left.left) THEN rotateRight(n) ELSE n
Split(n) == IF isred(n.left) /\ isred(n.right) THEN flipColor(n) ELSE n

\* The node of a 2-3-4 tree with four children is split on the way down.
RECURSIVE rbInsert(_, _)
rbInsert(n, k) ==
  IF n = Nil THEN rbNewNode(k)
  ELSE LET s == Split(n)
           cmp == RBCmp(k, s.key)
       IN Balance(LeanLeft(IF cmp < 0 THEN [s EXCEPT !.left = rbInsert(@, k)]
                           ELSE IF cmp > 0 THEN [s EXCEPT !.right = rbInsert(@, k)]
                           ELSE s))

RBInsert(k) ==
  /\ tree' = [rbInsert(tree, k) EXCEPT !.isred = FALSE]
  /\ added' = ~(tree # Nil /\ RBHas(tree, k))
  /\ kept' = kept \cup {k}
  /\ UNCHANGED <<deletes, failed>>

-----------------------------------------------------------------------------
(* Delete                                                                   *)

fixUp(n) == Split(Balance(IF isred(n.right) THEN rotateLeft(n) ELSE n))

moveRedLeft(n) ==
  LET f == flipColor(n)
  IN IF isred(f.right.left)
     THEN flipColor(rotateLeft([f EXCEPT !.right = rotateRight(@)]))
     ELSE f

moveRedRight(n) ==
  LET f == flipColor(n)
  IN IF isred(f.left.left) THEN flipColor(rotateRight(f)) ELSE f

RECURSIVE minNode(_)
minNode(n) == IF n.left = Nil THEN n ELSE minNode(n.left)

\* What an assertion that fails leaves.
Failed == [isred |-> FALSE, failed |-> TRUE]

RECURSIVE Whole(_)
Whole(n) == n = Nil \/ (n # Failed /\ Whole(n.left) /\ Whole(n.right))

RECURSIVE rbDeleteMin(_)
rbDeleteMin(n) ==
  IF n.left = Nil THEN IF n.right = Nil THEN Nil ELSE Failed
  ELSE LET m == IF ~isred(n.left) /\ ~isred(n.left.left) THEN moveRedLeft(n) ELSE n
       IN fixUp([m EXCEPT !.left = rbDeleteMin(@)])

\* A key that is not in the tree ends where there is no subtree to go on in.
RECURSIVE rbDelete(_, _)
rbDelete(n, k) ==
  IF RBCmp(k, n.key) < 0
  THEN IF n.left = Nil THEN Failed
       ELSE LET m == IF ~isred(n.left) /\ ~isred(n.left.left) THEN moveRedLeft(n) ELSE n
            IN fixUp([m EXCEPT !.left = rbDelete(@, k)])
  ELSE LET r == IF isred(n.left) THEN rotateRight(n) ELSE n
       IN IF r.right = Nil THEN IF k = r.key /\ r.left = Nil THEN Nil ELSE Failed
          ELSE LET m == IF ~isred(r.right) /\ ~isred(r.right.left) THEN moveRedRight(r) ELSE r
               IN IF k = m.key
                  THEN fixUp([m EXCEPT !.key = minNode(m.right).key, !.right = rbDeleteMin(@)])
                  ELSE fixUp([m EXCEPT !.right = rbDelete(@, k)])

RBDelete(k) ==
  LET t == [rbDelete(tree, k) EXCEPT !.isred = FALSE]
  IN /\ k \in RemovedKey /\ tree # Nil /\ deletes < MaxDeletes
     /\ tree' = t
     /\ failed' = ~Whole(t)
     /\ kept' = kept \ {k}
     /\ deletes' = deletes + 1
     /\ UNCHANGED added

RBClear ==
  /\ tree # Nil
  /\ tree' = Nil /\ kept' = {}
  /\ deletes' = 0
  /\ UNCHANGED <<added, failed>>

-----------------------------------------------------------------------------
TreeInit == tree = Nil /\ kept = {} /\ added = FALSE /\ deletes = 0 /\ failed = FALSE

TreeNext ==
  /\ ~failed
  /\ \/ \E k \in TreeKey : RBInsert(k) \/ RBDelete(k)
     \/ RBClear

-----------------------------------------------------------------------------
(* Properties                                                               *)

\* The numbers of black nodes on the ways down.
RECURSIVE Blacks(_)
Blacks(n) ==
  IF n = Nil THEN {0}
  ELSE {b + (IF isred(n) THEN 0 ELSE 1) : b \in Blacks(n.left) \cup Blacks(n.right)}

RECURSIVE NoTwoReds(_)
NoTwoReds(n) ==
  n = Nil \/ /\ isred(n) => ~isred(n.left) /\ ~isred(n.right)
             /\ NoTwoReds(n.left) /\ NoTwoReds(n.right)

RECURSIVE LeansLeft(_)
LeansLeft(n) ==
  n = Nil \/ /\ isred(n.right) => isred(n.left)
             /\ LeansLeft(n.left) /\ LeansLeft(n.right)

\* After any insertions the tree is a left-leaning red-black tree: as many
\* black nodes on every way down, no two reds in a row, no red on the right
\* alone.  After one deletion, and insertions after that, the reds may be
\* wrong but every way down still has as many blacks.
\* The search that symget does by hand finds the keys that are in the tree,
\* and no other: the order it repeats is the one the tree is built with.
TreeIsLLRB ==
  failed \/ /\ Cardinality(Blacks(tree)) = 1
            /\ deletes = 0 => NoTwoReds(tree) /\ LeansLeft(tree)
            /\ \A k \in TreeKey : symlookup(tree, k) <=> k \in kept
            /\ tree # Nil => RBCount(tree) = Cardinality(kept)
=============================================================================
