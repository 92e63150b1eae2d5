------------------------------ MODULE HashMap ------------------------------
(***************************************************************************)
(* The hash maps of the compiler (src/src/co/util/hashmap.c.h, instantiated *)
(* by symmap.c and ptrmap.c): buckets with a fixed number of entries, which *)
(* are filled from the front.  A bucket is the sequence of its entries that *)
(* have a key; deleting an entry leaves its key and clears its value.       *)
(*                                                                         *)
(* Every operation is one action: the compiler is sequential and no map is  *)
(* shared by threads.                                                       *)
(***************************************************************************)
EXTENDS Integers, Sequences, FiniteSets

CONSTANTS Key, Val, NULL,
          Hash(_),      \* HASHMAP_KEY_HASH, a size_t
          Word,         \* the number of values of a u32
          Entries,      \* HASHMAP_BUCKET_ENTRIES
          InitBuckets,  \* initbuckets of Init and New
          MaxDoublings, \* bound: how often the buckets may be doubled
          Deletable     \* keys that are deleted: none outside the tests

ASSUME HashMapAssumption ==
  /\ Entries \in Nat \ {0} /\ InitBuckets \in Nat \ {0} /\ Word \in Nat \ {0}
  /\ MaxDoublings \in Nat
  /\ Deletable \subseteq Key /\ NULL \notin Val
  /\ \A k \in Key : Hash(k) \in Nat

VARIABLES cap,       \* number of buckets
          len,       \* number of entries
          buckets,   \* [0..cap-1 -> Seq([key, value])]
          ret,       \* what the last operation returned
          put,       \* history: the last value set for a key, NULL if deleted
          due,       \* history: what the last operation should have returned
          shadowed   \* history: a key was put into the slot of a deleted one
                     \* although the bucket held it further on

vars == <<cap, len, buckets, ret, put, due, shadowed>>

Entry == [key : Key, value : Val \cup {NULL}]

\* The numbers of buckets: the first one, doubled and doubled again.
CapAfter[d \in 0 .. MaxDoublings] == IF d = 0 THEN InitBuckets ELSE 2 * CapAfter[d-1]
Caps == {CapAfter[d] : d \in 0 .. MaxDoublings}

-----------------------------------------------------------------------------
(* The buckets                                                              *)

\* Set and Del take the hash as it is, Get truncates it to a u32.
Index(k) == Hash(k) % cap
GetIndex(k) == (Hash(k) % Word) % cap

\* Slots of a bucket at which Set stops.
Usable(b, k) == {i \in 1 .. Len(b) : b[i].value = NULL \/ b[i].key = k}

Holding(b, k) == {i \in 1 .. Len(b) : b[i].key = k}

First(I) == CHOOSE i \in I : \A j \in I : i <= j

\* The value that Get finds.
Lookup(k) ==
  LET b == buckets[GetIndex(k)]
  IN IF Holding(b, k) = {} THEN NULL ELSE b[First(Holding(b, k))].value

\* mapGrow skips deleted entries and puts the others into their new buckets.
Moves(e, c, i) == e.value # NULL /\ Hash(e.key) % c = i

\* The entries of bucket b that bucket i of c gets, in their order.
Moved(b, c, i) ==
  LET f[n \in 0 .. Len(b)] ==
        IF n = 0 THEN <<>> ELSE IF Moves(b[n], c, i) THEN Append(f[n-1], b[n]) ELSE f[n-1]
  IN f[Len(b)]

\* Mutation of Rehashed: a deleted entry ends the copying of its bucket.
RehashedStop(c) ==
  LET Live(b) == {i \in 1 .. Len(b) : \A j \in 1 .. i : b[j].value # NULL}
  IN [i \in 0 .. c-1 |-> Moved(SubSeq(buckets[i % cap], 1, Cardinality(Live(buckets[i % cap]))), c, i)]

\* The buckets that mapGrow makes of c, a multiple of cap: all entries that
\* hash to bucket i were in bucket i % cap.
Rehashed(c) == [i \in 0 .. c-1 |-> Moved(buckets[i % cap], c, i)]

\* Mutation of Room: the new bucket of the key is not tried again.
RoomOnce(c, k) == \A i \in 0 .. c-1 : Len(Rehashed(c)[i]) <= Entries

\* mapGrow doubles until every entry fits, and Set until its bucket has room.
Room(c, k) == /\ \A i \in 0 .. c-1 : Len(Rehashed(c)[i]) <= Entries
              /\ Len(Rehashed(c)[Hash(k) % c]) < Entries

Doublings == {c \in Caps : c > cap}

-----------------------------------------------------------------------------
(* Set, Del, Clear                                                          *)

\* Set stores at slot i of its bucket, having seen none usable before it.
Store(k, v, i) ==
  LET b == buckets[Index(k)]
  IN /\ buckets' = [buckets EXCEPT ![Index(k)] = [b EXCEPT ![i] = [key |-> k, value |-> v]]]
     /\ put' = [put EXCEPT ![k] = v]
     /\ due' = put[k]
     /\ UNCHANGED cap

\* Mutation of SetReplace: the entry is counted again.
SetReplaceCounted(k, v) ==
  LET b == buckets[Index(k)]
      i == First(Usable(b, k))
  IN /\ Usable(b, k) # {} /\ b[i].value # NULL
     /\ Store(k, v, i)
     /\ ret' = b[i].value
     /\ len' = len + 1
     /\ UNCHANGED shadowed

\* "key already in map -- replace value"
SetReplace(k, v) ==
  LET b == buckets[Index(k)]
      i == First(Usable(b, k))
  IN /\ Usable(b, k) # {} /\ b[i].value # NULL
     /\ Store(k, v, i)
     /\ ret' = b[i].value
     /\ UNCHANGED <<len, shadowed>>

\* The slot of a deleted entry is used again.
SetReuse(k, v) ==
  LET b == buckets[Index(k)]
      i == First(Usable(b, k))
  IN /\ Usable(b, k) # {} /\ b[i].value = NULL
     /\ Store(k, v, i)
     /\ ret' = NULL
     /\ len' = len + 1
     /\ shadowed' = (shadowed \/ \E j \in Holding(b, k) : j > i)

\* A slot that never was used.
SetNew(k, v) ==
  LET b == buckets[Index(k)]
  IN /\ Usable(b, k) = {} /\ Len(b) < Entries
     /\ buckets' = [buckets EXCEPT ![Index(k)] = Append(b, [key |-> k, value |-> v])]
     /\ put' = [put EXCEPT ![k] = v]
     /\ due' = put[k]
     /\ ret' = NULL
     /\ len' = len + 1
     /\ UNCHANGED <<cap, shadowed>>

\* The bucket is full: grow, then take a free slot of the new bucket.
SetGrow(k, v) ==
  LET b == buckets[Index(k)]
      C == {c \in Doublings : Room(c, k)}
      c == First(C)
      new == Rehashed(c)
      i == Hash(k) % c
  IN /\ Usable(b, k) = {} /\ Len(b) = Entries
     /\ C # {}
     /\ cap' = c
     /\ buckets' = [new EXCEPT ![i] = Append(@, [key |-> k, value |-> v])]
     /\ put' = [put EXCEPT ![k] = v]
     /\ due' = put[k]
     /\ ret' = NULL
     /\ len' = len + 1
     /\ UNCHANGED shadowed

Del(k) ==
  LET b == buckets[Index(k)]
      i == First(Holding(b, k))
      found == Holding(b, k) # {}
  IN /\ k \in Deletable
     /\ ret' = IF found THEN b[i].value ELSE NULL
     /\ IF found /\ b[i].value # NULL
        THEN /\ buckets' = [buckets EXCEPT ![Index(k)][i].value = NULL]
             /\ len' = len - 1
        ELSE UNCHANGED <<buckets, len>>
     /\ put' = [put EXCEPT ![k] = NULL]
     /\ due' = put[k]
     /\ UNCHANGED <<cap, shadowed>>

Clear ==
  /\ buckets' = [i \in 0 .. cap-1 |-> <<>>]
  /\ len' = 0
  /\ put' = [k \in Key |-> NULL]
  /\ shadowed' = FALSE
  /\ ret' = NULL /\ due' = NULL
  /\ UNCHANGED cap

-----------------------------------------------------------------------------
(* Specification                                                            *)

Init ==
  /\ cap = InitBuckets
  /\ len = 0
  /\ buckets = [i \in 0 .. InitBuckets-1 |-> <<>>]
  /\ ret = NULL
  /\ put = [k \in Key |-> NULL]
  /\ due = NULL
  /\ shadowed = FALSE

Set(k, v) == SetReplace(k, v) \/ SetReuse(k, v) \/ SetNew(k, v) \/ SetGrow(k, v)

Next == \/ \E k \in Key, v \in Val : Set(k, v)
        \/ \E k \in Key : Del(k)
        \/ Clear

Spec == Init /\ [][Next]_vars

-----------------------------------------------------------------------------
(* Properties                                                               *)

\* The types; a bucket is never overfull, and an entry is in its bucket.
TypeOK ==
  /\ cap \in Caps
  /\ len \in Nat
  /\ buckets \in [0 .. cap-1 -> Seq(Entry)]
  /\ \A i \in 0 .. cap-1 : /\ Len(buckets[i]) <= Entries
                           /\ \A j \in 1 .. Len(buckets[i]) : Index(buckets[i][j].key) = i
  /\ ret \in Val \cup {NULL}
  /\ put \in [Key -> Val \cup {NULL}]
  /\ due \in Val \cup {NULL}
  /\ shadowed \in BOOLEAN

\* Where live entries are: what Iter visits, each once.
LiveSlots == {s \in (0 .. cap-1) \X (1 .. Entries) :
                /\ s[2] <= Len(buckets[s[1]])
                /\ buckets[s[1]][s[2]].value # NULL}

Present == {k \in Key : put[k] # NULL}

\* "Get searches for key. Returns value, or NULL if not found", and Set and Del
\* return the value that was there, whatever was set, replaced, deleted and
\* moved by growing before, as long as no key was shadowed and the number of
\* buckets is a power of two (Get truncates the hash).
AnswersUnshadowed == shadowed \/ /\ \A k \in Key : Lookup(k) = put[k]
                                 /\ ret = due

\* ... and the map holds, counts and iterates over each key once.
OneEntryPerKey ==
  shadowed \/ /\ len = Cardinality(Present)
              /\ len = Cardinality(LiveSlots)
              /\ {buckets[s[1]][s[2]].key : s \in LiveSlots} = Present
=============================================================================
