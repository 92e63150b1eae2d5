----------------------------- MODULE WorkQueues -----------------------------
(* What the run queues of the scheduler promise, without their memory: each *)
(* processor has a FIFO queue and one slot, "next", that jumps the queue.   *)
(* Its owner puts and takes in atomic steps; another processor whose own    *)
(* queue is empty may take the slot, or the oldest tasks of the queue but   *)
(* never more than half of them (rounded up), in their order.               *)
EXTENDS Integers, Sequences

CONSTANTS P, T, NULL

VARIABLES queue,  \* [P -> Seq(T)]
          next,   \* [P -> T or NULL]
          hand,   \* [P -> SUBSET T], tasks the owner of p runs or is putting
          batch,  \* [P -> Seq(T)], stolen by p, not yet in its queue
          dead    \* tasks that are free to be spawned

vars == <<queue, next, hand, batch, dead>>

Init ==
  /\ queue = [p \in P |-> <<>>]
  /\ next = [p \in P |-> NULL]
  /\ batch = [p \in P |-> <<>>]
  /\ \E p0 \in P, t \in T : /\ hand = [p \in P |-> IF p = p0 THEN {t} ELSE {}]
                            /\ dead = T \ {t}

Spawn(p, t) ==
  /\ t \in dead
  /\ dead' = dead \ {t}
  /\ hand' = [hand EXCEPT ![p] = @ \cup {t}]
  /\ UNCHANGED <<queue, next, batch>>

Exit(p, t) ==
  /\ t \in hand[p]
  /\ dead' = dead \cup {t}
  /\ hand' = [hand EXCEPT ![p] = @ \ {t}]
  /\ UNCHANGED <<queue, next, batch>>

\* t takes the slot; the task that was there is back in p's hand.
PutNext(p, t) ==
  /\ t \in hand[p]
  /\ next' = [next EXCEPT ![p] = t]
  /\ hand' = [hand EXCEPT ![p] = (@ \ {t}) \cup ({next[p]} \ {NULL})]
  /\ UNCHANGED <<queue, batch, dead>>

PutTail(p, t) ==
  /\ t \in hand[p]
  /\ queue' = [queue EXCEPT ![p] = Append(@, t)]
  /\ hand' = [hand EXCEPT ![p] = @ \ {t}]
  /\ UNCHANGED <<next, batch, dead>>

TakeNext(p) ==
  /\ next[p] # NULL
  /\ next' = [next EXCEPT ![p] = NULL]
  /\ hand' = [hand EXCEPT ![p] = @ \cup {next[p]}]
  /\ UNCHANGED <<queue, batch, dead>>

TakeHead(p) ==
  /\ queue[p] # <<>>
  /\ queue' = [queue EXCEPT ![p] = Tail(@)]
  /\ hand' = [hand EXCEPT ![p] = @ \cup {Head(queue[p])}]
  /\ UNCHANGED <<next, batch, dead>>

\* p, with nothing to run, takes k tasks from the head of v's queue ...
StealHalf(p, v, k) ==
  /\ p # v /\ queue[p] = <<>> /\ hand[p] = {} /\ batch[p] = <<>>
  /\ 2 * k <= Len(queue[v]) + 1
  /\ batch' = [batch EXCEPT ![p] = SubSeq(queue[v], 1, k)]
  /\ queue' = [queue EXCEPT ![v] = SubSeq(@, k + 1, Len(@))]
  /\ UNCHANGED <<next, hand, dead>>

\* ... or the task in v's slot.
StealNext(p, v) ==
  /\ p # v /\ queue[p] = <<>> /\ hand[p] = {} /\ batch[p] = <<>>
  /\ next[v] # NULL
  /\ batch' = [batch EXCEPT ![p] = <<next[v]>>]
  /\ next' = [next EXCEPT ![v] = NULL]
  /\ UNCHANGED <<queue, hand, dead>>

\* It runs the last task it stole; the others are its queue.
Publish(p) ==
  LET k == Len(batch[p])
  IN /\ k > 0
     /\ hand' = [hand EXCEPT ![p] = @ \cup {batch[p][k]}]
     /\ queue' = [queue EXCEPT ![p] = @ \o SubSeq(batch[p], 1, k - 1)]
     /\ batch' = [batch EXCEPT ![p] = <<>>]
     /\ UNCHANGED <<next, dead>>

Next ==
  \E p \in P :
    \/ \E t \in T : Spawn(p, t) \/ Exit(p, t) \/ PutNext(p, t) \/ PutTail(p, t)
    \/ TakeNext(p) \/ TakeHead(p) \/ Publish(p)
    \/ \E v \in P : \/ StealNext(p, v)
                    \/ \E k \in 1 .. Len(queue[v]) : StealHalf(p, v, k)

Spec == Init /\ [][Next]_vars
=============================================================================
