---------------------------- MODULE BoundedFifo ----------------------------
(***************************************************************************)
(* What block_queue.c promises its callers, free of rings, locks and       *)
(* pointers: a first-in first-out queue of at most Capacity entries.       *)
(* queue_pop hands its caller a pointer into the queue's own memory, so    *)
(* the promise has a second half: the value a consumer has in its hand     *)
(* stays what it was until that consumer calls queue_pop again.            *)
(***************************************************************************)
EXTENDS Naturals, Sequences

CONSTANTS
  Data,       \* what the producers push
  Consumers,  \* the threads that pop
  Capacity,   \* entries the queue can hold
  NoData      \* an empty hand

VARIABLES
  items,      \* the queued entries, oldest first
  hand        \* hand[c]: the entry consumer c is working on

vars == <<items, hand>>

Init ==
  /\ items = <<>>
  /\ hand = [c \in Consumers |-> NoData]

Put(d) ==
  /\ Len(items) < Capacity
  /\ items' = Append(items, d)
  /\ UNCHANGED hand

Get(c) ==
  /\ items /= <<>>
  /\ hand' = [hand EXCEPT ![c] = Head(items)]
  /\ items' = Tail(items)

\* A pop that has not been answered yet: the caller gave up its old entry.
LetGo(c) ==
  /\ hand' = [hand EXCEPT ![c] = NoData]
  /\ UNCHANGED items

Next ==
  \/ \E d \in Data : Put(d)
  \/ \E c \in Consumers : Get(c) \/ LetGo(c)

Spec == Init /\ [][Next]_vars

\* Every queued entry is taken sooner or later.
FairSpec == Spec /\ WF_vars(\E c \in Consumers : Get(c))
=============================================================================
