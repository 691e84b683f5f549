----------------------------- MODULE BlockQueue -----------------------------
(***************************************************************************)
(* The blocking ring-buffer queue of block_queue.c, shared by producer and *)
(* consumer threads.                                                       *)
(*                                                                         *)
(* Everything queue_push and queue_pop do between taking and giving up     *)
(* q->lock.mutex is one atomic step: all of it is guarded by that mutex.   *)
(* What remains interleaved is what the mutex does not cover:              *)
(*   - a thread blocked on push_cond or pop_cond, its wake-up (signalled,  *)
(*     spurious or by timeout) and the moment it has the mutex again, with *)
(*     other threads running in between;                                   *)
(*   - the consumer's use of the slot whose ADDRESS queue_pop gave it,     *)
(*     which goes on until that consumer's next queue_pop.                 *)
(***************************************************************************)
EXTENDS Integers, FiniteSets, Sequences

CONSTANTS
  Producers,          \* threads that call queue_push
  Consumers,          \* threads that call queue_pop
  Data,               \* the values pushed
  NoData,             \* a slot as calloc leaves it; an empty hand
  Length,             \* q->len
  Flags,              \* whether queues are created with QUEUE_BLOCK
  Waits,              \* the timeout arguments in use: NULL is "forever"
  CallbackMayFail,    \* whether the push callback may return < 0
  SpuriousWakeups     \* whether pthread_cond_[timed]wait may return unasked

\* queue_create refuses a length of 0; a length of 1 is accepted.
ASSUME QueueAssumption ==
  /\ Length \in Nat \ {0}
  /\ Producers \cap Consumers = {}
  /\ NoData \notin Data
  /\ Waits \subseteq {"forever", "timed"}
  /\ Flags \subseteq BOOLEAN
  /\ {CallbackMayFail, SpuriousWakeups} \subseteq BOOLEAN

\* How src/ uses its two queues: one thread pops, and nobody gives a timeout.
OneConsumer  == \A c, d \in Consumers : c = d
NoTimedWaits == Waits = {"forever"}

Threads == Producers \cup Consumers
Slots   == 0 .. Length - 1
NoSlot  == -1

VARIABLES
  flag,    \* (q->flag & QUEUE_BLOCK) != 0, for good
  f,       \* q->f: the slot the next push fills
  r,       \* q->r: the slot the next pop empties
  slot,    \* q->data
  pc,      \* outside the queue, blocked on its condition, or woken from it
  arg,     \* arg[p]: the value p is pushing while it is blocked
  wait,    \* wait[t]: the timeout argument of t's call
  held     \* held[c]: the slot that c's last queue_pop pointed it at

vars == <<flag, f, r, slot, pc, arg, wait, held>>

TypeOK ==
  /\ flag \in BOOLEAN
  /\ f \in Slots
  /\ r \in Slots
  /\ slot \in [Slots -> Data \cup {NoData}]
  /\ pc \in [Threads -> {"outside", "waiting", "woken"}]
  /\ arg \in [Producers -> Data \cup {NoData}]
  /\ wait \in [Threads -> {"forever", "timed"}]
  /\ held \in [Consumers -> Slots \cup {NoSlot}]

\* queue_create
Init ==
  /\ flag \in Flags
  /\ f = 0
  /\ r = 0
  /\ slot = [i \in Slots |-> NoData]
  /\ pc = [t \in Threads |-> "outside"]
  /\ arg = [p \in Producers |-> NoData]
  /\ wait = [t \in Threads |-> "forever"]
  /\ held = [c \in Consumers |-> NoSlot]

-----------------------------------------------------------------------------
(* The ring. *)

\* Mutants: the wrap-around case forgotten, an index that wraps one late.
FullNoWrap == f = r - 1
NextSlotLate(i) == IF i + 1 > Length THEN 0 ELSE i + 1

queue_is_full == f = r - 1 \/ f = r + Length - 1

queue_is_empty == f = r

\* if (++i >= q->len) i = 0
NextSlot(i) == IF i + 1 >= Length THEN 0 ELSE i + 1

\* The number of entries between r and f.
Count == IF f >= r THEN f - r ELSE f - r + Length

\* The i-th entry counted from the oldest, 1 <= i <= Count.
SlotOf(i) == IF r + i - 1 >= Length THEN r + i - 1 - Length ELSE r + i - 1

-----------------------------------------------------------------------------
(* The condition variables: push_cond for producers, pop_cond for          *)
(* consumers.                                                              *)

Waiting(S) == {t \in S : pc[t] = "waiting"}
Woken(S)   == {t \in S : pc[t] = "woken"}

\* Mutant: the signal is forgotten.
NoSignal(S, after) == pc' = after

\* pthread_cond_signal: wakes one of the blocked threads of S, if any.
\* "after" is pc with the caller's own move already made.
Signal(S, after) ==
  \/ /\ Waiting(S) = {}
     /\ pc' = after
  \/ \E t \in Waiting(S) : pc' = [after EXCEPT ![t] = "woken"]

Goes(t, where) == [pc EXCEPT ![t] = where]

-----------------------------------------------------------------------------
(* queue_push *)

\* The value is stored, f advances, one blocked consumer is signalled.
Store(p, d) ==
  /\ slot' = [slot EXCEPT ![f] = d]
  /\ f' = NextSlot(f)
  /\ Signal(Consumers, Goes(p, "outside"))
  /\ UNCHANGED <<flag, r, arg, wait, held>>

\* The callback failed, perhaps after writing part of the slot: f stays and
\* nobody is signalled.
Cancel(p) ==
  /\ CallbackMayFail
  /\ \E junk \in Data \cup {NoData} : slot' = [slot EXCEPT ![f] = junk]
  /\ pc' = Goes(p, "outside")
  /\ UNCHANGED <<flag, f, r, arg, wait, held>>

\* A call that finds the mutex free. A full queue refuses it or blocks it.
queue_push(p, d, w) ==
  /\ pc[p] = "outside"
  /\ \/ /\ ~queue_is_full
        /\ Store(p, d) \/ Cancel(p)
     \/ /\ queue_is_full
        /\ ~flag
        /\ UNCHANGED vars
     \/ /\ queue_is_full
        /\ flag
        /\ pc' = Goes(p, "waiting")
        /\ arg' = [arg EXCEPT ![p] = d]
        /\ wait' = [wait EXCEPT ![p] = w]
        /\ UNCHANGED <<flag, f, r, slot, held>>

\* A woken producer has the mutex again. Only the call without a timeout
\* looks at the queue once more.
PushResume(p) ==
  /\ pc[p] = "woken"
  /\ \/ /\ wait[p] = "forever" => ~queue_is_full
        /\ Store(p, arg[p]) \/ Cancel(p)
     \/ /\ wait[p] = "forever"
        /\ queue_is_full
        /\ pc' = Goes(p, "waiting")
        /\ UNCHANGED <<flag, f, r, slot, arg, wait, held>>

-----------------------------------------------------------------------------
(* queue_pop *)

\* Mutant: r advances before the address is taken.
TakeNext(c) ==
  /\ held' = [held EXCEPT ![c] = NextSlot(r)]
  /\ r' = NextSlot(r)
  /\ Signal(Producers, Goes(c, "outside"))
  /\ UNCHANGED <<flag, f, slot, arg, wait>>

\* The caller is given the slot's address, r advances, one blocked producer
\* is signalled.
Take(c) ==
  /\ held' = [held EXCEPT ![c] = r]
  /\ r' = NextSlot(r)
  /\ Signal(Producers, Goes(c, "outside"))
  /\ UNCHANGED <<flag, f, slot, arg, wait>>

queue_pop(c, w) ==
  /\ pc[c] = "outside"
  /\ \/ /\ ~queue_is_empty
        /\ Take(c)
     \/ /\ queue_is_empty
        /\ ~flag
        /\ held' = [held EXCEPT ![c] = NoSlot]
        /\ UNCHANGED <<flag, f, r, slot, pc, arg, wait>>
     \/ /\ queue_is_empty
        /\ flag
        /\ pc' = Goes(c, "waiting")
        /\ wait' = [wait EXCEPT ![c] = w]
        /\ held' = [held EXCEPT ![c] = NoSlot]
        /\ UNCHANGED <<flag, f, r, slot, arg>>

PopResume(c) ==
  /\ pc[c] = "woken"
  /\ \/ /\ wait[c] = "forever" => ~queue_is_empty
        /\ Take(c)
     \/ /\ wait[c] = "forever"
        /\ queue_is_empty
        /\ pc' = Goes(c, "waiting")
        /\ UNCHANGED <<flag, f, r, slot, arg, wait, held>>

-----------------------------------------------------------------------------
(* What pthread_cond_wait and pthread_cond_timedwait may do on their own.  *)

\* QUEUE_TIMEOUT. Also the outcome when tv_nsec adds up to a second or more:
\* the wait then fails with EINVAL at once, which the code takes for a timeout.
Timeout(t) ==
  /\ pc[t] = "waiting"
  /\ wait[t] = "timed"
  /\ pc' = Goes(t, "outside")
  /\ UNCHANGED <<flag, f, r, slot, arg, wait, held>>

SpuriousWakeup(t) ==
  /\ SpuriousWakeups
  /\ pc[t] = "waiting"
  /\ pc' = Goes(t, "woken")
  /\ UNCHANGED <<flag, f, r, slot, arg, wait, held>>

-----------------------------------------------------------------------------
Next ==
  \/ \E p \in Producers : \/ \E d \in Data, w \in Waits : queue_push(p, d, w)
                          \/ PushResume(p)
  \/ \E c \in Consumers : \/ \E w \in Waits : queue_pop(c, w)
                          \/ PopResume(c)
  \/ \E t \in Threads : Timeout(t) \/ SpuriousWakeup(t)

Spec == Init /\ [][Next]_vars

\* The consumer threads loop on queue_pop (thread_cost in udp.c and
\* receive.c), and a woken thread gets the mutex sooner or later because
\* nobody keeps it. Producers owe nothing.
Fairness ==
  /\ \A c \in Consumers : /\ WF_vars(\E w \in Waits : queue_pop(c, w))
                          /\ WF_vars(PopResume(c))
  /\ \A p \in Producers : WF_vars(PushResume(p))

FairSpec == Spec /\ Fairness

-----------------------------------------------------------------------------
(* Properties. *)

\* The entry behind the pointer queue_pop returned does not change while its
\* consumer may still use it, that is until its next queue_pop: the pointer
\* goes to the queue's own memory and no lock is held while it is used
\* (queue_pop, and thread_cost in udp.c and receive.c).
PoppedEntryStable ==
  [][\A c \in Consumers :
       held[c] /= NoSlot /\ held'[c] = held[c] => slot'[held[c]] = slot[held[c]]]_vars

\* What protects that entry: the pointer in use goes to the slot just behind
\* r, the one slot the ring always leaves unused (queue_is_full, queue_pop).
HeldSlotIsTheGap ==
  \A c \in Consumers : held[c] /= NoSlot => NextSlot(held[c]) = r

\* Nobody sleeps through what it waits for: while a producer sleeps on
\* push_cond there are at least as many woken producers as free slots, and
\* while a consumer sleeps on pop_cond as many woken consumers as entries.
\* One pthread_cond_signal per push and per pop is enough.
NoLostWakeup ==
  /\ Waiting(Producers) /= {} => Length - 1 - Count <= Cardinality(Woken(Producers))
  /\ Waiting(Consumers) /= {} => Count <= Cardinality(Woken(Consumers))

\* A blocked push without a timeout returns.
PushReturns ==
  \A p \in Producers : pc[p] = "waiting" ~> pc[p] = "outside"

\* "queue(%s) is full, block it": while the queue is full no push goes through
\* (the message queue_push logs before it waits or refuses).
FullQueueBlocksPush == [][queue_is_full => f' = f]_vars

-----------------------------------------------------------------------------
(* The queue as its callers see it: the entries between r and f, and for   *)
(* each consumer what it reads THROUGH the pointer it was given.           *)

Contents == [i \in 1 .. Count |-> slot[SlotOf(i)]]
InHand   == [c \in Consumers |-> IF held[c] = NoSlot THEN NoData ELSE slot[held[c]]]

Fifo == INSTANCE BoundedFifo
          WITH items <- Contents, hand <- InHand, Capacity <- Length - 1

\* The ring with its pointers implements the bounded FIFO.
ImplementsFifo == Fifo!Spec

\* ... and under the fairness of the threads every entry is delivered.
ImplementsFairFifo == Fifo!FairSpec
=============================================================================
