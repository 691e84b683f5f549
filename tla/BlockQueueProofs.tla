-------------------------- MODULE BlockQueueProofs --------------------------
(***************************************************************************)
(* Theorems about BlockQueue, for every number of threads, every Length    *)
(* and every Data.                                                         *)
(***************************************************************************)
EXTENDS BlockQueue, SequenceTheorems, FiniteSetTheorems, TLAPS

(***************************************************************************)
(* The steps, seen by what they do to the ring: the case split on which    *)
(* every invariance proof below rests.                                     *)
(***************************************************************************)

\* A producer whose call goes through.
PushStep(p) ==
  /\ pc[p] \in {"outside", "woken"}
  /\ (pc[p] = "woken" /\ wait[p] = "timed") \/ ~queue_is_full
  /\ \/ \E d \in Data : Store(p, d)
     \/ pc[p] = "woken" /\ Store(p, arg[p])
     \/ Cancel(p)

\* A consumer whose call goes through.
PopStep(c) ==
  /\ pc[c] \in {"outside", "woken"}
  /\ (pc[c] = "woken" /\ wait[c] = "timed") \/ ~queue_is_empty
  /\ Take(c)

\* Everything else leaves the ring alone: a thread blocks, wakes up or gives
\* up, a producer that blocks carries a value, and a consumer may let go of
\* the slot it was working on.
IdleStep ==
  /\ UNCHANGED <<flag, f, r, slot>>
  /\ \E t \in Threads, s \in {"outside", "waiting", "woken"} :
       /\ pc' = Goes(t, s)
       /\ s = "woken" => SpuriousWakeups
       /\ t \in Producers /\ pc[t] = "outside" => arg'[t] \in Data
  /\ \/ UNCHANGED arg
     \/ \E p \in Producers, d \in Data : arg' = [arg EXCEPT ![p] = d]
  /\ \/ UNCHANGED wait
     \/ \E t \in Threads, w \in Waits : wait' = [wait EXCEPT ![t] = w]
  /\ \/ UNCHANGED held
     \/ \E c \in Consumers : held' = [held EXCEPT ![c] = NoSlot]

\* Every step of the queue is one of the three, or changes nothing.
LEMMA StepKinds ==
  ASSUME TypeOK, [Next]_vars
  PROVE  \/ \E p \in Producers : PushStep(p)
         \/ \E c \in Consumers : PopStep(c)
         \/ IdleStep
         \/ UNCHANGED vars
<1>1. CASE UNCHANGED vars
  BY <1>1
<1>2. ASSUME NEW p \in Producers, NEW d \in Data, NEW w \in Waits, queue_push(p, d, w)
      PROVE  PushStep(p) \/ IdleStep \/ UNCHANGED vars
  <2>1. CASE ~queue_is_full /\ (Store(p, d) \/ Cancel(p))
    BY <1>2, <2>1 DEF queue_push, PushStep
  <2>2. CASE queue_is_full /\ ~flag /\ UNCHANGED vars
    BY <2>2
  <2>3. CASE /\ queue_is_full
             /\ flag
             /\ pc' = Goes(p, "waiting")
             /\ arg' = [arg EXCEPT ![p] = d]
             /\ wait' = [wait EXCEPT ![p] = w]
             /\ UNCHANGED <<flag, f, r, slot, held>>
    <3>1. arg'[p] \in Data
      BY <2>3 DEF TypeOK
    <3>2. QED
      BY <2>3, <3>1 DEF IdleStep, Threads
  <2>4. QED
    BY <1>2, <2>1, <2>2, <2>3 DEF queue_push
<1>3. ASSUME NEW p \in Producers, PushResume(p)
      PROVE  PushStep(p) \/ IdleStep
  <2>1. CASE (wait[p] = "forever" => ~queue_is_full) /\ (Store(p, arg[p]) \/ Cancel(p))
    <3>1. pc[p] = "woken" /\ wait[p] \in {"forever", "timed"}
      BY <1>3 DEF PushResume, TypeOK, Threads
    <3>2. QED
      BY <2>1, <3>1 DEF PushStep
  <2>2. CASE pc' = Goes(p, "waiting") /\ UNCHANGED <<flag, f, r, slot, arg, wait, held>>
    BY <1>3, <2>2 DEF IdleStep, Threads, PushResume
  <2>3. QED
    BY <1>3, <2>1, <2>2 DEF PushResume
<1>4. ASSUME NEW c \in Consumers, NEW w \in Waits, queue_pop(c, w)
      PROVE  PopStep(c) \/ IdleStep \/ UNCHANGED vars
  <2>1. CASE ~queue_is_empty /\ Take(c)
    BY <1>4, <2>1 DEF queue_pop, PopStep
  <2>2. CASE /\ held' = [held EXCEPT ![c] = NoSlot]
             /\ UNCHANGED <<flag, f, r, slot, pc, arg, wait>>
    <3>1. pc' = Goes(c, "outside")
      BY <1>4, <2>2 DEF queue_pop, TypeOK, Goes, Threads
    <3>2. QED
      BY <2>2, <3>1, QueueAssumption DEF IdleStep, Threads
  <2>3. CASE /\ pc' = Goes(c, "waiting")
             /\ wait' = [wait EXCEPT ![c] = w]
             /\ held' = [held EXCEPT ![c] = NoSlot]
             /\ UNCHANGED <<flag, f, r, slot, arg>>
    BY <2>3, QueueAssumption DEF IdleStep, Threads
  <2>4. QED
    BY <1>4, <2>1, <2>2, <2>3 DEF queue_pop
<1>5. ASSUME NEW c \in Consumers, PopResume(c)
      PROVE  PopStep(c) \/ IdleStep
  <2>1. CASE (wait[c] = "forever" => ~queue_is_empty) /\ Take(c)
    <3>1. pc[c] = "woken" /\ wait[c] \in {"forever", "timed"}
      BY <1>5 DEF PopResume, TypeOK, Threads
    <3>2. QED
      BY <2>1, <3>1 DEF PopStep
  <2>2. CASE pc' = Goes(c, "waiting") /\ UNCHANGED <<flag, f, r, slot, arg, wait, held>>
    BY <2>2, QueueAssumption DEF IdleStep, Threads
  <2>3. QED
    BY <1>5, <2>1, <2>2 DEF PopResume
<1>6. ASSUME NEW t \in Threads, Timeout(t) \/ SpuriousWakeup(t)
      PROVE  IdleStep
  BY <1>6 DEF Timeout, SpuriousWakeup, IdleStep
<1>7. QED
  BY <1>1, <1>2, <1>3, <1>4, <1>5, <1>6 DEF Next

-----------------------------------------------------------------------------
(* Type correctness. *)

LEMMA NextSlotType ==
  ASSUME NEW i \in Slots
  PROVE  NextSlot(i) \in Slots
BY QueueAssumption DEF NextSlot, Slots

\* A signal, like any other move of a thread, keeps pc well-typed.
LEMMA SignalType ==
  ASSUME NEW S \in SUBSET Threads, TypeOK,
         NEW t \in Threads, Signal(S, Goes(t, "outside"))
  PROVE  pc' \in [Threads -> {"outside", "waiting", "woken"}]
BY DEF Signal, Goes, Waiting, TypeOK

LEMMA TypeInit == Init => TypeOK
BY QueueAssumption DEF Init, TypeOK, Slots, Threads

LEMMA TypeStep == TypeOK /\ [Next]_vars => TypeOK'
<1> SUFFICES ASSUME TypeOK, [Next]_vars
             PROVE  TypeOK'
  OBVIOUS
<1>1. ASSUME NEW p \in Producers, PushStep(p)
      PROVE  TypeOK'
  <2>1. ASSUME NEW d \in Data \cup {NoData}, Store(p, d)
        PROVE  TypeOK'
    <3>1. pc' \in [Threads -> {"outside", "waiting", "woken"}]
      BY <2>1, SignalType DEF Store, Threads
    <3>2. QED
      BY <2>1, <3>1, NextSlotType DEF Store, TypeOK
  <2>2. CASE Cancel(p)
    BY <2>2 DEF Cancel, TypeOK, Goes, Threads
  <2>3. arg[p] \in Data \cup {NoData}
    BY DEF TypeOK
  <2>4. QED
    BY <1>1, <2>1, <2>2, <2>3 DEF PushStep
<1>2. ASSUME NEW c \in Consumers, PopStep(c)
      PROVE  TypeOK'
  <2>1. pc' \in [Threads -> {"outside", "waiting", "woken"}]
    BY <1>2, SignalType DEF PopStep, Take, Threads
  <2>2. QED
    BY <1>2, <2>1, NextSlotType DEF PopStep, Take, TypeOK
<1>3. CASE IdleStep
  BY <1>3, QueueAssumption DEF IdleStep, TypeOK, Goes, Threads
<1>4. CASE UNCHANGED vars
  BY <1>4 DEF vars, TypeOK
<1>5. QED
  BY <1>1, <1>2, <1>3, <1>4, StepKinds

\* The ring indices stay on the ring and every variable keeps its type,
\* whatever the threads do.
THEOREM TypeCorrect == Spec => []TypeOK
BY TypeInit, TypeStep, PTL DEF Spec

-----------------------------------------------------------------------------
(***************************************************************************)
(* One consumer, and no timeouts: the way both queues of the event loop    *)
(* are used. A thread that goes ahead has then really seen the queue not   *)
(* full or not empty, and the slot the consumer works on is the one the    *)
(* ring leaves unused. With a timeout a woken thread does not look again,  *)
(* and the same holds if nobody can come between it and who woke it: if it *)
(* is the only one on its side, and is only woken by a signal.             *)
(***************************************************************************)
OneProducer  == \A p, q \in Producers : p = q
TimeoutsSafe == NoTimedWaits \/ (OneProducer /\ ~SpuriousWakeups)

\* Blocked calls carry a value to push, and have a timeout only if some do.
CallInv ==
  /\ NoTimedWaits => \A t \in Threads : wait[t] = "forever"
  /\ \A p \in Producers : pc[p] /= "outside" => arg[p] \in Data

\* What a woken thread was woken for is still there.
WokenInv ==
  ~NoTimedWaits =>
    /\ \A p \in Producers : pc[p] = "woken" => ~queue_is_full
    /\ \A c \in Consumers : pc[c] = "woken" => ~queue_is_empty

IInv == TypeOK /\ CallInv /\ WokenInv /\ HeldSlotIsTheGap

LEMMA CallInvStep ==
  ASSUME TypeOK, CallInv, [Next]_vars
  PROVE  CallInv'
<1>1. ASSUME NEW p \in Producers, PushStep(p)
      PROVE  CallInv'
  <2>1. UNCHANGED <<arg, wait>>
    BY <1>1 DEF PushStep, Store, Cancel
  <2>2. \A q \in Producers : pc'[q] /= "outside" => pc[q] /= "outside"
    BY <1>1 DEF PushStep, Store, Cancel, Signal, Waiting, Goes, TypeOK, Threads
  <2>3. QED
    BY <2>1, <2>2 DEF CallInv
<1>2. ASSUME NEW c \in Consumers, PopStep(c)
      PROVE  CallInv'
  <2>1. UNCHANGED <<arg, wait>>
    BY <1>2 DEF PopStep, Take
  <2>2. \A q \in Producers : pc'[q] /= "outside" => pc[q] /= "outside"
    BY <1>2, QueueAssumption DEF PopStep, Take, Signal, Waiting, Goes, TypeOK, Threads
  <2>3. QED
    BY <2>1, <2>2 DEF CallInv
<1>3. CASE IdleStep
  <2>1. NoTimedWaits => \A t \in Threads : wait'[t] = "forever"
    BY <1>3 DEF IdleStep, CallInv, NoTimedWaits, TypeOK
  <2>2. ASSUME NEW p \in Producers, pc'[p] /= "outside"
        PROVE  arg'[p] \in Data
    <3>1. pc[p] /= "outside" => arg'[p] \in Data
      BY <1>3 DEF IdleStep, CallInv, TypeOK
    <3>2. pc[p] = "outside" => arg'[p] \in Data
      BY <1>3, <2>2 DEF IdleStep, Goes, TypeOK, Threads
    <3>3. QED
      BY <3>1, <3>2
  <2>3. QED
    BY <2>1, <2>2 DEF CallInv
<1>4. CASE UNCHANGED vars
  BY <1>4 DEF vars, CallInv
<1>5. QED
  BY <1>1, <1>2, <1>3, <1>4, StepKinds

\* The queue is full exactly when the slot after f is r.
LEMMA FullMeans ==
  ASSUME TypeOK
  PROVE  queue_is_full <=> NextSlot(f) = r
BY QueueAssumption DEF queue_is_full, NextSlot, TypeOK, Slots

\* Whoever goes ahead finds room, or an entry.
LEMMA GoesAhead ==
  ASSUME TypeOK, CallInv, WokenInv
  PROVE  /\ \A p \in Producers : PushStep(p) => ~queue_is_full
         /\ \A c \in Consumers : PopStep(c) => ~queue_is_empty
<1>1. CASE NoTimedWaits
  BY <1>1 DEF CallInv, PushStep, PopStep, Threads
<1>2. CASE ~NoTimedWaits
  BY <1>2 DEF WokenInv, PushStep, PopStep
<1>3. QED
  BY <1>1, <1>2

LEMMA WokenStep ==
  ASSUME OneConsumer, TimeoutsSafe, TypeOK, CallInv, WokenInv, [Next]_vars
  PROVE  WokenInv'
<1> SUFFICES ASSUME ~NoTimedWaits
             PROVE  /\ \A p \in Producers : pc'[p] = "woken" => ~queue_is_full'
                    /\ \A c \in Consumers : pc'[c] = "woken" => ~queue_is_empty'
  BY DEF WokenInv, NoTimedWaits
<1>1. OneProducer /\ ~SpuriousWakeups
  BY DEF TimeoutsSafe
<1>2. /\ \A p \in Producers : pc[p] = "woken" => ~queue_is_full
      /\ \A c \in Consumers : pc[c] = "woken" => ~queue_is_empty
  BY DEF WokenInv
<1>3. ASSUME NEW p \in Producers, PushStep(p)
      PROVE  /\ \A q \in Producers : pc'[q] /= "woken"
             /\ \A c \in Consumers : pc'[c] = "woken" => ~queue_is_empty'
  <2>1. \A q \in Producers : q = p
    BY <1>1 DEF OneProducer
  <2>2. ~queue_is_full
    BY <1>3, GoesAhead
  <2>3. CASE Cancel(p)
    BY <1>2, <2>1, <2>3, QueueAssumption DEF Cancel, Goes, queue_is_empty, TypeOK, Threads
  <2>4. ASSUME NEW d, Store(p, d)
        PROVE  pc'[p] /= "woken" /\ ~queue_is_empty'
    <3>1. pc'[p] = "outside"
      BY <2>4, QueueAssumption DEF Store, Signal, Waiting, Goes, TypeOK, Threads
    <3>2. f' /= r'
      BY <2>2, <2>4, FullMeans DEF Store
    <3>3. QED
      BY <3>1, <3>2 DEF queue_is_empty
  <2>5. QED
    BY <1>3, <2>1, <2>3, <2>4 DEF PushStep
<1>4. ASSUME NEW c \in Consumers, PopStep(c)
      PROVE  /\ \A p \in Producers : pc'[p] = "woken" => ~queue_is_full'
             /\ \A d \in Consumers : pc'[d] /= "woken"
  <2>1. \A d \in Consumers : d = c
    BY DEF OneConsumer
  <2>2. f /= r /\ r' = NextSlot(r) /\ f' = f
    BY <1>4, GoesAhead DEF PopStep, Take, queue_is_empty
  <2>3. pc'[c] = "outside"
    BY <1>4, QueueAssumption DEF PopStep, Take, Signal, Waiting, Goes, TypeOK, Threads
  <2>4. ~queue_is_full'
    BY <2>2, QueueAssumption DEF queue_is_full, NextSlot, TypeOK, Slots
  <2>5. QED
    BY <2>1, <2>3, <2>4
<1>5. CASE IdleStep
  <2>1. \A t \in Threads : pc'[t] = "woken" => pc[t] = "woken"
    BY <1>1, <1>5 DEF IdleStep, Goes, TypeOK
  <2>2. (queue_is_full' <=> queue_is_full) /\ (queue_is_empty' <=> queue_is_empty)
    BY <1>5 DEF IdleStep, queue_is_full, queue_is_empty
  <2>3. QED
    BY <1>2, <2>1, <2>2 DEF Threads
<1>6. CASE UNCHANGED vars
  BY <1>2, <1>6 DEF vars, queue_is_full, queue_is_empty
<1>7. QED
  BY <1>3, <1>4, <1>5, <1>6, StepKinds

LEMMA HeldSlotStep ==
  ASSUME OneConsumer, TypeOK, HeldSlotIsTheGap, [Next]_vars
  PROVE  HeldSlotIsTheGap'
<1>1. ASSUME NEW p \in Producers, PushStep(p)
      PROVE  HeldSlotIsTheGap'
  BY <1>1 DEF PushStep, Store, Cancel, HeldSlotIsTheGap, NextSlot
<1>2. ASSUME NEW c \in Consumers, PopStep(c)
      PROVE  HeldSlotIsTheGap'
  <2>1. \A d \in Consumers : d = c
    BY DEF OneConsumer
  <2>2. held' = [held EXCEPT ![c] = r] /\ r' = NextSlot(r)
    BY <1>2 DEF PopStep, Take
  <2>3. held'[c] = r
    BY <2>2 DEF TypeOK
  <2>4. QED
    BY <2>1, <2>2, <2>3 DEF HeldSlotIsTheGap, NextSlot
<1>3. CASE IdleStep
  BY <1>3 DEF IdleStep, HeldSlotIsTheGap, NextSlot, TypeOK
<1>4. CASE UNCHANGED vars
  BY <1>4 DEF vars, HeldSlotIsTheGap, NextSlot
<1>5. QED
  BY <1>1, <1>2, <1>3, <1>4, StepKinds

\* IInv is inductive: besides the types and the held slot it records that a
\* blocked call holds a value to push and that a woken one without a second look
\* need not take it.
THEOREM InductiveInvariant == OneConsumer /\ TimeoutsSafe => (Spec => []IInv)
<1> SUFFICES ASSUME OneConsumer, TimeoutsSafe
             PROVE  Spec => []IInv
  OBVIOUS
<1>1. Init => IInv
  <2>1. Init => TypeOK
    BY TypeInit
  <2>2. Init => CallInv /\ WokenInv /\ HeldSlotIsTheGap
    BY QueueAssumption DEF Init, CallInv, WokenInv, HeldSlotIsTheGap, Threads
  <2>3. QED
    BY <2>1, <2>2 DEF IInv
<1>2. IInv /\ [Next]_vars => IInv'
  BY TypeStep, CallInvStep, WokenStep, HeldSlotStep DEF IInv
<1>3. QED
  BY <1>1, <1>2, PTL DEF Spec

\* With one consumer and timeouts that are safe, the slot the consumer works on is at
\* all times the one behind r, where no push can go (queue_is_full keeps it
\* free).
THEOREM HeldSlotInvariant == OneConsumer /\ TimeoutsSafe => (Spec => []HeldSlotIsTheGap)
<1> SUFFICES ASSUME OneConsumer, TimeoutsSafe
             PROVE  Spec => []HeldSlotIsTheGap
  OBVIOUS
<1>1. Spec => []IInv
  BY InductiveInvariant
<1>2. IInv => HeldSlotIsTheGap
  BY DEF IInv
<1>3. QED
  BY <1>1, <1>2, PTL

\* In a step from IInv that changes slot i's contents, i is the slot at f and
\* no consumer is working on it.
LEMMA WriteOnlyFree ==
  ASSUME IInv, [Next]_vars,
         NEW c \in Consumers, held[c] /= NoSlot
  PROVE  slot'[held[c]] = slot[held[c]]
<1>1. held[c] \in Slots /\ NextSlot(held[c]) = r
  BY DEF IInv, TypeOK, HeldSlotIsTheGap
<1>2. ASSUME NEW p \in Producers, PushStep(p)
      PROVE  slot'[held[c]] = slot[held[c]]
  <2>1. ~queue_is_full
    BY <1>2, GoesAhead DEF IInv
  <2>2. held[c] /= f
    BY <1>1, <2>1, FullMeans DEF IInv
  <2>3. QED
    BY <1>1, <1>2, <2>2 DEF PushStep, Store, Cancel, IInv, TypeOK
<1>3. ASSUME NEW d \in Consumers, PopStep(d)
      PROVE  slot' = slot
  BY <1>3 DEF PopStep, Take
<1>4. IdleStep \/ UNCHANGED vars => slot' = slot
  BY DEF IdleStep, vars
<1>5. QED
  BY <1>2, <1>3, <1>4, StepKinds DEF IInv

\* The entry behind the pointer queue_pop handed out stays what it was for as
\* long as the single consumer may use it, although no lock is held.
THEOREM PopperSafe == OneConsumer /\ TimeoutsSafe => (Spec => PoppedEntryStable)
<1> SUFFICES ASSUME OneConsumer, TimeoutsSafe
             PROVE  Spec => PoppedEntryStable
  OBVIOUS
<1> DEFINE Stable == \A c \in Consumers :
                       held[c] /= NoSlot /\ held'[c] = held[c]
                         => slot'[held[c]] = slot[held[c]]
<1>1. IInv /\ [Next]_vars => [Stable]_vars
  BY WriteOnlyFree
<1>2. Spec => []IInv
  BY InductiveInvariant
<1>3. QED
  BY <1>1, <1>2, PTL DEF Spec, PoppedEntryStable

\* A full queue keeps every push waiting, also those with a timeout as long as
\* there is one producer: with two, one that is woken may find that the other has
\* filled the queue, and does not look (queue_push).
THEOREM FullQueueIsLeftAlone == OneConsumer /\ TimeoutsSafe => (Spec => FullQueueBlocksPush)
<1> SUFFICES ASSUME OneConsumer, TimeoutsSafe
             PROVE  Spec => FullQueueBlocksPush
  OBVIOUS
<1>1. IInv /\ [Next]_vars => [queue_is_full => f' = f]_vars
  <2> SUFFICES ASSUME IInv, [Next]_vars, queue_is_full
               PROVE  f' = f
    OBVIOUS
  <2>1. \A p \in Producers : ~PushStep(p)
    BY GoesAhead DEF IInv
  <2>2. QED
    BY <2>1, StepKinds DEF IInv, PopStep, Take, IdleStep, vars
<1>2. Spec => []IInv
  BY InductiveInvariant
<1>3. QED
  BY <1>1, <1>2, PTL DEF Spec, FullQueueBlocksPush

-----------------------------------------------------------------------------
(***************************************************************************)
(* The ring with its pointers implements the bounded FIFO.                 *)
(***************************************************************************)

LEMMA CountType ==
  ASSUME TypeOK
  PROVE  /\ Count \in 0 .. Length - 1
         /\ queue_is_empty <=> Count = 0
         /\ queue_is_full <=> Count = Length - 1
BY QueueAssumption DEF TypeOK, Slots, Count, queue_is_empty, queue_is_full

\* The entries lie in distinct slots, and f is the slot after the last one.
LEMMA SlotOfType ==
  ASSUME TypeOK
  PROVE  /\ \A i \in 1 .. Count : SlotOf(i) \in Slots /\ SlotOf(i) /= f
         /\ SlotOf(Count + 1) = f
         /\ Count > 0 => SlotOf(1) = r
BY QueueAssumption DEF TypeOK, Slots, Count, SlotOf

LEMMA ContentsType ==
  ASSUME TypeOK
  PROVE  /\ Contents \in Seq(Data \cup {NoData})
         /\ Len(Contents) = Count
         /\ DOMAIN Contents = 1 .. Count
<1>1. Count \in Nat
  BY CountType
<1>2. \A i \in 1 .. Count : slot[SlotOf(i)] \in Data \cup {NoData}
  BY SlotOfType DEF TypeOK
<1>3. QED
  BY <1>1, <1>2 DEF Contents

LEMMA StoreAppends ==
  ASSUME TypeOK, ~queue_is_full, NEW p \in Producers, NEW d \in Data, Store(p, d)
  PROVE  Contents' = Append(Contents, d)
<1>1. f' = NextSlot(f) /\ r' = r /\ slot' = [slot EXCEPT ![f] = d]
  BY DEF Store
<1>2. Count' = Count + 1
  BY <1>1, QueueAssumption DEF TypeOK, Slots, Count, NextSlot, queue_is_full
<1>3. \A i : SlotOf(i)' = SlotOf(i)
  BY <1>1 DEF SlotOf
<1>4. \A i \in 1 .. Count : slot'[SlotOf(i)] = slot[SlotOf(i)]
  BY <1>1, SlotOfType DEF TypeOK
<1>5. slot'[SlotOf(Count + 1)] = d
  BY <1>1, SlotOfType DEF TypeOK
<1>6. Contents' = [i \in 1 .. Count + 1 |-> slot'[SlotOf(i)]]
  BY <1>2, <1>3 DEF Contents
<1>7. Count \in Nat /\ Contents \in Seq(Data \cup {NoData}) /\ Len(Contents) = Count
  BY CountType, ContentsType
<1>8. \A i \in 1 .. Count : Contents[i] = slot[SlotOf(i)]
  BY DEF Contents
<1>9. /\ Append(Contents, d) \in Seq(Data \cup {NoData})
      /\ Len(Append(Contents, d)) = Count + 1
      /\ \A i \in 1 .. Count : Append(Contents, d)[i] = Contents[i]
      /\ Append(Contents, d)[Count + 1] = d
  BY <1>7, AppendProperties
<1>10. ASSUME NEW i \in 1 .. Count + 1
       PROVE  slot'[SlotOf(i)] = Append(Contents, d)[i]
  <2>1. CASE i \in 1 .. Count
    BY <1>4, <1>8, <1>9, <2>1
  <2>2. CASE i = Count + 1
    BY <1>5, <1>9, <2>2
  <2>3. QED
    BY <1>7, <2>1, <2>2
<1>11. \A i \in 1 .. Count + 1 : Contents'[i] = Append(Contents, d)[i]
  BY <1>6, <1>10
<1>12. \A i \in 1 .. Count + 1 : slot'[SlotOf(i)] \in Data \cup {NoData}
  BY <1>7, <1>9, <1>10, ElementOfSeq
<1>13. Contents' \in Seq(Data \cup {NoData}) /\ Len(Contents') = Count + 1
  BY <1>6, <1>7, <1>12
<1>14. QED
  BY <1>9, <1>11, <1>13, SeqEqual

LEMMA CancelKeeps ==
  ASSUME TypeOK, NEW p \in Producers, Cancel(p)
  PROVE  Contents' = Contents
<1>1. PICK junk \in Data \cup {NoData} : slot' = [slot EXCEPT ![f] = junk]
  BY DEF Cancel
<1>2. Count' = Count /\ \A i : SlotOf(i)' = SlotOf(i)
  BY DEF Cancel, Count, SlotOf
<1>3. \A i \in 1 .. Count : slot'[SlotOf(i)] = slot[SlotOf(i)]
  BY <1>1, SlotOfType DEF TypeOK
<1>4. QED
  BY <1>2, <1>3 DEF Contents

LEMMA TakeRemoves ==
  ASSUME TypeOK, ~queue_is_empty, NEW c \in Consumers, Take(c)
  PROVE  /\ Contents /= <<>>
         /\ Contents' = Tail(Contents)
         /\ slot[r] = Head(Contents)
<1>1. r' = NextSlot(r) /\ f' = f /\ slot' = slot
  BY DEF Take
<1>2. Count' = Count - 1 /\ Count > 0 /\ Count \in Nat
  BY <1>1, CountType, QueueAssumption DEF TypeOK, Slots, Count, NextSlot, queue_is_empty
<1>3. \A i \in 1 .. Count - 1 : SlotOf(i)' = SlotOf(i + 1)
  BY <1>1, <1>2, CountType, QueueAssumption DEF TypeOK, Slots, SlotOf, NextSlot
<1>4. Contents' = [i \in 1 .. Count - 1 |-> slot[SlotOf(i + 1)]]
  BY <1>1, <1>2, <1>3 DEF Contents
<1>5. Contents \in Seq(Data \cup {NoData}) /\ Len(Contents) = Count
  BY ContentsType
<1>6. Contents[1] = slot[r]
  BY <1>2, SlotOfType DEF Contents
<1>7. \A i \in 1 .. Count - 1 : Contents[i + 1] = slot[SlotOf(i + 1)]
  BY <1>2 DEF Contents
<1>8. Contents /= <<>> /\ Head(Contents) = Contents[1]
  BY <1>2, <1>5
<1>9. /\ Tail(Contents) \in Seq(Data \cup {NoData})
      /\ Len(Tail(Contents)) = Count - 1
      /\ \A i \in 1 .. Count - 1 : Tail(Contents)[i] = Contents[i + 1]
  BY <1>5, <1>8, HeadTailProperties
<1>10. \A i \in 1 .. Count - 1 : slot[SlotOf(i + 1)] \in Data \cup {NoData}
  BY <1>2, <1>5, <1>7, ElementOfSeq
<1>11. Contents' \in Seq(Data \cup {NoData}) /\ Len(Contents') = Count - 1
  BY <1>2, <1>4, <1>10
<1>12. \A i \in 1 .. Count - 1 : Contents'[i] = Tail(Contents)[i]
  BY <1>4, <1>7, <1>9
<1>13. Contents' = Tail(Contents)
  BY <1>9, <1>11, <1>12, SeqEqual
<1>14. QED
  BY <1>6, <1>8, <1>13

\* What a consumer reads through its pointer only changes when the pointer does.
LEMMA HandStep ==
  ASSUME IInv, [Next]_vars, NEW c \in Consumers, held'[c] = held[c]
  PROVE  InHand'[c] = InHand[c]
<1>1. CASE held[c] = NoSlot
  BY <1>1 DEF InHand
<1>2. CASE held[c] /= NoSlot
  BY <1>2, WriteOnlyFree DEF InHand
<1>3. QED
  BY <1>1, <1>2

\* One consumer and safe timeouts: what the callers of queue_push and queue_pop
\* see is a first-in first-out queue of Length - 1 entries that hands out
\* each entry once and leaves it alone while it is used.
THEOREM RingImplementsFifo == OneConsumer /\ TimeoutsSafe => (Spec => ImplementsFifo)
<1> SUFFICES ASSUME OneConsumer, TimeoutsSafe
             PROVE  Spec => ImplementsFifo
  OBVIOUS
<1>1. Init => Fifo!Init
  <2> SUFFICES ASSUME Init
               PROVE  Fifo!Init
    OBVIOUS
  <2>1. Count = 0
    BY DEF Init, Count
  <2>2. Contents = <<>>
    BY <2>1 DEF Contents
  <2>3. InHand = [c \in Consumers |-> NoData]
    BY DEF Init, InHand
  <2>4. QED
    BY <2>2, <2>3 DEF Fifo!Init
<1>2. IInv /\ [Next]_vars => [Fifo!Next]_(Fifo!vars)
  <2> SUFFICES ASSUME IInv, [Next]_vars
               PROVE  [Fifo!Next]_(Fifo!vars)
    OBVIOUS
  <2> USE DEF IInv
  <2>1. ASSUME NEW p \in Producers, PushStep(p)
        PROVE  [Fifo!Next]_(Fifo!vars)
    <3>1. ~queue_is_full
      BY <2>1, GoesAhead
    <3>2. InHand' = InHand
      <4>1. held' = held
        BY <2>1 DEF PushStep, Store, Cancel
      <4>2. \A c \in Consumers : InHand'[c] = InHand[c]
        BY <4>1, HandStep
      <4>3. QED
        BY <4>2 DEF InHand
    <3>3. ASSUME NEW d \in Data, Store(p, d)
          PROVE  Fifo!Put(d)
      <4>1. Len(Contents) < Length - 1
        BY <3>1, CountType, ContentsType, QueueAssumption
      <4>2. QED
        BY <3>1, <3>2, <3>3, <4>1, StoreAppends DEF Fifo!Put
    <3>4. CASE Cancel(p)
      BY <3>2, <3>4, CancelKeeps DEF Fifo!vars
    <3>5. pc[p] = "woken" => arg[p] \in Data
      BY DEF CallInv
    <3>6. QED
      BY <2>1, <3>3, <3>4, <3>5 DEF PushStep, Fifo!Next
  <2>2. ASSUME NEW c \in Consumers, PopStep(c)
        PROVE  Fifo!Get(c)
    <3>1. ~queue_is_empty /\ Take(c)
      BY <2>2, GoesAhead DEF PopStep
    <3>2. held' = [held EXCEPT ![c] = r] /\ slot' = slot
      BY <3>1 DEF Take
    <3>3. held'[c] = r /\ r /= NoSlot
      BY <3>2 DEF TypeOK, Slots, NoSlot
    <3>4. InHand' = [InHand EXCEPT ![c] = slot[r]]
      BY <3>2, <3>3 DEF InHand, TypeOK
    <3>5. QED
      BY <3>1, <3>4, TakeRemoves DEF Fifo!Get
  <2>3. CASE IdleStep
    <3>1. Contents' = Contents
      BY <2>3 DEF IdleStep, Contents, Count, SlotOf
    <3>2. slot' = slot
      BY <2>3 DEF IdleStep
    <3>3. CASE held' = held
      BY <3>1, <3>2, <3>3 DEF InHand, Fifo!vars
    <3>4. ASSUME NEW c \in Consumers, held' = [held EXCEPT ![c] = NoSlot]
          PROVE  Fifo!LetGo(c)
      <4>1. InHand' = [InHand EXCEPT ![c] = NoData]
        BY <3>2, <3>4 DEF InHand, TypeOK
      <4>2. QED
        BY <3>1, <4>1 DEF Fifo!LetGo
    <3>5. QED
      BY <2>3, <3>3, <3>4 DEF IdleStep, Fifo!Next
  <2>4. CASE UNCHANGED vars
    BY <2>4 DEF vars, Contents, Count, SlotOf, InHand, Fifo!vars
  <2>5. QED
    BY <2>1, <2>2, <2>3, <2>4, StepKinds DEF Fifo!Next
<1>3. Spec => []IInv
  BY InductiveInvariant
<1>4. QED
  BY <1>1, <1>2, <1>3, PTL DEF Spec, ImplementsFifo, Fifo!Spec

-----------------------------------------------------------------------------
(***************************************************************************)
(* No wake-up is lost: any number of producers and consumers, any Length,  *)
(* calls without timeouts and push callbacks that do not fail.             *)
(***************************************************************************)
FiniteThreads == IsFiniteSet(Producers) /\ IsFiniteSet(Consumers)

WInv == TypeOK /\ CallInv /\ NoLostWakeup

(***************************************************************************)
(* The steps, seen by what they do to the sets of blocked and woken        *)
(* threads. Only a thread that has found the queue full or empty goes to   *)
(* sleep, and nobody gives up.                                             *)
(***************************************************************************)
Sleep(t) ==
  /\ t \in Producers => queue_is_full
  /\ t \in Consumers => queue_is_empty
  /\ pc[t] \in {"outside", "woken"}
  /\ pc' = Goes(t, "waiting")
  /\ UNCHANGED <<f, r>>

Wake(t) ==
  /\ pc[t] = "waiting"
  /\ pc' = Goes(t, "woken")
  /\ UNCHANGED <<f, r>>

LEMMA WaitKinds ==
  ASSUME NoTimedWaits, ~CallbackMayFail, TypeOK, CallInv, [Next]_vars
  PROVE  \/ \E p \in Producers, d \in Data : ~queue_is_full /\ pc[p] \in {"outside", "woken"} /\ Store(p, d)
         \/ \E c \in Consumers : ~queue_is_empty /\ pc[c] \in {"outside", "woken"} /\ Take(c)
         \/ \E t \in Threads : Sleep(t) \/ Wake(t)
         \/ UNCHANGED <<f, r, pc>>
<1>1. CASE UNCHANGED vars
  BY <1>1 DEF vars
<1>2. ASSUME NEW p \in Producers, NEW d \in Data, NEW w \in Waits, queue_push(p, d, w)
      PROVE  \/ ~queue_is_full /\ pc[p] \in {"outside", "woken"} /\ Store(p, d)
             \/ Sleep(p) \/ UNCHANGED <<f, r, pc>>
  BY <1>2, QueueAssumption DEF queue_push, Cancel, Sleep, vars
<1>3. ASSUME NEW p \in Producers, PushResume(p)
      PROVE  \/ \E d \in Data : ~queue_is_full /\ pc[p] \in {"outside", "woken"} /\ Store(p, d)
             \/ Sleep(p)
  <2>1. wait[p] = "forever" /\ arg[p] \in Data
    BY <1>3 DEF PushResume, CallInv, Threads
  <2>2. QED
    BY <1>3, <2>1, QueueAssumption DEF PushResume, Cancel, Sleep
<1>4. ASSUME NEW c \in Consumers, NEW w \in Waits, queue_pop(c, w)
      PROVE  \/ ~queue_is_empty /\ pc[c] \in {"outside", "woken"} /\ Take(c)
             \/ Sleep(c) \/ UNCHANGED <<f, r, pc>>
  BY <1>4, QueueAssumption DEF queue_pop, Sleep
<1>5. ASSUME NEW c \in Consumers, PopResume(c)
      PROVE  \/ ~queue_is_empty /\ pc[c] \in {"outside", "woken"} /\ Take(c)
             \/ Sleep(c)
  <2>1. wait[c] = "forever"
    BY DEF CallInv, Threads
  <2>2. QED
    BY <1>5, <2>1, QueueAssumption DEF PopResume, Sleep
<1>6. ASSUME NEW t \in Threads, Timeout(t) \/ SpuriousWakeup(t)
      PROVE  Wake(t)
  BY <1>6 DEF Timeout, SpuriousWakeup, Wake, CallInv
<1>7. QED
  BY <1>1, <1>2, <1>3, <1>4, <1>5, <1>6 DEF Next, Threads

-----------------------------------------------------------------------------
(* What the moves of one thread do to the threads of a set S.              *)

\* Somebody leaves the queue: at most the leaver is missed among the woken.
LEMMA LeaveCounts ==
  ASSUME NEW S, IsFiniteSet(S), S \subseteq Threads, TypeOK,
         NEW t \in Threads, pc[t] \in {"outside", "woken"},
         \A u \in S : pc'[u] = Goes(t, "outside")[u]
  PROVE  /\ Waiting(S)' = Waiting(S)
         /\ Cardinality(Woken(S)') >= Cardinality(Woken(S)) - (IF pc[t] = "woken" THEN 1 ELSE 0)
<1>1. Waiting(S)' = Waiting(S)
  BY DEF Waiting, Goes, TypeOK
<1>2. Woken(S)' = Woken(S) \ {t}
  BY DEF Woken, Goes, TypeOK
<1>3. IsFiniteSet(Woken(S)) /\ Cardinality(Woken(S)) \in Nat
  BY FS_Subset, FS_CardinalityType DEF Woken
<1>4. CASE t \in Woken(S)
  <2>1. Cardinality(Woken(S)') = Cardinality(Woken(S)) - 1
    BY <1>2, <1>3, <1>4, FS_RemoveElement
  <2>2. pc[t] = "woken"
    BY <1>4 DEF Woken
  <2>3. QED
    BY <1>1, <1>3, <2>1, <2>2
<1>5. CASE t \notin Woken(S)
  <2>1. Woken(S)' = Woken(S)
    BY <1>2, <1>5
  <2>2. QED
    BY <1>1, <1>3, <2>1
<1>6. QED
  BY <1>4, <1>5

\* A signal adds one to the woken, unless nobody sleeps.
LEMMA SignalCounts ==
  ASSUME NEW S, IsFiniteSet(S), S \subseteq Threads, TypeOK,
         NEW t \in Threads \ S, Signal(S, Goes(t, "outside"))
  PROVE  \/ Waiting(S)' = {}
         \/ /\ Waiting(S) /= {}
            /\ Cardinality(Woken(S)') = Cardinality(Woken(S)) + 1
<1>1. CASE Waiting(S) = {} /\ pc' = Goes(t, "outside")
  BY <1>1 DEF Waiting, Goes, TypeOK
<1>2. ASSUME NEW u \in Waiting(S), pc' = [Goes(t, "outside") EXCEPT ![u] = "woken"]
      PROVE  Cardinality(Woken(S)') = Cardinality(Woken(S)) + 1
  <2>1. u \in S /\ u \notin Woken(S)
    BY DEF Waiting, Woken
  <2>2. Woken(S)' = Woken(S) \cup {u}
    BY <1>2, <2>1 DEF Woken, Goes, TypeOK
  <2>3. IsFiniteSet(Woken(S))
    BY FS_Subset DEF Woken
  <2>4. QED
    BY <2>1, <2>2, <2>3, FS_AddElement
<1>3. QED
  BY <1>1, <1>2 DEF Signal

\* A thread that wakes up is woken and no longer sleeps.
LEMMA WakeCounts ==
  ASSUME NEW S, IsFiniteSet(S), S \subseteq Threads, TypeOK, NEW t \in Threads, Wake(t)
  PROVE  /\ Waiting(S)' \subseteq Waiting(S)
         /\ Cardinality(Woken(S)') >= Cardinality(Woken(S))
<1>1. Waiting(S)' \subseteq Waiting(S)
  BY DEF Wake, Waiting, Goes, TypeOK
<1>2. Woken(S) \subseteq Woken(S)' /\ Woken(S)' \subseteq S
  BY DEF Wake, Woken, Goes, TypeOK
<1>3. IsFiniteSet(Woken(S)')
  BY <1>2, FS_Subset
<1>4. QED
  BY <1>1, <1>2, <1>3, FS_Subset, FS_CardinalityType

LEMMA WokenNat ==
  ASSUME NEW S, IsFiniteSet(S)
  PROVE  Cardinality(Woken(S)) \in Nat /\ Cardinality(Woken(S)') \in Nat
<1>1. Woken(S) \subseteq S /\ Woken(S)' \subseteq S
  BY DEF Woken
<1>2. QED
  BY <1>1, FS_Subset, FS_CardinalityType

-----------------------------------------------------------------------------
LEMMA StoreKeepsWakeups ==
  ASSUME FiniteThreads, WInv,
         NEW p \in Producers, NEW d \in Data, ~queue_is_full,
         pc[p] \in {"outside", "woken"}, Store(p, d)
  PROVE  NoLostWakeup'
<1>1. Count' = Count + 1 /\ Count \in Nat
  BY CountType, QueueAssumption DEF Store, WInv, TypeOK, Slots, Count, NextSlot, queue_is_full
<1>2. \A u \in Producers : pc'[u] = Goes(p, "outside")[u]
  BY QueueAssumption DEF Store, Signal, Waiting, Goes, WInv, TypeOK, Threads
<1>3. /\ Waiting(Producers)' = Waiting(Producers)
      /\ Cardinality(Woken(Producers)') >= Cardinality(Woken(Producers)) - 1
  BY <1>2, LeaveCounts, WokenNat DEF FiniteThreads, WInv, Threads
<1>4. Waiting(Producers)' /= {} => Length - 1 - Count' <= Cardinality(Woken(Producers)')
  BY <1>1, <1>3, WokenNat, QueueAssumption DEF FiniteThreads, WInv, NoLostWakeup
<1>5. \/ Waiting(Consumers)' = {}
      \/ /\ Waiting(Consumers) /= {}
         /\ Cardinality(Woken(Consumers)') = Cardinality(Woken(Consumers)) + 1
  BY SignalCounts, QueueAssumption DEF FiniteThreads, WInv, Store, Threads
<1>6. Waiting(Consumers)' /= {} => Count' <= Cardinality(Woken(Consumers)')
  BY <1>1, <1>5, WokenNat DEF FiniteThreads, WInv, NoLostWakeup
<1>7. QED
  BY <1>4, <1>6 DEF NoLostWakeup

LEMMA TakeKeepsWakeups ==
  ASSUME FiniteThreads, WInv,
         NEW c \in Consumers, ~queue_is_empty,
         pc[c] \in {"outside", "woken"}, Take(c)
  PROVE  NoLostWakeup'
<1>1. Count' = Count - 1 /\ Count \in Nat
  BY CountType, QueueAssumption DEF Take, WInv, TypeOK, Slots, Count, NextSlot, queue_is_empty
<1>2. \A u \in Consumers : pc'[u] = Goes(c, "outside")[u]
  BY QueueAssumption DEF Take, Signal, Waiting, Goes, WInv, TypeOK, Threads
<1>3. /\ Waiting(Consumers)' = Waiting(Consumers)
      /\ Cardinality(Woken(Consumers)') >= Cardinality(Woken(Consumers)) - 1
  BY <1>2, LeaveCounts, WokenNat DEF FiniteThreads, WInv, Threads
<1>4. Waiting(Consumers)' /= {} => Count' <= Cardinality(Woken(Consumers)')
  BY <1>1, <1>3, WokenNat DEF FiniteThreads, WInv, NoLostWakeup
<1>5. \/ Waiting(Producers)' = {}
      \/ /\ Waiting(Producers) /= {}
         /\ Cardinality(Woken(Producers)') = Cardinality(Woken(Producers)) + 1
  BY SignalCounts, QueueAssumption DEF FiniteThreads, WInv, Take, Threads
<1>6. Waiting(Producers)' /= {} => Length - 1 - Count' <= Cardinality(Woken(Producers)')
  BY <1>1, <1>5, WokenNat, QueueAssumption DEF FiniteThreads, WInv, NoLostWakeup
<1>7. QED
  BY <1>4, <1>6 DEF NoLostWakeup

LEMMA SleepKeepsWakeups ==
  ASSUME FiniteThreads, WInv, NEW t \in Threads, Sleep(t)
  PROVE  NoLostWakeup'
<1>1. Count' = Count /\ Count \in 0 .. Length - 1
  BY CountType DEF Sleep, Count, WInv
<1>2. CASE t \in Producers
  <2>1. Count = Length - 1
    BY <1>2, CountType DEF Sleep, WInv
  <2>2. Waiting(Consumers)' = Waiting(Consumers) /\ Woken(Consumers)' = Woken(Consumers)
    BY <1>2, QueueAssumption DEF Sleep, Waiting, Woken, Goes, WInv, TypeOK, Threads
  <2>3. Length - 1 - Count' <= Cardinality(Woken(Producers)')
    BY <1>1, <2>1, WokenNat, QueueAssumption DEF FiniteThreads
  <2>4. QED
    BY <1>1, <2>2, <2>3 DEF NoLostWakeup, WInv
<1>3. CASE t \in Consumers
  <2>1. Count = 0
    BY <1>3, CountType DEF Sleep, WInv
  <2>2. Waiting(Producers)' = Waiting(Producers) /\ Woken(Producers)' = Woken(Producers)
    BY <1>3, QueueAssumption DEF Sleep, Waiting, Woken, Goes, WInv, TypeOK, Threads
  <2>3. Count' <= Cardinality(Woken(Consumers)')
    BY <1>1, <2>1, WokenNat DEF FiniteThreads
  <2>4. QED
    BY <1>1, <2>2, <2>3 DEF NoLostWakeup, WInv
<1>4. QED
  BY <1>2, <1>3 DEF Threads

LEMMA WakeKeepsWakeups ==
  ASSUME FiniteThreads, WInv, NEW t \in Threads, Wake(t)
  PROVE  NoLostWakeup'
<1>1. Count' = Count /\ Count \in 0 .. Length - 1
  BY CountType DEF Wake, Count, WInv
<1>2. /\ Waiting(Producers)' \subseteq Waiting(Producers)
      /\ Cardinality(Woken(Producers)') >= Cardinality(Woken(Producers))
  BY WakeCounts DEF FiniteThreads, WInv, Threads
<1>3. /\ Waiting(Consumers)' \subseteq Waiting(Consumers)
      /\ Cardinality(Woken(Consumers)') >= Cardinality(Woken(Consumers))
  BY WakeCounts DEF FiniteThreads, WInv, Threads
<1>4. QED
  BY <1>1, <1>2, <1>3, WokenNat, QueueAssumption DEF NoLostWakeup, WInv, FiniteThreads

\* One pthread_cond_signal for each push and each pop is enough: no thread is
\* left asleep while the slot or the entry it waits for is there and nobody
\* has been woken for it (queue_push and queue_pop called without timeouts,
\* with callbacks that do not fail).
THEOREM WakeupsAreNotLost ==
  FiniteThreads /\ NoTimedWaits /\ ~CallbackMayFail => (Spec => []NoLostWakeup)
<1> SUFFICES ASSUME FiniteThreads, NoTimedWaits, ~CallbackMayFail
             PROVE  Spec => []NoLostWakeup
  OBVIOUS
<1>1. Init => WInv
  <2>1. Init => TypeOK
    BY TypeInit
  <2>2. Init => CallInv /\ NoLostWakeup
    BY DEF Init, CallInv, NoLostWakeup, Waiting, Threads
  <2>3. QED
    BY <2>1, <2>2 DEF WInv
<1>2. WInv /\ [Next]_vars => WInv'
  <2> SUFFICES ASSUME WInv, [Next]_vars
               PROVE  WInv'
    OBVIOUS
  <2>1. TypeOK' /\ CallInv'
    BY TypeStep, CallInvStep DEF WInv
  <2>2. UNCHANGED <<f, r, pc>> => NoLostWakeup'
    BY DEF WInv, NoLostWakeup, Count, Waiting, Woken
  <2>3. NoLostWakeup'
    BY <2>2, WaitKinds, StoreKeepsWakeups, TakeKeepsWakeups, SleepKeepsWakeups,
       WakeKeepsWakeups DEF WInv
  <2>4. QED
    BY <2>1, <2>3 DEF WInv
<1>3. WInv => NoLostWakeup
  BY DEF WInv
<1>4. QED
  BY <1>1, <1>2, <1>3, PTL DEF Spec
=============================================================================
