--------------------------- MODULE EventLifecycle ---------------------------
(***************************************************************************)
(* The event loop's life: event_init creates two queues and starts two     *)
(* threads, event_deinit cancels the threads and destroys the queues, and  *)
(* the queues' mutexes are initialised by whoever comes first              *)
(* (queue_lock_init). What the threads do with what they pop is in         *)
(* EventLoop; here a queue is a number of entries, a mutex and the threads *)
(* that sleep on its conditions.                                           *)
(*                                                                         *)
(* Threads are cancelled where they can be: in pthread_cond_wait, with     *)
(* the mutex locked again, in recvfrom, in read_cb, and where a queue logs *)
(* what it did, with the mutex locked. What they have locked stays        *)
(* locked. A thread that touches a destroyed queue, or cancels a thread    *)
(* that has ended, is "stray" from then on: what it does is undefined.     *)
(***************************************************************************)
EXTENDS Integers, FiniteSets

CONSTANTS
  Capacity,   \* entries a queue has room for
  MaxInits,   \* bound on the threads of a kind
  MaxCalls    \* bound on the calls of the program's main thread

ASSUME LifecycleAssumption == {Capacity, MaxInits, MaxCalls} \subseteq Nat \ {0}

Queues  == {"select", "recv"}
Workers == {"udp", "cb"} \X (1 .. MaxInits)
Main    == <<"main", 0>>
Threads == Workers \cup {Main}
Nobody  == <<"nobody", 0>>

VARIABLES
  calls,       \* bounds the calls, see MaxCalls
  event_,      \* event_init has been called
  conn_cnt,    \* whether a connection is registered: 0 or 1
  queue,       \* select.c: its queue has been created ("queue" is not NULL)
  recv_queue,  \* udp.c: the same
  recv_thread, \* udp.c, receive.c: the threads to cancel
  cb_thread,
  pipe,        \* wakeup_fd: is it a pipe, or 0 (standard input)
  stdin,       \* standard input is open
  exit_thread_flag,
  memory,      \* memory[q]: the queue is not there yet, live or freed
  inited,      \* q->lock.inited
  owner,       \* the mutex
  waiting,     \* the threads a signal can reach
  entries,     \* entries in the queue
  at, on,      \* where a thread is, and in which queue
  cancelled,   \* threads with a cancellation pending
  raced,       \* history: two threads initialised q's lock at a time
  closings,    \* history: how often the pipe was to be closed
  deinits      \* history: event_deinit has returned

fdVars   == <<pipe, stdin, closings>>
progVars == <<calls, event_, conn_cnt, queue, recv_queue, recv_thread, cb_thread, fdVars, deinits>>
memVars  == <<memory, inited, raced>>
lockVars == <<owner, waiting, entries>>
vars == <<progVars, exit_thread_flag, memVars, lockVars, at, on, cancelled>>

LifeTypeOK ==
  /\ calls \in 0 .. MaxCalls /\ conn_cnt \in {0, 1}
  /\ {event_, queue, recv_queue, pipe, stdin, exit_thread_flag, deinits} \subseteq BOOLEAN
  /\ closings \in 0 .. MaxCalls
  /\ {recv_thread, cb_thread} \subseteq Workers \cup {Nobody}
  /\ memory \in [Queues -> {"none", "live", "freed"}]
  /\ inited \in [Queues -> BOOLEAN] /\ raced \in [Queues -> BOOLEAN]
  /\ owner \in [Queues -> Threads \cup {Nobody}]
  /\ waiting \in [Queues -> SUBSET Threads]
  /\ entries \in [Queues -> 0 .. Capacity]
  /\ at \in [Threads -> {"none", "idle", "loop", "push", "initing", "lock", "wait", "work", "recvfrom",
                         "read_cb", "udp_deinit", "destroy", "select_deinit", "gone", "stray"}]
  /\ on \in [Threads -> Queues]
  /\ cancelled \subseteq Workers

Init ==
  /\ calls = 0 /\ event_ = FALSE /\ conn_cnt = 0
  /\ queue = FALSE /\ recv_queue = FALSE
  /\ recv_thread = Nobody /\ cb_thread = Nobody
  /\ pipe = FALSE /\ stdin = TRUE /\ exit_thread_flag = FALSE
  /\ memory = [q \in Queues |-> "none"]
  /\ inited = [q \in Queues |-> FALSE] /\ raced = [q \in Queues |-> FALSE]
  /\ owner = [q \in Queues |-> Nobody]
  /\ waiting = [q \in Queues |-> {}]
  /\ entries = [q \in Queues |-> 0]
  /\ at = [t \in Threads |-> IF t = Main THEN "idle" ELSE "none"]
  /\ on = [t \in Threads |-> "select"]
  /\ cancelled = {}
  /\ closings = 0 /\ deinits = FALSE

Go(t, place) == at' = [at EXCEPT ![t] = place]

-----------------------------------------------------------------------------
(* A thread's way through queue_push or queue_pop.                         *)

\* Mutant: "inited" is set before the rest is.
EnterEarly(t, q) ==
  IF memory[q] = "freed"
  THEN Go(t, "stray") /\ UNCHANGED <<on, raced>>
  ELSE /\ on' = [on EXCEPT ![t] = q]
       /\ Go(t, IF inited[q] \/ \E u \in Threads : at[u] = "initing" /\ on[u] = q THEN "lock" ELSE "initing")
       /\ UNCHANGED raced

\* queue_lock_init tests "inited" before it does anything, and is not locked.
Enter(t, q) ==
  IF memory[q] = "freed"
  THEN Go(t, "stray") /\ UNCHANGED <<on, raced>>
  ELSE /\ on' = [on EXCEPT ![t] = q]
       /\ Go(t, IF inited[q] THEN "lock" ELSE "initing")
       /\ raced' = [raced EXCEPT ![q] = @ \/ (~inited[q] /\ \E u \in Threads \ {t} : at[u] = "initing" /\ on[u] = q)]


\* The conditions and the mutex as new: whoever has locked it has lost it, and
\* whoever sleeps is not known to it.
queue_lock_init(t) ==
  /\ at[t] = "initing" /\ memory[on[t]] = "live"
  /\ inited' = [inited EXCEPT ![on[t]] = TRUE]
  /\ owner' = [owner EXCEPT ![on[t]] = Nobody]
  /\ waiting' = [waiting EXCEPT ![on[t]] = {}]
  /\ Go(t, "lock")
  /\ UNCHANGED <<progVars, exit_thread_flag, memory, raced, entries, on, cancelled>>

Inside(t) == at[t] \in {"initing", "lock", "wait", "work", "recvfrom"}

\* The udp thread pushes into the receive queue, the main thread into the
\* other one; who does not push pops.
Pushes(t) == t = Main \/ (t[1] = "udp" /\ on[t] = "recv")

\* Mutant: a full queue does not block.
BlockedPopper(t) == ~Pushes(t) /\ entries[on[t]] = 0

Blocked(t) == IF Pushes(t) THEN entries[on[t]] = Capacity ELSE entries[on[t]] = 0

\* pthread_mutex_lock, and pthread_cond_wait for as long as there is need.
Lock(t) ==
  /\ at[t] = "lock" /\ memory[on[t]] = "live" /\ owner[on[t]] = Nobody
  /\ IF Blocked(t)
     THEN Go(t, "wait") /\ waiting' = [waiting EXCEPT ![on[t]] = @ \cup {t}] /\ UNCHANGED owner
     ELSE Go(t, "work") /\ owner' = [owner EXCEPT ![on[t]] = t] /\ UNCHANGED waiting
  /\ UNCHANGED <<progVars, exit_thread_flag, memVars, entries, on, cancelled>>

\* pthread_cond_signal wakes a thread that waits for the other operation.
LeaveTo(t, place, n) ==
  LET q == on[t]
      sleeping == {u \in waiting[q] : Pushes(u) /= Pushes(t)}
  IN /\ entries' = [entries EXCEPT ![q] = n]
     /\ owner' = [owner EXCEPT ![q] = Nobody]
     /\ \/ sleeping = {} /\ Go(t, place) /\ UNCHANGED waiting
        \/ \E u \in sleeping : /\ waiting' = [waiting EXCEPT ![q] = @ \ {u}]
                               /\ at' = [at EXCEPT ![t] = place, ![u] = "lock"]
     /\ UNCHANGED <<progVars, exit_thread_flag, memVars, on, cancelled>>

\* The entry is taken or stored and the mutex given up; the udp thread first
\* calls recvfrom where it pushes.
Work(t) ==
  /\ at[t] = "work" /\ memory[on[t]] = "live"
  /\ \/ t = Main /\ LeaveTo(t, "idle", entries["select"] + 1)
     \/ t[1] = "udp" /\ on[t] = "select" /\ LeaveTo(t, "push", entries["select"] - 1)
     \/ t[1] = "cb" /\ LeaveTo(t, "read_cb", entries["recv"] - 1)
     \/ /\ t[1] = "udp" /\ on[t] = "recv" /\ Go(t, "recvfrom")
        /\ UNCHANGED <<progVars, exit_thread_flag, memVars, lockVars, on, cancelled>>

\* With a datagram, or with an error: then nothing is stored or signalled.
Recvfrom(t) ==
  /\ at[t] = "recvfrom" /\ memory["recv"] = "live"
  /\ \/ LeaveTo(t, "loop", entries["recv"] + 1)
     \/ /\ owner' = [owner EXCEPT !["recv"] = Nobody] /\ Go(t, "loop")
        /\ UNCHANGED <<progVars, exit_thread_flag, memVars, waiting, entries, on, cancelled>>

-----------------------------------------------------------------------------
(* The workers: thread_cost of udp.c and of receive.c.                     *)

WorkerLoops(t) ==
  /\ at[t] = "loop"
  /\ IF exit_thread_flag
     THEN Go(t, "gone") /\ UNCHANGED <<on, raced>>
     ELSE Enter(t, IF t[1] = "udp" THEN "select" ELSE "recv")
  /\ UNCHANGED <<progVars, exit_thread_flag, memory, inited, lockVars, cancelled>>

\* queue_push does nothing without a queue.
UdpPushes(t) ==
  /\ at[t] = "push"
  /\ IF recv_queue THEN Enter(t, "recv") ELSE Go(t, "loop") /\ UNCHANGED <<on, raced>>
  /\ UNCHANGED <<progVars, exit_thread_flag, memory, inited, lockVars, cancelled>>

CallbackReturns(t) ==
  /\ at[t] = "read_cb" /\ Go(t, "loop")
  /\ UNCHANGED <<progVars, exit_thread_flag, memVars, lockVars, on, cancelled>>

\* A cancellation is acted upon. Who is woken from a condition for it locks
\* the mutex once more, and nothing unlocks it.
Cancel(t) ==
  /\ t \in cancelled
  /\ \/ /\ at[t] = "wait" /\ memory[on[t]] = "live" /\ owner[on[t]] = Nobody
        /\ owner' = [owner EXCEPT ![on[t]] = t]
        /\ waiting' = [waiting EXCEPT ![on[t]] = @ \ {t}]
     \/ /\ at[t] \in {"recvfrom", "read_cb"} \/ (at[t] = "work" /\ memory[on[t]] = "live")
        /\ UNCHANGED <<owner, waiting>>
  /\ Go(t, "gone")
  /\ UNCHANGED <<progVars, exit_thread_flag, memVars, entries, on, cancelled>>

\* The queue a thread is in has been destroyed.
Strays(t) ==
  /\ Inside(t) /\ memory[on[t]] = "freed"
  /\ at[t] = "wait" => t \in cancelled
  /\ Go(t, "stray")
  /\ UNCHANGED <<progVars, exit_thread_flag, memVars, lockVars, on, cancelled>>

-----------------------------------------------------------------------------
(* The main thread: event.c. It is the only one that calls these.          *)

Call == at[Main] = "idle" /\ calls < MaxCalls /\ calls' = calls + 1

Fresh(kind) == {n \in 1 .. MaxInits : at[<<kind, n>>] = "none"}
Newest(kind) == <<kind, CHOOSE n \in Fresh(kind) : \A k \in Fresh(kind) : n <= k>>

\* Mutant: the pipe is opened when the queue is there.
OpensPipeLast(created) == created

OpensPipe(created) == TRUE

\* The connections are forgotten before select_init looks at whether it has
\* been called before; then it refuses, for ever. A queue that cannot be
\* created leaves what was done before it.
event_init ==
  /\ Call
  /\ event_' = TRUE /\ conn_cnt' = 0
  /\ \/ queue /\ UNCHANGED <<queue, recv_queue, recv_thread, cb_thread, pipe, memory, at>>
     \/ /\ ~queue
        /\ pipe' = (pipe \/ OpensPipe(FALSE))
        /\ UNCHANGED <<queue, recv_queue, recv_thread, cb_thread, memory, at>>
     \/ /\ ~queue
        /\ queue' = TRUE /\ recv_queue' = FALSE
        /\ pipe' = (pipe \/ OpensPipe(TRUE))
        /\ memory' = [memory EXCEPT !["select"] = "live"]
        /\ UNCHANGED <<recv_thread, cb_thread, at>>
     \/ /\ ~queue
        /\ Fresh("udp") /= {}
        /\ queue' = TRUE /\ recv_queue' = TRUE
        /\ pipe' = (pipe \/ OpensPipe(TRUE))
        /\ memory' = [q \in Queues |-> "live"]
        /\ recv_thread' = Newest("udp") /\ cb_thread' = Newest("cb")
        /\ at' = [at EXCEPT ![Newest("udp")] = "loop", ![Newest("cb")] = "loop"]
  /\ UNCHANGED <<stdin, closings, deinits, exit_thread_flag, inited, raced, lockVars, on, cancelled>>

event_add ==
  /\ Call /\ event_
  /\ conn_cnt' = 1
  /\ UNCHANGED <<event_, queue, recv_queue, recv_thread, cb_thread, fdVars, deinits,
                 exit_thread_flag, memVars, lockVars, at, on, cancelled>>

\* A scan that finds something to push. There is room: see MainNeverBlocks.
event_start ==
  /\ Call /\ event_
  /\ conn_cnt > 0 /\ queue /\ entries["select"] < Capacity
  /\ Enter(Main, "select")
  /\ UNCHANGED <<event_, conn_cnt, queue, recv_queue, recv_thread, cb_thread, fdVars, deinits,
                 exit_thread_flag, memory, inited, lockVars, cancelled>>

\* close(wakeup_fd), which is 0 when there is no pipe.
DEINIT_THREAD_CMD ==
  /\ closings' = closings + 1
  /\ pipe' = FALSE
  /\ stdin' = (stdin /\ pipe)

event_stop ==
  /\ Call /\ event_
  /\ DEINIT_THREAD_CMD
  /\ UNCHANGED <<event_, conn_cnt, queue, recv_queue, recv_thread, cb_thread, deinits,
                 exit_thread_flag, memVars, lockVars, at, on, cancelled>>

\* Mutant: event_->deinit() before protocol_->deinit().
AfterSwapped(stage) ==
  CASE stage = "idle" -> "select_deinit" [] stage = "select_deinit" -> "udp_deinit"
    [] stage = "udp_deinit" -> "destroy" [] OTHER -> "idle"

\* The order of event_deinit, one call after the other.
After(stage) ==
  CASE stage = "idle" -> "udp_deinit" [] stage = "udp_deinit" -> "destroy"
    [] stage = "destroy" -> "select_deinit" [] OTHER -> "idle"

\* Mutant: nobody is cancelled.
CancelsNobody(t) == {}

Cancels(t) == {t}

\* pthread_cancel, which takes a thread that has not ended.
CancelNow(t) ==
  IF at[t] = "gone" THEN Go(Main, "stray") /\ UNCHANGED cancelled
  ELSE Go(Main, After(at[Main])) /\ cancelled' = cancelled \cup Cancels(t)

\* Called when event_init has started the threads: there is no test for it.
receive_deinit ==
  /\ Call /\ cb_thread /= Nobody
  /\ CancelNow(cb_thread)
  /\ UNCHANGED <<event_, conn_cnt, queue, recv_queue, recv_thread, cb_thread, fdVars, deinits,
                 exit_thread_flag, memVars, lockVars, on>>

udp_deinit ==
  /\ at[Main] = "udp_deinit"
  /\ IF recv_thread = Nobody THEN Go(Main, After("udp_deinit")) /\ UNCHANGED cancelled
     ELSE CancelNow(recv_thread)
  /\ recv_thread' = Nobody
  /\ UNCHANGED <<calls, event_, conn_cnt, queue, recv_queue, cb_thread, fdVars, deinits,
                 exit_thread_flag, memVars, lockVars, on>>

\* A queue nobody has locked yet is not destroyed.
queue_destory(q) ==
  /\ memory' = [memory EXCEPT ![q] = IF inited[q] THEN "freed" ELSE @]
  /\ inited' = [inited EXCEPT ![q] = FALSE]

DestroyRecv ==
  /\ at[Main] = "destroy"
  /\ IF recv_queue THEN queue_destory("recv") ELSE UNCHANGED <<memory, inited>>
  /\ recv_queue' = FALSE
  /\ Go(Main, After("destroy"))
  /\ UNCHANGED <<calls, event_, conn_cnt, queue, recv_thread, cb_thread, fdVars, deinits,
                 exit_thread_flag, raced, lockVars, on, cancelled>>

\* Mutant: the pointer is reset, so that event_init can start new threads.
PointerReset == FALSE

PointerAfter == queue

select_deinit ==
  /\ at[Main] = "select_deinit"
  /\ conn_cnt' = 0
  /\ IF memory["select"] = "freed"
     THEN Go(Main, "stray") /\ UNCHANGED <<queue, memory, inited, fdVars, deinits>>
     ELSE /\ queue_destory("select")
          /\ queue' = PointerAfter
          /\ DEINIT_THREAD_CMD
          /\ Go(Main, After("select_deinit"))
          /\ deinits' = TRUE
  /\ UNCHANGED <<calls, event_, recv_queue, recv_thread, cb_thread,
                 exit_thread_flag, raced, lockVars, on, cancelled>>

\* The program tells its threads to end.
SetExitFlag ==
  /\ ~exit_thread_flag /\ exit_thread_flag' = TRUE
  /\ UNCHANGED <<progVars, memVars, lockVars, at, on, cancelled>>

-----------------------------------------------------------------------------
QueueStep(t) == queue_lock_init(t) \/ Lock(t) \/ Work(t) \/ Strays(t)

WorkerStep(t) == QueueStep(t) \/ WorkerLoops(t) \/ UdpPushes(t) \/ CallbackReturns(t) \/ Cancel(t)

Deinit == udp_deinit \/ DestroyRecv \/ select_deinit

Next ==
  \/ event_init \/ event_add \/ event_start \/ event_stop \/ receive_deinit
  \/ Deinit
  \/ QueueStep(Main)
  \/ \E t \in Workers : WorkerStep(t) \/ Recvfrom(t)
  \/ SetExitFlag

Spec == Init /\ [][Next]_vars

\* Threads run, and act upon a cancellation once they have come to where they
\* can; that a datagram arrives for recvfrom is not assumed.
FairSpec ==
  /\ Spec
  /\ WF_vars(Deinit) /\ WF_vars(QueueStep(Main))
  /\ \A t \in Workers : WF_vars(WorkerStep(t))

-----------------------------------------------------------------------------
(* Properties. *)

Using(q) == {t \in Threads : at[t] \in {"work", "recvfrom"} /\ on[t] = q}

\* The lock is initialised without a lock. As long as no two first calls have
\* met in queue_lock_init, there is one thread in the queue at a time, and a
\* signal reaches every thread that sleeps on it: no initialisation falls on a
\* mutex or condition in use.
LockWorks ==
  \A q \in Queues : memory[q] = "live" /\ ~raced[q] =>
    /\ \A t \in Using(q) : owner[q] = t
    /\ \A t \in Threads : at[t] = "wait" /\ on[t] = q => t \in waiting[q]

\* However often the loop is started and stopped, and although cancelled
\* threads live on for a while, two threads never read the same queue
\* (event_init, select_init).
OneThreadEach ==
  \A kind \in {"udp", "cb"} : Cardinality({n \in 1 .. MaxInits : at[<<kind, n>>] \notin {"none", "gone"}}) <= 1

\* Until event_deinit has cancelled a thread, no queue it uses is destroyed.
\* (Then it may be destroyed under a thread that is still on its way.) The
\* main thread uses a destroyed queue only if it goes on after event_deinit,
\* or cancels threads that exit_thread_flag has ended.
OnlyTheCancelledStray ==
  \A t \in Threads : at[t] = "stray" =>
    IF t = Main THEN deinits \/ exit_thread_flag ELSE t \in cancelled

\* Whatever fails in event_init, a program that calls one of event_stop and
\* event_deinit once keeps its standard input; calling both closes it.
StdinKept == closings <= 1 => stdin

\* Who waits for a mutex whose owner has been cancelled waits for ever.
Orphaned(t) == at[t] \in {"lock", "wait"} /\ memory[on[t]] = "live" /\ at[owner[on[t]]] = "gone"

\* Once event_deinit has returned both threads end, or are stuck behind one
\* that was cancelled with a mutex locked (pthread_cancel in receive_deinit
\* and udp_deinit, without cleanup handlers in queue_push and queue_pop).
ThreadsEnd ==
  deinits ~> \A t \in Workers : at[t] \in {"none", "gone", "stray"} \/ (owner[on[t]] /= Nobody /\ Orphaned(t))
=============================================================================
