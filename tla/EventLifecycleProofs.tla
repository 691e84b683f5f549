------------------------ MODULE EventLifecycleProofs ------------------------
(***************************************************************************)
(* Theorems about EventLifecycle, for every capacity of the queues, any    *)
(* number of threads and of calls: types, the mutexes whose initialisation *)
(* nothing locks, one thread for each queue, which threads touch a queue   *)
(* that was destroyed, and standard input.                                 *)
(***************************************************************************)
EXTENDS EventLifecycle, FiniteSetTheorems, TLAPS

(***************************************************************************)
(* The inductive invariant, in parts.                                      *)
(***************************************************************************)
Started(t) == at[t] /= "none"
Deiniting  == at[Main] \in {"udp_deinit", "destroy", "select_deinit"}
In(t, q)   == Inside(t) /\ on[t] = q

\* Where a thread can be, by its kind, and in which queue it is there.
PlaceInv ==
  /\ at[Main] \in {"idle", "initing", "lock", "wait", "work", "udp_deinit", "destroy", "select_deinit", "stray"}
  /\ on[Main] = "select"
  /\ \A t \in Workers :
       IF t[1] = "udp"
       THEN /\ at[t] \notin {"idle", "read_cb", "udp_deinit", "destroy", "select_deinit"}
            /\ at[t] = "recvfrom" => on[t] = "recv"
       ELSE /\ at[t] \notin {"idle", "push", "recvfrom", "udp_deinit", "destroy", "select_deinit"}
            /\ Inside(t) => on[t] = "recv"

\* Threads are started once, one of each kind, and the program knows them
\* until it has cancelled them.
StartInv ==
  /\ ~queue => /\ \A t \in Workers : ~Started(t)
               /\ \A q \in Queues : memory[q] = "none"
  /\ queue => event_ /\ memory["select"] /= "none"
  /\ \A t \in Workers : Started(t) => memory["recv"] /= "none"
  /\ \A t, u \in Workers : Started(t) /\ Started(u) /\ t[1] = u[1] => t = u
  /\ \A t \in Workers : Started(t) =>
       IF t[1] = "udp" THEN t \in cancelled \cup {recv_thread} \/ at[Main] = "stray" ELSE t = cb_thread
  /\ recv_thread /= Nobody => Started(recv_thread) /\ recv_thread[1] = "udp"
  /\ cb_thread /= Nobody => Started(cb_thread) /\ cb_thread[1] = "cb"
  /\ \A t \in cancelled : Started(t)

\* Who has locked a mutex has found room, or an entry.
RoomInv ==
  \A t \in Threads : at[t] \in {"work", "recvfrom"} =>
    IF Pushes(t) THEN entries[on[t]] < Capacity ELSE entries[on[t]] > 0

\* The pipe is there until it is closed, and every closing is a call.
PipeInv ==
  /\ event_ /\ closings = 0 => pipe
  /\ Deiniting => event_
  /\ closings + (IF Deiniting THEN 1 ELSE 0) <= calls

\* event_deinit has cancelled the threads before it destroys a queue.
CancelInv ==
  /\ recv_thread \notin cancelled
  /\ Deiniting => cb_thread \in cancelled
  /\ at[Main] \in {"destroy", "select_deinit"} => recv_thread = Nobody
  /\ \A q \in Queues : memory[q] = "freed" => \A t \in Workers : Started(t) => t \in cancelled
  /\ memory["select"] = "freed" => deinits
  /\ cancelled /= {} /\ ~deinits => Deiniting \/ at[Main] = "stray"
  /\ \A t \in Workers : at[t] = "gone" => t \in cancelled \/ exit_thread_flag

\* Nobody is in a queue that is not there, who can be signalled is asleep, and
\* as long as no two threads have met in queue_lock_init one initialises the
\* mutex before anyone else has come near it.
LockInv ==
  \A q \in Queues :
    /\ inited[q] => memory[q] = "live"
    /\ memory[q] = "none" => waiting[q] = {} /\ \A t \in Threads : ~In(t, q)
    /\ memory[q] = "live" => \A t \in waiting[q] : at[t] = "wait" /\ on[t] = q
    /\ memory[q] = "live" /\ ~raced[q] =>
         /\ inited[q] => \A t \in Threads : In(t, q) => at[t] /= "initing"
         /\ ~inited[q] => /\ \A t \in Threads : In(t, q) => at[t] = "initing"
                          /\ \A t, u \in Threads : In(t, q) /\ In(u, q) => t = u

\* The types, of what the program keeps, of the queues and of the threads.
Counts == calls \in 0 .. MaxCalls /\ conn_cnt \in {0, 1} /\ closings \in 0 .. MaxCalls

Flags ==
  /\ event_ \in BOOLEAN /\ queue \in BOOLEAN /\ recv_queue \in BOOLEAN /\ pipe \in BOOLEAN
  /\ stdin \in BOOLEAN /\ exit_thread_flag \in BOOLEAN /\ deinits \in BOOLEAN

Pointers ==
  /\ recv_thread \in Workers \cup {Nobody} /\ cb_thread \in Workers \cup {Nobody}
  /\ cancelled \subseteq Workers

QueueTypes ==
  /\ memory \in [Queues -> {"none", "live", "freed"}]
  /\ inited \in [Queues -> BOOLEAN] /\ raced \in [Queues -> BOOLEAN]
  /\ owner \in [Queues -> Threads \cup {Nobody}]
  /\ waiting \in [Queues -> SUBSET Threads]
  /\ entries \in [Queues -> 0 .. Capacity]

Places == {"none", "idle", "loop", "push", "initing", "lock", "wait", "work", "recvfrom",
           "read_cb", "udp_deinit", "destroy", "select_deinit", "gone", "stray"}

ThreadTypes == at \in [Threads -> Places] /\ on \in [Threads -> Queues]

IInv == /\ Counts /\ Flags /\ Pointers /\ QueueTypes /\ ThreadTypes /\ PlaceInv /\ StartInv /\ RoomInv /\ PipeInv /\ CancelInv /\ LockInv
        /\ LockWorks /\ OnlyTheCancelledStray /\ StdinKept

LEMMA TypeParts == LifeTypeOK <=> Counts /\ Flags /\ Pointers /\ QueueTypes /\ ThreadTypes
<1>1. LifeTypeOK => Counts /\ Flags /\ Pointers
  BY DEF LifeTypeOK, Counts, Flags, Pointers
<1>2. LifeTypeOK => QueueTypes
  BY DEF LifeTypeOK, QueueTypes
<1>3. LifeTypeOK => ThreadTypes
  BY DEF LifeTypeOK, ThreadTypes, Places
<1>4. Counts /\ Flags /\ Pointers /\ QueueTypes /\ ThreadTypes => LifeTypeOK
  BY DEF LifeTypeOK, Counts, Flags, Pointers, QueueTypes, ThreadTypes, Places
<1>5. QED
  BY <1>1, <1>2, <1>3, <1>4

LEMMA ThreadFacts ==
  /\ Main \in Threads /\ Main \notin Workers /\ Main[1] = "main"
  /\ Nobody \notin Threads /\ Nobody \notin Workers
  /\ \A t \in Workers : t \in Threads /\ t[1] \in {"udp", "cb"} /\ t /= Main
  /\ \A t \in Threads : t \in Workers \/ t = Main
BY DEF Main, Nobody, Threads, Workers

LEMMA Bounds == /\ Capacity \in Nat /\ Capacity > 0
                /\ MaxInits \in Nat /\ MaxInits > 0
                /\ MaxCalls \in Nat /\ MaxCalls > 0
BY LifecycleAssumption

LEMMA InitHolds == Init => IInv
<1> SUFFICES ASSUME Init
             PROVE  IInv
  OBVIOUS
<1> USE ThreadFacts, Bounds DEF Init
<1>1. Counts
  BY DEF Counts
<1>2. Flags /\ Pointers
  BY DEF Flags, Pointers
<1>3. QueueTypes
  <2>1. entries \in [Queues -> 0 .. Capacity]
    OBVIOUS
  <2>2. QED
    BY <2>1 DEF QueueTypes
<1>4. ThreadTypes
  BY DEF ThreadTypes, Places, Queues
<1>5. PlaceInv
  BY DEF PlaceInv, Inside
<1>6. StartInv
  BY DEF StartInv, Started, Queues
<1>7. RoomInv /\ PipeInv /\ CancelInv
  BY DEF RoomInv, PipeInv, CancelInv, Deiniting, Started, Queues
<1>8. LockInv /\ LockWorks
  BY DEF LockInv, LockWorks, Using, In, Inside, Queues
<1>9. OnlyTheCancelledStray /\ StdinKept
  BY DEF OnlyTheCancelledStray, StdinKept
<1>10. QED
  BY <1>1, <1>2, <1>3, <1>4, <1>5, <1>6, <1>7, <1>8, <1>9 DEF IInv

-----------------------------------------------------------------------------
(* What a thread does in a queue, in its loop and on the way: the program's *)
(* pointers, the memory and what is cancelled are left alone.              *)

QuietVars == <<event_, conn_cnt, queue, recv_queue, recv_thread, cb_thread, fdVars, deinits,
               exit_thread_flag, memory, cancelled>>

Quiet == UNCHANGED QuietVars /\ calls' \in calls .. MaxCalls

\* From place to place, with nothing else changed.
Moved(t, place) ==
  /\ Quiet /\ UNCHANGED <<inited, raced, lockVars, on>> /\ Go(t, place)
  /\ \/ place = "loop" /\ t \in Workers /\ at[t] \in {"push", "read_cb"}
     \/ place = "recvfrom" /\ t \in Workers /\ at[t] = "work" /\ t[1] = "udp" /\ on[t] = "recv"
     \/ place = "gone" /\ t \in Workers /\ at[t] \notin {"none", "wait"} /\ (t \in cancelled \/ exit_thread_flag)

\* The queue it is in, or was to enter, is destroyed.
Strayed(t) ==
  /\ Quiet /\ UNCHANGED <<inited, raced, lockVars, on>> /\ Go(t, "stray")
  /\ Started(t) /\ ~(t = Main /\ Deiniting)
  /\ \E q \in Queues : memory[q] = "freed" /\ (t = Main => q = "select")
  /\ at[t] = "wait" => memory[on[t]] = "freed"

Entered(t, q) ==
  /\ Quiet /\ UNCHANGED <<inited, lockVars>>
  /\ memory[q] = "live"
  /\ IF t = Main THEN at[t] = "idle" /\ q = "select" /\ entries["select"] < Capacity
     ELSE IF t[1] = "udp" THEN at[t] = IF q = "select" THEN "loop" ELSE "push"
     ELSE at[t] = "loop" /\ q = "recv"
  /\ on' = [on EXCEPT ![t] = q]
  /\ Go(t, IF inited[q] THEN "lock" ELSE "initing")
  /\ raced' = [raced EXCEPT ![q] = @ \/ (~inited[q] /\ \E u \in Threads \ {t} : at[u] = "initing" /\ on[u] = q)]

\* With what the operation stores or takes, or without in recvfrom.
Left(t, place, n) ==
  /\ at[t] \in {"work", "recvfrom"} /\ memory[on[t]] = "live"
  /\ \/ n = entries[on[t]] + 1 /\ Pushes(t)
     \/ n = entries[on[t]] - 1 /\ ~Pushes(t)
  /\ IF t = Main THEN place = "idle" ELSE place \in (IF t[1] = "udp" THEN {"push", "loop"} ELSE {"read_cb"})
  /\ LeaveTo(t, place, n)

LeftEmptyHanded(t) ==
  /\ t \in Workers /\ at[t] = "recvfrom" /\ memory["recv"] = "live"
  /\ owner' = [owner EXCEPT !["recv"] = Nobody] /\ Go(t, "loop")
  /\ Quiet /\ UNCHANGED <<inited, raced, waiting, entries, on>>

Orphaning(t) ==
  /\ t \in cancelled /\ at[t] = "wait" /\ memory[on[t]] = "live" /\ owner[on[t]] = Nobody
  /\ owner' = [owner EXCEPT ![on[t]] = t]
  /\ waiting' = [waiting EXCEPT ![on[t]] = @ \ {t}]
  /\ Go(t, "gone")
  /\ Quiet /\ UNCHANGED <<inited, raced, entries, on>>

ThreadStep(t) ==
  \/ QueueStep(t) \/ (t = Main /\ event_start)
  \/ t \in Workers /\ (WorkerStep(t) \/ Recvfrom(t))

LEMMA EnterKinds ==
  ASSUME IInv, NEW t \in Threads, NEW q \in Queues, Enter(t, q), Quiet,
         UNCHANGED <<inited, lockVars>>, memory[q] /= "none",
         IF t = Main THEN at[t] = "idle" /\ q = "select" /\ entries["select"] < Capacity
         ELSE IF t[1] = "udp" THEN at[t] = IF q = "select" THEN "loop" ELSE "push"
         ELSE at[t] = "loop" /\ q = "recv"
  PROVE  Entered(t, q) \/ Strayed(t)
<1>1. at[t] \in {"idle", "loop", "push"}
  OBVIOUS
<1>2. CASE memory[q] = "freed"
  BY <1>1, <1>2 DEF Enter, Strayed, Started, Deiniting
<1>3. CASE memory[q] /= "freed"
  <2>1. memory[q] = "live"
    BY <1>3 DEF IInv, QueueTypes
  <2>2. QED
    BY <1>3, <2>1 DEF Enter, Entered
<1>4. QED
  BY <1>2, <1>3

LEMMA ThreadKinds ==
  ASSUME IInv, NEW t \in Threads, ThreadStep(t)
  PROVE  \/ \E place \in Places : Moved(t, place)
         \/ Strayed(t)
         \/ \E q \in Queues : Entered(t, q)
         \/ queue_lock_init(t) \/ Lock(t)
         \/ \E place \in Places, n \in Int : Left(t, place, n)
         \/ LeftEmptyHanded(t) \/ Orphaning(t)
<1> USE ThreadFacts, Bounds
<1>1. calls \in calls .. MaxCalls
  BY DEF IInv, Counts
<1>2. CASE t = Main /\ event_start
  <2>1. Quiet /\ UNCHANGED <<inited, lockVars>>
    BY <1>2 DEF event_start, Call, Quiet, QuietVars, IInv, Counts, fdVars
  <2>2. memory["select"] /= "none" /\ at[Main] = "idle"
    BY <1>2 DEF event_start, Call, IInv, StartInv
  <2>3. QED
    BY <1>2, <2>1, <2>2, EnterKinds DEF event_start, Queues
<1>3. CASE t \in Workers /\ WorkerLoops(t)
  <2>1. Quiet /\ UNCHANGED <<inited, lockVars>> /\ at[t] = "loop"
    BY <1>1, <1>3 DEF WorkerLoops, Quiet, QuietVars, progVars
  <2>2. memory["select"] /= "none" /\ memory["recv"] /= "none"
    BY <1>3, <2>1 DEF IInv, StartInv, Started
  <2>3. CASE exit_thread_flag
    BY <1>3, <2>1, <2>3 DEF WorkerLoops, Moved, Places
  <2>4. CASE ~exit_thread_flag
    BY <1>3, <2>1, <2>2, <2>4, EnterKinds DEF WorkerLoops, Queues
  <2>5. QED
    BY <2>3, <2>4
<1>4. CASE t \in Workers /\ UdpPushes(t)
  <2>1. Quiet /\ UNCHANGED <<inited, lockVars>> /\ at[t] = "push"
    BY <1>1, <1>4 DEF UdpPushes, Quiet, QuietVars, progVars
  <2>2. memory["recv"] /= "none" /\ t[1] = "udp"
    BY <1>4, <2>1 DEF IInv, StartInv, Started, PlaceInv
  <2>3. CASE recv_queue
    BY <1>4, <2>1, <2>2, <2>3, EnterKinds DEF UdpPushes, Queues
  <2>4. CASE ~recv_queue
    BY <1>4, <2>1, <2>4 DEF UdpPushes, Moved, Places
  <2>5. QED
    BY <2>3, <2>4
<1>5. CASE t \in Workers /\ CallbackReturns(t)
  BY <1>1, <1>5 DEF CallbackReturns, Moved, Places, Quiet, QuietVars, progVars, memVars
<1>6. CASE t \in Workers /\ Cancel(t)
  <2>1. Quiet /\ UNCHANGED <<inited, raced, entries, on>> /\ t \in cancelled
    BY <1>1, <1>6 DEF Cancel, Quiet, QuietVars, progVars, memVars
  <2>2. CASE at[t] = "wait"
    BY <1>6, <2>1, <2>2 DEF Cancel, Orphaning
  <2>3. CASE at[t] /= "wait"
    BY <1>6, <2>1, <2>3 DEF Cancel, Moved, Places, lockVars
  <2>4. QED
    BY <2>2, <2>3
<1>7. CASE Strays(t)
  <2>1. Quiet /\ UNCHANGED <<inited, raced, lockVars, on>>
    BY <1>1, <1>7 DEF Strays, Quiet, QuietVars, progVars, memVars
  <2>2. on[t] \in Queues /\ (t = Main => on[t] = "select")
    BY DEF IInv, ThreadTypes, PlaceInv
  <2>3. Started(t) /\ ~(t = Main /\ Deiniting)
    BY <1>7 DEF Strays, Inside, Started, Deiniting
  <2>4. QED
    BY <1>7, <2>1, <2>2, <2>3 DEF Strays, Strayed
<1>8. CASE Work(t)
  <2>1. /\ on[t] \in Queues /\ (t = Main => on[t] = "select") /\ entries[on[t]] \in Int
        /\ t[1] = "cb" => on[t] = "recv"
    BY <1>8 DEF IInv, ThreadTypes, QueueTypes, PlaceInv, Work, Inside
  <2>2. CASE t = Main
    BY <1>8, <2>1, <2>2 DEF Work, Left, Pushes, Places
  <2>3. CASE t \in Workers /\ t[1] = "cb"
    BY <1>8, <2>1, <2>3 DEF Work, Left, Pushes, Places
  <2>4. CASE t \in Workers /\ t[1] = "udp" /\ on[t] = "select"
    BY <1>8, <2>1, <2>4 DEF Work, Left, Pushes, Places
  <2>5. CASE t \in Workers /\ t[1] = "udp" /\ on[t] = "recv"
    <3>1. Quiet /\ UNCHANGED <<inited, raced, lockVars, on>>
      BY <1>1, <1>8, <2>5 DEF Work, Quiet, QuietVars, progVars, memVars
    <3>2. QED
      BY <1>8, <2>5, <3>1 DEF Work, Moved, Places
  <2>6. QED
    BY <2>1, <2>2, <2>3, <2>4, <2>5 DEF Queues
<1>9. CASE t \in Workers /\ Recvfrom(t)
  <2>1. on[t] = "recv" /\ t[1] = "udp" /\ Pushes(t) /\ entries["recv"] \in Int
    BY <1>9 DEF Recvfrom, IInv, PlaceInv, Pushes, QueueTypes, Queues
  <2>2. CASE LeaveTo(t, "loop", entries["recv"] + 1)
    BY <1>9, <2>1, <2>2 DEF Recvfrom, Left, Places
  <2>3. CASE ~LeaveTo(t, "loop", entries["recv"] + 1)
    <3>1. Quiet /\ UNCHANGED <<inited, raced, waiting, entries, on>>
      BY <1>1, <1>9, <2>3 DEF Recvfrom, Quiet, QuietVars, progVars, memVars
    <3>2. QED
      BY <1>9, <2>3, <3>1 DEF Recvfrom, LeftEmptyHanded
  <2>4. QED
    BY <2>2, <2>3
<1>10. QED
  BY <1>2, <1>3, <1>4, <1>5, <1>6, <1>7, <1>8, <1>9 DEF ThreadStep, QueueStep, WorkerStep

\* What all of these have in common.
Common ==
  /\ Quiet
  /\ at' \in [Threads -> Places] /\ on' \in [Threads -> Queues]
  /\ \A u \in Threads : Started(u)' <=> Started(u)
  /\ Deiniting \/ Deiniting' => at'[Main] = at[Main]
  /\ at[Main] = "stray" => at'[Main] = "stray"
  /\ \A u \in Workers : at'[u] = "gone" => at[u] = "gone" \/ u \in cancelled \/ exit_thread_flag
  /\ \A u \in Threads : at'[u] = "stray" => at[u] = "stray" \/ \E q \in Queues : memory[q] = "freed" /\ (u = Main => q = "select")

\* Thread t goes, and a sleeping one may be woken.
LEMMA LeftMeans ==
  ASSUME IInv, NEW t \in Threads, NEW place \in Places, NEW n \in Int, Left(t, place, n)
  PROVE  /\ Quiet /\ UNCHANGED <<inited, raced, on>>
         /\ entries' = [entries EXCEPT ![on[t]] = n]
         /\ owner' = [owner EXCEPT ![on[t]] = Nobody]
         /\ \/ UNCHANGED waiting /\ at' = [at EXCEPT ![t] = place]
            \/ \E u \in waiting[on[t]] :
                 /\ u \in Threads /\ u /= t /\ at[u] = "wait" /\ on[u] = on[t]
                 /\ waiting' = [waiting EXCEPT ![on[t]] = @ \ {u}]
                 /\ at' = [at EXCEPT ![t] = place, ![u] = "lock"]
<1>1. on[t] \in Queues /\ waiting[on[t]] \subseteq Threads
  BY DEF IInv, ThreadTypes, QueueTypes
<1>2. \A u \in waiting[on[t]] : at[u] = "wait" /\ on[u] = on[t]
  BY <1>1 DEF Left, IInv, LockInv
<1>3. Quiet /\ UNCHANGED <<inited, raced, on>>
  BY DEF Left, LeaveTo, Quiet, QuietVars, progVars, memVars, IInv, Counts
<1>4. QED
  BY <1>1, <1>2, <1>3 DEF Left, LeaveTo, Go

LEMMA CommonHolds ==
  ASSUME IInv, NEW t \in Threads, ThreadStep(t)
  PROVE  Common
<1> USE ThreadFacts, Bounds
<1>1. at \in [Threads -> Places] /\ on \in [Threads -> Queues]
  BY DEF IInv, ThreadTypes
<1>2. calls \in calls .. MaxCalls
  BY DEF IInv, Counts
<1>3. ASSUME NEW place \in Places, Moved(t, place) PROVE Common
  BY <1>1, <1>3 DEF Moved, Go, Common, Started, Deiniting
<1>4. CASE Strayed(t)
  BY <1>1, <1>4 DEF Strayed, Go, Common, Started, Deiniting, Places
<1>5. ASSUME NEW q \in Queues, Entered(t, q) PROVE Common
  <2>1. at[t] \in {"idle", "loop", "push"} /\ at[t] /= "none"
    BY <1>5 DEF Entered
  <2>2. at' = [at EXCEPT ![t] = "lock"] \/ at' = [at EXCEPT ![t] = "initing"]
    BY <1>5 DEF Entered, Go
  <2>3. Quiet /\ on' = [on EXCEPT ![t] = q]
    BY <1>5 DEF Entered
  <2>4. QED
    BY <1>1, <2>1, <2>2, <2>3 DEF Common, Started, Deiniting, Places
<1>6. CASE queue_lock_init(t)
  <2>1. Quiet /\ UNCHANGED on /\ at[t] = "initing" /\ at' = [at EXCEPT ![t] = "lock"]
    BY <1>2, <1>6 DEF queue_lock_init, Quiet, QuietVars, progVars, Go
  <2>2. QED
    BY <1>1, <2>1 DEF Common, Started, Deiniting, Places
<1>7. CASE Lock(t)
  <2>1. Quiet /\ UNCHANGED on /\ at[t] = "lock"
    BY <1>2, <1>7 DEF Lock, Quiet, QuietVars, progVars, memVars
  <2>2. at' = [at EXCEPT ![t] = "wait"] \/ at' = [at EXCEPT ![t] = "work"]
    BY <1>7 DEF Lock, Go
  <2>3. QED
    BY <1>1, <2>1, <2>2 DEF Common, Started, Deiniting, Places
<1>8. ASSUME NEW place \in Places, NEW n \in Int, Left(t, place, n) PROVE Common
  <2>1. Quiet /\ UNCHANGED on /\ at[t] \in {"work", "recvfrom"} /\ place \in {"idle", "push", "loop", "read_cb"}
    BY <1>8, LeftMeans DEF Left
  <2>2. \/ at' = [at EXCEPT ![t] = place]
        \/ \E u \in Threads : u /= t /\ at[u] = "wait" /\ at' = [at EXCEPT ![t] = place, ![u] = "lock"]
    BY <1>8, LeftMeans
  <2>3. QED
    BY <1>1, <2>1, <2>2 DEF Common, Started, Deiniting, Places
<1>9. CASE LeftEmptyHanded(t)
  BY <1>1, <1>9 DEF LeftEmptyHanded, Go, Common, Started, Deiniting, Places
<1>10. CASE Orphaning(t)
  <2>1. t \in Workers
    BY <1>10 DEF Orphaning, IInv, Pointers
  <2>2. QED
    BY <1>1, <1>10, <2>1 DEF Orphaning, Go, Common, Started, Deiniting, Places
<1>11. QED
  BY <1>3, <1>4, <1>5, <1>6, <1>7, <1>8, <1>9, <1>10, ThreadKinds

LEMMA CommonKeeps ==
  ASSUME IInv, Common
  PROVE  /\ Counts' /\ Flags' /\ Pointers' /\ ThreadTypes'
         /\ StartInv' /\ PipeInv' /\ CancelInv' /\ OnlyTheCancelledStray' /\ StdinKept'
<1> USE ThreadFacts, Bounds
<1>1. UNCHANGED QuietVars /\ calls' \in calls .. MaxCalls
  BY DEF Common, Quiet
<1>2. Counts'
  BY <1>1 DEF IInv, Counts, QuietVars, fdVars
<1>3. Flags' /\ Pointers' /\ StdinKept'
  BY <1>1 DEF IInv, Flags, Pointers, StdinKept, QuietVars, fdVars
<1>4. ThreadTypes'
  BY DEF Common, ThreadTypes
<1>5. StartInv'
  <2>1. recv_thread \in Threads \cup {Nobody} /\ cb_thread \in Threads \cup {Nobody} /\ cancelled \subseteq Threads
    BY DEF IInv, Pointers
  <2>2. UNCHANGED <<event_, queue, recv_thread, cb_thread, memory, cancelled>>
    BY <1>1 DEF QuietVars
  <2>3. QED
    BY <2>1, <2>2 DEF IInv, StartInv, Common
<1>6. PipeInv'
  <2>1. Deiniting' <=> Deiniting
    BY DEF Common, Deiniting
  <2>2. calls \in Nat /\ closings \in Nat /\ calls' \in Nat /\ calls' >= calls
    BY <1>1 DEF IInv, Counts
  <2>3. UNCHANGED <<event_, closings, pipe>>
    BY <1>1 DEF QuietVars, fdVars
  <2>4. QED
    BY <2>1, <2>2, <2>3 DEF IInv, PipeInv
<1>7. CancelInv'
  <2>1. UNCHANGED <<recv_thread, cb_thread, memory, cancelled, deinits, exit_thread_flag>>
    BY <1>1 DEF QuietVars
  <2>2. QED
    BY <2>1 DEF IInv, CancelInv, Common, Deiniting
<1>8. OnlyTheCancelledStray'
  <2>1. UNCHANGED <<memory, cancelled, deinits, exit_thread_flag>>
    BY <1>1 DEF QuietVars
  <2>2. \A u \in Workers : at'[u] = "stray" => u \in cancelled
    <3> SUFFICES ASSUME NEW u \in Workers, at'[u] = "stray"
                 PROVE  u \in cancelled
      OBVIOUS
    <3>1. CASE at[u] = "stray"
      BY <3>1 DEF IInv, OnlyTheCancelledStray
    <3>2. CASE \E q \in Queues : memory[q] = "freed"
      <4>1. Started(u)
        BY DEF Common, Started
      <4>2. QED
        BY <3>2, <4>1 DEF IInv, CancelInv
    <3>3. QED
      BY <3>1, <3>2 DEF Common
  <2>3. at'[Main] = "stray" => deinits \/ exit_thread_flag
    BY DEF IInv, OnlyTheCancelledStray, CancelInv, Common
  <2>4. QED
    BY <2>1, <2>2, <2>3 DEF OnlyTheCancelledStray
<1>9. QED
  BY <1>2, <1>3, <1>4, <1>5, <1>6, <1>7, <1>8

LEMMA QueueTypesKept ==
  ASSUME IInv, NEW t \in Threads, ThreadStep(t)
  PROVE  QueueTypes'
<1> USE ThreadFacts, Bounds
<1>1. memory' = memory /\ QueueTypes /\ on[t] \in Queues
  BY CommonHolds DEF Common, Quiet, QuietVars, IInv, ThreadTypes
<1>2. CASE UNCHANGED <<inited, raced, lockVars>>
  BY <1>1, <1>2 DEF QueueTypes, lockVars
<1>3. ASSUME NEW q \in Queues, Entered(t, q) PROVE QueueTypes'
  <2>1. UNCHANGED <<inited, owner, waiting, entries>> /\ raced' \in [Queues -> BOOLEAN]
    BY <1>1, <1>3 DEF Entered, QueueTypes, lockVars
  <2>2. QED
    BY <1>1, <2>1 DEF QueueTypes
<1>4. CASE queue_lock_init(t)
  <2>1. UNCHANGED <<raced, entries>> /\ inited' \in [Queues -> BOOLEAN]
    BY <1>1, <1>4 DEF queue_lock_init, QueueTypes
  <2>2. owner' \in [Queues -> Threads \cup {Nobody}] /\ waiting' \in [Queues -> SUBSET Threads]
    BY <1>1, <1>4 DEF queue_lock_init, QueueTypes
  <2>3. QED
    BY <1>1, <2>1, <2>2 DEF QueueTypes
<1>5. CASE Lock(t)
  <2>1. UNCHANGED <<inited, raced, entries>>
    BY <1>5 DEF Lock, memVars
  <2>2. owner' \in [Queues -> Threads \cup {Nobody}] /\ waiting' \in [Queues -> SUBSET Threads]
    BY <1>1, <1>5 DEF Lock, QueueTypes
  <2>3. QED
    BY <1>1, <2>1, <2>2 DEF QueueTypes
<1>6. ASSUME NEW place \in Places, NEW n \in Int, Left(t, place, n) PROVE QueueTypes'
  <2>1. UNCHANGED <<inited, raced>>
    BY <1>6, LeftMeans
  <2>2. owner' \in [Queues -> Threads \cup {Nobody}] /\ waiting' \in [Queues -> SUBSET Threads]
    BY <1>1, <1>6, LeftMeans DEF QueueTypes
  <2>3. n \in 0 .. Capacity
    BY <1>1, <1>6 DEF Left, IInv, RoomInv, QueueTypes
  <2>4. entries' \in [Queues -> 0 .. Capacity]
    BY <1>1, <1>6, <2>3, LeftMeans DEF QueueTypes
  <2>5. QED
    BY <1>1, <2>1, <2>2, <2>4 DEF QueueTypes
<1>7. CASE LeftEmptyHanded(t) \/ Orphaning(t)
  <2>1. UNCHANGED <<inited, raced, entries>>
    BY <1>7 DEF LeftEmptyHanded, Orphaning
  <2>2. owner' \in [Queues -> Threads \cup {Nobody}] /\ waiting' \in [Queues -> SUBSET Threads]
    BY <1>1, <1>7 DEF LeftEmptyHanded, Orphaning, QueueTypes
  <2>3. QED
    BY <1>1, <2>1, <2>2 DEF QueueTypes
<1>8. QED
  BY <1>2, <1>3, <1>4, <1>5, <1>6, <1>7, ThreadKinds DEF Moved, Strayed

LEMMA PlacesKept ==
  ASSUME IInv, NEW t \in Threads, ThreadStep(t)
  PROVE  PlaceInv'
<1> USE ThreadFacts, Bounds DEF PlaceInv, Inside
<1>1. PlaceInv /\ at \in [Threads -> Places] /\ on \in [Threads -> Queues]
  BY DEF IInv, ThreadTypes
<1>2. ASSUME NEW place \in Places, Moved(t, place) PROVE PlaceInv'
  BY <1>1, <1>2 DEF Moved, Go
<1>3. CASE Strayed(t)
  BY <1>1, <1>3 DEF Strayed, Go
<1>4. ASSUME NEW q \in Queues, Entered(t, q) PROVE PlaceInv'
  <2>1. at' = [at EXCEPT ![t] = "lock"] \/ at' = [at EXCEPT ![t] = "initing"]
    BY <1>4 DEF Entered, Go
  <2>2. on' = [on EXCEPT ![t] = q] /\ (t = Main => q = "select")
        /\ (t \in Workers /\ t[1] = "cb" => q = "recv")
    BY <1>4 DEF Entered
  <2>3. QED
    BY <1>1, <2>1, <2>2
<1>5. CASE queue_lock_init(t)
  BY <1>1, <1>5 DEF queue_lock_init, Go
<1>6. CASE Lock(t)
  <2>1. UNCHANGED on /\ at[t] = "lock"
    BY <1>6 DEF Lock
  <2>2. at' = [at EXCEPT ![t] = "wait"] \/ at' = [at EXCEPT ![t] = "work"]
    BY <1>6 DEF Lock, Go
  <2>3. QED
    BY <1>1, <2>1, <2>2
<1>7. ASSUME NEW place \in Places, NEW n \in Int, Left(t, place, n) PROVE PlaceInv'
  <2>1. UNCHANGED on
    BY <1>7, LeftMeans
  <2>2. IF t = Main THEN place = "idle" ELSE place \in (IF t[1] = "udp" THEN {"push", "loop"} ELSE {"read_cb"})
    BY <1>7 DEF Left
  <2>3. \/ at' = [at EXCEPT ![t] = place]
        \/ \E u \in Threads : u /= t /\ at[u] = "wait" /\ at' = [at EXCEPT ![t] = place, ![u] = "lock"]
    BY <1>7, LeftMeans
  <2>4. QED
    BY <1>1, <2>1, <2>2, <2>3
<1>8. CASE LeftEmptyHanded(t)
  BY <1>1, <1>8 DEF LeftEmptyHanded, Go
<1>9. CASE Orphaning(t)
  <2>1. t \in Workers
    BY <1>9 DEF Orphaning, IInv, Pointers
  <2>2. QED
    BY <1>1, <1>9, <2>1 DEF Orphaning, Go
<1>10. QED
  BY <1>2, <1>3, <1>4, <1>5, <1>6, <1>7, <1>8, <1>9, ThreadKinds

\* One thread stores into a queue and one takes out of it.
LEMMA OneOnEachSide ==
  ASSUME IInv, NEW t \in Threads, NEW u \in Threads, Inside(t), Inside(u),
         on[t] = on[u], Pushes(t) <=> Pushes(u)
  PROVE  t = u
<1> USE ThreadFacts
<1>1. Started(t) /\ Started(u) /\ on[t] \in Queues
  BY DEF Inside, Started, IInv, ThreadTypes
<1>2. CASE t = Main \/ u = Main
  BY <1>1, <1>2 DEF Pushes, IInv, PlaceInv, Queues
<1>3. CASE t \in Workers /\ u \in Workers
  <2>1. t[1] = u[1]
    BY <1>1, <1>3 DEF Pushes, IInv, PlaceInv, Queues
  <2>2. QED
    BY <1>1, <1>3, <2>1 DEF IInv, StartInv
<1>4. QED
  BY <1>2, <1>3

LEMMA RoomKept ==
  ASSUME IInv, NEW t \in Threads, ThreadStep(t)
  PROVE  RoomInv'
<1> USE ThreadFacts, Bounds
<1>1. RoomInv /\ at \in [Threads -> Places] /\ on \in [Threads -> Queues]
      /\ entries \in [Queues -> 0 .. Capacity]
  BY DEF IInv, ThreadTypes, QueueTypes
\* Nobody but t comes to where a mutex is locked.
<1>2. ASSUME UNCHANGED entries, \A u \in Threads \ {t} : on'[u] = on[u],
             \A u \in Threads \ {t} : at'[u] = at[u],
             at'[t] \in {"work", "recvfrom"} =>
               on'[t] = on[t] /\ (at[t] \in {"work", "recvfrom"} \/ ~Blocked(t))
      PROVE  RoomInv'
  <2> SUFFICES ASSUME NEW u \in Threads, at'[u] \in {"work", "recvfrom"}
               PROVE  IF Pushes(u)' THEN entries[on'[u]] < Capacity ELSE entries[on'[u]] > 0
    BY <1>2 DEF RoomInv
  <2>1. on'[u] = on[u] /\ (Pushes(u)' <=> Pushes(u))
    BY <1>2 DEF Pushes
  <2>2. CASE at[u] \in {"work", "recvfrom"}
    BY <1>1, <2>1, <2>2 DEF RoomInv
  <2>3. CASE at[u] \notin {"work", "recvfrom"}
    <3>1. u = t /\ ~Blocked(t)
      BY <1>2, <2>3
    <3>2. QED
      BY <1>1, <2>1, <3>1 DEF Blocked
  <2>4. QED
    BY <2>2, <2>3
<1>3. ASSUME NEW place \in Places, Moved(t, place) PROVE RoomInv'
  BY <1>1, <1>2, <1>3 DEF Moved, Go, lockVars
<1>4. CASE Strayed(t)
  BY <1>1, <1>2, <1>4 DEF Strayed, Go, lockVars
<1>5. ASSUME NEW q \in Queues, Entered(t, q) PROVE RoomInv'
  <2>1. at'[t] \in {"lock", "initing"}
    BY <1>1, <1>5 DEF Entered, Go
  <2>2. QED
    BY <1>1, <1>2, <1>5, <2>1 DEF Entered, Go, lockVars
<1>6. CASE queue_lock_init(t)
  BY <1>1, <1>2, <1>6 DEF queue_lock_init, Go
<1>7. CASE Lock(t)
  <2>1. CASE Blocked(t)
    BY <1>1, <1>2, <1>7, <2>1 DEF Lock, Go
  <2>2. CASE ~Blocked(t)
    BY <1>1, <1>2, <1>7, <2>2 DEF Lock, Go
  <2>3. QED
    BY <2>1, <2>2
<1>8. ASSUME NEW place \in Places, NEW n \in Int, Left(t, place, n) PROVE RoomInv'
  <2>1. UNCHANGED on /\ entries' = [entries EXCEPT ![on[t]] = n]
        /\ place \in {"idle", "push", "loop", "read_cb"} /\ at[t] \in {"work", "recvfrom"}
    BY <1>8, LeftMeans DEF Left
  <2>2. \/ at' = [at EXCEPT ![t] = place]
        \/ \E u \in Threads : u /= t /\ at[u] = "wait" /\ at' = [at EXCEPT ![t] = place, ![u] = "lock"]
    BY <1>8, LeftMeans
  <2> SUFFICES ASSUME NEW u \in Threads, at'[u] \in {"work", "recvfrom"}
               PROVE  IF Pushes(u) THEN entries'[on[u]] < Capacity ELSE entries'[on[u]] > 0
    BY <2>1 DEF RoomInv, Pushes
  <2>3. u /= t /\ at[u] = at'[u]
    BY <1>1, <2>1, <2>2
  <2>4. IF Pushes(u) THEN entries[on[u]] < Capacity ELSE entries[on[u]] > 0
    BY <2>3 DEF RoomInv, IInv
  <2>5. CASE on[u] = on[t]
    <3>1. Pushes(u) <=> ~Pushes(t)
      BY <2>1, <2>3, <2>5, OneOnEachSide DEF Inside
    <3>2. entries'[on[u]] = n
      BY <1>1, <2>1, <2>5
    <3>3. CASE Pushes(t)
      <4>1. n = entries[on[t]] + 1
        BY <1>8, <3>3 DEF Left
      <4>2. QED
        BY <1>1, <2>4, <2>5, <3>1, <3>2, <3>3, <4>1
    <3>4. CASE ~Pushes(t)
      <4>1. n = entries[on[t]] - 1
        BY <1>8, <3>4 DEF Left
      <4>2. QED
        BY <1>1, <2>4, <2>5, <3>1, <3>2, <3>4, <4>1
    <3>5. QED
      BY <3>3, <3>4
  <2>6. CASE on[u] /= on[t]
    BY <1>1, <2>1, <2>4, <2>6
  <2>7. QED
    BY <2>5, <2>6
<1>9. CASE LeftEmptyHanded(t)
  BY <1>1, <1>2, <1>9 DEF LeftEmptyHanded, Go
<1>10. CASE Orphaning(t)
  BY <1>1, <1>2, <1>10 DEF Orphaning, Go
<1>11. QED
  BY <1>3, <1>4, <1>5, <1>6, <1>7, <1>8, <1>9, <1>10, ThreadKinds

-----------------------------------------------------------------------------
(* The mutexes. *)

\* What LockInv and LockWorks say of one queue.
LockInvOf(q) ==
  /\ inited[q] => memory[q] = "live"
  /\ memory[q] = "none" => waiting[q] = {} /\ \A t \in Threads : ~In(t, q)
  /\ memory[q] = "live" => \A t \in waiting[q] : at[t] = "wait" /\ on[t] = q
  /\ memory[q] = "live" /\ ~raced[q] =>
       /\ inited[q] => \A t \in Threads : In(t, q) => at[t] /= "initing"
       /\ ~inited[q] => /\ \A t \in Threads : In(t, q) => at[t] = "initing"
                        /\ \A t, u \in Threads : In(t, q) /\ In(u, q) => t = u
       /\ \A t \in Threads : at[t] \in {"work", "recvfrom"} /\ on[t] = q => owner[q] = t
       /\ \A t \in Threads : at[t] = "wait" /\ on[t] = q => t \in waiting[q]

LEMMA LockParts == LockInv /\ LockWorks <=> \A q \in Queues : LockInvOf(q)
BY DEF LockInv, LockWorks, Using, LockInvOf

\* A queue that nobody enters, leaves or moves about in.
LEMMA OtherQueue ==
  ASSUME IInv, NEW q \in Queues,
         memory'[q] = memory[q], inited'[q] = inited[q], raced'[q] = raced[q],
         owner'[q] = owner[q], waiting'[q] = waiting[q],
         \A u \in Threads : In(u, q) \/ In(u, q)' => at'[u] = at[u] /\ on'[u] = on[u]
  PROVE  LockInvOf(q)'
<1>1. LockInvOf(q) /\ waiting[q] \subseteq Threads
  BY LockParts DEF IInv, QueueTypes
<1>2. \A u \in Threads : In(u, q)' <=> In(u, q)
  BY DEF In, Inside
<1>3. \A u \in Threads : In(u, q) => at'[u] = at[u] /\ on'[u] = on[u]
  BY DEF In
<1>4. \A u \in Threads : at'[u] \in {"initing", "wait", "work", "recvfrom"} /\ on'[u] = q => In(u, q)
  BY <1>2 DEF In, Inside
<1>5. \A u \in Threads : at[u] \in {"initing", "wait", "work", "recvfrom"} /\ on[u] = q => In(u, q)
  BY DEF In, Inside
<1>6. QED
  BY <1>1, <1>2, <1>3, <1>4, <1>5 DEF LockInvOf

\* A thread that gives up its place, or goes on to recvfrom.
LEMMA LockKeptMoved ==
  ASSUME IInv, NEW t \in Threads, NEW place \in Places, Moved(t, place) \/ (place = "stray" /\ Strayed(t)),
         NEW q \in Queues
  PROVE  LockInvOf(q)'
<1>1. /\ at \in [Threads -> Places] /\ UNCHANGED <<on, memory, inited, raced, owner, waiting>>
      /\ at' = [at EXCEPT ![t] = place]
  BY DEF IInv, ThreadTypes, Moved, Strayed, Go, Quiet, QuietVars, lockVars
<1>2. LockInvOf(q)
  BY LockParts DEF IInv
<1>3. CASE on[t] /= q \/ ~Inside(t)
  <2>1. ~Inside(t) => at'[t] \in {"loop", "gone", "stray"}
    BY <1>1 DEF Moved, Strayed, Inside
  <2>2. QED
    BY <1>1, <1>3, <2>1, OtherQueue DEF In, Inside
<1>4. CASE on[t] = q /\ Inside(t)
  <2>1. \/ at'[t] \in {"gone", "stray"}
        \/ at[t] = "work" /\ at'[t] = "recvfrom"
    BY <1>1, <1>4 DEF Moved, Strayed, Inside
  <2>2. memory[q] = "live" => at[t] /= "wait"
    BY <1>4 DEF Moved, Strayed
  <2>3. \A u \in Threads \ {t} : at'[u] = at[u]
    BY <1>1
  <2>4. QED
    BY <1>1, <1>2, <2>1, <2>2, <2>3 DEF LockInvOf, In, Inside
<1>5. QED
  BY <1>3, <1>4

LEMMA LockKeptEntered ==
  ASSUME IInv, NEW t \in Threads, NEW p \in Queues, Entered(t, p), NEW q \in Queues
  PROVE  LockInvOf(q)'
<1>1. /\ at \in [Threads -> Places] /\ on \in [Threads -> Queues]
      /\ UNCHANGED <<memory, inited, owner, waiting>>
      /\ raced \in [Queues -> BOOLEAN]
      /\ at' = [at EXCEPT ![t] = IF inited[p] THEN "lock" ELSE "initing"]
      /\ on' = [on EXCEPT ![t] = p]
  BY DEF IInv, ThreadTypes, QueueTypes, Entered, Go, Quiet, QuietVars, lockVars
<1>2. LockInvOf(q) /\ ~Inside(t) /\ memory[p] = "live"
  BY LockParts DEF IInv, Entered, Inside
<1>3. CASE q /= p
  <2>1. raced'[q] = raced[q]
    BY <1>1, <1>3 DEF Entered
  <2>2. QED
    BY <1>1, <1>2, <1>3, <2>1, OtherQueue DEF In, Inside
<1>4. CASE q = p
  <2>1. /\ at'[t] = (IF inited[q] THEN "lock" ELSE "initing") /\ on'[t] = q
        /\ \A u \in Threads \ {t} : at'[u] = at[u] /\ on'[u] = on[u]
    BY <1>1, <1>4
  <2>2. ~raced'[q] => ~raced[q] /\ (inited[q] \/ \A u \in Threads \ {t} : ~(at[u] = "initing" /\ on[u] = q))
    BY <1>1, <1>4 DEF Entered
  <2>3. t \notin waiting[q]
    BY <1>2, <1>4 DEF LockInvOf, Inside
  <2>4. \A u \in Threads \ {t} : In(u, q)' <=> In(u, q)
    BY <2>1 DEF In, Inside
  <2>5. \A u \in Threads : at[u] = "initing" /\ on[u] = q => In(u, q)
    BY DEF In, Inside
  <2>6. ~raced'[q] /\ ~inited[q] => \A u \in Threads : In(u, q)' => u = t
    BY <1>2, <1>4, <2>2, <2>4, <2>5 DEF LockInvOf, In
  <2>7. QED
    BY <1>1, <1>2, <1>4, <2>1, <2>2, <2>3, <2>4, <2>6 DEF LockInvOf
<1>5. QED
  BY <1>3, <1>4

LEMMA LockKeptInit ==
  ASSUME IInv, NEW t \in Threads, queue_lock_init(t), NEW q \in Queues
  PROVE  LockInvOf(q)'
<1>1. /\ at \in [Threads -> Places] /\ on[t] \in Queues
      /\ inited \in [Queues -> BOOLEAN] /\ DOMAIN owner = Queues /\ DOMAIN waiting = Queues
      /\ UNCHANGED <<memory, raced, on>>
      /\ at[t] = "initing" /\ memory[on[t]] = "live"
      /\ at' = [at EXCEPT ![t] = "lock"]
      /\ inited' = [inited EXCEPT ![on[t]] = TRUE]
      /\ owner' = [owner EXCEPT ![on[t]] = Nobody]
      /\ waiting' = [waiting EXCEPT ![on[t]] = {}]
  BY DEF IInv, ThreadTypes, QueueTypes, queue_lock_init, Go
<1>2. LockInvOf(q)
  BY LockParts DEF IInv
<1>3. CASE q /= on[t]
  BY <1>1, <1>3, OtherQueue DEF In, Inside
<1>4. CASE q = on[t]
  <2>1. In(t, q) /\ memory'[q] = "live" /\ inited'[q] /\ waiting'[q] = {}
    BY <1>1, <1>4 DEF In, Inside
  <2>2. ~raced[q] => \A u \in Threads : In(u, q) => u = t
    BY <1>1, <1>2, <1>4, <2>1 DEF LockInvOf
  <2>3. \A u \in Threads \ {t} : In(u, q)' <=> In(u, q)
    BY <1>1 DEF In, Inside
  <2>4. \A u \in Threads : at'[u] \in {"wait", "work", "recvfrom"} /\ on'[u] = q => In(u, q)' /\ u /= t
    BY <1>1 DEF In, Inside
  <2>5. ~raced'[q] => \A u \in Threads : In(u, q)' => u = t
    BY <1>1, <2>2, <2>3
  <2>6. at'[t] = "lock"
    BY <1>1
  <2>7. QED
    BY <2>1, <2>4, <2>5, <2>6 DEF LockInvOf
<1>5. QED
  BY <1>3, <1>4

LEMMA LockKeptLock ==
  ASSUME IInv, NEW t \in Threads, Lock(t), NEW q \in Queues
  PROVE  LockInvOf(q)'
<1>1. /\ at \in [Threads -> Places] /\ on[t] \in Queues
      /\ owner \in [Queues -> Threads \cup {Nobody}] /\ waiting \in [Queues -> SUBSET Threads]
      /\ UNCHANGED <<memory, inited, raced, on>>
      /\ at[t] = "lock" /\ memory[on[t]] = "live" /\ owner[on[t]] = Nobody
      /\ \/ /\ at' = [at EXCEPT ![t] = "wait"] /\ owner' = owner
            /\ waiting' = [waiting EXCEPT ![on[t]] = @ \cup {t}]
         \/ /\ at' = [at EXCEPT ![t] = "work"] /\ waiting' = waiting
            /\ owner' = [owner EXCEPT ![on[t]] = t]
  BY DEF IInv, ThreadTypes, QueueTypes, Lock, Go, memVars
<1>2. LockInvOf(q)
  BY LockParts DEF IInv
<1>3. CASE q /= on[t]
  BY <1>1, <1>3, OtherQueue DEF In, Inside
<1>4. CASE q = on[t]
  <2>1. In(t, q) /\ \A u \in Threads : In(u, q)' <=> In(u, q)
    BY <1>1, <1>4 DEF In, Inside
  <2>2. ~raced[q] => inited[q]
    BY <1>1, <1>2, <1>4, <2>1 DEF LockInvOf
  <2>3. ~raced[q] => \A u \in Threads : ~(at[u] \in {"work", "recvfrom"} /\ on[u] = q)
    BY <1>1, <1>2, <1>4, ThreadFacts DEF LockInvOf
  <2>4. \A u \in Threads \ {t} : at'[u] = at[u]
    BY <1>1
  <2>5. CASE at' = [at EXCEPT ![t] = "wait"] /\ owner' = owner
             /\ waiting' = [waiting EXCEPT ![on[t]] = @ \cup {t}]
    <3>1. at'[t] = "wait" /\ waiting'[q] = waiting[q] \cup {t}
      BY <1>1, <1>4, <2>5
    <3>2. QED
      BY <1>1, <1>2, <1>4, <2>1, <2>2, <2>3, <2>4, <2>5, <3>1 DEF LockInvOf
  <2>6. CASE at' = [at EXCEPT ![t] = "work"] /\ waiting' = waiting
             /\ owner' = [owner EXCEPT ![on[t]] = t]
    <3>1. at'[t] = "work" /\ owner'[q] = t
      BY <1>1, <1>4, <2>6
    <3>2. QED
      BY <1>1, <1>2, <1>4, <2>1, <2>2, <2>3, <2>4, <2>6, <3>1 DEF LockInvOf
  <2>7. QED
    BY <1>1, <2>5, <2>6
<1>5. QED
  BY <1>3, <1>4

LEMMA LockKeptLeft ==
  ASSUME IInv, NEW t \in Threads, NEW q \in Queues, NEW place \in Places, NEW n \in Int, Left(t, place, n)
  PROVE  LockInvOf(q)'
<1>1. /\ at \in [Threads -> Places] /\ on[t] \in Queues
      /\ owner \in [Queues -> Threads \cup {Nobody}] /\ waiting \in [Queues -> SUBSET Threads]
  BY DEF IInv, ThreadTypes, QueueTypes
<1>2. /\ UNCHANGED <<memory, inited, raced, on>>
      /\ owner' = [owner EXCEPT ![on[t]] = Nobody]
      /\ at[t] \in {"work", "recvfrom"} /\ memory[on[t]] = "live" /\ place \in {"idle", "push", "loop", "read_cb"}
  BY LeftMeans DEF Left, Quiet, QuietVars
<1>3. LockInvOf(q)
  BY LockParts DEF IInv
<1>4. ASSUME q = on[t], ~raced[q], NEW u \in Threads, u /= t
      PROVE  ~(at[u] \in {"work", "recvfrom"} /\ on[u] = q) /\ inited[q]
  <2>1. owner[q] = t /\ In(t, q)
    BY <1>2, <1>3, <1>4 DEF LockInvOf, In, Inside
  <2>2. QED
    BY <1>2, <1>3, <1>4, <2>1 DEF LockInvOf
<1>5. CASE waiting' = waiting /\ at' = [at EXCEPT ![t] = place]
  <2>1. CASE q /= on[t]
    BY <1>1, <1>2, <1>5, <2>1, OtherQueue DEF In, Inside
  <2>2. CASE q = on[t]
    <3>1. at'[t] = place /\ \A u \in Threads \ {t} : at'[u] = at[u]
      BY <1>1, <1>5
    <3>2. \A u \in Threads : In(u, q)' <=> In(u, q) /\ u /= t
      BY <1>2, <2>2, <3>1 DEF In, Inside
    <3>3. ~raced[q] => inited[q]
      BY <1>2, <1>3, <2>2 DEF LockInvOf, In, Inside
    <3>4. QED
      BY <1>2, <1>3, <1>4, <1>5, <2>2, <3>1, <3>2, <3>3 DEF LockInvOf
  <2>3. QED
    BY <2>1, <2>2
<1>6. ASSUME NEW w \in Threads, w /= t, at[w] = "wait", on[w] = on[t],
             waiting' = [waiting EXCEPT ![on[t]] = @ \ {w}],
             at' = [at EXCEPT ![t] = place, ![w] = "lock"]
      PROVE  LockInvOf(q)'
  <2>1. CASE q /= on[t]
    BY <1>1, <1>2, <1>6, <2>1, OtherQueue DEF In, Inside
  <2>2. CASE q = on[t]
    <3>1. at'[t] = place /\ at'[w] = "lock" /\ \A u \in Threads \ {t, w} : at'[u] = at[u]
      BY <1>1, <1>6
    <3>2. \A u \in Threads : In(u, q)' <=> In(u, q) /\ u /= t
      BY <1>2, <1>6, <2>2, <3>1 DEF In, Inside
    <3>3. ~raced[q] => inited[q]
      BY <1>2, <1>3, <2>2 DEF LockInvOf, In, Inside
    <3>4. waiting'[q] = waiting[q] \ {w}
      BY <1>1, <1>6, <2>2
    <3>5. \A u \in Threads : at'[u] \in {"work", "recvfrom"} => u /= t /\ at[u] = at'[u]
      BY <1>2, <1>6, <3>1
    <3>6. \A u \in Threads : at'[u] \in {"wait", "initing"} => u /= t /\ u /= w /\ at[u] = at'[u]
      BY <1>2, <1>6, <3>1
    <3>7. memory'[q] = "live" /\ inited'[q] = inited[q] /\ raced'[q] = raced[q] /\ on' = on
      BY <1>2, <2>2
    <3>8. \A u \in waiting'[q] : at'[u] = "wait" /\ on'[u] = q
      BY <1>1, <1>2, <1>3, <2>2, <3>1, <3>4 DEF LockInvOf
    <3>9. ~raced[q] => /\ \A u \in Threads : In(u, q)' => at'[u] /= "initing"
                       /\ \A u \in Threads : ~(at'[u] \in {"work", "recvfrom"} /\ on'[u] = q)
                       /\ \A u \in Threads : at'[u] = "wait" /\ on'[u] = q => u \in waiting'[q]
      BY <1>3, <1>4, <2>2, <3>2, <3>3, <3>4, <3>5, <3>6, <3>7 DEF LockInvOf
    <3>10. QED
      BY <3>3, <3>7, <3>8, <3>9 DEF LockInvOf
  <2>3. QED
    BY <2>1, <2>2
<1>7. QED
  BY <1>5, <1>6, LeftMeans

LEMMA LockKeptRest ==
  ASSUME IInv, NEW t \in Threads, LeftEmptyHanded(t) \/ Orphaning(t), NEW q \in Queues
  PROVE  LockInvOf(q)'
<1> USE ThreadFacts
<1>1. /\ at \in [Threads -> Places] /\ on[t] \in Queues
      /\ owner \in [Queues -> Threads \cup {Nobody}] /\ waiting \in [Queues -> SUBSET Threads]
  BY DEF IInv, ThreadTypes, QueueTypes
<1>2. UNCHANGED <<memory, inited, raced, on>> /\ memory[on[t]] = "live" /\ In(t, on[t])
  BY DEF LeftEmptyHanded, Orphaning, Quiet, QuietVars, In, Inside, IInv, PlaceInv
<1>3. LockInvOf(q)
  BY LockParts DEF IInv
<1>4. CASE LeftEmptyHanded(t)
  <2>1. /\ on[t] = "recv" /\ at[t] = "recvfrom" /\ owner' = [owner EXCEPT ![on[t]] = Nobody]
        /\ waiting' = waiting /\ at' = [at EXCEPT ![t] = "loop"]
    BY <1>4 DEF LeftEmptyHanded, Go, IInv, PlaceInv
  <2>2. CASE q /= on[t]
    BY <1>1, <1>2, <2>1, <2>2, OtherQueue DEF In, Inside
  <2>3. CASE q = on[t]
    <3>1. at'[t] = "loop" /\ \A u \in Threads \ {t} : at'[u] = at[u]
      BY <1>1, <2>1
    <3>2. \A u \in Threads : In(u, q)' <=> In(u, q) /\ u /= t
      BY <1>2, <2>3, <3>1 DEF In, Inside
    <3>3. ~raced[q] => inited[q] /\ owner[q] = t
      BY <1>2, <1>3, <2>1, <2>3 DEF LockInvOf
    <3>4. QED
      BY <1>2, <1>3, <2>1, <2>3, <3>1, <3>2, <3>3 DEF LockInvOf
  <2>4. QED
    BY <2>2, <2>3
<1>5. CASE Orphaning(t)
  <2>1. /\ at[t] = "wait" /\ owner' = [owner EXCEPT ![on[t]] = t] /\ owner[on[t]] = Nobody
        /\ waiting' = [waiting EXCEPT ![on[t]] = @ \ {t}] /\ at' = [at EXCEPT ![t] = "gone"]
    BY <1>5 DEF Orphaning, Go
  <2>2. CASE q /= on[t]
    BY <1>1, <1>2, <2>1, <2>2, OtherQueue DEF In, Inside
  <2>3. CASE q = on[t]
    <3>1. at'[t] = "gone" /\ \A u \in Threads \ {t} : at'[u] = at[u]
      BY <1>1, <2>1
    <3>2. \A u \in Threads : In(u, q)' <=> In(u, q) /\ u /= t
      BY <1>2, <2>3, <3>1 DEF In, Inside
    <3>3. ~raced[q] => inited[q] /\ \A u \in Threads : ~(at[u] \in {"work", "recvfrom"} /\ on[u] = q)
      BY <1>2, <1>3, <2>1, <2>3 DEF LockInvOf
    <3>4. waiting'[q] = waiting[q] \ {t}
      BY <1>1, <2>1, <2>3
    <3>5. QED
      BY <1>1, <1>2, <1>3, <2>1, <2>3, <3>1, <3>2, <3>3, <3>4 DEF LockInvOf
  <2>4. QED
    BY <2>2, <2>3
<1>6. QED
  BY <1>4, <1>5

LEMMA ThreadStepKeeps ==
  ASSUME IInv, NEW t \in Threads, ThreadStep(t)
  PROVE  IInv'
<1>1. \A q \in Queues : LockInvOf(q)'
  BY ThreadKinds, LockKeptMoved, LockKeptEntered, LockKeptInit, LockKeptLock, LockKeptLeft, LockKeptRest
     DEF Places
<1>2. LockInv' /\ LockWorks'
  BY <1>1 DEF LockInv, LockWorks, Using, LockInvOf
<1>3. QED
  BY <1>2, CommonHolds, CommonKeeps, QueueTypesKept, PlacesKept, RoomKept DEF IInv

-----------------------------------------------------------------------------
(* The main thread's calls. *)

\* The main thread is in no queue when it calls, so that its place does not
\* matter to a queue that is left alone.
LEMMA LocksUntouched ==
  ASSUME IInv, at[Main] \notin {"initing", "lock", "wait", "work", "recvfrom"},
         UNCHANGED <<raced, lockVars, on>>,
         at' = at \/ \E place \in Places \ {"initing", "lock", "wait", "work", "recvfrom"} : Go(Main, place),
         NEW q \in Queues, memory'[q] = memory[q], inited'[q] = inited[q]
  PROVE  LockInvOf(q)'
<1>1. at \in [Threads -> Places] /\ Main \in Threads
  BY ThreadFacts DEF IInv, ThreadTypes
<1>2. \A u \in Threads : In(u, q) \/ In(u, q)' => at'[u] = at[u] /\ on'[u] = on[u]
  BY <1>1 DEF Go, In, Inside
<1>3. QED
  BY <1>2, OtherQueue DEF lockVars

LEMMA LockPartsNow ==
  ASSUME \A q \in Queues : LockInvOf(q)'
  PROVE  LockInv' /\ LockWorks'
BY DEF LockInv, LockWorks, Using, LockInvOf

LEMMA SimpleStepKeeps ==
  ASSUME IInv, event_add \/ event_stop \/ SetExitFlag \/ UNCHANGED vars
  PROVE  IInv'
<1> USE ThreadFacts, Bounds
<1>1. /\ UNCHANGED <<event_, queue, recv_queue, recv_thread, cb_thread, deinits, memVars, lockVars, at, on, cancelled>>
      /\ exit_thread_flag' \in BOOLEAN /\ (exit_thread_flag => exit_thread_flag')
  BY DEF event_add, event_stop, SetExitFlag, vars, progVars, IInv, Flags
<1>2. Counts'
  <2>1. calls' \in 0 .. MaxCalls /\ conn_cnt' \in {0, 1}
    BY DEF event_add, event_stop, Call, SetExitFlag, vars, progVars, fdVars, IInv, Counts
  <2>2. closings' \in 0 .. MaxCalls
    <3>1. CASE event_stop
      <4>1. calls < MaxCalls /\ closings' = closings + 1
        BY <3>1 DEF event_stop, Call, DEINIT_THREAD_CMD
      <4>2. closings <= calls
        BY DEF IInv, PipeInv, Counts
      <4>3. QED
        BY <4>1, <4>2 DEF IInv, Counts
    <3>2. CASE UNCHANGED closings
      BY <3>2 DEF IInv, Counts
    <3>3. QED
      BY <3>1, <3>2 DEF event_add, SetExitFlag, vars, progVars, fdVars
  <2>3. QED
    BY <2>1, <2>2 DEF Counts
<1>3. Flags' /\ Pointers'
  <2>1. pipe' \in BOOLEAN /\ stdin' \in BOOLEAN
    BY DEF event_add, event_stop, DEINIT_THREAD_CMD, SetExitFlag, vars, progVars, fdVars, IInv, Flags
  <2>2. QED
    BY <1>1, <2>1 DEF IInv, Flags, Pointers
<1>4. QueueTypes' /\ ThreadTypes' /\ PlaceInv' /\ RoomInv'
  BY <1>1 DEF IInv, QueueTypes, ThreadTypes, PlaceInv, Inside, RoomInv, Pushes, memVars, lockVars
<1>5. StartInv' /\ CancelInv' /\ OnlyTheCancelledStray'
  BY <1>1 DEF IInv, StartInv, Started, CancelInv, Deiniting, OnlyTheCancelledStray, memVars
<1>6. PipeInv' /\ StdinKept'
  <2>1. CASE event_stop
    <3>1. /\ calls' = calls + 1 /\ closings' = closings + 1 /\ pipe' = FALSE /\ stdin' = (stdin /\ pipe)
          /\ event_ /\ event_' = event_ /\ ~Deiniting /\ ~Deiniting'
      BY <1>1, <2>1 DEF event_stop, Call, DEINIT_THREAD_CMD, Deiniting
    <3>2. calls \in Nat /\ closings \in Nat /\ closings <= calls
      BY <3>1 DEF IInv, Counts, PipeInv
    <3>3. PipeInv'
      BY <3>1, <3>2 DEF PipeInv
    <3>4. closings' <= 1 => pipe /\ stdin
      BY <3>1, <3>2 DEF IInv, PipeInv, StdinKept
    <3>5. QED
      BY <3>1, <3>3, <3>4 DEF StdinKept
  <2>2. CASE UNCHANGED fdVars /\ calls' \in {calls, calls + 1}
    <3>1. PipeInv'
      BY <1>1, <2>2 DEF IInv, Counts, PipeInv, Deiniting, fdVars
    <3>2. QED
      BY <2>2, <3>1 DEF IInv, StdinKept, fdVars
  <2>3. QED
    BY <2>1, <2>2 DEF event_add, Call, SetExitFlag, vars, progVars
<1>7. LockInv' /\ LockWorks'
  BY <1>1 DEF IInv, LockInv, LockWorks, Using, In, Inside, memVars, lockVars
<1>8. QED
  BY <1>2, <1>3, <1>4, <1>5, <1>6, <1>7 DEF IInv

-----------------------------------------------------------------------------
(* event_init. *)

\* The first threads of each kind are started.
LEMMA NewestIsFirst ==
  ASSUME IInv, ~queue, NEW kind \in {"udp", "cb"}
  PROVE  Newest(kind) = <<kind, 1>> /\ <<kind, 1>> \in Workers
<1>1. \A n \in 1 .. MaxInits : <<kind, n>> \in Workers
  BY DEF Workers
<1>2. Fresh(kind) = 1 .. MaxInits
  BY <1>1 DEF IInv, StartInv, Started, Fresh
<1>3. 1 \in Fresh(kind) /\ \A k \in Fresh(kind) : 1 <= k
  BY <1>2, Bounds
<1>4. \A n \in Fresh(kind) : (\A k \in Fresh(kind) : n <= k) => n = 1
  BY <1>2, <1>3
<1>5. (CHOOSE n \in Fresh(kind) : \A k \in Fresh(kind) : n <= k) = 1
  BY <1>3, <1>4
<1>6. QED
  BY <1>1, <1>2, <1>3, <1>5 DEF Newest

\* What event_init does to the threads and the queues' memory: nothing, the
\* select queue alone, or everything.
InitNothing == UNCHANGED <<queue, recv_queue, recv_thread, cb_thread, memory, at>>

InitSelectOnly ==
  /\ ~queue /\ queue' = TRUE /\ recv_queue' = FALSE
  /\ memory' = [memory EXCEPT !["select"] = "live"]
  /\ UNCHANGED <<recv_thread, cb_thread, at>>

InitAll ==
  /\ ~queue /\ queue' = TRUE /\ recv_queue' = TRUE
  /\ memory' = [q \in Queues |-> "live"]
  /\ recv_thread' = <<"udp", 1>> /\ cb_thread' = <<"cb", 1>>
  /\ at' = [at EXCEPT ![<<"udp", 1>>] = "loop", ![<<"cb", 1>>] = "loop"]

LEMMA InitKinds ==
  ASSUME IInv, event_init
  PROVE  InitNothing \/ InitSelectOnly \/ InitAll
BY NewestIsFirst DEF event_init, InitNothing, InitSelectOnly, InitAll

LEMMA InitStepKeeps ==
  ASSUME IInv, event_init
  PROVE  IInv'
<1> USE ThreadFacts, Bounds
<1>1. /\ UNCHANGED <<stdin, closings, deinits, exit_thread_flag, inited, raced, lockVars, on, cancelled>>
      /\ at[Main] = "idle" /\ calls < MaxCalls /\ calls' = calls + 1 /\ event_' = TRUE /\ conn_cnt' = 0
  BY DEF event_init, Call
<1>2. <<"udp", 1>> \in Workers /\ <<"cb", 1>> \in Workers
  BY DEF Workers
<1>3. pipe' \in BOOLEAN /\ (pipe => pipe') /\ (~queue => pipe') 
  <2>1. (queue /\ pipe' = pipe) \/ pipe' = TRUE
    BY DEF event_init, OpensPipe
  <2>2. pipe \in BOOLEAN
    BY DEF IInv, Flags
  <2>3. CASE queue /\ pipe' = pipe
    BY <2>2, <2>3
  <2>4. CASE pipe' = TRUE
    BY <2>4
  <2>5. QED
    BY <2>1, <2>3, <2>4
<1>4. Counts'
  BY <1>1 DEF IInv, Counts
<1>5. Flags' /\ Pointers'
  <2>1. queue' \in BOOLEAN /\ recv_queue' \in BOOLEAN
    BY InitKinds DEF InitNothing, InitSelectOnly, InitAll, IInv, Flags
  <2>2. recv_thread' \in Workers \cup {Nobody} /\ cb_thread' \in Workers \cup {Nobody}
    BY <1>2, InitKinds DEF InitNothing, InitSelectOnly, InitAll, IInv, Pointers
  <2>3. QED
    BY <1>1, <1>3, <2>1, <2>2 DEF IInv, Flags, Pointers
<1>6. QueueTypes' /\ ThreadTypes'
  <2>1. memory' \in [Queues -> {"none", "live", "freed"}]
    <3>1. memory \in [Queues -> {"none", "live", "freed"}]
      BY DEF IInv, QueueTypes
    <3>2. CASE InitNothing
      BY <3>1, <3>2 DEF InitNothing
    <3>3. CASE InitSelectOnly
      BY <3>1, <3>3 DEF InitSelectOnly
    <3>4. CASE InitAll
      BY <3>4 DEF InitAll
    <3>5. QED
      BY <3>2, <3>3, <3>4, InitKinds
  <2>2. at' \in [Threads -> Places]
    BY <1>2, InitKinds DEF InitNothing, InitSelectOnly, InitAll, IInv, ThreadTypes, Places
  <2>3. QED
    BY <1>1, <2>1, <2>2 DEF IInv, QueueTypes, ThreadTypes, lockVars
\* The threads that were there stay where they are, the new ones begin.
<1>7. /\ \A t \in Threads : at'[t] = at[t] \/ (t \in {<<"udp", 1>>, <<"cb", 1>>} /\ at'[t] = "loop" /\ ~queue)
      /\ ~queue => \A t \in Workers : ~Started(t)
  <2>1. ~queue => \A t \in Workers : ~Started(t)
    BY DEF IInv, StartInv
  <2>2. CASE InitNothing \/ InitSelectOnly
    BY <2>1, <2>2 DEF InitNothing, InitSelectOnly
  <2>3. CASE InitAll
    <3>1. at \in [Threads -> Places] /\ <<"udp", 1>> \in Threads /\ <<"cb", 1>> \in Threads
      BY <1>2 DEF IInv, ThreadTypes
    <3>2. QED
      BY <2>1, <2>3, <3>1 DEF InitAll
  <2>4. QED
    BY <2>2, <2>3, InitKinds
<1>8. PlaceInv' /\ RoomInv'
  <2>1. at'[Main] = at[Main] /\ on' = on /\ entries' = entries
    BY <1>1, <1>2, <1>7 DEF lockVars
  <2>2. PlaceInv'
    BY <1>1, <1>7, <2>1 DEF IInv, PlaceInv, Inside
  <2>3. RoomInv'
    BY <1>7, <2>1 DEF IInv, RoomInv, Pushes
  <2>4. QED
    BY <2>2, <2>3
<1>9. StartInv'
  <2>1. CASE InitNothing
    BY <1>1, <2>1 DEF InitNothing, IInv, StartInv, Started
  <2>2. CASE InitSelectOnly
    <3>1. memory'["select"] = "live"
      BY <2>2 DEF InitSelectOnly, IInv, QueueTypes, Queues
    <3>2. \A t \in Workers : ~Started(t)'
      BY <1>7, <2>2 DEF InitSelectOnly, Started
    <3>3. cancelled \subseteq Workers /\ recv_thread \in Workers \cup {Nobody} /\ cb_thread \in Workers \cup {Nobody}
      BY DEF IInv, Pointers
    <3>4. QED
      BY <1>1, <1>7, <2>2, <3>1, <3>2, <3>3 DEF InitSelectOnly, IInv, StartInv, Started
  <2>3. CASE InitAll
    <3>1. memory'["select"] = "live" /\ memory'["recv"] = "live"
      BY <2>3 DEF InitAll, Queues
    <3>2. \A t \in Workers : Started(t)' <=> t \in {<<"udp", 1>>, <<"cb", 1>>}
      BY <1>2, <1>7, <2>3 DEF InitAll, Started, IInv, ThreadTypes
    <3>3. cancelled = {}
      BY <1>7, <2>3 DEF InitAll, IInv, Pointers, StartInv
    <3>4. <<"udp", 1>>[1] = "udp" /\ <<"cb", 1>>[1] = "cb"
      OBVIOUS
    <3>5. QED
      BY <1>1, <1>2, <2>3, <3>1, <3>2, <3>3, <3>4 DEF InitAll, StartInv
  <2>4. QED
    BY <2>1, <2>2, <2>3, InitKinds
<1>10. PipeInv' /\ StdinKept'
  <2>1. ~Deiniting' /\ ~Deiniting
    BY <1>1, <1>2, <1>7 DEF Deiniting
  <2>2. closings' = 0 => pipe'
    BY <1>1, <1>3 DEF IInv, PipeInv, StartInv
  <2>3. closings' + 0 <= calls'
    BY <1>1, <2>1 DEF IInv, PipeInv, Counts
  <2>4. StdinKept'
    BY <1>1 DEF IInv, StdinKept
  <2>5. QED
    BY <1>1, <2>1, <2>2, <2>3, <2>4 DEF PipeInv
<1>11. CancelInv' /\ OnlyTheCancelledStray'
  <2>1. at'[Main] = "idle" /\ ~Deiniting' /\ ~Deiniting
    BY <1>1, <1>2, <1>7 DEF Deiniting
  <2>2. \A t \in Threads : at'[t] \in {"gone", "stray"} => at[t] = at'[t]
    BY <1>7
  <2>3. \A q \in Queues : memory'[q] = "freed" => memory[q] = "freed"
    BY InitKinds DEF InitNothing, InitSelectOnly, InitAll, IInv, QueueTypes, Queues
  <2>4. CASE queue
    <3>1. UNCHANGED <<recv_thread, cb_thread, memory, at>>
      BY <2>4, InitKinds DEF InitNothing, InitSelectOnly, InitAll
    <3>2. QED
      BY <1>1, <3>1 DEF IInv, CancelInv, OnlyTheCancelledStray, Deiniting, Started
  <2>5. CASE ~queue
    <3>1. cancelled = {} /\ \A q \in Queues : memory[q] = "none"
      BY <1>7, <2>5 DEF IInv, Pointers, StartInv
    <3>2. \A q \in Queues : memory'[q] /= "freed"
      BY <2>3, <3>1
    <3>3. \A t \in Workers : at'[t] \notin {"gone", "stray"}
      BY <1>7, <2>2, <2>5 DEF Started
    <3>4. cancelled' = {}
      BY <1>1, <3>1
    <3>5. OnlyTheCancelledStray'
      BY <2>1, <3>3 DEF OnlyTheCancelledStray
    <3>6. QED
      BY <2>1, <3>2, <3>3, <3>4, <3>5 DEF CancelInv, Queues
  <2>6. QED
    BY <2>4, <2>5
<1>12. \A q \in Queues : LockInvOf(q)'
  <2> SUFFICES ASSUME NEW q \in Queues
               PROVE  LockInvOf(q)'
    OBVIOUS
  <2>1. \A u \in Threads : In(u, q) \/ In(u, q)' => at'[u] = at[u] /\ on'[u] = on[u]
    BY <1>1, <1>7 DEF In, Inside, Started
  <2>2. CASE memory'[q] = memory[q]
    BY <1>1, <2>1, <2>2, OtherQueue DEF lockVars
  <2>3. CASE memory[q] = "none" /\ memory'[q] = "live"
    <3>1. ~inited[q] /\ waiting[q] = {} /\ \A t \in Threads : ~In(t, q)
      BY <2>3 DEF IInv, LockInv, QueueTypes
    <3>2. ~inited'[q] /\ waiting'[q] = {} /\ \A t \in Threads : ~In(t, q)'
      BY <1>1, <1>7, <3>1 DEF lockVars, In, Inside
    <3>3. \A t \in Threads : ~(at'[t] \in {"wait", "work", "recvfrom"} /\ on'[t] = q)
      BY <3>2 DEF In, Inside
    <3>4. QED
      BY <2>3, <3>2, <3>3 DEF LockInvOf
  <2>4. QED
    <3>1. ~queue => memory[q] = "none"
      BY DEF IInv, StartInv
    <3>2. QED
      BY <2>2, <2>3, <3>1, InitKinds DEF InitNothing, InitSelectOnly, InitAll, IInv, QueueTypes, Queues
<1>13. QED
  BY <1>4, <1>5, <1>6, <1>8, <1>9, <1>10, <1>11, <1>12, LockPartsNow DEF IInv

-----------------------------------------------------------------------------
(* event_deinit. *)

LEMMA CancelStepKeeps ==
  ASSUME IInv, receive_deinit \/ udp_deinit
  PROVE  IInv'
<1> USE ThreadFacts, Bounds
<1> DEFINE target == IF receive_deinit THEN cb_thread ELSE recv_thread
<1>1. /\ UNCHANGED <<event_, conn_cnt, queue, recv_queue, cb_thread, fdVars, deinits, exit_thread_flag,
                     memVars, lockVars, on>>
      /\ at \in [Threads -> Places]
  BY DEF receive_deinit, udp_deinit, IInv, ThreadTypes
<1>2. /\ recv_thread \in Workers \cup {Nobody} /\ cb_thread \in Workers \cup {Nobody}
      /\ cancelled \subseteq Workers
  BY DEF IInv, Pointers
\* Either the thread that is to be cancelled has ended, or it is cancelled.
<1>3. \/ /\ receive_deinit /\ at[Main] = "idle" /\ cb_thread /= Nobody
         /\ recv_thread' = recv_thread /\ calls < MaxCalls /\ calls' = calls + 1
         /\ \/ at[cb_thread] = "gone" /\ at' = [at EXCEPT ![Main] = "stray"] /\ cancelled' = cancelled
            \/ at' = [at EXCEPT ![Main] = "udp_deinit"] /\ cancelled' = cancelled \cup {cb_thread}
      \/ /\ udp_deinit /\ at[Main] = "udp_deinit" /\ recv_thread' = Nobody /\ calls' = calls
         /\ \/ recv_thread /= Nobody /\ at[recv_thread] = "gone" /\ at' = [at EXCEPT ![Main] = "stray"]
               /\ cancelled' = cancelled
            \/ /\ at' = [at EXCEPT ![Main] = "destroy"]
               /\ cancelled' = IF recv_thread = Nobody THEN cancelled ELSE cancelled \cup {recv_thread}
  <2>1. CASE receive_deinit
    BY <2>1 DEF receive_deinit, Call, CancelNow, Go, After, Cancels
  <2>2. CASE udp_deinit
    BY <2>2 DEF udp_deinit, CancelNow, Go, After, Cancels
  <2>3. QED
    BY <2>1, <2>2
<1>4. /\ \A t \in Workers : at'[t] = at[t]
      /\ at[Main] \in {"idle", "udp_deinit"} /\ at'[Main] \in {"udp_deinit", "destroy", "stray"}
      /\ at' \in [Threads -> Places]
  BY <1>1, <1>3 DEF Places
<1>5. Counts' /\ Flags' /\ Pointers' /\ StdinKept'
  <2>1. calls' \in 0 .. MaxCalls /\ UNCHANGED <<conn_cnt, closings>>
    BY <1>1, <1>3 DEF IInv, Counts, fdVars
  <2>2. recv_thread' \in Workers \cup {Nobody} /\ cancelled' \subseteq Workers
    BY <1>2, <1>3
  <2>3. Flags' /\ StdinKept'
    BY <1>1 DEF IInv, Flags, StdinKept, fdVars
  <2>4. QED
    BY <1>1, <1>2, <2>1, <2>2, <2>3 DEF IInv, Counts, Pointers
<1>6. QueueTypes' /\ ThreadTypes'
  BY <1>1, <1>4 DEF IInv, QueueTypes, ThreadTypes, memVars, lockVars
<1>7. PlaceInv' /\ RoomInv'
  <2>1. on' = on /\ entries' = entries
    BY <1>1 DEF lockVars
  <2>2. PlaceInv'
    BY <1>4, <2>1 DEF IInv, PlaceInv, Inside
  <2>3. RoomInv'
    BY <1>4, <2>1 DEF IInv, RoomInv, Pushes
  <2>4. QED
    BY <2>2, <2>3
<1>8. /\ cb_thread /= Nobody => Started(cb_thread) /\ cb_thread[1] = "cb" /\ queue /\ event_
      /\ recv_thread /= Nobody => Started(recv_thread) /\ recv_thread[1] = "udp"
  BY <1>2 DEF IInv, StartInv
<1>9. StartInv'
  <2>1. UNCHANGED <<queue, event_, cb_thread, memory>> /\ \A t \in Threads : Started(t)' <=> Started(t)
    BY <1>1, <1>4 DEF memVars, Started
  <2>2. \A t \in Workers : Started(t) =>
         IF t[1] = "udp" THEN t \in cancelled' \cup {recv_thread'} \/ at'[Main] = "stray" ELSE t = cb_thread
    <3>1. CASE receive_deinit /\ recv_thread' = recv_thread /\ cancelled \subseteq cancelled' /\ at[Main] = "idle"
      BY <3>1 DEF IInv, StartInv
    <3>2. CASE at[Main] = "udp_deinit"
      BY <1>1, <1>3, <3>2 DEF IInv, StartInv
    <3>3. QED
      BY <1>3, <3>1, <3>2
  <2>3. \A t \in cancelled' : Started(t)
    BY <1>2, <1>3, <1>8 DEF IInv, StartInv
  <2>4. recv_thread' \in {recv_thread, Nobody} /\ cancelled' \subseteq Threads
    BY <1>2, <1>3
  <2>5. QED
    BY <1>2, <1>8, <2>1, <2>2, <2>3, <2>4 DEF IInv, StartInv
<1>10. PipeInv'
  <2>1. UNCHANGED <<event_, pipe, closings>> /\ event_
    BY <1>1, <1>3, <1>8 DEF fdVars, IInv, PipeInv, Deiniting
  <2>2. calls \in Nat /\ closings \in Nat /\ closings + (IF Deiniting THEN 1 ELSE 0) <= calls
    BY DEF IInv, Counts, PipeInv
  <2>3. calls' \in Nat /\ closings + (IF Deiniting' THEN 1 ELSE 0) <= calls'
    BY <1>3, <2>2 DEF Deiniting
  <2>4. QED
    BY <2>1, <2>3 DEF IInv, PipeInv
<1>11. CancelInv'
  <2>1. UNCHANGED <<memory, deinits, exit_thread_flag, cb_thread>>
    BY <1>1 DEF memVars
  <2>2. recv_thread' \notin cancelled'
    BY <1>2, <1>3, <1>8 DEF IInv, CancelInv
  <2>3. Deiniting' => cb_thread' \in cancelled'
    BY <1>1, <1>3 DEF IInv, CancelInv, Deiniting
  <2>4. at'[Main] \in {"destroy", "select_deinit"} => recv_thread' = Nobody
    BY <1>1, <1>3
  <2>5. cancelled \subseteq cancelled' /\ (Deiniting' \/ at'[Main] = "stray")
    BY <1>3, <1>4 DEF Deiniting
  <2>6. \A t \in Workers : Started(t)' <=> Started(t)
    BY <1>4 DEF Started
  <2>7. QED
    BY <1>4, <2>1, <2>2, <2>3, <2>4, <2>5, <2>6 DEF IInv, CancelInv
<1>12. OnlyTheCancelledStray'
  <2>1. UNCHANGED <<deinits, exit_thread_flag>> /\ cancelled \subseteq cancelled'
    BY <1>1, <1>3
  <2>2. ASSUME at'[Main] = "stray" PROVE deinits \/ exit_thread_flag
    <3>1. CASE at[Main] = "idle" /\ cb_thread /= Nobody /\ at[cb_thread] = "gone"
      <4>1. cb_thread \in cancelled \/ exit_thread_flag
        BY <1>2, <3>1 DEF IInv, CancelInv
      <4>2. cancelled /= {} => deinits
        BY <3>1 DEF IInv, CancelInv, Deiniting
      <4>3. QED
        BY <4>1, <4>2
    <3>2. CASE recv_thread /= Nobody /\ at[recv_thread] = "gone"
      BY <1>2, <3>2 DEF IInv, CancelInv
    <3>3. QED
      BY <1>1, <1>3, <2>2, <3>1, <3>2
  <2>3. \A t \in Workers : at'[t] = "stray" => t \in cancelled'
    BY <1>4, <2>1 DEF IInv, OnlyTheCancelledStray
  <2>4. QED
    BY <2>1, <2>2, <2>3 DEF OnlyTheCancelledStray
<1>13. \A q \in Queues : LockInvOf(q)'
  <2>1. at' = [at EXCEPT ![Main] = at'[Main]] /\ at'[Main] \in Places
    BY <1>1, <1>3, <1>4
  <2>2. QED
    BY <1>1, <1>4, <2>1, LocksUntouched DEF Go, memVars
<1>14. QED
  BY <1>5, <1>6, <1>7, <1>9, <1>10, <1>11, <1>12, <1>13, LockPartsNow DEF IInv

\* Queues are left as they are or destroyed, the select queue at the end.
Destroys ==
  /\ memory' \in [Queues -> {"none", "live", "freed"}] /\ inited' \in [Queues -> BOOLEAN]
  /\ \A q \in Queues : \/ memory'[q] = memory[q] /\ inited'[q] = inited[q]
                       \/ /\ memory[q] = "live" /\ memory'[q] = "freed" /\ ~inited'[q]
                          /\ q = "select" => deinits'

LEMMA DestroyStepKeeps ==
  ASSUME IInv, DestroyRecv \/ select_deinit
  PROVE  IInv'
<1> USE ThreadFacts, Bounds
<1>1. /\ UNCHANGED <<calls, event_, recv_thread, cb_thread, exit_thread_flag, raced, lockVars, on, cancelled>>
      /\ at \in [Threads -> Places]
  BY DEF DestroyRecv, select_deinit, IInv, ThreadTypes
<1>2. /\ recv_thread \in Workers \cup {Nobody} /\ cb_thread \in Workers \cup {Nobody}
      /\ cancelled \subseteq Workers
  BY DEF IInv, Pointers
<1>3. /\ at[Main] \in {"destroy", "select_deinit"} /\ Deiniting /\ event_
      /\ recv_thread = Nobody /\ cb_thread \in cancelled /\ queue /\ queue' = queue
  BY <1>2 DEF DestroyRecv, select_deinit, PointerAfter, Deiniting, IInv, PipeInv, CancelInv, StartInv
<1>4. \E place \in {"select_deinit", "idle", "stray"} : at' = [at EXCEPT ![Main] = place]
  BY DEF DestroyRecv, select_deinit, Go, After
<1>5. /\ \A t \in Workers : at'[t] = at[t]
      /\ at'[Main] \in {"select_deinit", "idle", "stray"}
      /\ at' \in [Threads -> Places]
  BY <1>1, <1>4 DEF Places
<1>6. deinits' \in BOOLEAN /\ (deinits => deinits') /\ (at'[Main] = "idle" => deinits')
      /\ (at'[Main] = "stray" => at[Main] = "stray" \/ memory["select"] = "freed")
  BY <1>1 DEF DestroyRecv, select_deinit, Go, After, IInv, Flags
\* The queue that is destroyed, if one is.
<1>7. Destroys
  <2>1. /\ memory \in [Queues -> {"none", "live", "freed"}] /\ inited \in [Queues -> BOOLEAN]
        /\ \A q \in Queues : inited[q] => memory[q] = "live"
    BY DEF IInv, QueueTypes, LockInv
  <2>2. CASE UNCHANGED <<memory, inited>>
    BY <2>1, <2>2 DEF Destroys
  <2>3. ASSUME NEW p \in Queues, queue_destory(p), p = "select" => deinits'
        PROVE  Destroys
    <3>1. /\ memory' = [memory EXCEPT ![p] = IF inited[p] THEN "freed" ELSE @]
          /\ inited' = [inited EXCEPT ![p] = FALSE]
      BY <2>3 DEF queue_destory
    <3>2. CASE inited[p]
      BY <2>1, <2>3, <3>1, <3>2 DEF Destroys
    <3>3. CASE ~inited[p]
      <4>1. inited' = inited /\ memory' = memory
        BY <2>1, <3>1, <3>3
      <4>2. QED
        BY <2>1, <4>1 DEF Destroys
    <3>4. QED
      BY <3>2, <3>3
  <2>4. CASE DestroyRecv
    BY <2>2, <2>3, <2>4 DEF DestroyRecv, Queues
  <2>5. CASE select_deinit
    BY <2>2, <2>3, <2>5 DEF select_deinit, Queues
  <2>6. QED
    BY <2>4, <2>5
<1>8. QueueTypes' /\ ThreadTypes'
  BY <1>1, <1>5, <1>7 DEF Destroys, IInv, QueueTypes, ThreadTypes, lockVars
\* The pipe is closed at the end, which is one more call.
<1>9. /\ conn_cnt' \in {0, 1}
      /\ \/ UNCHANGED fdVars /\ at'[Main] /= "idle"
         \/ DEINIT_THREAD_CMD /\ at'[Main] = "idle"
  BY <1>1 DEF DestroyRecv, select_deinit, Go, After, IInv, Counts
<1>10. closings \in Nat /\ calls \in Nat /\ closings + 1 <= calls /\ calls <= MaxCalls
  BY <1>3 DEF IInv, Counts, PipeInv
<1>11. Counts' /\ PipeInv'
  <2>1. CASE UNCHANGED fdVars /\ at'[Main] /= "idle"
    <3>1. UNCHANGED <<closings, pipe>>
      BY <2>1 DEF fdVars
    <3>2. PipeInv'
      BY <1>1, <1>3, <1>10, <3>1 DEF IInv, PipeInv, Deiniting
    <3>3. QED
      BY <1>1, <1>9, <3>1, <3>2 DEF IInv, Counts
  <2>2. CASE DEINIT_THREAD_CMD /\ at'[Main] = "idle"
    <3>1. closings' = closings + 1 /\ ~Deiniting'
      BY <2>2 DEF DEINIT_THREAD_CMD, Deiniting
    <3>2. PipeInv'
      BY <1>1, <1>10, <3>1 DEF PipeInv
    <3>3. QED
      BY <1>1, <1>9, <1>10, <3>1, <3>2 DEF IInv, Counts
  <2>3. QED
    BY <1>9, <2>1, <2>2
<1>12. StdinKept'
  <2>1. CASE UNCHANGED fdVars
    BY <2>1 DEF IInv, StdinKept, fdVars
  <2>2. CASE DEINIT_THREAD_CMD
    <3>1. closings' <= 1 => closings = 0
      BY <1>10, <2>2 DEF DEINIT_THREAD_CMD
    <3>2. closings = 0 => pipe /\ stdin
      BY <1>3 DEF IInv, PipeInv, StdinKept
    <3>3. QED
      BY <2>2, <3>1, <3>2 DEF DEINIT_THREAD_CMD, StdinKept
  <2>3. QED
    BY <1>9, <2>1, <2>2
<1>13. Flags' /\ Pointers'
  <2>1. pipe' \in BOOLEAN /\ stdin' \in BOOLEAN
    BY <1>9 DEF DEINIT_THREAD_CMD, fdVars, IInv, Flags
  <2>2. recv_queue' \in BOOLEAN
    BY DEF DestroyRecv, select_deinit, IInv, Flags
  <2>3. QED
    BY <1>1, <1>3, <1>6, <2>1, <2>2 DEF IInv, Flags, Pointers
<1>14. PlaceInv' /\ RoomInv'
  <2>1. on' = on /\ entries' = entries
    BY <1>1 DEF lockVars
  <2>2. PlaceInv'
    BY <1>5, <2>1 DEF IInv, PlaceInv, Inside
  <2>3. RoomInv'
    BY <1>5, <2>1 DEF IInv, RoomInv, Pushes
  <2>4. QED
    BY <2>2, <2>3
<1>15. \A t \in Workers : (Started(t)' <=> Started(t)) /\ (Started(t) => t \in cancelled)
  BY <1>2, <1>3, <1>5 DEF IInv, StartInv, Started
<1>16. StartInv'
  <2>1. \A q \in Queues : memory'[q] = "none" => memory[q] = "none"
    BY <1>7 DEF Destroys
  <2>2. "select" \in Queues /\ "recv" \in Queues
    BY DEF Queues
  <2>3. QED
    BY <1>1, <1>2, <1>3, <1>15, <2>1, <2>2 DEF IInv, StartInv
<1>17. CancelInv'
  <2>1. memory'["select"] = "freed" => deinits'
    BY <1>6, <1>7 DEF Destroys, IInv, CancelInv, Queues
  <2>2. at'[Main] = "idle" => deinits'
    BY <1>6
  <2>3. \A t \in Workers : at'[t] = "gone" => t \in cancelled'
    BY <1>1, <1>5, <1>15 DEF Started
  <2>4. QED
    BY <1>1, <1>2, <1>3, <1>5, <1>15, <2>1, <2>2, <2>3 DEF CancelInv, Deiniting
<1>18. OnlyTheCancelledStray'
  <2>1. at'[Main] = "stray" => deinits' \/ exit_thread_flag'
    BY <1>1, <1>3, <1>6 DEF IInv, CancelInv
  <2>2. \A t \in Workers : at'[t] = "stray" => t \in cancelled'
    BY <1>1, <1>5 DEF IInv, OnlyTheCancelledStray
  <2>3. QED
    BY <2>1, <2>2 DEF OnlyTheCancelledStray
<1>19. \A q \in Queues : LockInvOf(q)'
  <2> SUFFICES ASSUME NEW q \in Queues
               PROVE  LockInvOf(q)'
    OBVIOUS
  <2>1. CASE memory'[q] = memory[q] /\ inited'[q] = inited[q]
    <3>1. \E place \in Places \ {"initing", "lock", "wait", "work", "recvfrom"} : Go(Main, place)
      BY <1>4 DEF Go, Places
    <3>2. QED
      BY <1>1, <1>3, <2>1, <3>1, LocksUntouched
  <2>2. CASE memory'[q] = "freed" /\ ~inited'[q]
    BY <2>2 DEF LockInvOf
  <2>3. QED
    BY <1>7, <2>1, <2>2 DEF Destroys
<1>20. QED
  BY <1>8, <1>11, <1>12, <1>13, <1>14, <1>16, <1>17, <1>18, <1>19, LockPartsNow DEF IInv

-----------------------------------------------------------------------------
(* The theorems. *)

LEMMA StepKeeps == IInv /\ [Next]_vars => IInv'
<1> SUFFICES ASSUME IInv, [Next]_vars
             PROVE  IInv'
  OBVIOUS
<1>1. CASE event_add \/ event_stop \/ SetExitFlag \/ UNCHANGED vars
  BY <1>1, SimpleStepKeeps
<1>2. CASE event_init
  BY <1>2, InitStepKeeps
<1>3. CASE receive_deinit \/ udp_deinit
  BY <1>3, CancelStepKeeps
<1>4. CASE DestroyRecv \/ select_deinit
  BY <1>4, DestroyStepKeeps
<1>5. CASE \E t \in Threads : ThreadStep(t)
  BY <1>5, ThreadStepKeeps
<1>6. event_start \/ QueueStep(Main) => ThreadStep(Main)
  BY DEF ThreadStep
<1>7. \A t \in Workers : WorkerStep(t) \/ Recvfrom(t) => ThreadStep(t)
  BY DEF ThreadStep
<1>8. QED
  BY <1>1, <1>2, <1>3, <1>4, <1>5, <1>6, <1>7, ThreadFacts DEF Next, Deinit

LEMMA Invariant == Spec => []IInv
BY InitHolds, StepKeeps, PTL DEF Spec

\* All variables keep their types: a queue never holds more entries than it
\* has room for or fewer than none, although threads are cancelled inside it
\* and its mutex may have been initialised under them, for each side of it
\* has one thread (queue_push, queue_pop, event_init).
THEOREM LifecycleTypeCorrect == Spec => []LifeTypeOK
<1>1. IInv => LifeTypeOK
  BY TypeParts DEF IInv
<1>2. QED
  BY <1>1, Invariant, PTL

\* As long as no two first calls have met in queue_lock_init, which tests
\* "inited" without a lock, whoever is in a queue has its mutex and whoever
\* sleeps on it can be signalled, however the calls and cancellations fall.
THEOREM LocksWork == Spec => []LockWorks
<1>1. IInv => LockWorks
  BY DEF IInv
<1>2. QED
  BY <1>1, Invariant, PTL

\* The loop never has two threads of a kind, however often event_init and
\* event_deinit are called: select_init refuses while its queue is there, and
\* select_deinit leaves the pointer set.
THEOREM OneThreadOfEachKind == Spec => []OneThreadEach
<1>1. IInv => OneThreadEach
  <2> SUFFICES ASSUME IInv, NEW kind \in {"udp", "cb"}
               PROVE  Cardinality({n \in 1 .. MaxInits : at[<<kind, n>>] \notin {"none", "gone"}}) <= 1
    BY DEF OneThreadEach
  <2> DEFINE Living == {n \in 1 .. MaxInits : at[<<kind, n>>] \notin {"none", "gone"}}
  <2>1. \A n \in 1 .. MaxInits : <<kind, n>> \in Workers
    BY DEF Workers
  <2>2. \A m, n \in Living : m = n
    <3> SUFFICES ASSUME NEW m \in Living, NEW n \in Living
                 PROVE  m = n
      OBVIOUS
    <3>1. /\ <<kind, m>> \in Workers /\ <<kind, n>> \in Workers
          /\ Started(<<kind, m>>) /\ Started(<<kind, n>>)
      BY <2>1 DEF Started
    <3>2. <<kind, m>>[1] = <<kind, n>>[1]
      OBVIOUS
    <3>3. <<kind, m>> = <<kind, n>>
      BY <3>1, <3>2 DEF IInv, StartInv
    <3>4. QED
      BY <3>3
  <2>3. CASE Living = {}
    <3>1. Cardinality(Living) = 0
      BY <2>3, FS_EmptySet
    <3>2. QED
      BY <3>1
  <2>4. CASE Living /= {}
    <3>1. PICK m : Living = {m}
      BY <2>2, <2>4
    <3>2. Cardinality(Living) = 1
      BY <3>1, FS_Singleton
    <3>3. QED
      BY <3>2
  <2>5. QED
    BY <2>3, <2>4
<1>2. QED
  BY <1>1, Invariant, PTL

\* A worker that touches a destroyed queue has been cancelled by event_deinit
\* before; the main thread gets that far only after event_deinit, or when
\* exit_thread_flag has ended the threads it cancels (receive_deinit,
\* udp_deinit, queue_destory).
THEOREM StraysWereCancelled == Spec => []OnlyTheCancelledStray
<1>1. IInv => OnlyTheCancelledStray
  BY DEF IInv
<1>2. QED
  BY <1>1, Invariant, PTL

\* Whatever fails in event_init, one call of event_stop or event_deinit does
\* not close standard input: the pipe is there before anything can fail, and
\* stays until it is closed (select_init, DEINIT_THREAD_CMD).
THEOREM StandardInputKept == Spec => []StdinKept
<1>1. IInv => StdinKept
  BY DEF IInv
<1>2. QED
  BY <1>1, Invariant, PTL
=============================================================================
