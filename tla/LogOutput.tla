----------------------------- MODULE LogOutput -----------------------------
(***************************************************************************)
(* How log.c gets messages out: log_log is called by every thread of the   *)
(* program, prints to stderr and calls the callbacks one after the other,  *)
(* between two calls of a function the program may have set as the lock.   *)
(* That function locks a mutex if it gets its own user data, and does      *)
(* nothing otherwise. What is printed is in LogConfig; here it is what     *)
(* reaches the threshold.                                                  *)
(*                                                                         *)
(* Only log_log asks for the lock. log_add_callback and log_set_lock run   *)
(* beside it and beside each other, so every access to the table and to    *)
(* the lock is a step of its own, and the three words of an entry are      *)
(* stored in any order.                                                    *)
(***************************************************************************)
EXTENDS Integers, Sequences

CONSTANTS
  Writers,       \* threads that log and add callbacks
  Sinks,         \* callbacks: a function and its user data
  OutLevels,     \* levels of messages and callbacks
  Threshold,     \* L.level
  MaxCallbacks,  \* MAX_CALLBACKS (32)
  MaxCalls       \* bound on the calls of a behaviour

ASSUME OutputAssumption ==
  /\ "none" \notin Sinks /\ 0 \notin Writers
  /\ OutLevels \subseteq Nat /\ Threshold \in Nat
  /\ MaxCalls \in Nat /\ MaxCallbacks \in Nat \ {0}

VARIABLES
  said,       \* the messages so far: their levels, and who had to be told
  thread,     \* thread[w]: how far a thread is in log_log or log_add_callback
  callbacks,  \* L.callbacks
  locking,    \* L.lock is set
  lockData,   \* L.udata is the lock's own
  setting,    \* log_set_lock has stored the first of the two
  holder,     \* who has locked the mutex, or 0
  out,        \* out[i]: the calls through the i-th entry; out[0]: stderr
  bare,       \* history: log_log was entered without a lock
  calls,      \* how many there have been
  switched,   \* history: the lock was being set while somebody was in log_log
  met         \* history: two threads were in log_add_callback at once

outputVars ==
  <<said, thread, callbacks, locking, lockData, setting, holder, out, calls, bare, switched, met>>

Slots  == 1 .. MaxCallbacks
Places == 0 .. MaxCallbacks
Fields == {"fn", "udata", "level"}   \* of a Callback

Empty == [fn |-> "none", udata |-> "none", level |-> 0]
Idle  == [at |-> "idle", message |-> 0, slot |-> 0, data |-> "none", level |-> 0, todo |-> {}]

OutputInit ==
  /\ said = <<>>
  /\ thread = [w \in Writers |-> Idle]
  /\ callbacks = [i \in Slots |-> Empty]
  /\ locking = FALSE /\ lockData = FALSE /\ setting = FALSE /\ holder = 0
  /\ out = [i \in Places |-> <<>>]
  /\ calls = 0
  /\ bare = FALSE /\ switched = FALSE /\ met = FALSE

Adds(w)  == thread[w].at \in {"search", "store"}
InLog(w) == thread[w].message /= 0

Goes(w, r) == thread' = [thread EXCEPT ![w] = r]
Called == calls < MaxCalls /\ calls' = calls + 1

-----------------------------------------------------------------------------
(* log_set_lock, which the program calls from one thread at a time. *)

Switches == switched' = (switched \/ \E w \in Writers : InLog(w))

SetLock(b) ==
  /\ ~setting /\ Called
  /\ locking' = b /\ setting' = TRUE
  /\ Switches
  /\ UNCHANGED <<said, thread, callbacks, lockData, holder, out, bare, met>>

SetLockData ==
  /\ setting
  /\ lockData' = locking /\ setting' = FALSE
  /\ Switches
  /\ UNCHANGED <<said, thread, callbacks, locking, holder, out, calls, bare, met>>

-----------------------------------------------------------------------------
(* log_add_callback, by the thread w for the callback s. *)

AddBegins(w, s, l) ==
  /\ thread[w] = Idle /\ Called
  /\ Goes(w, [Idle EXCEPT !.at = "search", !.slot = 1, !.data = s, !.level = l, !.todo = Fields])
  /\ met' = (met \/ \E v \in Writers : Adds(v))
  /\ UNCHANGED <<said, callbacks, locking, lockData, setting, holder, out, bare, switched>>

\* The first entry without a function; if there is none the callback is refused.
AddSearch(w) ==
  LET me == thread[w] IN
  /\ me.at = "search"
  /\ \/ me.slot \notin Slots /\ Goes(w, Idle)
     \/ me.slot \in Slots /\ callbacks[me.slot].fn = "none" /\ Goes(w, [me EXCEPT !.at = "store"])
     \/ me.slot \in Slots /\ callbacks[me.slot].fn /= "none" /\ Goes(w, [me EXCEPT !.slot = @ + 1])
  /\ UNCHANGED <<said, callbacks, locking, lockData, setting, holder, out, calls, bare, switched, met>>

\* One word of the entry; after the third the call returns.
AddStore(w, field) ==
  LET me == thread[w] IN
  /\ me.at = "store" /\ field \in me.todo
  /\ callbacks' = [callbacks EXCEPT ![me.slot][field] = IF field = "level" THEN me.level ELSE me.data]
  /\ Goes(w, IF me.todo = {field} THEN Idle ELSE [me EXCEPT !.todo = @ \ {field}])
  /\ UNCHANGED <<said, locking, lockData, setting, holder, out, calls, bare, switched, met>>

-----------------------------------------------------------------------------
(* log_log, by the thread w. *)

\* The entry has been added: nobody is storing it any more.
Added(i) ==
  callbacks[i].fn /= "none" /\ \A v \in Writers : thread[v].at = "store" => thread[v].slot /= i

\* The call, up to the test of L.lock. Who had to be told are the callbacks
\* whose log_add_callback has returned.
Enter(w, l) ==
  /\ thread[w] = Idle /\ Called
  /\ said' = Append(said, [level |-> l,
                           told  |-> {[slot |-> i, sink |-> callbacks[i].fn] :
                                        i \in {j \in Slots : Added(j) /\ callbacks[j].level <= l}}])
  /\ Goes(w, [Idle EXCEPT !.at = IF locking THEN "lock" ELSE "stderr", !.message = Len(said) + 1])
  /\ bare' = (bare \/ ~locking)
  /\ switched' = (switched \/ setting)
  /\ UNCHANGED <<callbacks, locking, lockData, setting, holder, out, met>>

\* lock(): the user data is read, and the function waits for the mutex if it
\* is its own.
ReadLockData(w) ==
  /\ thread[w].at = "lock"
  /\ Goes(w, [thread[w] EXCEPT !.at = IF lockData THEN "wait" ELSE "stderr"])
  /\ UNCHANGED <<said, callbacks, locking, lockData, setting, holder, out, calls, bare, switched, met>>

\* Mutant: nobody waits for the lock.
NotWaiting == TRUE

Free == holder = 0

Acquire(w) ==
  /\ thread[w].at = "wait" /\ Free
  /\ holder' = w
  /\ Goes(w, [thread[w] EXCEPT !.at = "stderr"])
  /\ UNCHANGED <<said, callbacks, locking, lockData, setting, out, calls, bare, switched, met>>

Level(w) == said[thread[w].message].level

Told(i, call) == out' = [out EXCEPT ![i] = Append(@, call)]

\* The message is printed before the callbacks are called.
ToStderr(w) ==
  LET me == thread[w] IN
  /\ me.at = "stderr"
  /\ IF Level(w) >= Threshold
     THEN Told(0, [message |-> me.message, fn |-> "none", udata |-> "none"])
     ELSE UNCHANGED out
  /\ Goes(w, [me EXCEPT !.at = "test", !.slot = 1])
  /\ UNCHANGED <<said, callbacks, locking, lockData, setting, holder, calls, bare, switched, met>>

\* The test of the loop.
Test(w) ==
  LET me == thread[w] IN
  /\ me.at = "test"
  /\ \/ me.slot \in Slots /\ callbacks[me.slot].fn /= "none" /\ Goes(w, [me EXCEPT !.at = "level"])
     \/ me.slot \in Slots /\ callbacks[me.slot].fn = "none" /\ Goes(w, [me EXCEPT !.at = "unlock"])
     \/ me.slot \notin Slots /\ Goes(w, [me EXCEPT !.at = "unlock"])
  /\ UNCHANGED <<said, callbacks, locking, lockData, setting, holder, out, calls, bare, switched, met>>

\* Mutant: a callback the message does not reach ends the loop.
PassedEnds(me) == [me EXCEPT !.at = "unlock"]

Passed(me) == [me EXCEPT !.at = "test", !.slot = @ + 1, !.data = "none"]

ReadLevel(w) ==
  LET me == thread[w] IN
  /\ me.at = "level"
  /\ Goes(w, IF Level(w) >= callbacks[me.slot].level THEN [me EXCEPT !.at = "udata"] ELSE Passed(me))
  /\ UNCHANGED <<said, callbacks, locking, lockData, setting, holder, out, calls, bare, switched, met>>

\* init_event
ReadData(w) ==
  LET me == thread[w] IN
  /\ me.at = "udata"
  /\ Goes(w, [me EXCEPT !.at = "call", !.data = callbacks[me.slot].udata])
  /\ UNCHANGED <<said, callbacks, locking, lockData, setting, holder, out, calls, bare, switched, met>>

CallBack(w) ==
  LET me == thread[w] IN
  /\ me.at = "call"
  /\ Told(me.slot, [message |-> me.message, fn |-> callbacks[me.slot].fn, udata |-> me.data])
  /\ Goes(w, [me EXCEPT !.at = "test", !.slot = @ + 1, !.data = "none"])
  /\ UNCHANGED <<said, callbacks, locking, lockData, setting, holder, calls, bare, switched, met>>

\* unlock(): L.lock is looked at again,
Leave(w) ==
  /\ thread[w].at = "unlock"
  /\ Goes(w, IF locking THEN [thread[w] EXCEPT !.at = "release"] ELSE Idle)
  /\ UNCHANGED <<said, callbacks, locking, lockData, setting, holder, out, calls, bare, switched, met>>

\* and with its own user data the function unlocks the mutex, whoever holds it.
Release(w) ==
  /\ thread[w].at = "release"
  /\ holder' = IF lockData THEN 0 ELSE holder
  /\ Goes(w, Idle)
  /\ UNCHANGED <<said, callbacks, locking, lockData, setting, out, calls, bare, switched, met>>

OutputNext ==
  \/ \E b \in BOOLEAN : SetLock(b)
  \/ SetLockData
  \/ \E w \in Writers :
       \/ \E s \in Sinks, l \in OutLevels : AddBegins(w, s, l)
       \/ AddSearch(w)
       \/ \E field \in Fields : AddStore(w, field)
       \/ \E l \in OutLevels : Enter(w, l)
       \/ ReadLockData(w) \/ Acquire(w) \/ ToStderr(w) \/ Test(w) \/ ReadLevel(w) \/ ReadData(w)
       \/ CallBack(w) \/ Leave(w) \/ Release(w)

OutputSpec == OutputInit /\ [][OutputNext]_outputVars

-----------------------------------------------------------------------------
(* Properties. *)

Before(q, m, n) == \E j, k \in DOMAIN q : j < k /\ q[j].message = m /\ q[k].message = n

\* With a lock that is set before the first message and left alone while
\* anybody logs, stderr and all entries of the table are given the messages in
\* one and the same order, whatever is added to the table meanwhile (log_log).
SameOrder ==
  ~bare /\ ~switched =>
    \A i, j \in Places : \A m, n \in DOMAIN said : ~(Before(out[i], m, n) /\ Before(out[j], n, m))

\* No entry is given a message twice. And if no two calls of log_add_callback
\* ever overlap, a message that log_log is done with has been given, with its
\* own user data, to every callback whose log_add_callback had returned when
\* log_log was called and whose level it reaches, with a lock or without one
\* and whatever others are being added to the table meanwhile. (Nothing is
\* claimed about a callback that is being added: log_log may find its function
\* before its level and user data. Two that are added at once may take the same
\* entry.)
EveryCallbackTold ==
  /\ \A i \in Places : \A j, k \in DOMAIN out[i] : out[i][j].message = out[i][k].message => j = k
  /\ ~met =>
       \A m \in DOMAIN said : (\A w \in Writers : thread[w].message /= m) =>
         \A t \in said[m].told : \E k \in DOMAIN out[t.slot] :
           out[t.slot][k] = [message |-> m, fn |-> t.sink, udata |-> t.sink]
=============================================================================
