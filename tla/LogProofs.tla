----------------------------- MODULE LogProofs -----------------------------
(***************************************************************************)
(* Theorems about the log, for any number of threads, callbacks, names,    *)
(* filters and messages: what reaches the callbacks and in which order     *)
(* (LogOutput), and what the filters let through to stderr (LogConfig).    *)
(***************************************************************************)
EXTENDS LogOutput, LogConfig, NatSets, SequenceTheorems, TLAPS

InLogAts == {"lock", "wait", "stderr", "test", "level", "udata", "call", "unlock", "release"}
AddAts   == {"search", "store"}
NoSinks  == Sinks \cup {"none"}

Messages == [level : OutLevels, told : SUBSET [slot : Slots, sink : Sinks]]
Entries  == [fn : NoSinks, udata : NoSinks, level : Nat]
Threads  == [at : InLogAts \cup AddAts \cup {"idle"}, message : Nat, slot : Nat, data : NoSinks,
             level : Nat, todo : SUBSET Fields]
Calls    == [message : Nat, fn : NoSinks, udata : NoSinks]

OutputTypes ==
  /\ said \in Seq(Messages) /\ callbacks \in [Slots -> Entries]
  /\ thread \in [Writers -> Threads]
  /\ out \in [Places -> Seq(Calls)]
  /\ calls \in Nat

FlagTypes ==
  /\ locking \in BOOLEAN /\ lockData \in BOOLEAN /\ setting \in BOOLEAN
  /\ bare \in BOOLEAN /\ switched \in BOOLEAN /\ met \in BOOLEAN
  /\ holder \in Writers \cup {0}

\* A thread in log_log has a message of its own, and looks at entries there are.
Shape(r) ==
  /\ r.message /= 0 <=> r.at \in InLogAts
  /\ r.at \in {"level", "udata", "call", "store"} => r.slot \in Slots
  /\ r.at \in {"test", "search"} => r.slot >= 1
  /\ r.at \in AddAts => r.data \in Sinks
  /\ r.at = "search" => r.todo = Fields

ThreadInv ==
  \A w \in Writers :
    /\ Shape(thread[w]) /\ thread[w].message <= Len(said)
    /\ \A v \in Writers : InLog(w) /\ thread[v].message = thread[w].message => v = w

Given(i, m) == \E k \in 1 .. Len(out[i]) : out[i][k].message = m

\* The thread has been at the i-th entry, or past it.
Past(me, i) ==
  /\ me.at \notin {"lock", "wait", "stderr"}
  /\ i = 0 \/ i < me.slot \/ me.at \in {"unlock", "release"}

OnceInv ==
  \A i \in Places :
    /\ \A k \in 1 .. Len(out[i]) : out[i][k].message \in 1 .. Len(said)
    /\ \A j, k \in 1 .. Len(out[i]) : out[i][j].message = out[i][k].message => j = k
    /\ \A w \in Writers : InLog(w) /\ Given(i, thread[w].message) => Past(thread[w], i)

\* An entry that has been added, with function and user data of one callback.
Full(i) == Added(i) /\ callbacks[i].udata = callbacks[i].fn

\* As long as no two calls of log_add_callback have met: one at most is under
\* way, the entries in front of it are full, and all that were added are.
OneAdder == \A v, w \in Writers : Adds(v) /\ Adds(w) => v = w

AddedInOrder ==
  /\ \A i \in Slots : Added(i) => Full(i)
  /\ \A i, j \in Slots : i <= j /\ Full(j) => Full(i)
  /\ \A w \in Writers : \A i \in Slots : Adds(w) /\ i < thread[w].slot => Full(i)

Stored(w) ==
  LET me == thread[w] IN
  me.at = "store" => /\ "fn" \notin me.todo => callbacks[me.slot].fn = me.data
                     /\ "udata" \notin me.todo => callbacks[me.slot].udata = me.data

TableInv == ~met => OneAdder /\ AddedInOrder /\ \A w \in Writers : Stored(w)

\* What has to be told is told, or the thread that has the message is in front
\* of it.
Came(t, m) ==
  \E k \in 1 .. Len(out[t.slot]) : out[t.slot][k] = [message |-> m, fn |-> t.sink, udata |-> t.sink]

Ahead(me, m, t) ==
  /\ me.message = m
  /\ \/ me.at \in {"lock", "wait", "stderr"}
     \/ me.at \in {"test", "level", "udata"} /\ me.slot <= t.slot
     \/ me.at = "call" /\ me.slot <= t.slot /\ (me.slot = t.slot => me.data = t.sink)

Kept(m, t) == Full(t.slot) /\ callbacks[t.slot].fn = t.sink /\ callbacks[t.slot].level <= said[m].level

ToldInv ==
  ~met => \A m \in 1 .. Len(said) : \A t \in said[m].told :
            Kept(m, t) /\ (Came(t, m) \/ \E w \in Writers : Ahead(thread[w], m, t))

\* The lock was set before the first message, and left alone while anybody
\* logged.
Orderly == ~bare /\ ~switched

\* One thread at a time is past the lock, and what it has given is the last;
\* two places never got two messages in different orders.
LastAt(w, i) == \A k \in 1 .. Len(out[i]) : out[i][k].message = thread[w].message => k = Len(out[i])

OrderInv ==
  /\ ~setting => (lockData <=> locking)
  /\ Orderly =>
       /\ \A w \in Writers : InLog(w) =>
            /\ locking /\ ~setting
            /\ thread[w].at \notin {"lock", "wait"} => holder = w
            /\ \A i \in Places : LastAt(w, i)
       /\ \A i, j \in Places : \A m, n : ~(Before(out[i], m, n) /\ Before(out[j], n, m))

OutputInv == OutputTypes /\ FlagTypes /\ ThreadInv /\ OnceInv /\ TableInv /\ ToldInv

LEMMA OutputInvInit == OutputInit => OutputInv
<1> SUFFICES ASSUME OutputInit
             PROVE  OutputInv
  OBVIOUS
<1>1. /\ said = <<>> /\ calls = 0 /\ holder = 0 /\ callbacks = [i \in Slots |-> Empty]
      /\ \A w \in Writers : thread[w] = Idle
      /\ \A i \in Places : out[i] = <<>> /\ Len(out[i]) = 0
  BY DEF OutputInit
<1>2. Idle \in Threads /\ Shape(Idle) /\ Idle.message = 0 /\ Idle.at = "idle"
  BY DEF Idle, Threads, NoSinks, Shape, InLogAts, AddAts
<1>3. \A i \in Slots : callbacks[i].fn = "none"
  BY <1>1 DEF Empty
<1>4. OutputTypes
  <2>1. callbacks \in [Slots -> Entries]
    BY <1>1 DEF Empty, Entries, NoSinks
  <2>2. thread \in [Writers -> Threads] /\ out \in [Places -> Seq(Calls)] /\ said \in Seq(Messages)
    BY <1>2 DEF OutputInit
  <2>3. QED
    BY <1>1, <2>1, <2>2 DEF OutputTypes
<1>5. ThreadInv
  <2>1. Len(said) = 0
    BY <1>1
  <2>2. ASSUME NEW w \in Writers
        PROVE  ~InLog(w) /\ Shape(thread[w]) /\ thread[w].message <= Len(said)
    <3>1. thread[w] = Idle
      BY <1>1
    <3>2. Shape(thread[w]) /\ thread[w].message = 0
      BY <1>2, <3>1, Zenon
    <3>3. QED
      BY <2>1, <3>2 DEF InLog
  <2>3. QED
    BY <2>2 DEF ThreadInv
<1>6. OnceInv
  BY <1>1, <1>2 DEF OnceInv, InLog, Given
<1>7. TableInv
  BY <1>1, <1>2, <1>3 DEF TableInv, OneAdder, AddedInOrder, Stored, Adds, Full, Added
<1>8. ToldInv
  BY <1>1 DEF ToldInv
<1>9. FlagTypes
  BY DEF OutputInit, FlagTypes
<1>10. QED
  BY <1>4, <1>5, <1>6, <1>7, <1>8, <1>9 DEF OutputInv

\* One thread goes on, the others stay.
LEMMA Updated ==
  ASSUME OutputTypes, NEW w \in Writers, NEW r \in Threads, Goes(w, r)
  PROVE  /\ thread' \in [Writers -> Threads] /\ thread'[w] = r
         /\ \A v \in Writers \ {w} : thread'[v] = thread[v]
BY DEF Goes, OutputTypes

LEMMA ThreadFields ==
  ASSUME OutputTypes, NEW w \in Writers
  PROVE  LET me == thread[w]
         IN /\ me \in Threads /\ me.message \in Nat /\ me.slot \in Nat /\ me.level \in Nat
            /\ me.data \in NoSinks /\ me.todo \in SUBSET Fields
            /\ me.at \in InLogAts \cup AddAts \cup {"idle"}
BY DEF OutputTypes, Threads

LEMMA ThreadKeeps ==
  ASSUME OutputInv, NEW w \in Writers, NEW r \in Threads, Goes(w, r), UNCHANGED said, Shape(r),
         r.message \in {0, thread[w].message}
  PROVE  ThreadInv'
<1>1. /\ thread'[w] = r /\ \A v \in Writers \ {w} : thread'[v] = thread[v]
  BY Updated DEF OutputInv
<1>2. \A v \in Writers : thread'[v].message \in {0, thread[v].message} /\ Shape(thread'[v])
  BY <1>1 DEF OutputInv, ThreadInv
<1>3. \A v \in Writers : thread'[v].message <= Len(said')
  <2>1. \A v \in Writers : thread[v].message <= Len(said) /\ Len(said) \in Nat
    BY DEF OutputInv, ThreadInv, OutputTypes
  <2>2. QED
    BY <1>2, <2>1
<1>4. ASSUME NEW u \in Writers, NEW v \in Writers, InLog(u)', thread'[v].message = thread'[u].message
      PROVE  v = u
  <2>1. thread[u].message /= 0 /\ thread[v].message = thread[u].message
    BY <1>2, <1>4 DEF InLog
  <2>2. QED
    BY <2>1 DEF OutputInv, ThreadInv, InLog
<1>5. QED
  BY <1>2, <1>3, <1>4 DEF ThreadInv

\* The table as long as nobody adds to it.
LEMMA TableKeeps ==
  ASSUME OutputInv, NEW w \in Writers, NEW r \in Threads, Goes(w, r), UNCHANGED <<callbacks, met>>,
         ~Adds(w), r.at \notin AddAts
  PROVE  TableInv' /\ \A i : Full(i)' <=> Full(i)
<1>1. /\ thread'[w] = r /\ \A v \in Writers \ {w} : thread'[v] = thread[v]
  BY Updated DEF OutputInv
<1>2. \A v \in Writers : /\ Adds(v)' <=> Adds(v)
                         /\ thread'[v].at = "store" <=> thread[v].at = "store"
                         /\ Adds(v) => thread'[v] = thread[v]
  BY <1>1 DEF Adds, AddAts
<1>3. \A v \in Writers : thread[v].at = "store" => Adds(v)
  BY DEF Adds
<1>4. \A i : (Full(i)' <=> Full(i)) /\ (Added(i)' <=> Added(i))
  BY <1>2, <1>3 DEF Full, Added
<1>5. ASSUME ~met
      PROVE  OneAdder' /\ AddedInOrder' /\ \A v \in Writers : Stored(v)'
  <2>1. OneAdder /\ AddedInOrder /\ \A v \in Writers : Stored(v)
    BY <1>5 DEF OutputInv, TableInv
  <2>2. OneAdder'
    BY <1>2, <2>1 DEF OneAdder
  <2>3. AddedInOrder'
    BY <1>2, <1>4, <2>1 DEF AddedInOrder
  <2>4. \A v \in Writers : Stored(v)'
    BY <1>2, <1>3, <2>1 DEF Stored
  <2>5. QED
    BY <2>2, <2>3, <2>4
<1>6. QED
  BY <1>4, <1>5 DEF TableInv

\* A message is given to a place where its thread has not been.
LEMMA OnceGiven ==
  ASSUME OutputInv, NEW w \in Writers, NEW r \in Threads, Goes(w, r), UNCHANGED said, InLog(w),
         r.message = thread[w].message, \A j \in Places : Past(thread[w], j) => Past(r, j),
         NEW i \in Places, NEW c \in Calls, c.message = thread[w].message, Told(i, c),
         ~Past(thread[w], i), Past(r, i)
  PROVE  /\ out' \in [Places -> Seq(Calls)] /\ OnceInv'
         /\ Len(out'[i]) = Len(out[i]) + 1 /\ out'[i][Len(out'[i])] = c /\ Len(out[i]) \in Nat
         /\ \A k \in 1 .. Len(out[i]) : out'[i][k] = out[i][k]
         /\ \A j \in Places \ {i} : out'[j] = out[j]
<1>1. out \in [Places -> Seq(Calls)] /\ out[i] \in Seq(Calls) /\ Len(out[i]) \in Nat
  BY DEF OutputInv, OutputTypes
<1>2. out'[i] = Append(out[i], c) /\ \A j \in Places \ {i} : out'[j] = out[j]
  BY <1>1 DEF Told
<1>3. /\ out'[i] \in Seq(Calls) /\ Len(out'[i]) = Len(out[i]) + 1
      /\ \A k \in 1 .. Len(out[i]) : out'[i][k] = out[i][k]
      /\ out'[i][Len(out[i]) + 1] = c
  BY <1>1, <1>2, AppendProperties
<1>4. out' \in [Places -> Seq(Calls)]
  BY <1>1, <1>3 DEF Told
<1>5. /\ thread'[w] = r /\ \A v \in Writers \ {w} : thread'[v] = thread[v]
      /\ \A v \in Writers : thread'[v].message = thread[v].message
      /\ \A v \in Writers : \A j \in Places : Past(thread[v], j) => Past(thread'[v], j)
  <2>1. /\ thread'[w] = r /\ \A v \in Writers \ {w} : thread'[v] = thread[v]
    BY Updated DEF OutputInv
  <2>2. QED
    BY <2>1
<1>6. /\ \A k \in 1 .. Len(out[i]) : out[i][k].message /= c.message
      /\ c.message \in 1 .. Len(said)
  <2>1. ~Given(i, thread[w].message)
    BY DEF OutputInv, OnceInv
  <2>2. thread[w].message \in Nat /\ Len(said) \in Nat
    BY ThreadFields DEF OutputInv, OutputTypes
  <2>3. thread[w].message /= 0 /\ thread[w].message <= Len(said)
    BY DEF OutputInv, ThreadInv, InLog
  <2>4. QED
    BY <2>1, <2>2, <2>3 DEF Given
<1>7. ASSUME NEW j \in Places
      PROVE  /\ \A k \in 1 .. Len(out'[j]) : out'[j][k].message \in 1 .. Len(said')
             /\ \A h, k \in 1 .. Len(out'[j]) : out'[j][h].message = out'[j][k].message => h = k
             /\ \A v \in Writers : InLog(v)' /\ Given(j, thread[v].message)' => Past(thread'[v], j)
  <2>1. /\ \A k \in 1 .. Len(out[j]) : out[j][k].message \in 1 .. Len(said)
        /\ \A h, k \in 1 .. Len(out[j]) : out[j][h].message = out[j][k].message => h = k
        /\ \A v \in Writers : InLog(v) /\ Given(j, thread[v].message) => Past(thread[v], j)
    BY DEF OutputInv, OnceInv
  <2>2. CASE j /= i
    <3>1. out'[j] = out[j]
      BY <1>2, <2>2
    <3>2. ASSUME NEW v \in Writers, InLog(v)', Given(j, thread[v].message)'
          PROVE  Past(thread'[v], j)
      <4>1. InLog(v) /\ Given(j, thread[v].message)
        BY <1>5, <3>1, <3>2 DEF InLog, Given
      <4>2. QED
        BY <1>5, <2>1, <4>1
    <3>3. QED
      BY <2>1, <3>1, <3>2
  <2>3. CASE j = i
    <3>1. \A k \in 1 .. Len(out'[i]) :
            \/ k \in 1 .. Len(out[i]) /\ out'[i][k] = out[i][k]
            \/ k = Len(out[i]) + 1 /\ out'[i][k] = c
      BY <1>1, <1>3
    <3>2. \A k \in 1 .. Len(out'[i]) : out'[i][k].message \in 1 .. Len(said')
      BY <1>6, <2>1, <2>3, <3>1
    <3>3. ASSUME NEW h \in 1 .. Len(out'[i]), NEW k \in 1 .. Len(out'[i]),
                 out'[i][h].message = out'[i][k].message
          PROVE  h = k
      <4>1. CASE h \in 1 .. Len(out[i]) /\ k \in 1 .. Len(out[i])
        <5>1. out[i][h].message = out[i][k].message
          BY <1>3, <3>3, <4>1
        <5>2. QED
          BY <2>1, <2>3, <4>1, <5>1
      <4>2. CASE ~(h \in 1 .. Len(out[i]) /\ k \in 1 .. Len(out[i]))
        <5>1. \A x \in 1 .. Len(out[i]) : out[i][x].message /= c.message
          BY <1>6
        <5>2. QED
          BY <3>1, <3>3, <4>2, <5>1
      <4>3. QED
        BY <4>1, <4>2
    <3>4. ASSUME NEW v \in Writers, InLog(v)', Given(i, thread[v].message)'
          PROVE  Past(thread'[v], i)
      <4>1. InLog(v) /\ \E k \in 1 .. Len(out'[i]) : out'[i][k].message = thread[v].message
        BY <1>5, <3>4 DEF InLog, Given
      <4>2. CASE v = w
        BY <1>5, <4>2
      <4>3. CASE v /= w
        <5>1. thread[v].message /= c.message
          BY <4>1, <4>3 DEF OutputInv, ThreadInv
        <5>2. Given(i, thread[v].message)
          BY <3>1, <4>1, <5>1 DEF Given
        <5>3. Past(thread[v], i)
          BY <2>1, <2>3, <4>1, <5>2
        <5>4. QED
          BY <1>5, <5>3
      <4>4. QED
        BY <4>2, <4>3
    <3>5. QED
      BY <2>3, <3>2, <3>3, <3>4
  <2>4. QED
    BY <2>2, <2>3
<1>8. OnceInv'
  BY <1>7 DEF OnceInv
<1>9. QED
  BY <1>1, <1>2, <1>3, <1>4, <1>8

\* Nothing is given.
LEMMA OncePassed ==
  ASSUME OutputInv, NEW w \in Writers, NEW r \in Threads, Goes(w, r), UNCHANGED <<said, out>>,
         r.message \in {0, thread[w].message}, 
         r.message /= 0 => \A j \in Places : Past(thread[w], j) => Past(r, j)
  PROVE  OnceInv'
<1>1. /\ thread'[w] = r /\ \A v \in Writers \ {w} : thread'[v] = thread[v]
  BY Updated DEF OutputInv
<1>2. ASSUME NEW i \in Places, NEW v \in Writers, InLog(v)', Given(i, thread[v].message)'
      PROVE  Past(thread'[v], i)
  <2>1. InLog(v) /\ thread'[v].message = thread[v].message
    BY <1>1, <1>2 DEF InLog
  <2>2. Given(i, thread[v].message)
    BY <1>2, <2>1 DEF Given
  <2>3. Past(thread[v], i)
    BY <2>1, <2>2 DEF OutputInv, OnceInv
  <2>4. CASE v = w
    BY <1>1, <1>2, <2>3, <2>4 DEF InLog
  <2>5. CASE v /= w
    BY <1>1, <2>3, <2>5
  <2>6. QED
    BY <2>4, <2>5
<1>3. QED
  BY <1>2 DEF OutputInv, OnceInv

\* What the thread does for those it still has to tell.
LEMMA ToldKeeps ==
  ASSUME OutputInv, NEW w \in Writers, NEW r \in Threads, Goes(w, r), UNCHANGED said, ~met' => ~met,
         \A m \in 1 .. Len(said) : \A t \in said[m].told :
           /\ Came(t, m) => Came(t, m)'
           /\ ~met /\ Kept(m, t) => Kept(m, t)' /\ (Ahead(thread[w], m, t) => Ahead(r, m, t) \/ Came(t, m)')
  PROVE  ToldInv'
<1>1. /\ thread'[w] = r /\ \A v \in Writers \ {w} : thread'[v] = thread[v]
  BY Updated DEF OutputInv
<1>2. ASSUME ~met', NEW m \in 1 .. Len(said), NEW t \in said[m].told
      PROVE  Kept(m, t)' /\ (Came(t, m)' \/ \E v \in Writers : Ahead(thread'[v], m, t))
  <2>1. Kept(m, t) /\ (Came(t, m) \/ \E v \in Writers : Ahead(thread[v], m, t))
    BY <1>2 DEF OutputInv, ToldInv
  <2>2. Kept(m, t)' /\ (Ahead(thread[w], m, t) => Ahead(r, m, t) \/ Came(t, m)')
    BY <1>2, <2>1
  <2>3. CASE Came(t, m)
    BY <2>2, <2>3
  <2>4. ASSUME NEW v \in Writers, Ahead(thread[v], m, t)
        PROVE  Came(t, m)' \/ \E u \in Writers : Ahead(thread'[u], m, t)
    <3>1. CASE v = w
      BY <1>1, <2>2, <2>4, <3>1
    <3>2. CASE v /= w
      BY <1>1, <2>4, <3>2
    <3>3. QED
      BY <3>1, <3>2
  <2>5. QED
    BY <2>1, <2>2, <2>3, <2>4
<1>3. QED
  BY <1>2 DEF ToldInv

LEMMA SaidTyped ==
  ASSUME OutputInv, NEW m \in 1 .. Len(said)
  PROVE  /\ said[m].level \in Nat
         /\ \A t \in said[m].told : t.slot \in Slots /\ t.slot \in Places /\ t.slot \in Nat /\ t.sink \in Sinks
<1>1. said[m] \in Messages
  BY ElementOfSeq DEF OutputInv, OutputTypes
<1>2. Slots \subseteq Places /\ Slots \subseteq Nat /\ OutLevels \subseteq Nat
  BY OutputAssumption DEF Slots, Places
<1>3. QED
  BY <1>1, <1>2 DEF Messages

LEMMA EntriesTyped ==
  ASSUME OutputInv, NEW i \in Slots
  PROVE  callbacks[i].fn \in NoSinks /\ callbacks[i].udata \in NoSinks /\ callbacks[i].level \in Nat
BY DEF OutputInv, OutputTypes, Entries

\* The flags, the lock and the number of calls.
LEMMA FlagsKeep ==
  ASSUME OutputInv, OutputNext
  PROVE  FlagTypes' /\ calls' \in Nat /\ (~met' => ~met)
<1>1. FlagTypes /\ calls \in Nat
  BY DEF OutputInv, OutputTypes
<1>2. ASSUME NEW b \in BOOLEAN, SetLock(b)
      PROVE  FlagTypes' /\ calls' \in Nat /\ (~met' => ~met)
  BY <1>1, <1>2 DEF FlagTypes, SetLock, Called, Switches
<1>3. CASE SetLockData
  BY <1>1, <1>3 DEF FlagTypes, SetLockData, Switches
<1>4. ASSUME NEW w \in Writers,
             \/ \E s \in Sinks, l \in OutLevels : AddBegins(w, s, l)
             \/ \E l \in OutLevels : Enter(w, l)
      PROVE  FlagTypes' /\ calls' \in Nat /\ (~met' => ~met)
  <2>1. /\ UNCHANGED <<locking, lockData, setting, holder>> /\ calls' = calls + 1
        /\ met' \in BOOLEAN /\ (~met' => ~met) /\ bare' \in BOOLEAN /\ switched' \in BOOLEAN
    <3>1. CASE \E s \in Sinks, l \in OutLevels : AddBegins(w, s, l)
      BY <1>1, <3>1 DEF FlagTypes, AddBegins, Called
    <3>2. CASE \E l \in OutLevels : Enter(w, l)
      BY <1>1, <3>2 DEF FlagTypes, Enter, Called
    <3>3. QED
      BY <1>4, <3>1, <3>2
  <2>2. QED
    BY <1>1, <2>1 DEF FlagTypes
<1>5. ASSUME NEW w \in Writers,
             \/ AddSearch(w)
             \/ \E field \in Fields : AddStore(w, field)
             \/ ReadLockData(w) \/ ToStderr(w) \/ Test(w) \/ ReadLevel(w) \/ ReadData(w)
             \/ CallBack(w) \/ Leave(w)
      PROVE  FlagTypes' /\ calls' \in Nat /\ (~met' => ~met)
  <2>1. UNCHANGED <<locking, lockData, setting, holder, calls, bare, switched, met>>
    BY <1>5, Zenon DEF AddSearch, AddStore, ReadLockData, ToStderr, Test, ReadLevel, ReadData, CallBack, Leave
  <2>2. QED
    BY <1>1, <2>1 DEF FlagTypes
<1>6. ASSUME NEW w \in Writers, Acquire(w) \/ Release(w)
      PROVE  FlagTypes' /\ calls' \in Nat /\ (~met' => ~met)
  BY <1>1, <1>6 DEF FlagTypes, Acquire, Release
<1>7. QED
  BY <1>2, <1>3, <1>4, <1>5, <1>6 DEF OutputNext

\* The parts of the invariant without the flags.
Rest == OutputTypes /\ ThreadInv /\ OnceInv /\ TableInv /\ ToldInv

LEMMA SetLockKeeps ==
  ASSUME OutputInv, UNCHANGED <<said, thread, callbacks, out, met>>, calls' \in Nat
  PROVE  Rest'
<1>1. OutputTypes' /\ ThreadInv' /\ OnceInv'
  BY DEF OutputInv, OutputTypes, ThreadInv, InLog, OnceInv, Given
<1>2. TableInv'
  BY DEF OutputInv, TableInv, OneAdder, Adds, AddedInOrder, Full, Added, Stored
<1>3. ToldInv'
  <2>1. \A m, t : (Kept(m, t)' <=> Kept(m, t)) /\ (Came(t, m)' <=> Came(t, m))
    BY DEF Kept, Full, Added, Came
  <2>2. QED
    BY <2>1 DEF OutputInv, ToldInv
<1>4. QED
  BY <1>1, <1>2, <1>3 DEF Rest

LEMMA AddBeginsKeeps ==
  ASSUME OutputInv, NEW w \in Writers, NEW s \in Sinks, NEW l \in OutLevels, AddBegins(w, s, l),
         ~met' => ~met, calls' \in Nat
  PROVE  Rest'
<1>1. PICK r : r = [Idle EXCEPT !.at = "search", !.slot = 1, !.data = s, !.level = l, !.todo = Fields]
  OBVIOUS
<1>2. /\ r \in Threads /\ r.at = "search" /\ r.slot = 1 /\ r.data = s /\ r.todo = Fields
      /\ r.message = 0
  BY <1>1, OutputAssumption DEF Threads, Idle, NoSinks, AddAts
<1>3. /\ thread[w] = Idle /\ Goes(w, r) /\ UNCHANGED <<said, callbacks, out>>
      /\ ~met' => \A v \in Writers : ~Adds(v)
  BY <1>1 DEF AddBegins
<1>4. /\ thread' \in [Writers -> Threads] /\ thread'[w] = r
      /\ \A v \in Writers \ {w} : thread'[v] = thread[v]
  BY <1>2, <1>3, Updated DEF OutputInv
<1>5. OutputTypes'
  BY <1>3, <1>4 DEF OutputInv, OutputTypes
<1>6. ThreadInv'
  <2>1. Shape(r)
    BY <1>2 DEF Shape, InLogAts, AddAts
  <2>2. QED
    BY <1>2, <1>3, <2>1, ThreadKeeps
<1>7. OnceInv'
  BY <1>2, <1>3, OncePassed
<1>8. \A i : (Full(i)' <=> Full(i)) /\ (Added(i)' <=> Added(i))
  <2>1. \A v \in Writers : thread'[v].at = "store" <=> thread[v].at = "store"
    BY <1>2, <1>3, <1>4 DEF Idle
  <2>2. \A v \in Writers : thread[v].at = "store" => thread'[v] = thread[v]
    BY <1>3, <1>4 DEF Idle
  <2>3. QED
    BY <1>3, <2>1, <2>2 DEF Full, Added
<1>9. TableInv'
  <2>1. ASSUME ~met'
        PROVE  OneAdder' /\ AddedInOrder' /\ \A v \in Writers : Stored(v)'
    <3>1. \A v \in Writers : Adds(v)' => v = w
      BY <1>3, <1>4, <2>1 DEF Adds
    <3>2. AddedInOrder
      BY <2>1 DEF OutputInv, TableInv
    <3>3. \A i \in Slots : ~(i < thread'[w].slot)
      BY <1>2, <1>4 DEF Slots
    <3>4. AddedInOrder'
      BY <1>8, <3>1, <3>2, <3>3 DEF AddedInOrder
    <3>5. \A v \in Writers : thread'[v].at /= "store"
      BY <1>2, <1>4, <3>1 DEF Adds
    <3>6. QED
      BY <3>1, <3>4, <3>5 DEF OneAdder, Stored
  <2>2. QED
    BY <2>1 DEF TableInv
<1>10. ToldInv'
  <2>1. ASSUME NEW m \in 1 .. Len(said), NEW t \in said[m].told
        PROVE  /\ Came(t, m) => Came(t, m)'
               /\ Kept(m, t) => Kept(m, t)'
               /\ ~Ahead(thread[w], m, t)
    BY <1>3, <1>8 DEF Came, Kept, Ahead, Idle
  <2>2. QED
    BY <1>2, <1>3, <2>1, ToldKeeps
<1>11. QED
  BY <1>5, <1>6, <1>7, <1>9, <1>10 DEF Rest

\* The search only looks at the entries.
LEMMA AddSearchKeeps ==
  ASSUME OutputInv, NEW w \in Writers, AddSearch(w), calls' \in Nat
  PROVE  Rest'
<1> DEFINE me == thread[w]
<1>1. /\ me.at = "search" /\ me.slot >= 1 /\ me.slot \in Nat /\ me.data \in Sinks /\ me.todo = Fields
      /\ me.message = 0 /\ me \in Threads
  BY ThreadFields DEF AddSearch, OutputInv, ThreadInv, Shape, InLogAts, AddAts
<1>2. UNCHANGED <<said, callbacks, out, met>>
  BY DEF AddSearch
<1>3. PICK r : /\ Goes(w, r)
               /\ \/ r = Idle
                  \/ me.slot \in Slots /\ callbacks[me.slot].fn = "none" /\ r = [me EXCEPT !.at = "store"]
                  \/ me.slot \in Slots /\ callbacks[me.slot].fn /= "none" /\ r = [me EXCEPT !.slot = @ + 1]
  BY DEF AddSearch
<1>4. /\ r \in Threads /\ r.message = 0
      /\ \/ r = Idle
         \/ /\ r.at = "store" /\ r.slot = me.slot /\ r.data = me.data /\ r.todo = Fields
            /\ me.slot \in Slots /\ callbacks[me.slot].fn = "none"
         \/ /\ r.at = "search" /\ r.slot = me.slot + 1 /\ r.data = me.data /\ r.todo = Fields
            /\ me.slot \in Slots /\ callbacks[me.slot].fn /= "none"
  BY <1>1, <1>3 DEF Threads, Idle, AddAts, NoSinks
<1>5. /\ thread' \in [Writers -> Threads] /\ thread'[w] = r
      /\ \A v \in Writers \ {w} : thread'[v] = thread[v]
  BY <1>3, <1>4, Updated DEF OutputInv
<1>6. OutputTypes'
  BY <1>2, <1>5 DEF OutputInv, OutputTypes
<1>7. ThreadInv'
  <2>1. Shape(r)
    BY <1>1, <1>4 DEF Shape, InLogAts, AddAts, Idle
  <2>2. QED
    BY <1>2, <1>3, <1>4, <2>1, ThreadKeeps
<1>8. OnceInv'
  BY <1>2, <1>3, <1>4, OncePassed
<1>9. \A i \in Slots : (Full(i)' <=> Full(i)) /\ (Added(i)' <=> Added(i))
  <2>1. ASSUME NEW i \in Slots
        PROVE  Added(i)' <=> Added(i)
    <3>1. CASE callbacks[i].fn = "none"
      BY <1>2, <3>1 DEF Added
    <3>2. CASE callbacks[i].fn /= "none"
      <4>1. \A v \in Writers : (thread'[v].at = "store" /\ thread'[v].slot = i)
                               <=> (thread[v].at = "store" /\ thread[v].slot = i)
        BY <1>1, <1>4, <1>5, <3>2 DEF Idle
      <4>2. QED
        BY <1>2, <4>1 DEF Added
    <3>3. QED
      BY <3>1, <3>2
  <2>2. QED
    BY <1>2, <2>1 DEF Full
<1>10. TableInv'
  <2>1. ASSUME ~met
        PROVE  OneAdder' /\ AddedInOrder' /\ \A v \in Writers : Stored(v)'
    <3>1. OneAdder /\ AddedInOrder /\ \A v \in Writers : Stored(v)
      BY <2>1 DEF OutputInv, TableInv
    <3>2. \A v \in Writers : Adds(v) => v = w
      BY <1>1, <3>1 DEF OneAdder, Adds
    <3>3. \A v \in Writers : Adds(v)' => v = w
      BY <1>5, <3>2 DEF Adds
    <3>4. ASSUME NEW i \in Slots, Adds(w)', i < thread'[w].slot
          PROVE  Full(i)
      <4>1. i \in Nat
        BY DEF Slots
      <4>2. CASE i < me.slot
        BY <1>1, <3>1, <4>2 DEF AddedInOrder, Adds
      <4>3. CASE ~(i < me.slot)
        <5>1. i = me.slot /\ callbacks[i].fn /= "none"
          BY <1>1, <1>4, <1>5, <3>4, <4>1, <4>3 DEF Adds, Idle
        <5>2. \A v \in Writers : thread[v].at /= "store"
          BY <1>1, <3>2 DEF Adds
        <5>3. QED
          BY <3>1, <5>1, <5>2 DEF AddedInOrder, Added
      <4>4. QED
        BY <4>2, <4>3
    <3>5. AddedInOrder'
      BY <1>9, <3>1, <3>3, <3>4 DEF AddedInOrder
    <3>6. ASSUME NEW v \in Writers
          PROVE  Stored(v)'
      BY <1>4, <1>5, <3>3 DEF Stored, Adds, Idle, Fields
    <3>7. QED
      BY <3>3, <3>5, <3>6 DEF OneAdder
  <2>2. QED
    BY <1>2, <2>1 DEF TableInv
<1>11. ToldInv'
  <2>1. ASSUME NEW m \in 1 .. Len(said), NEW t \in said[m].told
        PROVE  /\ Came(t, m) => Came(t, m)'
               /\ Kept(m, t) => Kept(m, t)'
               /\ ~Ahead(thread[w], m, t)
    <3>1. t.slot \in Slots
      BY SaidTyped
    <3>2. QED
      BY <1>1, <1>2, <1>9, <3>1 DEF Came, Kept, Ahead
  <2>2. QED
    BY <1>2, <1>3, <1>4, <2>1, ToldKeeps
<1>12. QED
  BY <1>6, <1>7, <1>8, <1>10, <1>11 DEF Rest

\* One word of the entry.
LEMMA AddStoreKeeps ==
  ASSUME OutputInv, NEW w \in Writers, NEW field \in Fields, AddStore(w, field), calls' \in Nat
  PROVE  Rest'
<1> DEFINE me == thread[w]
<1>0. PICK k : k = me.slot
  OBVIOUS
<1>1. /\ me.at = "store" /\ k = me.slot /\ k \in Slots /\ me.data \in Sinks /\ me.message = 0 /\ me \in Threads
      /\ me.level \in Nat /\ me.todo \subseteq Fields /\ field \in me.todo
      /\ me.data /= "none"
  BY <1>0, ThreadFields, OutputAssumption DEF AddStore, OutputInv, ThreadInv, Shape, InLogAts, AddAts
<1>2. UNCHANGED <<said, out, met>>
  BY DEF AddStore
<1>3. PICK r : r = IF me.todo = {field} THEN Idle ELSE [me EXCEPT !.todo = @ \ {field}]
  OBVIOUS
<1>4. Goes(w, r)
  BY <1>3 DEF AddStore
<1>5. /\ r \in Threads /\ r.message = 0
      /\ me.todo = {field} => r = Idle
      /\ me.todo /= {field} => /\ r.at = "store" /\ r.slot = k /\ r.data = me.data
                               /\ r.todo = me.todo \ {field}
  BY <1>1, <1>3 DEF Threads, Idle, NoSinks
<1>6. PICK c : c = [callbacks[k] EXCEPT ![field] = IF field = "level" THEN me.level ELSE me.data]
  OBVIOUS
<1>7. callbacks' = [callbacks EXCEPT ![k] = c]
  BY <1>1, <1>6 DEF AddStore
<1>8. /\ c \in Entries
      /\ c.fn = IF field = "fn" THEN me.data ELSE callbacks[k].fn
      /\ c.udata = IF field = "udata" THEN me.data ELSE callbacks[k].udata
  <2>1. callbacks[k] \in Entries
    BY <1>1 DEF OutputInv, OutputTypes
  <2>2. QED
    BY <1>1, <1>6, <2>1 DEF Entries, Fields, NoSinks
<1>9. /\ callbacks' \in [Slots -> Entries] /\ callbacks'[k] = c
      /\ \A i \in Slots \ {k} : callbacks'[i] = callbacks[i]
  BY <1>1, <1>7, <1>8 DEF OutputInv, OutputTypes
<1>10. /\ thread' \in [Writers -> Threads] /\ thread'[w] = r
       /\ \A v \in Writers \ {w} : thread'[v] = thread[v]
  BY <1>4, <1>5, Updated DEF OutputInv
<1>11. OutputTypes'
  BY <1>2, <1>9, <1>10 DEF OutputInv, OutputTypes
<1>12. ThreadInv'
  <2>1. Shape(r)
    BY <1>1, <1>5 DEF Shape, InLogAts, AddAts, Idle
  <2>2. QED
    BY <1>2, <1>4, <1>5, <2>1, ThreadKeeps
<1>13. OnceInv'
  BY <1>2, <1>4, <1>5, OncePassed
<1>14. ~Added(k) /\ \A i \in Slots \ {k} : (Full(i)' <=> Full(i)) /\ (Added(i)' <=> Added(i))
  <2>1. ASSUME NEW i \in Slots \ {k}
        PROVE  \A v \in Writers : (thread'[v].at = "store" /\ thread'[v].slot = i)
                                  <=> (thread[v].at = "store" /\ thread[v].slot = i)
    BY <1>1, <1>5, <1>10 DEF Idle
  <2>2. QED
    BY <1>1, <1>9, <2>1 DEF Full, Added
<1>15. TableInv'
  <2>1. ASSUME ~met
        PROVE  OneAdder' /\ AddedInOrder' /\ \A v \in Writers : Stored(v)'
    <3>1. OneAdder /\ AddedInOrder /\ \A v \in Writers : Stored(v)
      BY <2>1 DEF OutputInv, TableInv
    <3>2. \A v \in Writers : Adds(v) => v = w
      BY <1>1, <3>1 DEF OneAdder, Adds
    <3>3. \A v \in Writers : Adds(v)' => v = w
      BY <1>10, <3>2 DEF Adds
    <3>4. Stored(w)'
      <4>1. CASE me.todo = {field}
        BY <1>5, <1>10, <4>1 DEF Stored, Idle
      <4>2. CASE me.todo /= {field}
        <5>1. /\ "fn" \notin me.todo => callbacks[k].fn = me.data
              /\ "udata" \notin me.todo => callbacks[k].udata = me.data
          BY <1>1, <3>1 DEF Stored
        <5>2. QED
          BY <1>5, <1>8, <1>9, <1>10, <4>2, <5>1 DEF Stored
      <4>3. QED
        BY <4>1, <4>2
    <3>5. \A v \in Writers : Stored(v)'
      BY <3>3, <3>4 DEF Stored, Adds
    <3>6. \A i \in Slots : i <= k /\ i /= k => Full(i)
      BY <1>1, <3>1 DEF AddedInOrder, Adds, Slots
    <3>7. \A j \in Slots : Full(j) => ~(k <= j)
      BY <1>1, <1>14, <3>1 DEF AddedInOrder, Full
    <3>8. Added(k)' => Full(k)'
      <4>1. CASE me.todo = {field}
        <5>1. /\ "fn" \notin me.todo => callbacks[k].fn = me.data
              /\ "udata" \notin me.todo => callbacks[k].udata = me.data
          BY <1>1, <3>1 DEF Stored
        <5>2. c.fn = me.data /\ c.udata = me.data
          BY <1>8, <4>1, <5>1
        <5>3. callbacks'[k].udata = callbacks'[k].fn
          BY <1>9, <5>2
        <5>4. QED
          BY <5>3, Zenon DEF Full
      <4>2. CASE me.todo /= {field}
        BY <1>5, <1>10, <4>2 DEF Added
      <4>3. QED
        BY <4>1, <4>2
    <3>9. AddedInOrder'
      <4>1. \A i \in Slots : Added(i)' => Full(i)'
        <5>1. ASSUME NEW i \in Slots \ {k}, Added(i)'
              PROVE  Full(i)'
          <6>1. Added(i)
            BY <1>14, <5>1
          <6>2. Full(i)
            BY <3>1, <6>1 DEF AddedInOrder
          <6>3. QED
            BY <1>14, <6>2
        <5>2. QED
          BY <3>8, <5>1
      <4>2. ASSUME NEW i \in Slots, NEW j \in Slots, i <= j, Full(j)'
            PROVE  Full(i)'
        <5>1. i \in Nat /\ j \in Nat /\ k \in Nat
          BY <1>1 DEF Slots
        <5>2. CASE j = k
          BY <1>14, <3>6, <4>2, <5>2
        <5>3. CASE j /= k
          <6>1. Full(i) /\ i /= k
            BY <1>14, <3>1, <3>7, <4>2, <5>3 DEF AddedInOrder
          <6>2. QED
            BY <1>14, <6>1
        <5>4. QED
          BY <5>2, <5>3
      <4>3. ASSUME NEW v \in Writers, NEW i \in Slots, Adds(v)', i < thread'[v].slot
            PROVE  Full(i)'
        <5>1. v = w /\ thread'[w].slot = k
          BY <1>5, <1>10, <3>3, <4>3 DEF Adds, Idle
        <5>2. i <= k /\ i /= k
          BY <1>1, <4>3, <5>1 DEF Slots
        <5>3. QED
          BY <1>14, <3>6, <5>2
      <4>4. QED
        BY <4>1, <4>2, <4>3 DEF AddedInOrder
    <3>10. QED
      BY <3>3, <3>5, <3>9 DEF OneAdder
  <2>2. QED
    BY <1>2, <2>1 DEF TableInv
<1>16. ToldInv'
  <2>1. ASSUME NEW m \in 1 .. Len(said), NEW t \in said[m].told
        PROVE  /\ Came(t, m) => Came(t, m)'
               /\ Kept(m, t) => Kept(m, t)'
               /\ ~Ahead(thread[w], m, t)
    <3>1. t.slot \in Slots
      BY SaidTyped
    <3>2. Kept(m, t) => t.slot /= k
      BY <1>14 DEF Kept, Full
    <3>3. Kept(m, t) => Kept(m, t)'
      BY <1>2, <1>9, <1>14, <3>1, <3>2 DEF Kept
    <3>4. QED
      BY <1>1, <1>2, <3>3 DEF Came, Ahead
  <2>2. QED
    BY <1>2, <1>4, <1>5, <2>1, ToldKeeps
<1>17. QED
  BY <1>11, <1>12, <1>13, <1>15, <1>16 DEF Rest

LEMMA EnterKeeps ==
  ASSUME OutputInv, NEW w \in Writers, NEW l \in OutLevels, Enter(w, l), calls' \in Nat
  PROVE  Rest'
<1>0. PICK n : n = Len(said) + 1
  OBVIOUS
<1>1. PICK e : e = [level |-> l,
                    told  |-> {[slot |-> i, sink |-> callbacks[i].fn] :
                                 i \in {j \in Slots : Added(j) /\ callbacks[j].level <= l}}]
  OBVIOUS
<1>2. PICK r : r = [Idle EXCEPT !.at = IF locking THEN "lock" ELSE "stderr", !.message = n]
  OBVIOUS
<1> DEFINE a == IF locking THEN "lock" ELSE "stderr"
<1>3. /\ UNCHANGED <<callbacks, out, met>> /\ thread[w] = Idle
      /\ said' = Append(said, e) /\ Goes(w, r)
  BY <1>0, <1>1, <1>2 DEF Enter
<1>4. said \in Seq(Messages) /\ Len(said) \in Nat /\ n = Len(said) + 1
  BY <1>0 DEF OutputInv, OutputTypes
<1>5. /\ e.level = l
      /\ \A t \in e.told : /\ t.slot \in Slots /\ Added(t.slot) /\ callbacks[t.slot].level <= l
                           /\ t.sink = callbacks[t.slot].fn
  BY <1>1
<1>6. e \in Messages
  <2>1. \A i \in Slots : Added(i) => callbacks[i].fn \in Sinks
    BY EntriesTyped DEF Added, NoSinks
  <2>2. QED
    BY <1>1, <2>1 DEF Messages
<1>7. /\ said' \in Seq(Messages) /\ Len(said') = n
      /\ \A m \in 1 .. Len(said) : said'[m] = said[m]
      /\ said'[n] = e
  BY <1>3, <1>4, <1>6, AppendProperties
<1>8. /\ r \in Threads /\ r.message = n /\ r.at \in {"lock", "stderr"}
  <2>1. a \in {"lock", "stderr"}
    OBVIOUS
  <2>2. r.at = a /\ r = [Idle EXCEPT !.at = a, !.message = n]
    BY <1>2 DEF Idle
  <2> HIDE DEF a
  <2>3. r.message = n /\ n \in Nat
    BY <1>4, <2>2 DEF Idle
  <2>4. r \in Threads
    <3>1. Idle \in Threads
      BY <1>3 DEF OutputInv, OutputTypes
    <3>2. a \in InLogAts \cup AddAts \cup {"idle"}
      BY <2>1 DEF InLogAts
    <3>3. QED
      BY <2>2, <2>3, <3>1, <3>2 DEF Threads
  <2>5. QED
    BY <2>1, <2>2, <2>3, <2>4
<1>9. /\ thread' \in [Writers -> Threads] /\ thread'[w] = r
      /\ \A v \in Writers \ {w} : thread'[v] = thread[v]
  BY <1>3, <1>8, Updated DEF OutputInv
<1>10. OutputTypes'
  BY <1>3, <1>7, <1>9 DEF OutputInv, OutputTypes
<1>11. \A v \in Writers : /\ thread[v].message \in Nat /\ thread[v].message <= Len(said)
                          /\ thread[v].message /= n
  BY <1>4, ThreadFields DEF OutputInv, ThreadInv
<1>12. ThreadInv'
  <2>1. Shape(r)
    BY <1>4, <1>8 DEF Shape, InLogAts, AddAts
  <2>2. \A v \in Writers : Shape(thread'[v])
    BY <1>9, <2>1 DEF OutputInv, ThreadInv
  <2>3. \A v \in Writers : thread'[v].message <= Len(said')
    BY <1>4, <1>7, <1>8, <1>9, <1>11
  <2>4. ASSUME NEW u \in Writers, NEW v \in Writers, InLog(u)', thread'[v].message = thread'[u].message
        PROVE  v = u
    <3>1. CASE u /= w /\ v /= w
      BY <1>9, <2>4, <3>1 DEF OutputInv, ThreadInv, InLog
    <3>2. CASE u = w \/ v = w
      BY <1>8, <1>9, <1>11, <2>4, <3>2
    <3>3. QED
      BY <3>1, <3>2
  <2>5. QED
    BY <2>2, <2>3, <2>4 DEF ThreadInv
<1>13. OnceInv'
  <2>1. \A i \in Places : ~Given(i, n)
    BY <1>4 DEF OutputInv, OnceInv, Given
  <2>2. ASSUME NEW i \in Places, NEW v \in Writers, InLog(v)', Given(i, thread[v].message)'
        PROVE  Past(thread'[v], i)
    <3>1. Given(i, thread'[v].message)
      BY <1>3, <2>2 DEF Given
    <3>2. v /= w
      BY <1>8, <1>9, <2>1, <3>1
    <3>3. thread'[v] = thread[v] /\ InLog(v)
      BY <1>9, <2>2, <3>2 DEF InLog
    <3>4. QED
      BY <3>1, <3>3 DEF OutputInv, OnceInv
  <2>3. ASSUME NEW i \in Places
        PROVE  /\ \A k \in 1 .. Len(out[i]) : out[i][k].message \in 1 .. Len(said')
               /\ \A j, k \in 1 .. Len(out[i]) : out[i][j].message = out[i][k].message => j = k
    BY <1>4, <1>7 DEF OutputInv, OnceInv
  <2>4. QED
    BY <1>3, <2>2, <2>3 DEF OnceInv
<1>14. ~Adds(w) /\ r.at \notin AddAts
  BY <1>3, <1>8 DEF Adds, Idle, AddAts
<1>15. TableInv' /\ \A i : Full(i)' <=> Full(i)
  BY <1>3, <1>8, <1>14, TableKeeps
<1>16. ToldInv'
  <2>1. ASSUME ~met, NEW m \in 1 .. Len(said), NEW t \in said[m].told
        PROVE  Kept(m, t)' /\ (Came(t, m)' \/ \E v \in Writers : Ahead(thread'[v], m, t))
    <3>1. Kept(m, t) /\ (Came(t, m) \/ \E v \in Writers : Ahead(thread[v], m, t))
      BY <2>1 DEF OutputInv, ToldInv
    <3>2. Kept(m, t)' /\ (Came(t, m) => Came(t, m)')
      BY <1>3, <1>7, <1>15, <3>1 DEF Kept, Came
    <3>3. ASSUME NEW v \in Writers, Ahead(thread[v], m, t)
          PROVE  Ahead(thread'[v], m, t)
      <4>1. thread[v].message = m
        BY <3>3 DEF Ahead
      <4>2. v /= w
        BY <1>3, <1>4, <4>1 DEF Idle
      <4>3. QED
        BY <1>9, <3>3, <4>2
    <3>4. QED
      BY <3>1, <3>2, <3>3
  <2>2. ASSUME ~met, NEW t \in e.told
        PROVE  Kept(n, t)' /\ Ahead(thread'[w], n, t)
    <3>1. Full(t.slot)'
      BY <1>5, <1>15, <2>2 DEF OutputInv, TableInv, AddedInOrder
    <3>2. /\ callbacks'[t.slot].fn = t.sink
          /\ callbacks'[t.slot].level <= said'[n].level
      BY <1>3, <1>5, <1>7
    <3>3. Kept(n, t)'
      BY <3>1, <3>2 DEF Kept
    <3>4. Ahead(thread'[w], n, t)
      BY <1>8, <1>9 DEF Ahead
    <3>5. QED
      BY <3>3, <3>4
  <2>3. ASSUME ~met, NEW m \in 1 .. Len(said'), NEW t \in said'[m].told
        PROVE  Kept(m, t)' /\ (Came(t, m)' \/ \E v \in Writers : Ahead(thread'[v], m, t))
    <3>1. CASE m \in 1 .. Len(said)
      BY <1>7, <2>1, <2>3, <3>1
    <3>2. CASE m = n
      <4>1. t \in e.told
        BY <1>7, <2>3, <3>2
      <4>2. Kept(n, t)' /\ Ahead(thread'[w], n, t)
        BY <2>2, <2>3, <4>1
      <4>3. QED
        BY <3>2, <4>2
    <3>3. QED
      BY <1>4, <1>7, <3>1, <3>2
  <2>4. QED
    BY <1>3, <2>3 DEF ToldInv
<1>17. QED
  BY <1>10, <1>12, <1>13, <1>15, <1>16 DEF Rest

LEMMA GoesOn ==
  ASSUME NEW me \in Threads, NEW r, r = [me EXCEPT !.at = "test", !.slot = @ + 1, !.data = "none"]
  PROVE  r \in Threads /\ r.at = "test" /\ r.message = me.message /\ r.slot = me.slot + 1
<1>1. PICK n : n = me.slot + 1
  OBVIOUS
<1>2. r = [me EXCEPT !.at = "test", !.slot = n, !.data = "none"] /\ n \in Nat
  BY <1>1 DEF Threads
<1>3. r \in Threads
  BY <1>2 DEF Threads, InLogAts, NoSinks
<1>4. me = [at |-> me.at, message |-> me.message, slot |-> me.slot, data |-> me.data,
            level |-> me.level, todo |-> me.todo]
  BY DEF Threads
<1>5. r = [at |-> "test", message |-> me.message, slot |-> n, data |-> "none",
           level |-> me.level, todo |-> me.todo]
  BY <1>2, <1>4
<1>6. QED
  BY <1>1, <1>3, <1>5

\* A step of log_log that gives the message to nobody.
LEMMA LogMoves ==
  ASSUME OutputInv, NEW w \in Writers, NEW r \in Threads, Goes(w, r), UNCHANGED <<said, callbacks, out, met>>,
         calls' \in Nat, InLog(w), Shape(r), r.message \in {0, thread[w].message}, r.at \notin AddAts,
         r.message /= 0 => \A j \in Places : Past(thread[w], j) => Past(r, j),
         \A m \in 1 .. Len(said) : \A t \in said[m].told :
           ~met /\ Kept(m, t) /\ Ahead(thread[w], m, t) => Ahead(r, m, t)
  PROVE  Rest'
<1>1. ~Adds(w)
  BY DEF OutputInv, ThreadInv, Shape, InLog, Adds, InLogAts
<1>2. OutputTypes' /\ ThreadInv' /\ OnceInv'
  <2>1. thread' \in [Writers -> Threads]
    BY Updated DEF OutputInv
  <2>2. OutputTypes'
    BY <2>1 DEF OutputInv, OutputTypes
  <2>3. QED
    BY <2>2, ThreadKeeps, OncePassed
<1>3. TableInv' /\ \A i : Full(i)' <=> Full(i)
  BY <1>1, TableKeeps
<1>4. ToldInv'
  <2>1. ASSUME NEW m \in 1 .. Len(said), NEW t \in said[m].told
        PROVE  (Came(t, m) => Came(t, m)') /\ (Kept(m, t) => Kept(m, t)')
    BY <1>3 DEF Came, Kept
  <2>2. QED
    BY <2>1, ToldKeeps
<1>5. QED
  BY <1>2, <1>3, <1>4 DEF Rest

\* A thread that has not been told to anybody.
LEMMA WaitingKeeps ==
  ASSUME OutputInv, NEW w \in Writers, ReadLockData(w) \/ Acquire(w), calls' \in Nat
  PROVE  Rest'
<1> DEFINE me == thread[w]
<1>1. me.at \in {"lock", "wait"} /\ me \in Threads /\ InLog(w)
  BY ThreadFields DEF ReadLockData, Acquire, OutputInv, ThreadInv, Shape, InLog, InLogAts
<1>2. PICK a \in {"wait", "stderr"} : Goes(w, [me EXCEPT !.at = a])
  BY DEF ReadLockData, Acquire
<1>3. PICK r : r = [me EXCEPT !.at = a]
  OBVIOUS
<1>4. r \in Threads /\ r.at = a /\ r.message = me.message /\ Goes(w, r)
  BY <1>1, <1>2, <1>3 DEF Threads, InLogAts
<1>5. UNCHANGED <<said, callbacks, out, met>>
  BY DEF ReadLockData, Acquire
<1>6. Shape(r) /\ r.at \notin AddAts
  BY <1>1, <1>4 DEF Shape, InLog, InLogAts, AddAts
<1>7. /\ \A j \in Places : ~Past(me, j)
      /\ \A m, t : Ahead(me, m, t) => Ahead(r, m, t)
  BY <1>1, <1>4 DEF Past, Ahead
<1>8. QED
  BY <1>1, <1>4, <1>5, <1>6, <1>7, LogMoves

\* What is ahead when the loop is at an entry.
LEMMA TestKeeps ==
  ASSUME OutputInv, NEW w \in Writers, Test(w), calls' \in Nat
  PROVE  Rest'
<1> DEFINE me == thread[w]
<1>1. me.at = "test" /\ me \in Threads /\ InLog(w) /\ me.slot >= 1 /\ me.slot \in Nat
  BY ThreadFields DEF Test, OutputInv, ThreadInv, Shape, InLog, InLogAts
<1>2. PICK a \in {"level", "unlock"} :
        /\ Goes(w, [me EXCEPT !.at = a])
        /\ a = "level" => me.slot \in Slots
        /\ a = "unlock" => me.slot \notin Slots \/ callbacks[me.slot].fn = "none"
  BY DEF Test
<1>3. PICK r : r = [me EXCEPT !.at = a]
  OBVIOUS
<1>4. /\ r \in Threads /\ r.at = a /\ r.message = me.message /\ r.slot = me.slot /\ Goes(w, r)
  BY <1>1, <1>2, <1>3 DEF Threads, InLogAts
<1>5. UNCHANGED <<said, callbacks, out, met>>
  BY DEF Test
<1>6. Shape(r) /\ r.at \notin AddAts
  BY <1>1, <1>2, <1>4 DEF Shape, InLog, InLogAts, AddAts
<1>7. \A j \in Places : Past(me, j) => Past(r, j)
  BY <1>1, <1>4 DEF Past
<1>8. ASSUME NEW m \in 1 .. Len(said), NEW t \in said[m].told, ~met, Kept(m, t), Ahead(me, m, t)
      PROVE  Ahead(r, m, t)
  <2>1. t.slot \in Slots /\ me.slot <= t.slot /\ me.message = m
    BY <1>1, <1>8, SaidTyped DEF Ahead
  <2>2. me.slot \in Slots
    BY <1>1, <2>1, OutputAssumption DEF Slots
  <2>3. callbacks[me.slot].fn /= "none"
    BY <1>8, <2>1, <2>2 DEF Kept, OutputInv, TableInv, AddedInOrder, Full, Added
  <2>4. QED
    BY <1>2, <1>4, <2>1, <2>2, <2>3 DEF Ahead
<1>9. QED
  BY <1>1, <1>4, <1>5, <1>6, <1>7, <1>8, LogMoves

LEMMA ReadLevelKeeps ==
  ASSUME OutputInv, NEW w \in Writers, ReadLevel(w), calls' \in Nat
  PROVE  Rest'
<1> DEFINE me == thread[w]
<1>1. /\ me.at = "level" /\ me \in Threads /\ InLog(w) /\ me.slot \in Slots /\ me.slot \in Nat
      /\ me.message \in Nat
  BY ThreadFields DEF ReadLevel, OutputInv, ThreadInv, Shape, InLog, InLogAts
<1>2. PICK r : r = IF Level(w) >= callbacks[me.slot].level THEN [me EXCEPT !.at = "udata"] ELSE Passed(me)
  OBVIOUS
<1>3. Goes(w, r) /\ UNCHANGED <<said, callbacks, out, met>>
  BY <1>2 DEF ReadLevel
<1>4. \/ /\ Level(w) >= callbacks[me.slot].level
         /\ r \in Threads /\ r.at = "udata" /\ r.message = me.message /\ r.slot = me.slot
      \/ /\ ~(Level(w) >= callbacks[me.slot].level)
         /\ r \in Threads /\ r.at = "test" /\ r.message = me.message /\ r.slot = me.slot + 1
  <2>1. CASE Level(w) >= callbacks[me.slot].level
    <3>1. r = [me EXCEPT !.at = "udata"]
      BY <1>2, <2>1
    <3>2. QED
      BY <1>1, <2>1, <3>1 DEF Threads, InLogAts
  <2>2. CASE ~(Level(w) >= callbacks[me.slot].level)
    <3>1. r = [me EXCEPT !.at = "test", !.slot = @ + 1, !.data = "none"]
      BY <1>2, <2>2 DEF Passed
    <3>2. QED
      BY <1>1, <2>2, <3>1, GoesOn
  <2>3. QED
    BY <2>1, <2>2
<1>5. Shape(r) /\ r.at \notin AddAts
  BY <1>1, <1>4 DEF Shape, InLog, InLogAts, AddAts
<1>6. \A j \in Places : Past(me, j) => Past(r, j)
  BY <1>1, <1>4, OutputAssumption DEF Past, Places
<1>7. ASSUME NEW m \in 1 .. Len(said), NEW t \in said[m].told, ~met, Kept(m, t), Ahead(me, m, t)
      PROVE  Ahead(r, m, t)
  <2>1. t.slot \in Slots /\ t.slot \in Nat /\ me.slot <= t.slot /\ me.message = m
    BY <1>1, <1>7, SaidTyped DEF Ahead
  <2>2. callbacks[t.slot].level <= Level(w)
    BY <1>7, <2>1 DEF Kept, Level
  <2>3. Level(w) \in Nat /\ callbacks[t.slot].level \in Nat
    BY <2>1, SaidTyped, EntriesTyped DEF Level
  <2>4. CASE me.slot = t.slot
    BY <1>4, <2>1, <2>2, <2>3, <2>4 DEF Ahead
  <2>5. CASE me.slot /= t.slot
    BY <1>1, <1>4, <2>1, <2>5 DEF Ahead
  <2>6. QED
    BY <2>4, <2>5
<1>8. QED
  BY <1>1, <1>3, <1>4, <1>5, <1>6, <1>7, LogMoves

LEMMA ReadDataKeeps ==
  ASSUME OutputInv, NEW w \in Writers, ReadData(w), calls' \in Nat
  PROVE  Rest'
<1> DEFINE me == thread[w]
<1>1. /\ me.at = "udata" /\ me \in Threads /\ InLog(w) /\ me.slot \in Slots /\ me.slot \in Nat
      /\ callbacks[me.slot].udata \in NoSinks
  BY ThreadFields, EntriesTyped DEF ReadData, OutputInv, ThreadInv, Shape, InLog, InLogAts
<1>2. PICK r : r = [me EXCEPT !.at = "call", !.data = callbacks[me.slot].udata]
  OBVIOUS
<1>3. Goes(w, r) /\ UNCHANGED <<said, callbacks, out, met>>
  BY <1>2 DEF ReadData
<1>4. /\ r \in Threads /\ r.at = "call" /\ r.message = me.message /\ r.slot = me.slot
      /\ r.data = callbacks[me.slot].udata
  BY <1>1, <1>2 DEF Threads, InLogAts
<1>5. Shape(r) /\ r.at \notin AddAts
  BY <1>1, <1>4 DEF Shape, InLog, InLogAts, AddAts
<1>6. \A j \in Places : Past(me, j) => Past(r, j)
  BY <1>1, <1>4 DEF Past
<1>7. ASSUME NEW m \in 1 .. Len(said), NEW t \in said[m].told, Kept(m, t), Ahead(me, m, t)
      PROVE  Ahead(r, m, t)
  BY <1>1, <1>4, <1>7 DEF Ahead, Kept, Full
<1>8. QED
  BY <1>1, <1>3, <1>4, <1>5, <1>6, <1>7, LogMoves

\* The end of log_log.
LEMMA EndKeeps ==
  ASSUME OutputInv, NEW w \in Writers, Leave(w) \/ Release(w), calls' \in Nat
  PROVE  Rest'
<1> DEFINE me == thread[w]
<1>1. me.at \in {"unlock", "release"} /\ me \in Threads /\ InLog(w)
  BY ThreadFields DEF Leave, Release, OutputInv, ThreadInv, Shape, InLog, InLogAts
<1>2. PICK r : Goes(w, r) /\ (r = Idle \/ r = [me EXCEPT !.at = "release"])
  BY DEF Leave, Release
<1>3. /\ r \in Threads /\ r.message \in {0, me.message} /\ r.at \in {"idle", "release"}
      /\ r.at = "idle" <=> r.message = 0
  BY <1>1, <1>2 DEF Threads, Idle, InLogAts, NoSinks, InLog
<1>4. UNCHANGED <<said, callbacks, out, met>>
  BY DEF Leave, Release
<1>5. Shape(r) /\ r.at \notin AddAts
  BY <1>3 DEF Shape, InLogAts, AddAts
<1>6. /\ r.message /= 0 => \A j \in Places : Past(me, j) => Past(r, j)
      /\ \A m, t : ~Ahead(me, m, t)
  BY <1>1, <1>3 DEF Past, Ahead
<1>7. QED
  BY <1>1, <1>2, <1>3, <1>4, <1>5, <1>6, LogMoves

\* A step of log_log that gives the message to a place.
LEMMA LogGives ==
  ASSUME OutputInv, NEW w \in Writers, NEW r \in Threads, Goes(w, r), UNCHANGED <<said, callbacks, met>>,
         calls' \in Nat, InLog(w), Shape(r), r.message = thread[w].message, r.at \notin AddAts,
         \A j \in Places : Past(thread[w], j) => Past(r, j),
         NEW i \in Places, NEW c \in Calls, c.message = thread[w].message, Told(i, c),
         ~Past(thread[w], i), Past(r, i),
         \A m \in 1 .. Len(said) : \A t \in said[m].told :
           ~met /\ Kept(m, t) /\ Ahead(thread[w], m, t) =>
             \/ Ahead(r, m, t)
             \/ i = t.slot /\ c = [message |-> m, fn |-> t.sink, udata |-> t.sink]
  PROVE  Rest'
<1>1. ~Adds(w)
  BY DEF OutputInv, ThreadInv, Shape, InLog, Adds, InLogAts
<1>2. /\ out' \in [Places -> Seq(Calls)] /\ OnceInv'
      /\ Len(out'[i]) = Len(out[i]) + 1 /\ out'[i][Len(out'[i])] = c /\ Len(out[i]) \in Nat
      /\ \A k \in 1 .. Len(out[i]) : out'[i][k] = out[i][k]
      /\ \A j \in Places \ {i} : out'[j] = out[j]
  BY OnceGiven
<1>3. OutputTypes' /\ ThreadInv'
  <2>1. thread' \in [Writers -> Threads]
    BY Updated DEF OutputInv
  <2>2. OutputTypes'
    BY <1>2, <2>1 DEF OutputInv, OutputTypes
  <2>3. QED
    BY <2>2, ThreadKeeps
<1>4. TableInv' /\ \A j : Full(j)' <=> Full(j)
  BY <1>1, TableKeeps
<1>5. ToldInv'
  <2>1. ASSUME NEW m \in 1 .. Len(said), NEW t \in said[m].told
        PROVE  /\ Came(t, m) => Came(t, m)'
               /\ Kept(m, t) => Kept(m, t)'
               /\ i = t.slot /\ c = [message |-> m, fn |-> t.sink, udata |-> t.sink] => Came(t, m)'
    <3>1. t.slot \in Places
      BY SaidTyped
    <3>2. Came(t, m) => Came(t, m)'
      <4>1. CASE t.slot = i
        BY <1>2, <4>1 DEF Came
      <4>2. CASE t.slot /= i
        BY <1>2, <3>1, <4>2 DEF Came
      <4>3. QED
        BY <4>1, <4>2
    <3>3. Kept(m, t) => Kept(m, t)'
      BY <1>4 DEF Kept
    <3>4. ASSUME i = t.slot, c = [message |-> m, fn |-> t.sink, udata |-> t.sink]
          PROVE  Came(t, m)'
      <4>1. Len(out'[i]) \in 1 .. Len(out'[i])
        BY <1>2
      <4>2. QED
        BY <1>2, <3>4, <4>1 DEF Came
    <3>5. QED
      BY <3>2, <3>3, <3>4
  <2>2. QED
    BY <2>1, ToldKeeps
<1>6. QED
  BY <1>2, <1>3, <1>4, <1>5 DEF Rest

LEMMA ToStderrKeeps ==
  ASSUME OutputInv, NEW w \in Writers, ToStderr(w), calls' \in Nat
  PROVE  Rest'
<1> DEFINE me == thread[w]
           c  == [message |-> me.message, fn |-> "none", udata |-> "none"]
<1>1. me.at = "stderr" /\ me \in Threads /\ InLog(w) /\ me.message \in Nat
  BY ThreadFields DEF ToStderr, OutputInv, ThreadInv, Shape, InLog, InLogAts
<1>2. PICK r : r = [me EXCEPT !.at = "test", !.slot = 1]
  OBVIOUS
<1>3. /\ Goes(w, r) /\ UNCHANGED <<said, callbacks, met>>
      /\ Told(0, c) \/ UNCHANGED out
  BY <1>2 DEF ToStderr
<1>4. r \in Threads /\ r.at = "test" /\ r.message = me.message /\ r.slot = 1
  BY <1>1, <1>2 DEF Threads, InLogAts
<1>5. Shape(r) /\ r.at \notin AddAts
  BY <1>1, <1>4 DEF Shape, InLog, InLogAts, AddAts
<1>6. (\A j : ~Past(me, j)) /\ Past(r, 0)
  BY <1>1, <1>4 DEF Past
<1>7. ASSUME NEW m \in 1 .. Len(said), NEW t \in said[m].told, Ahead(me, m, t)
      PROVE  Ahead(r, m, t)
  <2>1. 1 <= t.slot
    BY SaidTyped DEF Slots
  <2>2. QED
    BY <1>4, <1>7, <2>1 DEF Ahead
<1>8. 0 \in Places /\ c \in Calls /\ c.message = me.message
  BY <1>1, OutputAssumption DEF Places, Calls, NoSinks
<1>9. CASE UNCHANGED out
  BY <1>1, <1>3, <1>4, <1>5, <1>6, <1>7, <1>9, LogMoves
<1>10. CASE Told(0, c)
  <2> HIDE DEF c
  <2>1. QED
    BY <1>1, <1>3, <1>4, <1>5, <1>6, <1>7, <1>8, <1>10, LogGives
<1>11. QED
  BY <1>3, <1>9, <1>10

LEMMA CallBackKeeps ==
  ASSUME OutputInv, NEW w \in Writers, CallBack(w), calls' \in Nat
  PROVE  Rest'
<1> DEFINE me == thread[w]
<1>1. /\ me.at = "call" /\ me \in Threads /\ InLog(w) /\ me.slot \in Slots /\ me.slot \in Nat
      /\ me.message \in Nat /\ me.data \in NoSinks /\ callbacks[me.slot].fn \in NoSinks
  BY ThreadFields, EntriesTyped DEF CallBack, OutputInv, ThreadInv, Shape, InLog, InLogAts
<1>2. PICK r : r = [me EXCEPT !.at = "test", !.slot = @ + 1, !.data = "none"]
  OBVIOUS
<1>3. PICK c : c = [message |-> me.message, fn |-> callbacks[me.slot].fn, udata |-> me.data]
  OBVIOUS
<1>4. PICK i : i = me.slot
  OBVIOUS
<1>5. Goes(w, r) /\ UNCHANGED <<said, callbacks, met>> /\ Told(i, c)
  BY <1>2, <1>3, <1>4 DEF CallBack
<1>6. r \in Threads /\ r.at = "test" /\ r.message = me.message /\ r.slot = me.slot + 1
  BY <1>1, <1>2, GoesOn
<1>7. Shape(r) /\ r.at \notin AddAts
  BY <1>1, <1>6 DEF Shape, InLog, InLogAts, AddAts
<1>8. i \in Places /\ c \in Calls /\ c.message = me.message
  BY <1>1, <1>3, <1>4, OutputAssumption DEF Places, Slots, Calls
<1>9. /\ \A j \in Places : Past(me, j) => Past(r, j)
      /\ ~Past(me, i) /\ Past(r, i)
  BY <1>1, <1>4, <1>6, OutputAssumption DEF Past, Places, Slots
<1>10. ASSUME NEW m \in 1 .. Len(said), NEW t \in said[m].told, Kept(m, t), Ahead(me, m, t)
       PROVE  \/ Ahead(r, m, t)
              \/ i = t.slot /\ c = [message |-> m, fn |-> t.sink, udata |-> t.sink]
  <2>1. t.slot \in Nat /\ me.slot <= t.slot /\ me.message = m /\ (me.slot = t.slot => me.data = t.sink)
    BY <1>1, <1>10, SaidTyped DEF Ahead
  <2>2. CASE me.slot = t.slot
    BY <1>3, <1>4, <1>10, <2>1, <2>2 DEF Kept
  <2>3. CASE me.slot /= t.slot
    BY <1>1, <1>6, <2>1, <2>3 DEF Ahead
  <2>4. QED
    BY <2>2, <2>3
<1>11. QED
  BY <1>1, <1>5, <1>6, <1>7, <1>8, <1>9, <1>10, LogGives

LEMMA OutputInvStep == OutputInv /\ [OutputNext]_outputVars => OutputInv'
<1> SUFFICES ASSUME OutputInv, [OutputNext]_outputVars
             PROVE  OutputInv'
  OBVIOUS
<1>1. CASE OutputNext
  <2>1. FlagTypes' /\ calls' \in Nat /\ (~met' => ~met)
    BY <1>1, FlagsKeep
  <2>2. Rest'
    <3>1. ASSUME (\E b \in BOOLEAN : SetLock(b)) \/ SetLockData
          PROVE  Rest'
      <4>1. UNCHANGED <<said, thread, callbacks, out, met>>
        BY <3>1 DEF SetLock, SetLockData
      <4>2. QED
        BY <2>1, <4>1, SetLockKeeps
    <3>2. ASSUME NEW w \in Writers, NEW s \in Sinks, NEW l \in OutLevels, AddBegins(w, s, l)
          PROVE  Rest'
      BY <2>1, <3>2, AddBeginsKeeps
    <3>3. ASSUME NEW w \in Writers, AddSearch(w)
          PROVE  Rest'
      BY <2>1, <3>3, AddSearchKeeps
    <3>4. ASSUME NEW w \in Writers, NEW field \in Fields, AddStore(w, field)
          PROVE  Rest'
      BY <2>1, <3>4, AddStoreKeeps
    <3>5. ASSUME NEW w \in Writers, NEW l \in OutLevels, Enter(w, l)
          PROVE  Rest'
      BY <2>1, <3>5, EnterKeeps
    <3>6. ASSUME NEW w \in Writers,
                 \/ ReadLockData(w) \/ Acquire(w) \/ ToStderr(w) \/ Test(w) \/ ReadLevel(w)
                 \/ ReadData(w) \/ CallBack(w) \/ Leave(w) \/ Release(w)
          PROVE  Rest'
      BY <2>1, <3>6, WaitingKeeps, ToStderrKeeps, TestKeeps, ReadLevelKeeps, ReadDataKeeps,
         CallBackKeeps, EndKeeps, Zenon
    <3>7. QED
      BY <1>1, <3>1, <3>2, <3>3, <3>4, <3>5, <3>6, Zenon DEF OutputNext
  <2>3. QED
    BY <2>1, <2>2 DEF OutputInv, Rest
<1>2. CASE UNCHANGED outputVars
  <2>1. Rest'
    <3>1. UNCHANGED <<said, thread, callbacks, out, met>> /\ calls' \in Nat
      BY <1>2 DEF outputVars, OutputInv, OutputTypes
    <3>2. QED
      BY <3>1, SetLockKeeps
  <2>2. FlagTypes'
    BY <1>2 DEF outputVars, OutputInv, FlagTypes
  <2>3. QED
    BY <2>1, <2>2 DEF OutputInv, Rest
<1>3. QED
  BY <1>1, <1>2

LEMMA OutputInvariant == OutputSpec => []OutputInv
BY OutputInvInit, OutputInvStep, PTL DEF OutputSpec

\* For any number of threads, callbacks and entries: whatever is logged and
\* added and however the lock is set, no entry is given a message twice; and if
\* no two calls of log_add_callback overlap, every callback that had been added
\* when log_log was called, and whose level the message reaches, is told with
\* its own user data (log.c).
THEOREM EveryoneIsTold == OutputSpec => []EveryCallbackTold
<1>1. OutputInv => EveryCallbackTold
  <2> SUFFICES ASSUME OutputInv
               PROVE  EveryCallbackTold
    OBVIOUS
  <2>1. \A i \in Places : DOMAIN out[i] = 1 .. Len(out[i])
    BY DEF OutputInv, OutputTypes
  <2>2. DOMAIN said = 1 .. Len(said)
    BY DEF OutputInv, OutputTypes
  <2>3. ASSUME NEW i \in Places
        PROVE  \A j, k \in DOMAIN out[i] : out[i][j].message = out[i][k].message => j = k
    BY <2>1 DEF OutputInv, OnceInv
  <2>4. ASSUME ~met, NEW m \in DOMAIN said, \A w \in Writers : thread[w].message /= m,
               NEW t \in said[m].told
        PROVE  \E k \in DOMAIN out[t.slot] :
                 out[t.slot][k] = [message |-> m, fn |-> t.sink, udata |-> t.sink]
    <3>1. t.slot \in Places
      BY <2>2, SaidTyped
    <3>2. Came(t, m)
      BY <2>2, <2>4 DEF OutputInv, ToldInv, Ahead
    <3>3. QED
      BY <2>1, <3>1, <3>2 DEF Came
  <2>5. QED
    BY <2>3, <2>4 DEF EveryCallbackTold
<1>2. QED
  BY <1>1, OutputInvariant, PTL

\* A step that gives nothing and leaves the lock alone.
LEMMA OrderSame ==
  ASSUME OutputInv, OrderInv, NEW w \in Writers, NEW r, Goes(w, r),
         UNCHANGED <<out, locking, lockData, setting, holder, bare, switched>>,
         r.message \in {0, thread[w].message},
         r.message /= 0 /\ Orderly /\ r.at \notin {"lock", "wait"} => thread[w].at \notin {"lock", "wait"}
  PROVE  OrderInv'
<1>1. /\ thread'[w] = r /\ \A v \in Writers \ {w} : thread'[v] = thread[v]
  BY DEF Goes, OutputInv, OutputTypes
<1>2. ~setting' => (lockData' <=> locking')
  BY DEF OrderInv
<1>3. Orderly' <=> Orderly
  BY DEF Orderly
<1>4. ASSUME Orderly, NEW v \in Writers, InLog(v)'
      PROVE  /\ locking' /\ ~setting'
             /\ thread'[v].at \notin {"lock", "wait"} => holder' = v
             /\ \A i \in Places : LastAt(v, i)'
  <2>1. InLog(v) /\ thread'[v].message = thread[v].message
    BY <1>1, <1>4 DEF InLog
  <2>2. /\ locking /\ ~setting
        /\ thread[v].at \notin {"lock", "wait"} => holder = v
        /\ \A i \in Places : LastAt(v, i)
    BY <1>4, <2>1 DEF OrderInv
  <2>3. thread'[v].at \notin {"lock", "wait"} => thread[v].at \notin {"lock", "wait"}
    BY <1>1, <1>4 DEF InLog
  <2>4. \A i \in Places : LastAt(v, i)'
    BY <2>1, <2>2 DEF LastAt
  <2>5. QED
    BY <2>2, <2>3, <2>4
<1>5. Orderly => \A i, j \in Places : \A m, n : ~(Before(out'[i], m, n) /\ Before(out'[j], n, m))
  BY DEF OrderInv
<1>6. QED
  BY <1>2, <1>3, <1>4, <1>5 DEF OrderInv

\* While the lock is set nobody logs.
LEMMA OrderSwitch ==
  ASSUME OutputInv, OrderInv, (\E b \in BOOLEAN : SetLock(b)) \/ SetLockData
  PROVE  OrderInv'
<1>1. ~setting' => (lockData' <=> locking')
  BY DEF SetLock, SetLockData, OutputInv, FlagTypes
<1>2. UNCHANGED <<thread, out, bare>> /\ Switches
  BY DEF SetLock, SetLockData
<1>3. Orderly' => Orderly /\ \A w \in Writers : ~InLog(w)
  BY <1>2 DEF Orderly, Switches, OutputInv, FlagTypes
<1>4. \A w \in Writers : InLog(w)' <=> InLog(w)
  BY <1>2 DEF InLog
<1>5. QED
  BY <1>1, <1>2, <1>3, <1>4 DEF OrderInv

LEMMA OrderEnter ==
  ASSUME OutputInv, OrderInv, NEW w \in Writers, NEW l \in OutLevels, Enter(w, l)
  PROVE  OrderInv'
<1>1. PICK r : r = [Idle EXCEPT !.at = IF locking THEN "lock" ELSE "stderr", !.message = Len(said) + 1]
  OBVIOUS
<1>2. /\ Goes(w, r) /\ UNCHANGED <<out, locking, lockData, setting, holder>>
      /\ bare' = (bare \/ ~locking) /\ switched' = (switched \/ setting)
  BY <1>1 DEF Enter
<1>3. Len(said) \in Nat /\ thread \in [Writers -> Threads]
  BY DEF OutputInv, OutputTypes
<1>4. /\ thread'[w] = r /\ \A v \in Writers \ {w} : thread'[v] = thread[v]
  BY <1>2, <1>3 DEF Goes
<1>5. Orderly' => Orderly /\ locking /\ ~setting
  BY <1>2 DEF Orderly, OutputInv, FlagTypes
<1>6. r.message = Len(said) + 1 /\ (locking => r.at = "lock")
  BY <1>1 DEF Idle
<1>7. ASSUME Orderly', NEW v \in Writers, InLog(v)'
      PROVE  /\ locking' /\ ~setting'
             /\ thread'[v].at \notin {"lock", "wait"} => holder' = v
             /\ \A i \in Places : LastAt(v, i)'
  <2>1. CASE v = w
    <3>1. ASSUME NEW i \in Places, NEW k \in 1 .. Len(out[i])
          PROVE  out[i][k].message /= thread'[v].message
      BY <1>3, <1>4, <1>6, <2>1 DEF OutputInv, OnceInv
    <3>2. \A i \in Places : LastAt(v, i)'
      BY <1>2, <3>1 DEF LastAt
    <3>3. QED
      BY <1>2, <1>4, <1>5, <1>6, <1>7, <2>1, <3>2
  <2>2. CASE v /= w
    <3>1. InLog(v) /\ thread'[v] = thread[v]
      BY <1>4, <1>7, <2>2 DEF InLog
    <3>2. /\ thread[v].at \notin {"lock", "wait"} => holder = v
          /\ \A i \in Places : LastAt(v, i)
      BY <1>5, <1>7, <3>1 DEF OrderInv
    <3>3. \A i \in Places : LastAt(v, i)'
      BY <1>2, <3>1, <3>2 DEF LastAt
    <3>4. QED
      BY <1>2, <1>5, <1>7, <3>1, <3>2, <3>3
  <2>3. QED
    BY <2>1, <2>2
<1>8. Orderly' => \A i, j \in Places : \A m, n : ~(Before(out'[i], m, n) /\ Before(out'[j], n, m))
  BY <1>2, <1>5 DEF OrderInv
<1>9. ~setting' => (lockData' <=> locking')
  BY <1>2 DEF OrderInv
<1>10. QED
  BY <1>7, <1>8, <1>9 DEF OrderInv

\* The mutex changes hands: nobody else is past it.
LEMMA OrderLock ==
  ASSUME OutputInv, OrderInv, NEW w \in Writers, Acquire(w) \/ Release(w)
  PROVE  OrderInv'
<1>1. PICK r : /\ Goes(w, r) /\ r.message \in {0, thread[w].message}
               /\ r.message /= 0 => Acquire(w)
  <2>1. CASE Acquire(w)
    BY <2>1, ThreadFields DEF Acquire, OutputInv, Threads
  <2>2. CASE Release(w)
    BY <2>2 DEF Release, Idle
  <2>3. QED
    BY <2>1, <2>2
<1>2. UNCHANGED <<out, locking, lockData, setting, bare, switched>>
  BY DEF Acquire, Release
<1>3. thread \in [Writers -> Threads] /\ InLog(w)
  BY DEF Acquire, Release, OutputInv, OutputTypes, ThreadInv, Shape, InLog, InLogAts
<1>4. /\ thread'[w] = r /\ \A v \in Writers \ {w} : thread'[v] = thread[v]
  BY <1>1, <1>3 DEF Goes
<1>5. Orderly' <=> Orderly
  BY <1>2 DEF Orderly
<1>6. ASSUME Orderly, NEW v \in Writers \ {w}, InLog(v)
      PROVE  thread[v].at \in {"lock", "wait"}
  <2>1. thread[v].at \notin {"lock", "wait"} => holder = v
    BY <1>6 DEF OrderInv
  <2>2. holder = 0 \/ holder = w
    BY <1>3, <1>6 DEF Acquire, Release, Free, OrderInv
  <2>3. QED
    BY <2>1, <2>2, OutputAssumption
<1>7. ASSUME Orderly, NEW v \in Writers, InLog(v)'
      PROVE  /\ locking' /\ ~setting'
             /\ thread'[v].at \notin {"lock", "wait"} => holder' = v
             /\ \A i \in Places : LastAt(v, i)'
  <2>1. InLog(v) /\ thread'[v].message = thread[v].message
    BY <1>1, <1>4, <1>7 DEF InLog
  <2>2. locking /\ ~setting /\ \A i \in Places : LastAt(v, i)
    BY <1>7, <2>1 DEF OrderInv
  <2>3. \A i \in Places : LastAt(v, i)'
    BY <1>2, <2>1, <2>2 DEF LastAt
  <2>4. CASE v = w
    <3>1. Acquire(w)
      BY <1>1, <1>4, <1>7, <2>4 DEF InLog
    <3>2. QED
      BY <1>2, <2>2, <2>3, <2>4, <3>1 DEF Acquire
  <2>5. CASE v /= w
    BY <1>2, <1>4, <1>6, <1>7, <2>1, <2>2, <2>3, <2>5
  <2>6. QED
    BY <2>4, <2>5
<1>8. Orderly => \A i, j \in Places : \A m, n : ~(Before(out'[i], m, n) /\ Before(out'[j], n, m))
  BY <1>2 DEF OrderInv
<1>9. ~setting' => (lockData' <=> locking')
  BY <1>2 DEF OrderInv
<1>10. QED
  BY <1>5, <1>7, <1>8, <1>9 DEF OrderInv

\* The one thread past the lock gives its message after all that were given.
LEMMA OrderGives ==
  ASSUME OutputInv, OrderInv, NEW w \in Writers, NEW r \in Threads, Goes(w, r), UNCHANGED said, InLog(w),
         UNCHANGED <<locking, lockData, setting, holder, bare, switched>>,
         r.message = thread[w].message, r.at \notin {"lock", "wait"},
         thread[w].at \notin {"lock", "wait"},
         \A j \in Places : Past(thread[w], j) => Past(r, j),
         NEW i \in Places, NEW c \in Calls, c.message = thread[w].message, Told(i, c),
         ~Past(thread[w], i), Past(r, i)
  PROVE  OrderInv'
<1>1. /\ Len(out'[i]) = Len(out[i]) + 1 /\ out'[i][Len(out'[i])] = c /\ Len(out[i]) \in Nat
      /\ \A k \in 1 .. Len(out[i]) : out'[i][k] = out[i][k]
      /\ \A j \in Places \ {i} : out'[j] = out[j]
      /\ out' \in [Places -> Seq(Calls)]
  BY OnceGiven
<1>2. /\ thread'[w] = r /\ \A v \in Writers \ {w} : thread'[v] = thread[v]
      /\ \A v \in Writers : thread'[v].message = thread[v].message
  <2>1. /\ thread'[w] = r /\ \A v \in Writers \ {w} : thread'[v] = thread[v]
    BY Updated DEF OutputInv
  <2>2. QED
    BY <2>1
<1>3. Orderly' <=> Orderly
  BY DEF Orderly
<1>4. /\ out \in [Places -> Seq(Calls)]
      /\ \A j \in Places : Len(out[j]) \in Nat /\ DOMAIN out[j] = 1 .. Len(out[j])
      /\ \A j \in Places : Len(out'[j]) \in Nat /\ DOMAIN out'[j] = 1 .. Len(out'[j])
  BY <1>1 DEF OutputInv, OutputTypes
<1>5. ASSUME NEW k \in 1 .. Len(out'[i])
      PROVE  \/ k \in 1 .. Len(out[i]) /\ out'[i][k] = out[i][k]
             \/ k = Len(out'[i]) /\ out'[i][k] = c
  BY <1>1
<1>6. \A k \in 1 .. Len(out[i]) : out[i][k].message /= c.message
  BY DEF OutputInv, OnceInv, Given
<1>7. ASSUME Orderly, NEW v \in Writers, InLog(v)'
      PROVE  /\ locking' /\ ~setting'
             /\ thread'[v].at \notin {"lock", "wait"} => holder' = v
             /\ \A j \in Places : LastAt(v, j)'
  <2>1. InLog(v) /\ thread'[v].message = thread[v].message
    BY <1>2, <1>7 DEF InLog
  <2>2. /\ locking /\ ~setting /\ \A j \in Places : LastAt(v, j)
        /\ thread[v].at \notin {"lock", "wait"} => holder = v
        /\ holder = w
    BY <1>7, <2>1 DEF OrderInv
  <2>3. \A k \in 1 .. Len(out[i]) : out[i][k].message /= thread[v].message
    <3>1. CASE v = w
      BY <1>6, <3>1
    <3>2. CASE v /= w
      <4>1. thread[v].at \in {"lock", "wait"}
        BY <2>2, <3>2
      <4>2. ~Past(thread[v], i)
        BY <4>1 DEF Past
      <4>3. QED
        BY <2>1, <4>2 DEF OutputInv, OnceInv, Given
    <3>3. QED
      BY <3>1, <3>2
  <2>4. LastAt(v, i)'
    <3>1. ASSUME NEW k \in 1 .. Len(out'[i]), out'[i][k].message = thread'[v].message
          PROVE  k = Len(out'[i])
      BY <1>5, <2>1, <2>3, <3>1
    <3>2. QED
      BY <3>1 DEF LastAt
  <2>5. \A j \in Places : LastAt(v, j)'
    <3>1. \A j \in Places \ {i} : LastAt(v, j)'
      BY <1>1, <2>1, <2>2 DEF LastAt
    <3>2. QED
      BY <2>4, <3>1
  <2>6. thread'[v].at \notin {"lock", "wait"} => holder' = v
    BY <1>2, <2>2
  <2>7. QED
    BY <2>2, <2>5, <2>6
<1>8. ASSUME NEW m, NEW n, Before(out'[i], m, n)
      PROVE  Before(out[i], m, n) \/ (n = c.message /\ m /= n)
  <2>1. PICK j \in 1 .. Len(out'[i]), k \in 1 .. Len(out'[i]) :
          j < k /\ out'[i][j].message = m /\ out'[i][k].message = n
    BY <1>4, <1>8 DEF Before
  <2>2. j \in 1 .. Len(out[i]) /\ out'[i][j] = out[i][j]
    BY <1>1, <2>1
  <2>3. CASE k \in 1 .. Len(out[i]) /\ out'[i][k] = out[i][k]
    BY <1>4, <2>1, <2>2, <2>3 DEF Before
  <2>4. CASE k = Len(out'[i]) /\ out'[i][k] = c
    BY <1>6, <2>1, <2>2, <2>4
  <2>5. QED
    BY <1>5, <2>3, <2>4
<1>9. ASSUME Orderly, NEW j \in Places, NEW m
      PROVE  ~Before(out'[j], c.message, m)
  <2>1. ~Before(out[j], c.message, m)
    <3>1. LastAt(w, j)
      BY <1>9 DEF OrderInv
    <3>2. QED
      BY <1>4, <3>1 DEF LastAt, Before
  <2>2. CASE j = i
    <3>1. ASSUME Before(out'[i], c.message, m)
          PROVE  FALSE
      <4>1. Before(out[i], c.message, m) \/ (m = c.message /\ c.message /= m)
        BY <1>8, <3>1
      <4>2. QED
        BY <2>1, <2>2, <4>1
    <3>2. QED
      BY <2>2, <3>1
  <2>3. CASE j /= i
    BY <1>1, <2>1, <2>3
  <2>4. QED
    BY <2>2, <2>3
<1>10. ASSUME Orderly, NEW h \in Places, NEW j \in Places, NEW m, NEW n,
              Before(out'[h], m, n), Before(out'[j], n, m)
       PROVE  FALSE
  <2>1. m /= c.message /\ n /= c.message
    BY <1>9, <1>10
  <2>2. Before(out[h], m, n)
    BY <1>1, <1>8, <1>10, <2>1
  <2>3. Before(out[j], n, m)
    BY <1>1, <1>8, <1>10, <2>1
  <2>4. QED
    BY <1>10, <2>2, <2>3 DEF OrderInv
<1>11. ~setting' => (lockData' <=> locking')
  BY DEF OrderInv
<1>12. QED
  BY <1>3, <1>7, <1>10, <1>11 DEF OrderInv

\* Those that add callbacks are not in log_log.
LEMMA OrderAdds ==
  ASSUME OutputInv, OrderInv, NEW w \in Writers,
         \/ \E s \in Sinks, l \in OutLevels : AddBegins(w, s, l)
         \/ AddSearch(w)
         \/ \E field \in Fields : AddStore(w, field)
  PROVE  OrderInv'
<1> DEFINE me == thread[w]
<1>1. UNCHANGED <<out, locking, lockData, setting, holder, bare, switched>>
  <2>1. CASE \E s \in Sinks, l \in OutLevels : AddBegins(w, s, l)
    BY <2>1 DEF AddBegins
  <2>2. CASE AddSearch(w)
    BY <2>2 DEF AddSearch
  <2>3. CASE \E field \in Fields : AddStore(w, field)
    BY <2>3 DEF AddStore
  <2>4. QED
    BY <2>1, <2>2, <2>3
<1>2. ASSUME NEW s \in Sinks, NEW l \in OutLevels, AddBegins(w, s, l)
      PROVE  OrderInv'
  <2>1. PICK r : r = [Idle EXCEPT !.at = "search", !.slot = 1, !.data = s, !.level = l, !.todo = Fields]
    OBVIOUS
  <2>2. Goes(w, r) /\ r.message = 0
    BY <1>2, <2>1 DEF AddBegins, Idle
  <2>3. QED
    BY <1>1, <2>2, OrderSame
<1>3. CASE AddSearch(w) \/ \E field \in Fields : AddStore(w, field)
  <2>1. me \in Threads /\ me.message = 0
    BY <1>3, ThreadFields DEF AddSearch, AddStore, OutputInv, ThreadInv, Shape, InLogAts
  <2>2. PICK r : /\ Goes(w, r)
                 /\ \/ r = Idle
                    \/ r = [me EXCEPT !.at = "store"]
                    \/ r = [me EXCEPT !.slot = @ + 1]
                    \/ \E field \in Fields : r = [me EXCEPT !.todo = @ \ {field}]
    <3>1. CASE AddSearch(w)
      BY <3>1 DEF AddSearch
    <3>2. CASE \E field \in Fields : AddStore(w, field)
      BY <3>2 DEF AddStore
    <3>3. QED
      BY <1>3, <3>1, <3>2
  <2>3. r.message = 0
    BY <2>1, <2>2 DEF Threads, Idle
  <2>4. QED
    BY <1>1, <2>2, <2>3, OrderSame
<1>4. QED
  BY <1>2, <1>3

\* The moves of log_log that give nothing. With a lock, lock() always waits.
LEMMA OrderMoves ==
  ASSUME OutputInv, OrderInv, NEW w \in Writers,
         ReadLockData(w) \/ Test(w) \/ ReadLevel(w) \/ ReadData(w) \/ Leave(w)
  PROVE  OrderInv'
<1> DEFINE me == thread[w]
<1>1. UNCHANGED <<out, locking, lockData, setting, holder, bare, switched>>
  BY Zenon DEF ReadLockData, Test, ReadLevel, ReadData, Leave
<1>2. me \in Threads
  BY ThreadFields DEF OutputInv
<1>3. CASE ReadLockData(w)
  <2>1. PICK a : a = IF lockData THEN "wait" ELSE "stderr"
    OBVIOUS
  <2>2. PICK r : r = [me EXCEPT !.at = a]
    OBVIOUS
  <2>3. Goes(w, r) /\ me.at = "lock"
    BY <1>3, <2>1, <2>2 DEF ReadLockData
  <2>4. r.message = me.message /\ r.at = a
    BY <1>2, <2>2 DEF Threads
  <2>5. Orderly => a = "wait"
    <3>1. InLog(w)
      BY <2>3 DEF OutputInv, ThreadInv, Shape, InLog, InLogAts
    <3>2. QED
      BY <2>1, <3>1 DEF OrderInv
  <2>6. QED
    BY <1>1, <2>3, <2>4, <2>5, OrderSame
<1>4. CASE Test(w) \/ ReadLevel(w) \/ ReadData(w) \/ Leave(w)
  <2>1. me.at \notin {"lock", "wait"}
    BY <1>4 DEF Test, ReadLevel, ReadData, Leave
  <2>2. PICK r : /\ Goes(w, r)
                 /\ \/ r = Idle
                    \/ \E a : r = [me EXCEPT !.at = a]
                    \/ \E d : r = [me EXCEPT !.at = "call", !.data = d]
                    \/ r = [me EXCEPT !.at = "test", !.slot = @ + 1, !.data = "none"]
    <3>1. CASE Test(w)
      BY <3>1 DEF Test
    <3>2. CASE ReadLevel(w)
      BY <3>2 DEF ReadLevel, Passed
    <3>3. CASE ReadData(w)
      BY <3>3 DEF ReadData
    <3>4. CASE Leave(w)
      BY <3>4 DEF Leave
    <3>5. QED
      BY <1>4, <3>1, <3>2, <3>3, <3>4
  <2>3. r.message \in {0, me.message}
    <3>1. Idle.message = 0
      BY DEF Idle
    <3>2. QED
      BY <1>2, <2>2, <3>1, GoesOn DEF Threads
  <2>4. QED
    BY <1>1, <2>1, <2>2, <2>3, OrderSame
<1>5. QED
  BY <1>3, <1>4

LEMMA OrderTold ==
  ASSUME OutputInv, OrderInv, NEW w \in Writers, ToStderr(w) \/ CallBack(w)
  PROVE  OrderInv'
<1> DEFINE me == thread[w]
<1>1. UNCHANGED <<said, locking, lockData, setting, holder, bare, switched>>
  BY Zenon DEF ToStderr, CallBack
<1>2. /\ me \in Threads /\ InLog(w) /\ me.at \in {"stderr", "call"} /\ me.message \in Nat
      /\ me.slot \in Nat /\ (me.at = "call" => me.slot \in Slots)
      /\ ToStderr(w) => me.at = "stderr"
  BY ThreadFields DEF ToStderr, CallBack, OutputInv, ThreadInv, Shape, InLog, InLogAts
<1>3. CASE ToStderr(w)
  <2>1. PICK r : r = [me EXCEPT !.at = "test", !.slot = 1]
    OBVIOUS
  <2>2. PICK c : c = [message |-> me.message, fn |-> "none", udata |-> "none"]
    OBVIOUS
  <2>3. Goes(w, r) /\ (Told(0, c) \/ UNCHANGED out)
    BY <1>3, <2>1, <2>2 DEF ToStderr
  <2>4. r \in Threads /\ r.at = "test" /\ r.message = me.message /\ r.slot = 1
    BY <1>2, <2>1 DEF Threads, InLogAts
  <2>5. (\A j : ~Past(me, j)) /\ Past(r, 0)
    BY <1>2, <1>3, <2>4 DEF Past
  <2>6. 0 \in Places /\ c \in Calls /\ c.message = me.message
    BY <1>2, <2>2, OutputAssumption DEF Places, Calls, NoSinks
  <2>7. CASE UNCHANGED out
    BY <1>1, <1>2, <2>3, <2>4, <2>7, OrderSame
  <2>8. CASE Told(0, c)
    BY <1>1, <1>2, <2>3, <2>4, <2>5, <2>6, <2>8, OrderGives
  <2>9. QED
    BY <2>3, <2>7, <2>8
<1>4. CASE CallBack(w)
  <2>1. PICK r : r = [me EXCEPT !.at = "test", !.slot = @ + 1, !.data = "none"]
    OBVIOUS
  <2>2. PICK c : c = [message |-> me.message, fn |-> callbacks[me.slot].fn, udata |-> me.data]
    OBVIOUS
  <2>3. PICK i : i = me.slot
    OBVIOUS
  <2>4. Goes(w, r) /\ Told(i, c) /\ me.at = "call"
    BY <1>4, <2>1, <2>2, <2>3 DEF CallBack
  <2>5. r \in Threads /\ r.at = "test" /\ r.message = me.message /\ r.slot = me.slot + 1
    BY <1>2, <2>1, GoesOn
  <2>6. i \in Places /\ c \in Calls /\ c.message = me.message
    <3>1. callbacks[me.slot].fn \in NoSinks /\ me.data \in NoSinks
      BY <1>2, <2>4, EntriesTyped, ThreadFields DEF OutputInv
    <3>2. QED
      BY <1>2, <2>2, <2>3, <2>4, <3>1, OutputAssumption DEF Places, Slots, Calls
  <2>7. /\ \A j \in Places : Past(me, j) => Past(r, j)
        /\ ~Past(me, i) /\ Past(r, i)
    BY <1>2, <2>3, <2>4, <2>5, OutputAssumption DEF Past, Places, Slots
  <2>8. QED
    BY <1>1, <1>2, <2>4, <2>5, <2>6, <2>7, OrderGives
<1>5. QED
  BY <1>3, <1>4

LEMMA OrderInvInit == OutputInit => OrderInv
<1> SUFFICES ASSUME OutputInit
             PROVE  OrderInv
  OBVIOUS
<1>1. ~setting => (lockData <=> locking)
  BY DEF OutputInit
<1>2. \A w \in Writers : ~InLog(w)
  BY DEF OutputInit, InLog, Idle
<1>3. \A i \in Places : \A m, n : ~Before(out[i], m, n)
  BY DEF OutputInit, Before
<1>4. QED
  BY <1>1, <1>2, <1>3 DEF OrderInv

LEMMA OrderInvStep == OutputInv /\ OrderInv /\ [OutputNext]_outputVars => OrderInv'
<1> SUFFICES ASSUME OutputInv, OrderInv, [OutputNext]_outputVars
             PROVE  OrderInv'
  OBVIOUS
<1>1. CASE OutputNext
  <2>1. CASE (\E b \in BOOLEAN : SetLock(b)) \/ SetLockData
    BY <2>1, OrderSwitch
  <2>2. ASSUME NEW w \in Writers,
               \/ \E s \in Sinks, l \in OutLevels : AddBegins(w, s, l)
               \/ AddSearch(w)
               \/ \E field \in Fields : AddStore(w, field)
        PROVE  OrderInv'
    BY <2>2, OrderAdds
  <2>3. ASSUME NEW w \in Writers, NEW l \in OutLevels, Enter(w, l)
        PROVE  OrderInv'
    BY <2>3, OrderEnter
  <2>4. ASSUME NEW w \in Writers, ReadLockData(w) \/ Test(w) \/ ReadLevel(w) \/ ReadData(w) \/ Leave(w)
        PROVE  OrderInv'
    BY <2>4, OrderMoves
  <2>5. ASSUME NEW w \in Writers, Acquire(w) \/ Release(w) \/ ToStderr(w) \/ CallBack(w)
        PROVE  OrderInv'
    BY <2>5, OrderLock, OrderTold
  <2>6. QED
    BY <1>1, <2>1, <2>2, <2>3, <2>4, <2>5, Zenon DEF OutputNext
<1>2. CASE UNCHANGED outputVars
  <2>1. UNCHANGED <<said, thread, out, locking, lockData, setting, holder, bare, switched>>
    BY <1>2 DEF outputVars
  <2>2. QED
    BY <2>1 DEF OrderInv, Orderly, InLog, LastAt
<1>3. QED
  BY <1>1, <1>2

\* For any number of threads, callbacks and entries: with a lock that is set
\* before the first message and left alone while anybody logs, stderr and all
\* entries are given the messages in one order (log_log).
THEOREM MessagesKeepOrder == OutputSpec => []SameOrder
<1>1. OutputSpec => [](OutputInv /\ OrderInv)
  <2>1. OutputInit => OutputInv /\ OrderInv
    BY OutputInvInit, OrderInvInit
  <2>2. OutputInv /\ OrderInv /\ [OutputNext]_outputVars => (OutputInv /\ OrderInv)'
    BY OutputInvStep, OrderInvStep
  <2>3. QED
    BY <2>1, <2>2, PTL DEF OutputSpec
<1>2. OutputInv /\ OrderInv => SameOrder
  BY DEF OrderInv, SameOrder, Orderly
<1>3. QED
  BY <1>1, <1>2, PTL

-----------------------------------------------------------------------------
(* LogConfig: the filters of a table. *)

Filters == [name : Names, level : Levels]

Named(fs, n)    == {j \in 1 .. Len(fs) : fs[j].name = n}
Deciding(fs, n) == {j \in 1 .. Len(fs) : Folded[fs[j].name] = Folded[n]}

\* What SelectInSeq makes of the places that fit.
FirstOf(S) == IF S /= {} THEN Min(S) ELSE 0

LEMMA FirstOfIsFirst ==
  ASSUME NEW S \in SUBSET (Nat \ {0})
  PROVE  /\ FirstOf(S) = 0 <=> S = {}
         /\ S /= {} => FirstOf(S) \in S /\ \A j \in S : FirstOf(S) <= j
BY MinIsLeast DEF FirstOf

LEMMA LookupsAreFirst ==
  /\ \A fs, n : FilterNamed(fs, n) = FirstOf(Named(fs, n))
  /\ \A n : FilterFor(n) = FirstOf(Deciding(filter, n))
BY DEF FilterNamed, FilterFor, SelectInSeq, FirstOf, Named, Deciding

LEMMA FilterNamedIsFirst ==
  ASSUME NEW fs \in Seq(Filters), NEW n
  PROVE  /\ FilterNamed(fs, n) = 0 <=> Named(fs, n) = {}
         /\ Named(fs, n) /= {} => FilterNamed(fs, n) \in Named(fs, n)
<1>1. Named(fs, n) \in SUBSET (Nat \ {0})
  BY DEF Named
<1>2. QED
  BY <1>1, FirstOfIsFirst, LookupsAreFirst

\* Every filter has the stored form of some name, and a name that no other
\* name is stored as has one filter.
TableOK(fs) ==
  /\ fs \in Seq(Filters)
  /\ \A j \in 1 .. Len(fs) : \E m \in Names : fs[j].name = Cut[m]
  /\ \A n \in Names : (\A m \in Names \ {n} : Cut[m] /= n) =>
       \A j, k \in 1 .. Len(fs) : fs[j].name = n /\ fs[k].name = n => j = k

\* As long as there is room the filters of plain names are those asked for.
Agrees(fs, w) ==
  Len(fs) < MaxFilters =>
    \A n \in Names : Plain(n) =>
      /\ \A j \in 1 .. Len(fs) : fs[j].name = n => n \in DOMAIN w /\ fs[j].level = w[n]
      /\ n \in DOMAIN w => \E j \in 1 .. Len(fs) : fs[j].name = n

\* gs has the filters of fs where they were, with whatever levels.
Extends(fs, gs) == Len(fs) <= Len(gs) /\ \A j \in 1 .. Len(fs) : gs[j].name = fs[j].name

ConfigInv == TableOK(filter) /\ Agrees(filter, wanted)

LEMMA PlainNamesAlone ==
  ASSUME NEW n \in Names, Plain(n)
  PROVE  Cut[n] = n /\ \A m \in Names \ {n} : Cut[m] /= n
BY LogAssumption DEF Plain

\* log_add_filter, by what it finds: a filter of that name,
LEMMA ChangesFilter ==
  ASSUME NEW fs, TableOK(fs), NEW w, Agrees(fs, w), NEW n \in Names, NEW l \in Levels,
         Named(fs, n) /= {}
  PROVE  /\ TableOK(SetFilter(fs, n, l))
         /\ Agrees(SetFilter(fs, n, l), Asked(w, n, l))
         /\ Extends(fs, SetFilter(fs, n, l))
<1> DEFINE gs == SetFilter(fs, n, l)
<1>1. fs \in Seq(Filters) /\ Len(fs) \in Nat
  BY DEF TableOK
<1>2. PICK i \in 1 .. Len(fs) : i = FilterNamed(fs, n) /\ fs[i].name = n
  BY <1>1, FilterNamedIsFirst DEF Named
<1>3. FilterNamed(fs, n) /= 0
  BY <1>1, FilterNamedIsFirst
<1>4. gs = [fs EXCEPT ![i].level = l]
  BY <1>2, <1>3 DEF SetFilter
<1>5. fs[i] \in Filters
  BY <1>1, ElementOfSeq
<1>6. [fs[i] EXCEPT !.level = l] = [name |-> n, level |-> l] /\ [fs[i] EXCEPT !.level = l] \in Filters
  BY <1>2, <1>5 DEF Filters
<1>7. gs = [fs EXCEPT ![i] = [fs[i] EXCEPT !.level = l]]
  BY <1>4
<1>8. /\ gs \in Seq(Filters) /\ Len(gs) = Len(fs)
      /\ gs[i] = [name |-> n, level |-> l]
      /\ \A j \in 1 .. Len(fs) : j /= i => gs[j] = fs[j]
  BY <1>1, <1>6, <1>7, ExceptSeq
<1> HIDE DEF gs
<1>9. \A j \in 1 .. Len(fs) : gs[j].name = fs[j].name
  BY <1>2, <1>8
<1>10. TableOK(gs)
  BY <1>8, <1>9, SMTT(30) DEF TableOK
<1>11. Extends(fs, gs)
  BY <1>1, <1>8, <1>9 DEF Extends
<1>12. Agrees(gs, Asked(w, n, l))
  <2> SUFFICES ASSUME Len(fs) < MaxFilters, NEW m \in Names, Plain(m)
               PROVE  /\ \A j \in 1 .. Len(fs) : gs[j].name = m =>
                           m \in DOMAIN Asked(w, n, l) /\ gs[j].level = Asked(w, n, l)[m]
                      /\ m \in DOMAIN Asked(w, n, l) => \E j \in 1 .. Len(fs) : gs[j].name = m
    BY <1>8 DEF Agrees
  <2>1. CASE m = n
    <3>1. \A j \in 1 .. Len(fs) : gs[j].name = m => j = i
      BY <1>2, <1>9, <2>1, PlainNamesAlone DEF TableOK
    <3>2. m \in DOMAIN Asked(w, n, l) /\ Asked(w, n, l)[m] = l
      BY <2>1 DEF Asked
    <3>3. QED
      BY <1>8, <2>1, <3>1, <3>2
  <2>2. CASE m /= n
    <3>1. \A j \in 1 .. Len(fs) : gs[j].name = m => j /= i
      BY <1>2, <1>9, <2>2
    <3>2. /\ m \in DOMAIN Asked(w, n, l) <=> m \in DOMAIN w
          /\ m \in DOMAIN w => Asked(w, n, l)[m] = w[m]
      BY <2>2 DEF Asked
    <3>3. /\ \A j \in 1 .. Len(fs) : fs[j].name = m => m \in DOMAIN w /\ fs[j].level = w[m]
          /\ m \in DOMAIN w => \E j \in 1 .. Len(fs) : fs[j].name = m
      BY DEF Agrees
    <3>4. QED
      BY <1>8, <1>9, <3>1, <3>2, <3>3
  <2>3. QED
    BY <2>1, <2>2
<1>13. QED
  BY <1>10, <1>11, <1>12 DEF gs

\* a full table,
LEMMA RefusesFilter ==
  ASSUME NEW fs, TableOK(fs), NEW w, Agrees(fs, w), NEW n \in Names, NEW l \in Levels,
         Named(fs, n) = {}, Len(fs) >= MaxFilters
  PROVE  SetFilter(fs, n, l) = fs /\ Agrees(fs, Asked(w, n, l)) /\ Extends(fs, fs)
<1>1. FilterNamed(fs, n) = 0
  BY FilterNamedIsFirst DEF TableOK
<1>2. SetFilter(fs, n, l) = fs
  BY <1>1 DEF SetFilter
<1>3. Len(fs) \in Nat /\ MaxFilters \in Nat
  BY LogAssumption DEF TableOK
<1>4. QED
  BY <1>2, <1>3 DEF Agrees, Extends

\* or room for a new one.
LEMMA AddsFilter ==
  ASSUME NEW fs, TableOK(fs), NEW w, Agrees(fs, w), NEW n \in Names, NEW l \in Levels,
         Named(fs, n) = {}, ~(Len(fs) >= MaxFilters)
  PROVE  /\ TableOK(SetFilter(fs, n, l))
         /\ Agrees(SetFilter(fs, n, l), Asked(w, n, l))
         /\ Extends(fs, SetFilter(fs, n, l))
<1> DEFINE gs == SetFilter(fs, n, l)
           e  == [name |-> Cut[n], level |-> l]
<1>1. fs \in Seq(Filters) /\ Len(fs) \in Nat /\ Len(fs) < MaxFilters
  BY LogAssumption DEF TableOK
<1>2. FilterNamed(fs, n) = 0
  BY <1>1, FilterNamedIsFirst
<1>3. gs = Append(fs, e)
  BY <1>2 DEF SetFilter
<1>4. e \in Filters /\ e.name = Cut[n] /\ e.level = l
  BY LogAssumption DEF Filters
<1> HIDE DEF e
<1>5. /\ gs \in Seq(Filters) /\ Len(gs) = Len(fs) + 1
      /\ \A j \in 1 .. Len(fs) : gs[j] = fs[j]
      /\ gs[Len(fs) + 1] = e
  BY <1>1, <1>3, <1>4, AppendProperties
<1> HIDE DEF gs
<1>6. \A j \in 1 .. Len(gs) : j \in 1 .. Len(fs) \/ j = Len(fs) + 1
  BY <1>1, <1>5
<1>7. \A j \in 1 .. Len(fs) : fs[j].name /= n /\ j \in 1 .. Len(gs)
  BY <1>1, <1>5 DEF Named
<1>8. \A m \in Names : (\A k \in Names \ {m} : Cut[k] /= m) /\ Cut[n] = m => m = n
  OBVIOUS
<1>9. TableOK(gs)
  <2>1. \A j \in 1 .. Len(gs) : \E m \in Names : gs[j].name = Cut[m]
    BY <1>4, <1>5, <1>6 DEF TableOK
  <2>2. ASSUME NEW m \in Names, \A k \in Names \ {m} : Cut[k] /= m,
               NEW j \in 1 .. Len(gs), NEW k \in 1 .. Len(gs), gs[j].name = m, gs[k].name = m
        PROVE  j = k
    <3>1. CASE j \in 1 .. Len(fs) /\ k \in 1 .. Len(fs)
      BY <1>5, <2>2, <3>1 DEF TableOK
    <3>2. CASE ~(j \in 1 .. Len(fs) /\ k \in 1 .. Len(fs))
      <4>1. Cut[n] = m
        BY <1>4, <1>5, <1>6, <2>2, <3>2
      <4>2. m = n
        BY <1>8, <2>2, <4>1
      <4>3. j \notin 1 .. Len(fs) /\ k \notin 1 .. Len(fs)
        BY <1>5, <1>7, <2>2, <4>2
      <4>4. QED
        BY <1>6, <4>3
    <3>3. QED
      BY <3>1, <3>2
  <2>3. QED
    BY <1>5, <2>1, <2>2 DEF TableOK
<1>10. Extends(fs, gs)
  BY <1>1, <1>5 DEF Extends
<1>11. Agrees(gs, Asked(w, n, l))
  <2> SUFFICES ASSUME NEW m \in Names, Plain(m)
               PROVE  /\ \A j \in 1 .. Len(gs) : gs[j].name = m =>
                           m \in DOMAIN Asked(w, n, l) /\ gs[j].level = Asked(w, n, l)[m]
                      /\ m \in DOMAIN Asked(w, n, l) => \E j \in 1 .. Len(gs) : gs[j].name = m
    BY DEF Agrees
  <2>1. CASE m = n
    <3>1. m \in DOMAIN Asked(w, n, l) /\ Asked(w, n, l)[m] = l /\ Cut[n] = n
      BY <2>1, PlainNamesAlone DEF Asked
    <3>2. \A j \in 1 .. Len(gs) : gs[j].name = m => j = Len(fs) + 1
      BY <1>5, <1>6, <1>7, <2>1
    <3>3. Len(fs) + 1 \in 1 .. Len(gs)
      BY <1>1, <1>5
    <3>4. gs[Len(fs) + 1].name = m /\ gs[Len(fs) + 1].level = l
      BY <1>4, <1>5, <2>1, <3>1
    <3>5. QED
      BY <3>1, <3>2, <3>3, <3>4
  <2>2. CASE m /= n
    <3>1. /\ m \in DOMAIN Asked(w, n, l) <=> m \in DOMAIN w
          /\ m \in DOMAIN w => Asked(w, n, l)[m] = w[m]
      BY <2>2 DEF Asked
    <3>2. /\ \A j \in 1 .. Len(fs) : fs[j].name = m => m \in DOMAIN w /\ fs[j].level = w[m]
          /\ m \in DOMAIN w => \E j \in 1 .. Len(fs) : fs[j].name = m
      BY <1>1 DEF Agrees
    <3>3. Cut[n] /= m
      BY <2>2, PlainNamesAlone
    <3>4. \A j \in 1 .. Len(gs) : gs[j].name = m => j \in 1 .. Len(fs)
      BY <1>4, <1>5, <1>6, <3>3
    <3>5. QED
      BY <1>5, <1>7, <3>1, <3>2, <3>4
  <2>3. QED
    BY <2>1, <2>2
<1>12. QED
  BY <1>9, <1>10, <1>11 DEF gs

LEMMA SetFilterKeeps ==
  ASSUME NEW fs, TableOK(fs), NEW w, Agrees(fs, w), NEW n \in Names, NEW l \in Levels
  PROVE  /\ TableOK(SetFilter(fs, n, l))
         /\ Agrees(SetFilter(fs, n, l), Asked(w, n, l))
         /\ Extends(fs, SetFilter(fs, n, l))
<1>1. CASE Named(fs, n) /= {}
  BY <1>1, ChangesFilter
<1>2. CASE Named(fs, n) = {} /\ Len(fs) >= MaxFilters
  BY <1>2, RefusesFilter
<1>3. CASE Named(fs, n) = {} /\ ~(Len(fs) >= MaxFilters)
  BY <1>3, AddsFilter
<1>4. QED
  BY <1>1, <1>2, <1>3

LEMMA ExtendsIsPreorder ==
  ASSUME NEW fs, TableOK(fs), NEW gs, TableOK(gs), NEW hs, TableOK(hs),
         Extends(fs, gs), Extends(gs, hs)
  PROVE  Extends(fs, hs)
<1>1. Len(fs) \in Nat /\ Len(gs) \in Nat /\ Len(hs) \in Nat
  BY DEF TableOK
<1>2. QED
  BY <1>1 DEF Extends

-----------------------------------------------------------------------------
(* A string of levels, one part after the other. *)

\* What Apply works on, begun with the table fs.
Configured(c, fs) ==
  /\ c = [level |-> c.level, filter |-> c.filter, wanted |-> c.wanted, stopped |-> c.stopped]
  /\ TableOK(c.filter) /\ Agrees(c.filter, c.wanted) /\ Extends(fs, c.filter)

LEMMA ApplyKeeps ==
  ASSUME NEW fs, TableOK(fs), NEW c, Configured(c, fs), NEW part \in LevelParts
  PROVE  Configured(Apply(c, part), fs)
<1> USE DEF Configured
<1>1. CASE c.stopped
  BY <1>1 DEF Apply
<1>2. CASE ~c.stopped /\ part.level = Bad
  BY <1>2 DEF Apply
<1>3. CASE ~c.stopped /\ part.level /= Bad /\ part.name = Default
  BY <1>3 DEF Apply
<1>4. CASE ~c.stopped /\ part.level /= Bad /\ part.name /= Default
  <2>1. part.name \in Names /\ part.level \in Levels
    BY <1>4 DEF LevelParts
  <2> DEFINE gs == SetFilter(c.filter, part.name, part.level)
             w  == Asked(c.wanted, part.name, part.level)
  <2>2. TableOK(gs) /\ Agrees(gs, w) /\ Extends(c.filter, gs)
    BY <2>1, SetFilterKeeps
  <2>3. Extends(fs, gs)
    BY <2>2, ExtendsIsPreorder
  <2> HIDE DEF gs, w
  <2>4. Apply(c, part) = [level |-> c.level, filter |-> gs, wanted |-> w,
                          stopped |-> Len(gs) >= MaxFilters]
    BY <1>4 DEF Apply, gs, w
  <2>5. QED
    BY <2>2, <2>3, <2>4
<1>5. QED
  BY <1>1, <1>2, <1>3, <1>4

LEMMA StringKeeps ==
  ASSUME ConfigInv, NEW parts \in Seq(LevelParts), log_set_level_from_string(parts)
  PROVE  ConfigInv' /\ Extends(filter, filter')
<1> DEFINE start == [level |-> level, filter |-> filter, wanted |-> wanted, stopped |-> FALSE]
           Body(a) == [k \in 0 .. Len(parts) |-> IF k = 0 THEN start ELSE Apply(a[k - 1], parts[k])]
           after == CHOOSE a : a = Body(a)
<1>1. Len(parts) \in Nat
  OBVIOUS
<1>2. Configured(start, filter)
  BY DEF Configured, ConfigInv, Extends
<1> HIDE DEF start
<1>3. \E a : a = Body(a)
  <2> DEFINE Begun(a, m) == /\ DOMAIN a = 0 .. m /\ a[0] = start
                            /\ \A k \in 1 .. m : a[k] = Apply(a[k - 1], parts[k])
             X == {m \in Nat : m <= Len(parts) => \E a : a = [k \in 0 .. m |-> a[k]] /\ Begun(a, m)}
  <2>1. 0 \in X
    <3>1. Begun([k \in 0 .. 0 |-> start], 0)
      OBVIOUS
    <3>2. QED
      BY <3>1
  <2>2. ASSUME NEW m \in Nat, m \in X
        PROVE  m + 1 \in X
    <3> SUFFICES ASSUME m + 1 <= Len(parts)
                 PROVE  \E a : a = [k \in 0 .. m + 1 |-> a[k]] /\ Begun(a, m + 1)
      OBVIOUS
    <3>1. PICK b : b = [k \in 0 .. m |-> b[k]] /\ Begun(b, m)
      BY <1>1, <2>2
    <3> DEFINE last == Apply(b[m], parts[m + 1])
               a == [k \in 0 .. m + 1 |-> IF k = m + 1 THEN last ELSE b[k]]
    <3> HIDE DEF last
    <3>2. a[0] = start /\ a[m + 1] = last /\ \A k \in 0 .. m : a[k] = b[k]
      BY <3>1
    <3>3. ASSUME NEW k \in 1 .. m + 1
          PROVE  a[k] = Apply(a[k - 1], parts[k])
      <4>1. CASE k \in 1 .. m
        <5>1. a[k] = b[k] /\ a[k - 1] = b[k - 1]
          BY <3>2, <4>1
        <5>2. QED
          BY <3>1, <4>1, <5>1
      <4>2. CASE k = m + 1
        <5>1. a[k] = last /\ a[k - 1] = b[m]
          BY <3>2, <4>2
        <5>2. QED
          BY <4>2, <5>1 DEF last
      <4>3. QED
        BY <4>1, <4>2
    <3>4. DOMAIN a = 0 .. m + 1 /\ a = [k \in 0 .. m + 1 |-> a[k]]
      OBVIOUS
    <3> HIDE DEF a
    <3>5. QED
      BY <3>2, <3>3, <3>4
  <2>3. Len(parts) \in X
    <3> HIDE DEF X
    <3>1. QED
      BY <1>1, <2>1, <2>2, SetInduction
  <2>4. PICK a : a = [k \in 0 .. Len(parts) |-> a[k]] /\ Begun(a, Len(parts))
    BY <1>1, <2>3
  <2>5. \A k \in 0 .. Len(parts) : a[k] = Body(a)[k]
    BY <1>1, <2>4
  <2>6. a = Body(a)
    BY <2>4, <2>5
  <2>7. QED
    BY <2>6
<1>4. after = Body(after)
  <2> HIDE DEF Body
  <2>1. QED
    BY <1>3
<1>5. \A k \in 0 .. Len(parts) : after[k] = IF k = 0 THEN start ELSE Apply(after[k - 1], parts[k])
  <2> HIDE DEF after
  <2>1. QED
    BY <1>4
<1>6. /\ filter' = after[Len(parts)].filter /\ wanted' = after[Len(parts)].wanted
  BY DEF log_set_level_from_string, start
<1> HIDE DEF after
<1>7. Configured(after[Len(parts)], filter)
  <2> DEFINE X == {m \in Nat : m <= Len(parts) => Configured(after[m], filter)}
  <2>1. 0 \in X
    BY <1>1, <1>2, <1>5
  <2>2. ASSUME NEW m \in Nat, m \in X
        PROVE  m + 1 \in X
    <3> SUFFICES ASSUME m + 1 <= Len(parts)
                 PROVE  Configured(after[m + 1], filter)
      OBVIOUS
    <3>1. m + 1 \in 0 .. Len(parts) /\ m + 1 /= 0 /\ m + 1 - 1 = m /\ Configured(after[m], filter)
      BY <1>1, <2>2
    <3>2. after[m + 1] = Apply(after[m], parts[m + 1])
      BY <1>5, <3>1
    <3>3. parts[m + 1] \in LevelParts
      BY <1>1, ElementOfSeq
    <3>4. QED
      BY <3>1, <3>2, <3>3, ApplyKeeps DEF ConfigInv
  <2>3. Len(parts) \in X
    <3> HIDE DEF X
    <3>1. QED
      BY <1>1, <2>1, <2>2, SetInduction
  <2>4. QED
    BY <2>3
<1>8. QED
  BY <1>6, <1>7 DEF Configured, ConfigInv

LEMMA ConfigStep == ConfigInv /\ [LogNext]_logVars => ConfigInv' /\ Extends(filter, filter')
<1> SUFFICES ASSUME ConfigInv, [LogNext]_logVars
             PROVE  ConfigInv' /\ Extends(filter, filter')
  OBVIOUS
<1>1. ASSUME UNCHANGED <<filter, wanted>>
      PROVE  ConfigInv' /\ Extends(filter, filter')
  <2>1. Len(filter) \in Nat
    BY DEF ConfigInv, TableOK
  <2>2. QED
    BY <1>1, <2>1 DEF ConfigInv, Extends
<1>2. CASE UNCHANGED logVars
  BY <1>1, <1>2 DEF logVars
<1>3. ASSUME NEW l \in Levels, log_set_level(l)
      PROVE  ConfigInv' /\ Extends(filter, filter')
  BY <1>1, <1>3 DEF log_set_level
<1>4. ASSUME NEW b \in BOOLEAN, log_set_quiet(b)
      PROVE  ConfigInv' /\ Extends(filter, filter')
  BY <1>1, <1>4 DEF log_set_quiet
<1>5. ASSUME NEW n \in Names, NEW l \in Levels, log_add_filter(n, l)
      PROVE  ConfigInv' /\ Extends(filter, filter')
  BY <1>5, SetFilterKeeps DEF log_add_filter, ConfigInv
<1>6. ASSUME NEW k \in 1 .. MaxParts, NEW parts \in [1 .. k -> LevelParts], log_set_level_from_string(parts)
      PROVE  ConfigInv' /\ Extends(filter, filter')
  <2>1. parts \in Seq(LevelParts)
    OBVIOUS
  <2>2. QED
    BY <1>6, <2>1, StringKeeps
<1>7. QED
  BY <1>2, <1>3, <1>4, <1>5, <1>6 DEF LogNext

LEMMA ConfigInvariant == LogSpec => []ConfigInv
<1>1. LogInit => ConfigInv
  BY DEF LogInit, ConfigInv, TableOK, Agrees
<1>2. QED
  BY <1>1, ConfigStep, PTL DEF LogSpec

\* A name no other name is stored as has one filter however often its level is
\* set, by call or in a string, so that setting it does not use up the table
\* (log_add_filter, log_set_level_from_string).
THEOREM OneFilterEach == LogSpec => []OneFilterPerName
<1>1. ConfigInv => OneFilterPerName
  <2> SUFFICES ASSUME TableOK(filter)
               PROVE  OneFilterPerName
    BY DEF ConfigInv
  <2>1. DOMAIN filter = 1 .. Len(filter)
    BY DEF TableOK
  <2>2. QED
    BY <2>1 DEF TableOK, OneFilterPerName
<1>2. QED
  BY <1>1, ConfigInvariant, PTL

\* For a plain tag the two comparisons, by strcmp when a level is set and by
\* strcasecmp when a message comes, find the same filters.
LEMMA PlainLookup ==
  ASSUME NEW fs, TableOK(fs), NEW n \in Names, Plain(n)
  PROVE  Deciding(fs, n) = Named(fs, n)
<1>1. ASSUME NEW j \in 1 .. Len(fs), Folded[fs[j].name] = Folded[n]
      PROVE  fs[j].name = n
  <2>1. PICK m \in Names : fs[j].name = Cut[m]
    BY DEF TableOK
  <2>2. Folded[n] \in Names /\ Cut[m] \in Names
    BY LogAssumption
  <2>3. ASSUME NEW k \in Names, Cut[k] = Cut[m]
        PROVE  k = n \/ Folded[Cut[m]] /= Folded[n]
    BY <2>3 DEF Plain
  <2>4. m = n
    BY <1>1, <2>1, <2>3
  <2>5. QED
    BY <2>1, <2>4 DEF Plain
<1>2. QED
  BY <1>1 DEF Deciding, Named

\* As long as the table has room a message with a plain tag is printed exactly
\* when it reaches the level last asked for its tag, or else the default one, in
\* whatever order and way the levels were set (log_add_filter,
\* log_set_level_from_string, filter_log).
THEOREM LevelsAreAsAsked == LogSpec => []PrintedAsAsked
<1>1. ASSUME ConfigInv, Len(filter) < MaxFilters, NEW n \in Names, NEW l \in Levels, Plain(n)
      PROVE  filter_log(n, l) <=> ~quiet /\ l >= IF n \in DOMAIN wanted THEN wanted[n] ELSE level
  <2>1. /\ \A j \in 1 .. Len(filter) : filter[j].name = n =>
             n \in DOMAIN wanted /\ filter[j].level = wanted[n]
        /\ n \in DOMAIN wanted => \E j \in 1 .. Len(filter) : filter[j].name = n
    BY <1>1 DEF ConfigInv, Agrees
  <2>2. FilterFor(n) = FirstOf(Named(filter, n))
    BY <1>1, LookupsAreFirst, PlainLookup DEF ConfigInv
  <2>3. Named(filter, n) \in SUBSET (Nat \ {0})
    BY DEF Named
  <2>4. /\ FilterFor(n) = 0 <=> Named(filter, n) = {}
        /\ Named(filter, n) /= {} => FilterFor(n) \in Named(filter, n)
    BY <2>2, <2>3, FirstOfIsFirst
  <2>5. CASE n \in DOMAIN wanted
    <3>1. FilterFor(n) /= 0 /\ filter[FilterFor(n)].level = wanted[n]
      BY <2>1, <2>4, <2>5 DEF Named
    <3>2. QED
      BY <2>5, <3>1 DEF filter_log
  <2>6. CASE n \notin DOMAIN wanted
    <3>1. FilterFor(n) = 0
      BY <2>1, <2>4, <2>6 DEF Named
    <3>2. QED
      BY <2>6, <3>1 DEF filter_log
  <2>7. QED
    BY <2>5, <2>6
<1>2. ConfigInv => PrintedAsAsked
  BY <1>1 DEF PrintedAsAsked
<1>3. QED
  BY <1>2, ConfigInvariant, PTL

\* Filters are only added behind those that are there.
LEMMA FirstStays ==
  ASSUME NEW fs, TableOK(fs), NEW gs, TableOK(gs), Extends(fs, gs), NEW n,
         FirstOf(Deciding(fs, n)) /= 0
  PROVE  FirstOf(Deciding(gs, n)) = FirstOf(Deciding(fs, n))
<1>1. Len(fs) \in Nat /\ Len(gs) \in Nat
  BY DEF TableOK
<1>2. \A j \in 1 .. Len(fs) : j \in Deciding(fs, n) <=> j \in Deciding(gs, n)
  BY <1>1 DEF Deciding, Extends
<1>3. /\ Deciding(fs, n) \in SUBSET (Nat \ {0}) /\ Deciding(fs, n) \subseteq 1 .. Len(fs)
      /\ Deciding(gs, n) \in SUBSET (Nat \ {0})
  BY DEF Deciding
<1> DEFINE i == FirstOf(Deciding(fs, n))
           k == FirstOf(Deciding(gs, n))
<1>4. i \in Deciding(fs, n) /\ \A j \in Deciding(fs, n) : i <= j
  BY <1>3, FirstOfIsFirst
<1>5. i \in Deciding(gs, n)
  BY <1>2, <1>3, <1>4
<1>6. k \in Deciding(gs, n) /\ \A j \in Deciding(gs, n) : k <= j
  BY <1>3, <1>5, FirstOfIsFirst
<1> HIDE DEF i, k
<1>7. k <= i /\ i \in 1 .. Len(fs) /\ k \in Nat \ {0}
  BY <1>3, <1>4, <1>5, <1>6
<1>8. k \in Deciding(fs, n)
  BY <1>1, <1>2, <1>6, <1>7
<1>9. i = k
  BY <1>4, <1>7, <1>8
<1>10. QED
  BY <1>9 DEF i, k

\* Once a filter decides for a tag no other ever does, whatever is set later:
\* a second spelling of its name has no effect, and a full table loses nothing
\* (log_add_filter, log_set_level_from_string, filter_log).
THEOREM FiltersAreKept == LogSpec => FiltersStay
<1>1. ASSUME ConfigInv, [LogNext]_logVars, NEW n \in Names, FilterFor(n) /= 0
      PROVE  FilterFor(n)' = FilterFor(n)
  <2>1. ConfigInv' /\ Extends(filter, filter')
    BY <1>1, ConfigStep
  <2>2. PICK gs : gs = filter'
    OBVIOUS
  <2>3. TableOK(filter) /\ TableOK(gs) /\ Extends(filter, gs)
    BY <1>1, <2>1, <2>2 DEF ConfigInv
  <2>4. FilterFor(n) = FirstOf(Deciding(filter, n))
    BY LookupsAreFirst
  <2>5. FilterFor(n)' = FirstOf(Deciding(gs, n))
    BY <2>2 DEF FilterFor, SelectInSeq, FirstOf, Deciding
  <2>6. QED
    BY <1>1, <2>3, <2>4, <2>5, FirstStays
<1>2. ConfigInv /\ [LogNext]_logVars =>
        [\A n \in Names : FilterFor(n) /= 0 => FilterFor(n)' = FilterFor(n)]_logVars
  BY <1>1
<1>3. QED
  BY <1>2, ConfigInvariant, PTL DEF LogSpec, FiltersStay
=============================================================================
