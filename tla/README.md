# Verification of castcommon

castcommon is a C library shared by the programs of a networked loudspeaker
system. This directory models its concurrent core and the stateful parts around
it in TLA+, checks the models with TLC and proves what matters most with TLAPS.
Paths below are relative to the repository's root, without `src/`.

## Inventory

| Part | State | Operations | What makes it correct |
|---|---|---|---|
| Blocking queue (`block_queue.c`) | ring indices `f`, `r`, data, mutex, two condition variables | create, push (by copy or by callback), pop (a pointer into the ring), length, destroy | first in first out, nothing lost or repeated, the popped entry is not overwritten, no lost wake-up |
| Connection table (`event/select.c`) | `conns[]`, `conn_cnt`, `index` of each connection | add, delete (the last entry fills the gap) | holds what was added and not deleted, each once |
| Event loop (`event/event.c`, `select.c`, `udp.c`, `receive.c`) | the table, `readed` of each connection, two queues, three threads | `event_start` (one `select` and one scan), the udp thread, the callback thread, `event_add`, `event_del`, init, deinit, stop | every datagram reaches the callback once and in order, no connection is queued twice or forgotten, nobody blocks for good |
| Speaker registry (`speaker_struct.c`) | flat list of speakers, a list of pointers for each line and channel | add, find, change channel, pack, online check | a speaker is in exactly the list of its line and channel |
| Packet codec (`package/`) | none | encode and decode of control, detect and PCM headers | decode undoes encode, both follow the tables in the headers |
| Log (`log.c`) | default level, up to 32 filters, the quiet switch; callbacks, the lock function | set the default, set a filter, apply a level string, decide; add a callback, set the lock, log | the level last asked for a tag is the one that counts; every callback gets every message it should, in one order |
| Wave reader (`codec/wave.c`) | pointers into the header last looked at, the channel list | `header_check`, the `get_` functions | the data section that is reported is there; the answers are about this file |
| Addresses (`ip.c`) | none | conversions between `addr_t`, socket addresses and text; finding a speaker by them | the speaker that is found is the one with the address |
| Network interfaces (`ip.c`) | none of its own; lists and sockets of the system | `get_interface`, `get_default_interface`, `list_interfaces` | an answer describes one interface, and everything taken is given back |
| Audio tables, masks, crc, chunk sizes (`audio.*`, `crc.c`, `utils.c`) | constant tables | pure functions | results agree with their definitions |
| Stubs (`dsp/`, `pipeline/`, `synctime`, epoll, poll, send) | none | none | there is no behaviour |

How the parts interact: `event_init` creates the two queues and starts the two
threads. The main thread pushes `connection_t` pointers into the select queue;
the udp thread pops them and pushes datagrams into the receive queue, receiving
them from the socket inside the push callback, that is under that queue's mutex;
the callback thread pops datagrams and calls `read_cb`. The flag `readed` of a
connection goes back and forth between main and udp thread without a lock. The
callbacks may call `event_add` and `event_del`, which change the table the main
thread is walking: `read_cb` on the callback thread, and `refuse_cb` on the udp
thread with the receive queue locked.

What is hard: the pointer `queue_pop` returns is used after the mutex is given
up; one `pthread_cond_signal` per operation has to be enough; the scan of
`select_process` mixes the result of a past `select` with the current flag; a
receive with the queue locked; deletion during a scan; calls with timeouts that
do not look at the queue again; deinitialisation that cancels threads which use
what it frees. `PROJECT.json` lists each at its line.

## Modules

    BoundedFifo  <-- BlockQueue      <-- BlockQueueProofs
                     BlockQueueMC
    ConnTable    <-- ConnTableProofs
        ^                  ^
    EventLoop  <----- EventLoopProofs
    EventLoopMC
    (implements DatagramService; its queues are BoundedFifos)

    EventLifecycle   <-- EventLifecycleProofs

    SpeakerRegistry  <-- SpeakerRegistryProofs

    PackageCodec    LogConfig    LogOutput  WaveHeader    FormatMasks  Checksum  Addresses    Interfaces
    PackageCodecMC  LogConfigMC      |      WaveHeaderMC       |          |      AddressesMC  InterfacesMC
          |              |           |           |             |          |           |            |
          +--------------+-----------+------ LibraryMC --------+----------+-----------+------------+

    LogProofs is about LogConfig and LogOutput, LibraryProofs about the six other parts of
    LibraryMC. NatSets (induction over the natural numbers) is extended by EventLoopProofs,
    LogProofs and LibraryProofs.
    AudioFormats is extended by WaveHeader and FormatMasks.

**BoundedFifo** is what the queue promises: append at one end, hand out from the
other, at most `Capacity` entries, and the entry a consumer works on (`hand`)
does not change by itself.

**BlockQueue** is `block_queue.c`. One action is what a call does between taking
the mutex and giving it up, by returning or by blocking on a condition variable:
`queue_push` and `queue_pop` for a new call, `PushResume` and `PopResume` for a
thread that was woken and has the mutex again, `Timeout` and `SpuriousWakeup`
for what the wait does by itself. `pc` says where a thread is, `wait` whether
its call has a timeout (only calls without one look at the queue again), `held`
which slot a consumer's pointer goes to, `flag` whether the queue was created
with `QUEUE_BLOCK` (without it a call that cannot go on returns). A push callback that fails (`Cancel`)
may leave garbage in the free slot, moves nothing and signals nobody. Result
codes only reflect which branch was taken and are left out. A blocked timed
wait may time out at any moment, which covers the missing carry of `tv_nsec`.

**ConnTable** is the table of `select.c`, left-over entries above `conn_cnt`
included. No lock covers it, so `select_add_connection` and
`select_del_connection` are one step for each access, in the order of the source:
`AddStore`, `AddIndex`, `AddCount`, and `DelEntry` (the test of the entry),
`DelSome` (of `conn_cnt`), `DelTake` (`--conn_cnt`), `DelLast`, `DelMove`,
`DelReindex`. `edit[t]` is how far the thread `t` has come, for which connection,
and what it has read; where the source reads `conn_cnt` again, the compiled code
may use the value it had (`Count`). An access past the array, below 0 or through
NULL sets `broken`, and the model stops there. `Editors` are the threads that call.
`RepeatEdits` and `EditsMeet` say whether callers add what is there or delete what
is not, and whether two threads edit at once: the code looks at neither, so these
are the callers' duties, and no guard of the model stands for them unless they are
`FALSE`. `registered` is a history variable: what the callers have begun to add
and not deleted.

**EventLoop** extends it with the sockets, the flag and the
three threads. The main thread's variables are those of `select_process`
(`readfds`, `i`, `cur` for `c`). A round is `BeginRound`; for each place of the
table `Collect` (the test `i < conn_cnt`) and `FdSet` (the entry is read); `Select`,
which may also fail or report a socket with an error; and for each place `Scan`
(the test), `Read` (the entry), `Check` (test the fd_set, test and take down the
flag) and `Push`. Edits of the other threads come between any two of these. The udp
thread goes through `UdpPop`, `UdpLock` (mutex taken, room found), `Recvfrom`
(blocks on an empty socket, mutex held) and `Advance` (flag up, entry in the queue,
mutex given up), or, if `recvfrom` fails, through `RecvfromFails` and perhaps
`refuse_cb` (`RefuseEdits`, `RefuseReturns`, mutex held). `CallbackPop` needs that
mutex; `CallbackEdit` is what `read_cb` does to the table. The two queues are
sequences, which is what `RingImplementsFifo` proves of `block_queue.c` for this
use too: one consumer, no timeouts. Sockets are unbounded FIFOs filled by `Arrive`.
**DatagramService** is what a program sees: pending datagrams for each
connection, and the one the callback thread works on.

**SpeakerRegistry** is `speaker_struct.c`: the flat array and, for each line and
channel (a *place*), a list with its memory (`max`), its length and its
pointers. `add_speaker` includes the caller's macro that writes the id;
`change_channel` includes `pack_list_by_ch__` with the sizes it really computes.
A write outside a list's memory sets `broken`, and the model stops there,
because what the program does next is undefined (so these runs do not check for
deadlock). `changed` is a history variable.

**PackageCodec** is `package/package.c`, one operator per encoder and decoder,
over buffers of bytes; the bytes nobody wrote are any of `Junk`. The actions that
send, receive and lose a datagram stand for the programs that use the library.
How much of its buffer a program sends is its own choice, as nothing in the library
sends: `ControlSizes` are `CONTROL_PACKAGE_SIZE` (9) and `CONTROL_TIME_SIZE` (6),
which `control.h` defines, and the 16 bytes up to the last one that is written.
Numbers too wide for TLC are sequences of their 16-bit halves.

**LogConfig** is the configuration of `log.c`. `SetFilter` is `log_add_filter`,
`Apply` one part of a level string with its two early ends (a part that does not
parse, a full table). Names are model data: `Folded` and `Cut` say which of them
`strcasecmp` and the 15 stored characters cannot tell apart. `wanted` is a
history variable: the level last asked for, for names that neither concerns.

**WaveHeader** is `header_check`. A file is what the function tells apart: its
tags, the size of the format chunk, its length, and where the letters `data`
stand with what size behind them. The first look of the scan may be behind the
end of a short buffer, so `data` may have positions there.

After it `header_check` leaves the channels, and the `get_` functions answer from
what it left: `answer` is what `get_chunksize` or `get_duration` returned,
`faulted` that it divided by zero or the channel list was written beyond its end.
Sizes of chunks are those of **AudioFormats**, which has the tables of `audio.c`
and the functions of `utils.c` above `is_uint32`.

**EventLifecycle** is the rest of `event.c`: `event_init`, `event_start`,
`event_stop` and `event_deinit`, with what they call in `select.c`, `udp.c` and
`receive.c`, and the parts of `block_queue.c` that BlockQueue takes for granted,
`queue_lock_init` and `queue_destory`. What the queues carry is in EventLoop; here
a queue is a number of entries, a mutex with its `owner`, the threads its signals
can reach (`waiting`), whether its lock is `inited` and whether its `memory` is
there. `event_deinit` is four actions, because the threads run between its calls:
`receive_deinit`, `udp_deinit`, `DestroyRecv`, `select_deinit`. A thread that is
cancelled goes on to where it can be (`Cancel`); one that meets freed memory is
"stray" and takes no more steps.

**LogOutput** is `log_log`, `log_add_callback` and `log_set_lock`, which run beside
each other on any threads. Only `log_log` asks for the lock, so every access to
the table and to the lock is a step: a thread that adds looks at one entry after
the other (`AddSearch`) and stores the three words of its own in any order
(`AddStore`); a thread that logs tests an entry (`Test`), reads its level
(`ReadLevel`), its user data (`ReadData`) and calls its function (`CallBack`), and
looks at `L.lock` and `L.udata` separately, both before and after. `log_set_lock` is
two stores (`SetLock`, `SetLockData`). The same callback may be added twice, a
full table refuses one. `bare`, `switched` and `met` are history variables: a
message was logged without a lock, the lock was set while somebody logged, two
calls of `log_add_callback` overlapped.
**FormatMasks** and **Checksum** are `MASK_ARR_PACK`, `MASK_ISSET` and
`crc8_check`, with the arrays and the message as state, an entry or a byte a step.
Masks are numbers, of which one bit at a time is tested or set; a byte of a
message is the set of its bits that are 1, which is what `^=` and `<<=` work on.

**Addresses** follows an address from where it comes from (a detection packet, the
peer of a socket, a text) to the registry and back to a lookup. An `addr_t` is
what lies in memory, with its padding and the unused rest behind an IPv4 address:
`find_speaker_by_ip` compares all of it. `find_speaker_by_addr` has the caller's
`len`, which for IPv6 is how many bytes are compared: 16, or the 28 of a socket
address, where the comparison goes on into what lies behind the address. Which
speakers happen to agree there is any set (`alike`). `clean`, the speakers written
into zeroed memory, is a history variable.

**Interfaces** are the questions `ip.c` asks the system, one action per system
call, each of which may fail; `Change` puts another set of interfaces in place
between two calls. `lists` and `sockets` count what is not given back.
`unanswered` is a history variable.

**LibraryMC** puts the modules without a loop side by side: a behaviour takes
steps of one `part`, so the states of the run are the sum of the parts', not the
product. `PackagesArrive`, `SpeakersAreFound`, `AnswersAreTrue` and
`ChunksAreWhole` are conjunctions; their parts are stated one by one above them.

Operators whose comment says "Mutant" are plausible bugs of the operation that
follows; they are not part of the specification and show that each property
notices such a bug.

## Runs

Every run takes at most about two and a half minutes with two workers. The rows
"library" are the parts of one run.

| Run | Question | Bounds |
|---|---|---|
| queue_fifo | Does the ring with its pointers implement the FIFO, liveness included, and leave the popped entry alone? | 2 producers, 1 consumer, 3 slots, 2 values, failing callbacks, spurious wake-ups |
| queue_wakeups | Does anybody sleep through what it waits for? | 3 producers, 3 consumers, 3 slots (so that threads outnumber slots) |
| queue_modes | With and without `QUEUE_BLOCK`, with and without timeouts, and one thread a side: is the FIFO intact and does every push return? | 4 slots, 1 producer, 1 consumer, failing callbacks |
| queue_timed_full (violation) | With timeouts and two producers, does a full queue block a push? | 3 slots |
| loop_order | Are datagrams handed over once and in order, with errors, and adds and deletes of three threads anywhere between the accesses of the scan? Is the table exact, do deleted connections stay away, does main never block? | 2 connections, 2 datagrams of 2 kinds, select queue of 2, receive queue of 1; callers do their duty |
| loop_progress | Is every connection in exactly one place of the handshake, is everything handed over in the end, do all threads let go of a deleted connection? | 2 connections, 2 datagrams, both queues of 1, so that each thread has to wait for the next; edits by main and callback thread |
| registry | Is nobody listed twice or in a wrong list, and whoever is only added listed? Do additions stay in their memory? | 4 ids, 3 speakers, 2 places of the default line and one of another, lists growing by 2 |
| registry_change_drops (violation) | Does a change of channel take only the moving speaker out of a list? | the same |
| lifecycle | What holds of locks, threads, queues and standard input when the loop is started (perhaps half), used, stopped and started again in any order? Do the threads end? | 2 generations of threads, 6 calls, queues of 1 |
| library: package | What does decoding give back, and are the nine fields of a detection request at the bits the table gives them? | both families, boundary values in every field, 3 kinds of garbage, 3 sizes of control packets |
| package_pcm_len (violation) | Does the length of a block of samples arrive? | the same |
| library: log | Whose messages are printed after any settings, level strings with mistakes included? | 5 names (one in two spellings, one too long), 2 levels, 3 filters, strings of 2 parts |
| library: output | Does every callback that was added get every message it should, and does everybody see one order, whatever is added or locked meanwhile? | 2 threads, 2 callbacks, 2 entries, 4 calls (of `log_log`, `log_add_callback` and `log_set_lock`) |
| library: wave | Are channels, chunk sizes and durations those of the file last looked at, accepted or not? | files of every format of `audio.h` and odd ones, one after the other |
| library: masks, checksum | Does a mask tell which formats were named? Does a checksum close its message? | arrays of 2; messages of up to 3 of 6 bytes, every change of one byte |
| library: addresses | Which speaker does an address lead to, and does it survive its way through a socket address? | 3 speakers, 6 hosts of both families, 2 contents of unwritten memory, both lengths, any agreement behind the address |
| library: interfaces | Is everything given back, and does an answer describe what was asked for? | 3 sets of interfaces, 2 changes, 2 questions, room for 1 |
| wave_data (violation) | Is a file without a data section refused? | 5832 files: all combinations of tags and format sizes, data in front of, in and behind the scanned part |

Why the bounds are enough: a ring of three slots has the empty, the full and a
middle filling at each of three positions, so every wrap-around of `f`
against `r` happens; two values tell a stale entry from a new one. Two
connections are the least with which a delete moves an entry, and with a table of
two the moved entry is the last one there is room for; two datagrams let one wait
in the socket while the other is in the thread or in the queue, which is all the
handshake tells apart. The two connections may be added and deleted any number of
times. What the runs leave out there because of the number of states, misused or
simultaneous edits, is in the theorems about any callers (see Proofs). Two threads
that log and two entries are the least with which an order can differ; of four
calls one can set a lock, one add a callback and two log, or two add, one more
than there are entries left. Three speakers fill a list beyond its first memory and leave two behind
when one moves; the fourth id meets the full array. Three filters let a filter
be looked for in front of, at and behind another, and the fourth meet a full
table; the level strings repeat, so that longer ones are series of shorter ones
apart from where a mistake ends them.

`MaxSent` bounds the datagrams of a behaviour, `TableSize` stands for the 1024
places, `SelectCapacity` for 99 and `RecvCapacity` for `qlen - 1`,
`MaxSpeakers`, `GrowStep`, `MaxFilters` and `MaxCallbacks` for 255, 10, 32 and 32;
`MaxParts` bounds the parts of a level string, `MaxCalls` the calls of LogOutput,
`MaxCrc` the length of a message, `MaxRecorded` the speakers of Addresses.

Two generations of threads are the least with which a thread of the first could
live on beside the second; six calls are an init, an add, two starts (the entry
of the first fills the queue), and two more, so that a deinit can be followed by
a start, a stop, an init or another deinit. `MaxChanges` and `MaxQuestions` of 2
let an interface go and come back within one question, and let one question find
what the one before left open.

### Results worth knowing

* **Two producers with timeouts lose the queue** (queue_timed_full). A producer
  woken from a timed wait stores without looking again. If another producer has
  filled the slot, `f` runs into `r` and the queue counts as empty. Nothing in
  this library passes a timeout.
* **`queue_len` is one short after wrapping.** Only a debug message uses it, so
  the model has no such operator.
* **The udp thread can get stuck in `recvfrom`**. `Delivery` has the exception
  `Starved` because it is needed: the udp thread has a connection's first token;
  `select` reports the socket readable, because the datagram has not been read
  yet; the udp thread reads it and raises the flag; the scan, still holding the
  old `readfds`, sees the flag up and queues the connection again; its socket is
  empty. Until that connection gets another datagram the receive queue stays
  locked, and datagrams that are already in it are not handed over. Without the
  disjunct TLC reports this behaviour.
* **`TableExact` needs callers that do their duty.** With `RepeatEdits = TRUE` TLC
  finds the second delete of the last connection cutting off another one, a second
  add doubling one, and a store past the array; with `EditsMeet = TRUE` two adds
  that meet at `conns[conn_cnt]`, and a delete of one thread that takes back what
  the add of another counted. The code checks none of this, and `read_cb` runs
  beside the main thread's `event_add`.
* **During a delete the moved connection is missing**: between `--conn_cnt` and
  `conns[c->index] = tmp` a scan meets neither its old place nor its new one
  (`TableExact` has the exception). Since `select` is called again, this delays a
  datagram by a round.
* **A deleted connection may be picked up once more.** The scan tests
  `i < conn_cnt` and reads `conns[i]` afterwards; a delete in between leaves the
  entry where it was. `Quiet` counts such a place as a use; without that TLC
  refutes `DeletedStaysQuiet`.
* **After a failing `recvfrom` the connection is dead**: neither flag nor token.
  `OneToken` therefore has its second half only without errors, and so has
  `Delivery`.
* **A failing push callback with several producers** swallows a wake-up: with
  `CallbackMayFail` TLC refutes `NoLostWakeup`. `udp.c` has one producer.
* **A second change of channel out of one list drops a speaker that stays**
  (registry_change_drops): `pack_list_by_ch__` never moves an entry, and cuts the
  list after the number of entries it counted. A change can also write outside
  a list: the new list is not grown, and the size given to `memset` is that of
  whole speakers and wraps around when nothing was cleared. `ListsAgree` and
  `ListsFit` hold up to such a write.
* **The length of PCM packets does not arrive** (package_pcm_len): the decoder
  reads a time between sequence number and length that the encoder does not
  write.
* **Of detection requests and commands some things are not claimed**, because the
  code contradicts its tables: the upper half of a speaker id, of which the
  detection decoder keeps 16 bits where the table of `detect.h` has 32; which of
  `CONNECTED` and `DISCONECTED` was sent, one value on the wire; and the channel of
  a `SAMPLE` command, which is read one byte behind where it was written.
  `RequestFollowsTable`, which is about what is sent, has all nine rows of the table.
* **A control packet of the size `control.h` gives loses its payload**: payloads
  start at `sizeof(control_header_t)`, 12, and `CONTROL_PACKAGE_SIZE` is 9,
  `CONTROL_TIME_SIZE` 6. At these sizes the head arrives, and what the receiver
  decodes as the payload is what its buffer held (`CommandArrives`, `TimeArrives`).
* **What level strings promise holds for plain names only.** Another spelling of
  a name makes a filter that is never found behind the first; a name of more
  than 15 characters takes a new place of the table each time it is set, and its
  tag is not the stored one; a string with a mistake stays applied up to it.
  `PrintedAsAsked` leaves these names out, `FiltersStay` covers them. A filter
  that meets a full table is dropped without a word, which is why
  `PrintedAsAsked` speaks of tables with room.
* **A wave file without a data section is accepted** (wave_data): the test for
  the end of the scan is reached only at a place that looks like one. Files with
  the usual format chunk of 16 bytes are refused, which the model has as it is.
* **The lock of a queue may be initialised twice** (lifecycle). `LockWorks` leaves
  out queues in whose `queue_lock_init` two first calls met, because then the
  second takes the mutex from under whoever has it. Without that condition TLC
  shows it for the first datagram of a program: main pushes while the udp thread
  pops for the first time.
* **A second `event_init` never succeeds**: `select_deinit` frees the queue but
  keeps the pointer, `select_init` sees it and refuses. That is also why there is
  never a second pair of threads (`OneThreadEach`): with the pointer reset, a
  cancelled thread that has not got to a cancellation point lives beside its
  successor. `event_start` after `event_deinit` pushes into freed memory, if a
  connection is added again.
* **Threads may outlive `event_deinit`** (`ThreadsEnd` and its second half): one
  that is cancelled in `pthread_cond_wait`, in `recvfrom` or while a queue logs what
  it did keeps the mutex, and
  the other waits for it, unless the queue is destroyed under it.
* **`event_stop` and `event_deinit` close file 0 between them**: the second of
  them finds `wakeup_fd` zero (`StdinKept`).
* **The lock of the log must not be switched while somebody logs**: `SameOrder`
  needs that, and nothing in `log_set_lock` provides it.
* **Adding callbacks at the same time loses one**: both find the same entry free.
  And a message that is logged during an add may find the function of the new entry
  before its level or its user data. `EveryCallbackTold` claims neither: it is
  about callbacks whose `log_add_callback` has returned, as long as no two such calls
  overlapped. That these get their messages while another one is being added is
  what it says.
* **A chunk need not hold whole samples**: for 32 bits at 44100 Hz
  `CHUNK_QUALITY` gives 882 bytes for a channel, 220 and a half samples. It is the
  one format of `audio.h` where it happens; `SamplesAreWhole`, a part of
  `ChunksAreWhole`, has the exception.
* **`get_default_interface` leaves its socket open** after an error of `send` or
  `recv` (`EverythingGivenBack` counts these calls), and sees only the first
  datagram of the answer.
* **An interface without an address ends the program** in `get_interface` and
  `list_interfaces`: `ifa_addr` is NULL, and the test is of a field behind it
  ("crashed").
* **A speaker detected into memory that was not zeroed is never found** with
  `find_speaker_by_ip`, and is recorded again. `PeerIsFound`, a part of
  `SpeakersAreFound`, says exactly which speakers are: those in `clean`.
* **`find_speaker_by_addr` looks at neither family nor length**: it takes an IPv6
  speaker for an IPv4 one whose address its own begins with, if it comes first, and
  with the size of an IPv6 socket address for `len` it compares bytes that do not
  belong to the address. `AddrIsFound` says which speaker is found in each case.
* **Restarting the registry** with speakers in it leaves it with lengths that count
  memory nobody has written (`speaker_restart`; the model stops there).

## Fairness

`BlockQueue!Fairness`: consumers keep popping and a woken thread gets the mutex
(the threads of `udp.c` and `receive.c` loop; nobody keeps the queue's mutex in
that model). Producers need not push. `EventLoop!Fairness`: the program calls
`event_start` in a loop, the two threads loop, a thread goes on with an edit it has
begun, and `read_cb` and `refuse_cb` return, however many edits they make before
(which takes strong fairness, as within an edit they cannot return). Nobody need
begin an edit. Weak fairness is enough in the other cases, because a thread that waits for the
mutex in question is the only one waiting for it or can be shut out by one other
thread for one operation at a time. Nothing is assumed of the network.

`EventLifecycle!FairSpec`: the threads take their steps, the calls of the main
thread go on once begun, and a cancelled thread acts on it where it can. A
thread in `recvfrom` is not assumed to get a datagram, and the program need not
call anything.

## Proofs

`BlockQueueProofs` rests on `QueueAssumption` only; `OneConsumer` and
`TimeoutsSafe` are hypotheses of the theorems that need them. The second is either
the way both queues of the event loop are used (`NoTimedWaits`), or one producer
and no spurious wake-ups, with or without timeouts and `QUEUE_BLOCK` (queue_modes).

1. `StepKinds` sorts every step into a push that goes through, a pop that
   goes through, and steps that leave the ring alone.
2. `TypeCorrect`: the types, for all threads and timeouts.
3. `InductiveInvariant`: `IInv` is `TypeOK`, `CallInv` (a blocked call carries a
   value, and has a timeout only if some do), `WokenInv` (with timeouts: what a
   thread was woken for is still there, since it alone is on its side) and
   `HeldSlotIsTheGap`. The last alone is not inductive: that a woken producer goes
   ahead only with room depends on the others (`GoesAhead`). `HeldSlotInvariant`
   draws the conclusion, and `FullQueueIsLeftAlone` another: it delimits what
   queue_timed_full shows to two producers or a spurious wake-up.
4. `PopperSafe`: a push writes at `f`, a queue that is not full has
   `NextSlot(f) /= r`, and the held slot is the one with `NextSlot(held) = r`.
5. `RingImplementsFifo`: `StoreAppends`, `CancelKeeps` and `TakeRemoves` say
   what the steps do to the sequence between `r` and `f`; `HandStep` carries
   over 4. This justifies the sequences in `EventLoop`.

`WakeupsAreNotLost`, in the same module, is about any finite number of threads on
both sides. The argument counts: a store takes one slot and at most one woken
producer away and adds an entry and, if a consumer sleeps, a woken consumer;
a take is the mirror image; a thread goes to sleep only on a full or an empty
queue.

`ConnTableProofs`: `TableTypeCorrect` for callers of any kind, and `TableIsExact` for
`Careful` ones: they add what is not there and delete what is, one call at a time,
and there are no more connections than places. `TableExact` is not inductive, since
it says too little of an edit under way. `EditInv` does: what each access of an add
(`AddInv`), of the tests of a delete (`TestInv`), of the move (`MoveInv`) and of its
last step (`MovedInv`) finds of the exact table. That the entries are distinct, so
that the deleted one occurs once, follows from each entry recording its own place;
that an add stays in the array, from counting (`RoomLeft`).

`EventLoopProofs` carries that over to three threads, and adds the handshake. Its
invariant has a part for what a scan may read (`Filled`: a place that has been
tested holds a connection until it is read, also if it was given up in between,
because an edit never stores NULL), one for the udp thread (`UdpInv`), and
`TokenInv`: the flag `readed` of a connection, its entry in the select queue, and
the threads that have just taken or not yet stored one exclude each other.
`OneToken` alone is not inductive: that the select queue has no entry twice is what
makes its popping leave none behind. `MainThreadNeverBlocks` follows by counting:
entries of the queue are distinct connections, so with at most `SelectCapacity` of
them there is room for one that is not in it. `LoopTableIsExact` and
`DeletedConnectionsStayQuiet` assume `Careful` callers; `LoopTypeCorrect`,
`OneTokenEach`, `MainThreadNeverBlocks` and `LoopImplementsService` hold for all, with
two threads within an edit at once or the same connection added twice, up to an
access past the array or through NULL, where the model stops. That is what the
runs, whose callers are careful, do not reach.

`LoopImplementsService`, in the same module, is the refinement of DatagramService:
the pending datagrams of a connection are those of it in the receive queue, then
the one the udp thread has just received, then those in its socket. `PayloadsOf`
picks the first of these out of a queue that all connections share, by a
recursion over the queue; `PayloadsAppend` and `PayloadsOfTail` say what it does
at both ends, and with them `Recvfrom`, `Advance` and `CallbackPop` become a
stutter, a stutter and the handing over of the oldest datagram.

`NatSets` makes such recursions accessible. The provers cannot instantiate the
induction theorems of the library, but they can use that the finite sets are
well-founded under inclusion: so every set of numbers has a least element
(`LeastElement`), and a set with 0 that is closed under adding 1 has them all
(`SetInduction`). A recursive function then exists and has its equations, by one
lemma for each (`PayloadsCollected`, `StringKeeps`, `MasksExist`,
`ChecksumsExist`), and is followed from an index to the next.

`SpeakerRegistryProofs` rests on `RegistryAssumption`. What the operations do to one
list comes first (`GrownHasRoom`, `AddedEntry`, `PackedEntries`). The invariant adds to
the four invariants of the run that lists point to speakers there are
(`PointersLive`), without which a new speaker could be in a list already, and that
the ids are finitely many, which the counting of `IdsStayUnique` needs.
`EveryoneStaysListed` is a second induction on top of it.

`EventLifecycleProofs` is about any capacity, number of generations and calls. Its
invariant `IInv` has a part for each thing that keeps another from happening.
`StartInv`: threads are started at most once, because `select_init`, which comes
first, refuses while its queue pointer is set, and nothing resets it; this gives
`OneThreadOfEachKind`. `CancelInv`: a queue is destroyed only after the threads
were cancelled, so that a stray worker is a cancelled one (`StraysWereCancelled`).
`LockInv`: as long as no two threads have met in `queue_lock_init`, whoever is
there has the queue to itself, and nobody waits or works in a queue that is not
initialised; together with `LockWorks` itself, which says who the owner of a mutex
is, this is inductive. `RoomInv` (who has the mutex and goes on found room or an
entry) is there for the types of `entries`, and `PipeInv` counts closings against
calls for `StandardInputKept`.

`LogProofs` has two parts. `EveryoneIsTold` rests on `OutputInv`. Its `OnceInv`, for
any callers, is why no entry gets a message twice: a thread in `log_log` has
given its message only to entries it is past. `TableInv` is for calls of
`log_add_callback` that never overlap: then the entries in front of the one that is
being stored are full, all that were added are among them, and a full entry
does not change. So whoever has to be told stays at its place (`Kept`), and has
been told or is still ahead of the thread with the message (`ToldInv`): the walk
cannot end before it, because it ends at the first entry without a function.
`MessagesKeepOrder` adds `OrderInv`: under a lock that was set before the first
message and not while anybody logged, whoever is past the lock holds the mutex, so
that what it gives an entry is the last that entry got. The table plays no part
in this, so adding threads may meet.
For the configuration, `ConfigInv` is followed through every part of a level
string (`StringKeeps`): each of them keeps one filter for each stored name, keeps
the filters that are there where they are, and as long as there is room makes the
level of a plain name the one asked for. `OneFilterEach`, `LevelsAreAsAsked` and the
action property `FiltersAreKept` follow.

`LibraryProofs` goes part by part.

1. `NothingIsLeft`: what is held follows from where the call is (`HeldInv`).
2. `AnswersTellTheTruth`: an invariant for each of the three questions says what
   the reply so far is worth (`GetInv`, `RouteInv`, `ListInv`), as long as nothing
   changes. `ListInv` counts the entries of the right family in front of `entry`,
   which gives each of them its place in the caller's array.
3. `WhichSpeakersAreFound`: an `addr_t` in the registry is a host written over
   memory of one content, which is zero for those in `clean` and no other
   (`AddressInv`); everything else is what the conversions do to such a value.
4. `RequestsFollowTheTable` and `PackagesDoArrive`: encoders are series of writes
   into a buffer, decoders of reads, so the proofs are an algebra of buffers
   (`Holds`: what has been written at a place is read there until something is
   written over it) and arithmetic of bytes, nibbles and halves. The invariant
   `PackageInv` only says that a datagram under way is an encoded header, cut to
   one of the sizes a program may send.
5. `ListIsOfTheLastFile`: the channel list has at place `n` the bit with `n - 1` set
   bits below it (`ChannelListInv`); the order of the list is that of these counts.
6. `ChunksCanBePlayed`: rates and sizes of samples make twelve different
   numbers of bytes a second (`QualityTable`); for each the chunk of one channel is
   a number of whole milliseconds, and of whole samples but for one format. The
   number of channels is any.
7. `MasksAreRight`: a mask is a number of six binary digits, of which `|=` puts one
   to 1.
8. `ChecksumsClose`: taking a byte is one-to-one in the checksum so far and in the
   byte (`TakenTellsApart`), because the polynomial has its lowest bit set. So the
   checksums of two messages differ from the place on where the messages do.

What the theorems assume of the constants, and why: addresses and headers have
the widths of the C types (`AddressAssumption`, `PackageAssumption`,
`ChecksumAssumption`; masks of wave files have 32 bits, `WaveAssumption`); no two
interfaces have the same name, and indices are not 0 (`InterfacesAssumption`, which
the kernel sees to); folding the case of a name twice or cutting it twice is
doing it once (`LogAssumption`); limits are numbers.

Only model-checked: all liveness (`FairSpec`, `ImplementsFairFifo`, `Delivery`,
`DeletedGoesQuiet`, `PushReturns`, `ThreadsEnd`; fairness and ENABLED are beyond the
proof system). The four properties the code violates are shown violated, and one
of them, `FullQueueBlocksPush`, is proved where it holds.

## Limits

Mutex sections are atomic, and words are not torn; the accesses without a lock are
split where another thread can come between: `readed`, the table of connections and
its scans, the held slot, the callbacks and the lock of the log. A thread's
accesses happen in the order of the source, except that `conn_cnt` may be reused
within an edit and that the words of a callback are stored in any order.
`log_set_lock` is called by one thread at a time. A lock that is taken away between
the test of `L.lock` and the call through it ends the program, which is not modelled. Truncation of long datagrams,
addresses and payload bytes are data. With several consumers on one queue the
popped entry is not protected; the proofs say so by their hypothesis. BlockQueue
and EventLoop take the lock for initialised; EventLifecycle says when it is. A
full socket buffer, which drops datagrams before the library sees them, is not
modelled. Doubles of `utils.c` are taken for exact, which they are for the numbers
in question (a division by 1000 and a test for a whole number).

## Not modelled

Printing addresses and channel names, `is_multicast_addr`, `xmalloc`, `BITS_CPY`,
`get_format` and `get_filesize`, `find_speaker_by_mac`: texts and copies of fields,
without state or with one line of it. `pack_list` is called by nothing. The Windows
and ESP variants of `ip.c` and `common.h` are other programs, of which the Windows
`get_default_interface` has no body. A `pthread_create` that fails: the test for it
is never true, and the thread that is missing shows as one that takes no step. The
files named stubs in the inventory have no behaviour.

## Plan

Done: all components of the inventory that have behaviour, and the theorems above,
which state every invariant the runs check. Left, in this order:

1. A connection table whose callers are not careful, as a run of its own: what
   one that has lost an entry still delivers.
2. Two producers with a failing push callback on one queue.
