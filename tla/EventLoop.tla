----------------------------- MODULE EventLoop -----------------------------
(***************************************************************************)
(* The event loop of event/: how a datagram gets from a socket to the      *)
(* program's callback.                                                     *)
(*                                                                         *)
(*   main thread       select_process: select() over the table, then one   *)
(*                     scan that queues every readable connection whose    *)
(*                     "readed" flag is up, taking the flag down first     *)
(*   select queue      connections to be read (select.c)                   *)
(*   udp thread        pops a connection and receives one datagram INTO    *)
(*                     the receive queue, from push_recv, a callback that  *)
(*                     queue_push runs with the queue's mutex held (udp.c) *)
(*   receive queue     datagrams to be handed over                         *)
(*   callback thread   pops a datagram and calls read_cb (receive.c)       *)
(*                                                                         *)
(* "readed" is what passes a connection back and forth between the first   *)
(* two threads; no lock covers it, nor the table, which the main thread    *)
(* scans access by access while callbacks edit it (ConnTable). The two     *)
(* queues are bounded FIFOs here: BlockQueueProofs shows that              *)
(* block_queue.c is one, used as it is used here, by one consumer each and *)
(* without timeouts.                                                       *)
(***************************************************************************)
EXTENDS ConnTable, Sequences, FiniteSets

CONSTANTS
  Data,             \* payloads
  Nothing,          \* no datagram
  SelectCapacity,   \* SELECT_QUEUE_SZIE - 1 connections
  RecvCapacity,     \* qlen - 1 datagrams
  SystemErrors,     \* whether select and recvfrom may fail
  MaxSent           \* bound on the datagrams that arrive in a behaviour

ASSUME EventLoopAssumption ==
  /\ {SelectCapacity, RecvCapacity} \subseteq Nat \ {0}
  /\ MaxSent \in Nat
  /\ SystemErrors \in BOOLEAN
  /\ Nothing \notin Data \cup [conn : Connections, data : Data]

VARIABLES
  sent,      \* bounds the datagrams, see MaxSent
  sock,      \* sock[c]: the datagrams waiting in c's socket
  readed,    \* c->readed
  main,      \* where the main thread is in select_process
  i,         \* its loop index
  readfds,   \* the fd_set, as a set of connections
  cur,       \* the "c" of its scan
  selectQ,   \* the select queue
  udp,       \* where the udp thread is
  udpConn,   \* the connection it has popped
  inSlot,    \* the datagram it is writing into the receive queue's next slot
  recvQ,     \* the receive queue
  working    \* the datagram the callback thread is working on

mainVars == <<main, i, readfds, cur>>
udpVars  == <<udp, udpConn, inSlot>>
vars == <<tableVars, mainVars, udpVars, sent, sock, readed, selectQ, recvQ, working>>

Datagrams == [conn : Connections, data : Data]

TypeOK ==
  /\ TableTypeOK
  /\ sent \in 0 .. MaxSent
  /\ sock \in [Connections -> Seq(Data)]
  /\ readed \in [Connections -> {0, 1}]
  /\ main \in {"idle", "collect", "fdset", "select", "scan", "read", "check", "push"}
  /\ i \in 0 .. TableSize
  /\ readfds \subseteq Connections
  /\ cur \in Connections \cup {NoConn}
  /\ selectQ \in Seq(Connections) /\ Len(selectQ) <= SelectCapacity
  /\ udp \in {"pop", "lock", "recvfrom", "refuse", "advance"}
  /\ udpConn \in Connections \cup {NoConn}
  /\ inSlot \in Data \cup {Nothing}
  /\ recvQ \in Seq(Datagrams) /\ Len(recvQ) <= RecvCapacity
  /\ working \in Datagrams \cup {Nothing}

\* Connections start out with readed = 1 (DEFAULT_CONNECTION_UDP_INIT).
Init ==
  /\ TableInit
  /\ sent = 0
  /\ sock = [c \in Connections |-> <<>>]
  /\ readed = [c \in Connections |-> 1]
  /\ main = "idle" /\ i = 0 /\ readfds = {} /\ cur = NoConn
  /\ selectQ = <<>>
  /\ udp = "pop" /\ udpConn = NoConn /\ inSlot = Nothing
  /\ recvQ = <<>>
  /\ working = Nothing

-----------------------------------------------------------------------------
(* The main thread: event_start, select_process. *)

\* event_add and event_del between two calls of event_start.
MainEdits ==
  /\ main = "idle"
  /\ EditBegins("main") \/ EditGoesOn("main")
  /\ UNCHANGED <<mainVars, udpVars, sent, sock, readed, selectQ, recvQ, working>>

BeginRound ==
  /\ main = "idle" /\ ~Editing("main")
  /\ main' = "collect" /\ i' = 0 /\ readfds' = {}
  /\ UNCHANGED <<tableVars, udpVars, cur, sent, sock, readed, selectQ, recvQ, working>>

\* for (i = 0; i < conn_cnt; ...): the test, before the entry is read.
Collect ==
  /\ main = "collect"
  /\ IF i < conn_cnt
     THEN main' = "fdset" /\ UNCHANGED i
     ELSE main' = "select" /\ i' = 0
  /\ UNCHANGED <<tableVars, udpVars, readfds, cur, sent, sock, readed, selectQ, recvQ, working>>

\* FD_SET for what the entry is by now, flagged for reading or not.
FdSet ==
  /\ main = "fdset"
  /\ readfds' = readfds \cup ({conns[i]} \ {NoConn})
  /\ broken' = (conns[i] = NoConn)
  /\ main' = "collect" /\ i' = i + 1
  /\ UNCHANGED <<conns, conn_cnt, index, edit, registered,
                 udpVars, cur, sent, sock, readed, selectQ, recvQ, working>>

\* select() leaves the readable sockets in readfds, those with an error to
\* report among them, gives up after 3 s, or fails.
\* What it found is not looked at again while the scan goes on.
Select ==
  /\ main = "select"
  /\ \/ \E failed \in IF SystemErrors THEN SUBSET readfds ELSE {{}} :
          readfds' = {c \in readfds : sock[c] /= <<>>} \cup failed
     \/ SystemErrors /\ readfds' = {}
  /\ main' = IF readfds' = {} THEN "idle" ELSE "scan"
  /\ UNCHANGED <<tableVars, udpVars, i, cur, sent, sock, readed, selectQ, recvQ, working>>

EndRound == main' = "idle" /\ i' = 0 /\ readfds' = {} /\ cur' = NoConn
NextPlace == main' = "scan" /\ i' = i + 1 /\ cur' = NoConn /\ UNCHANGED readfds

\* for (i = 0; i < conn_cnt; ...): the test.
Scan ==
  /\ main = "scan"
  /\ IF i < conn_cnt
     THEN main' = "read" /\ UNCHANGED <<i, readfds, cur>>
     ELSE EndRound
  /\ UNCHANGED <<tableVars, udpVars, sent, sock, readed, selectQ, recvQ, working>>

\* c = conns[i]: the place may have been given up since the test.
Read ==
  /\ main = "read"
  /\ main' = "check" /\ cur' = conns[i]
  /\ broken' = (conns[i] = NoConn)
  /\ UNCHANGED <<conns, conn_cnt, index, edit, registered, i, readfds,
                 udpVars, sent, sock, readed, selectQ, recvQ, working>>

\* Mutants: the flag is not looked at, or not taken down.
CheckIgnoresFlag ==
  /\ main = "check"
  /\ IF cur \in readfds
     THEN /\ readed' = [readed EXCEPT ![cur] = 0]
          /\ main' = "push"
          /\ UNCHANGED <<i, readfds, cur>>
     ELSE NextPlace /\ UNCHANGED readed
  /\ UNCHANGED <<tableVars, udpVars, sent, sock, selectQ, recvQ, working>>

CheckKeepsFlag ==
  /\ main = "check"
  /\ IF cur \in readfds /\ readed[cur] = 1
     THEN main' = "push" /\ UNCHANGED <<i, readfds, cur>>
     ELSE NextPlace
  /\ UNCHANGED <<tableVars, udpVars, readed, sent, sock, selectQ, recvQ, working>>

\* if (FD_ISSET(...)) if (c->readed) c->readed = 0
Check ==
  /\ main = "check"
  /\ IF cur \in readfds /\ readed[cur] = 1
     THEN /\ readed' = [readed EXCEPT ![cur] = 0]
          /\ main' = "push"
          /\ UNCHANGED <<i, readfds, cur>>
     ELSE NextPlace /\ UNCHANGED readed
  /\ UNCHANGED <<tableVars, udpVars, sent, sock, selectQ, recvQ, working>>

\* queue_normal_push(queue, &c, NULL): blocks while the select queue is full.
Push ==
  /\ main = "push"
  /\ Len(selectQ) < SelectCapacity
  /\ selectQ' = Append(selectQ, cur)
  /\ NextPlace
  /\ UNCHANGED <<tableVars, udpVars, sent, sock, readed, recvQ, working>>

-----------------------------------------------------------------------------
(* The udp thread: thread_cost and push_recv of udp.c. *)

UdpPop ==
  /\ udp = "pop"
  /\ selectQ /= <<>>
  /\ udpConn' = Head(selectQ)
  /\ selectQ' = Tail(selectQ)
  /\ udp' = "lock"
  /\ UNCHANGED <<tableVars, mainVars, inSlot, sent, sock, readed, recvQ, working>>

\* Mutant: one entry more than there is room for.
UdpLockFull ==
  /\ udp = "lock"
  /\ Len(recvQ) <= RecvCapacity
  /\ udp' = "recvfrom"
  /\ UNCHANGED <<tableVars, mainVars, udpConn, inSlot, sent, sock, readed, selectQ, recvQ, working>>

\* queue_push takes the receive queue's mutex and, once there is room, calls
\* push_recv without giving it up.
UdpLock ==
  /\ udp = "lock"
  /\ Len(recvQ) < RecvCapacity
  /\ udp' = "recvfrom"
  /\ UNCHANGED <<tableVars, mainVars, udpConn, inSlot, sent, sock, readed, selectQ, recvQ, working>>

\* recvfrom blocks while the socket is empty.
Recvfrom ==
  /\ udp = "recvfrom"
  /\ sock[udpConn] /= <<>>
  /\ inSlot' = Head(sock[udpConn])
  /\ sock' = [sock EXCEPT ![udpConn] = Tail(@)]
  /\ udp' = "advance"
  /\ UNCHANGED <<tableVars, mainVars, udpConn, sent, readed, selectQ, recvQ, working>>

\* Mutant: the slot of the failed call becomes an entry, stale as it is.
FailureAdvances ==
  /\ SystemErrors
  /\ udp = "recvfrom"
  /\ \E d \in Data : recvQ' = Append(recvQ, [conn |-> udpConn, data |-> d])
  /\ udp' = "pop" /\ udpConn' = NoConn
  /\ UNCHANGED <<tableVars, mainVars, inSlot, sent, sock, readed, selectQ, working>>

\* push_recv returns -1 and queue_push cancels; readed is not touched. When the
\* peer refused, refuse_cb is called before that.
RecvfromFails ==
  /\ SystemErrors
  /\ udp = "recvfrom"
  /\ \/ udp' = "pop" /\ udpConn' = NoConn
     \/ udp' = "refuse" /\ UNCHANGED udpConn
  /\ UNCHANGED <<tableVars, mainVars, inSlot, sent, sock, readed, selectQ, recvQ, working>>

\* event_add and event_del from refuse_cb, the receive queue's mutex being held.
RefuseEdits ==
  /\ udp = "refuse"
  /\ EditBegins("udp") \/ EditGoesOn("udp")
  /\ UNCHANGED <<mainVars, udpVars, sent, sock, readed, selectQ, recvQ, working>>

RefuseReturns ==
  /\ udp = "refuse" /\ ~Editing("udp")
  /\ udp' = "pop" /\ udpConn' = NoConn
  /\ UNCHANGED <<tableVars, mainVars, inSlot, sent, sock, readed, selectQ, recvQ, working>>

\* Mutant: readed is not raised again.
AdvanceForgetsFlag ==
  /\ udp = "advance"
  /\ recvQ' = Append(recvQ, [conn |-> udpConn, data |-> inSlot])
  /\ udp' = "pop" /\ udpConn' = NoConn /\ inSlot' = Nothing
  /\ UNCHANGED <<tableVars, mainVars, readed, sent, sock, selectQ, working>>

\* readed = 1, the slot becomes an entry and the mutex is given up.
Advance ==
  /\ udp = "advance"
  /\ readed' = [readed EXCEPT ![udpConn] = 1]
  /\ recvQ' = Append(recvQ, [conn |-> udpConn, data |-> inSlot])
  /\ udp' = "pop" /\ udpConn' = NoConn /\ inSlot' = Nothing
  /\ UNCHANGED <<tableVars, mainVars, sent, sock, selectQ, working>>

-----------------------------------------------------------------------------
(* The callback thread: thread_cost of receive.c. *)

\* Mutant: queue_push keeps the mutex while it waits for room.
RecvQueueKept == udp = "pop"

\* The udp thread keeps the receive queue's mutex while it is in push_recv.
RecvQueueFree == udp \notin {"recvfrom", "refuse", "advance"}

\* Whether the connection has a read_cb to call or not, the thread is then
\* busy with the datagram until it pops again.
CallbackPop ==
  /\ working = Nothing
  /\ RecvQueueFree
  /\ recvQ /= <<>>
  /\ working' = Head(recvQ)
  /\ recvQ' = Tail(recvQ)
  /\ UNCHANGED <<tableVars, mainVars, udpVars, sent, sock, readed, selectQ>>

\* event_add and event_del from read_cb.
CallbackEdit ==
  /\ working /= Nothing
  /\ EditBegins("callback") \/ EditGoesOn("callback")
  /\ UNCHANGED <<mainVars, udpVars, sent, sock, readed, selectQ, recvQ, working>>

CallbackReturns ==
  /\ working /= Nothing /\ ~Editing("callback")
  /\ working' = Nothing
  /\ UNCHANGED <<tableVars, mainVars, udpVars, sent, sock, readed, selectQ, recvQ>>

-----------------------------------------------------------------------------
\* A datagram arrives in a socket (the kernel).
Arrive(c, d) ==
  /\ sent < MaxSent
  /\ sent' = sent + 1
  /\ sock' = [sock EXCEPT ![c] = Append(@, d)]
  /\ UNCHANGED <<tableVars, mainVars, udpVars, readed, selectQ, recvQ, working>>

MainStep == Collect \/ FdSet \/ Select \/ Scan \/ Read \/ Check \/ Push
UdpStep  == UdpPop \/ UdpLock \/ Recvfrom \/ Advance

Next ==
  /\ ~broken
  /\ \/ MainEdits
     \/ BeginRound
     \/ MainStep
     \/ UdpStep
     \/ RecvfromFails
     \/ RefuseEdits
     \/ RefuseReturns
     \/ CallbackPop
     \/ CallbackEdit
     \/ CallbackReturns
     \/ \E c \in Connections, d \in Data : Arrive(c, d)

Spec == Init /\ [][Next]_vars

\* A thread that is not blocked goes on, with the edit it has begun or with
\* what it does next, and gets the mutex it waits for once that is free; the
\* program calls event_start in a loop. The callbacks return, however many
\* edits they make before.
EditContinues(t) ==
  /\ EditGoesOn(t)
  /\ UNCHANGED <<mainVars, udpVars, sent, sock, readed, selectQ, recvQ, working>>

Fairness ==
  /\ WF_vars(~broken /\ (BeginRound \/ MainStep \/ EditContinues("main")))
  /\ WF_vars(~broken /\ (UdpStep \/ EditContinues("udp")))
  /\ WF_vars(~broken /\ (CallbackPop \/ EditContinues("callback")))
  /\ SF_vars(~broken /\ CallbackReturns) /\ SF_vars(~broken /\ RefuseReturns)

FairSpec == Spec /\ Fairness

-----------------------------------------------------------------------------
(* Properties. *)

\* A connection is handed to the udp thread by one token: between taking the
\* flag down and raising it again it is in the main thread's hand, once in
\* the select queue, or in the udp thread's hand.
Tokens(c) ==
  Cardinality({k \in DOMAIN selectQ : selectQ[k] = c})
    + (IF main = "push" /\ cur = c THEN 1 ELSE 0)
    + (IF udpConn = c THEN 1 ELSE 0)

\* Flag and token never coexist, so that no connection is queued twice; and
\* as long as recvfrom does not fail one of the two is always there, so that
\* no connection is forgotten, although no lock covers the flag
\* (select_process, push_recv).
OneToken ==
  \A c \in Connections : /\ Tokens(c) + readed[c] <= 1
                         /\ ~SystemErrors => Tokens(c) + readed[c] = 1

\* The main thread never blocks on the select queue as long as there are no
\* more connections than the queue has room for: 99 with SELECT_QUEUE_SZIE
\* (queue_normal_push without a timeout in select_process).
MainNeverBlocks == main = "push" => Len(selectQ) < SelectCapacity

\* The udp thread waits for a datagram with the receive queue locked. That
\* shuts the callback thread out, and the main thread's queue is not read.
\* It happens when a scan meets a connection whose flag came up after the
\* select(), the datagram that select() saw having been read already.
Starved == udp = "recvfrom" /\ sock[udpConn] = <<>>

AllHandedOver ==
  /\ \A c \in registered : sock[c] = <<>>
  /\ inSlot = Nothing /\ recvQ = <<>> /\ working = Nothing

\* Once datagrams have stopped coming and every connection is registered for
\* good, everything gets to the callback, unless the udp thread is left
\* waiting in recvfrom for a datagram that does not come (select_process,
\* thread_cost of udp.c and of receive.c).
Delivery ==
  <>[](registered = Connections) => <>[](AllHandedOver \/ Starved)

\* No thread will use the connection_t again of its own accord: none has it in
\* hand or queued, and the main thread is not about to read it from a place of
\* the table it has tested already.
Quiet(c) ==
  /\ Tokens(c) = 0 /\ cur /= c
  /\ ~(main \in {"fdset", "read"} /\ conns[i] = c)
  /\ \A k \in DOMAIN recvQ : recvQ[k].conn /= c
  /\ working = Nothing \/ working.conn /= c

\* A connection that was deleted and that every thread is done with is not
\* used again until it is added again, whatever thread deletes and whatever
\* place of the table the scan has come to (select_del_connection moves an
\* entry while select_process walks the table). Being done with it includes
\* the scan: a deleted connection that was last in the table is picked up once
\* more when select_del_connection comes between the test i < conn_cnt and the
\* read of conns[i], the entry being left where it was.
DeletedStaysQuiet ==
  [][\A c \in Connections \ (registered \cup registered') : Quiet(c) => Quiet(c)']_vars

\* event_del says nothing about when the connection_t may be freed: the queues
\* still refer to it. They let go of a connection that stays deleted, unless
\* the udp thread is left waiting (select_del_connection).
DeletedGoesQuiet ==
  \A c \in Connections :
    c \notin registered ~> c \in registered \/ Quiet(c) \/ []Starved

-----------------------------------------------------------------------------
(* The loop as the program sees it. *)

\* What the entries of q hold for c, w[n] being that of the first n.
PayloadsOf(q, c) ==
  LET w[n \in 0 .. Len(q)] ==
        IF n = 0 THEN <<>>
        ELSE IF q[n].conn = c THEN w[n - 1] \o <<q[n].data>> ELSE w[n - 1]
  IN  w[Len(q)]

\* What has arrived for c and has not been handed over, oldest first.
InFlight(c) ==
  PayloadsOf(recvQ, c)
    \o (IF udpConn = c /\ udp = "advance" THEN <<inSlot>> ELSE <<>>)
    \o sock[c]

Service == INSTANCE DatagramService
             WITH pending <- [c \in Connections |-> InFlight(c)]

\* Every datagram reaches the callback thread at most once and in the order
\* its connection received it, whatever is added, deleted or fails meanwhile.
ImplementsService == Service!Spec
=============================================================================
