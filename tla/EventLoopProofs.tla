-------------------------- MODULE EventLoopProofs --------------------------
(***************************************************************************)
(* Theorems about EventLoop, for every set of connections, all capacities  *)
(* and any number of datagrams: types, the handshake between the main and  *)
(* the udp thread, the table the main thread walks while callbacks edit    *)
(* it, deleted connections, and the refinement of DatagramService: each    *)
(* connection's datagrams are handed over in order.                        *)
(***************************************************************************)
EXTENDS EventLoop, ConnTableProofs, NatSets, SequenceTheorems

(***************************************************************************)
(* The inductive invariant. The main thread is within the array while it   *)
(* works on one of its entries, which is a connection once it has been     *)
(* read, and the udp thread has room for what it is receiving.             *)
(***************************************************************************)
MainInv ==
  /\ main \in {"fdset", "read", "check", "push"} => i < TableSize
  /\ main = "push" \/ (main = "check" /\ ~broken) => cur \in Connections

UdpInv ==
  /\ udp = "pop" <=> udpConn = NoConn
  /\ udp = "advance" => inSlot \in Data
  /\ udp \in {"recvfrom", "refuse", "advance"} => Len(recvQ) < RecvCapacity
  /\ udp = "refuse" => SystemErrors

\* The three places a token can be in.
Pushed(c) == main = "push" /\ cur = c
Queued(c) == \E k \in DOMAIN selectQ : selectQ[k] = c
Popped(c) == udpConn = c

\* No two of flag and places at the same time, and no place twice.
TokenInv ==
  /\ \A j, k \in DOMAIN selectQ : selectQ[j] = selectQ[k] => j = k
  /\ \A c \in Connections :
       /\ readed[c] = 1 => ~Pushed(c) /\ ~Queued(c) /\ ~Popped(c)
       /\ Pushed(c) => ~Queued(c) /\ ~Popped(c)
       /\ Queued(c) => ~Popped(c)

\* Without failures one of them is there.
KeptInv == ~SystemErrors => \A c \in Connections : readed[c] = 1 \/ Pushed(c) \/ Queued(c) \/ Popped(c)

LoopInv == TypeOK /\ MainInv /\ UdpInv

LEMMA LoopInvInit == Init => LoopInv
<1> SUFFICES ASSUME Init
             PROVE  LoopInv
  OBVIOUS
<1>1. TableTypeOK
  BY TableTypeInit DEF Init
<1>2. TypeOK
  BY <1>1, EventLoopAssumption, TableAssumption DEF Init, TypeOK
<1>3. MainInv /\ UdpInv
  BY DEF Init, MainInv, UdpInv
<1>4. QED
  BY <1>2, <1>3 DEF LoopInv

-----------------------------------------------------------------------------
(* Edits of the table, from whichever thread. *)

EditStep == \E t \in Threads : EditBegins(t) \/ EditGoesOn(t)

LEMMA EditsAre ==
  ASSUME MainEdits \/ CallbackEdit \/ RefuseEdits
  PROVE  EditStep /\ UNCHANGED <<mainVars, udpVars, sent, sock, readed, selectQ, recvQ, working>>
BY DEF MainEdits, CallbackEdit, RefuseEdits, EditStep, Threads

LEMMA LoopInvEdit ==
  ASSUME LoopInv, ~broken, MainEdits \/ CallbackEdit \/ RefuseEdits
  PROVE  LoopInv'
<1>1. EditStep /\ UNCHANGED <<mainVars, udpVars, sent, sock, readed, selectQ, recvQ, working>>
  BY EditsAre
<1>2. TableTypeOK'
  BY <1>1, BeginTypes, StepTypes DEF EditStep, LoopInv, TypeOK
<1>3. TypeOK' /\ MainInv' /\ UdpInv'
  BY <1>1, <1>2 DEF LoopInv, TypeOK, MainInv, UdpInv, mainVars, udpVars
<1>4. QED
  BY <1>3 DEF LoopInv

-----------------------------------------------------------------------------
(* The steps of the main thread. *)

LEMMA LoopInvMain ==
  ASSUME LoopInv, ~broken, BeginRound \/ MainStep
  PROVE  LoopInv'
<1> USE EventLoopAssumption, TableAssumption
<1>1. /\ UNCHANGED <<conns, conn_cnt, index, edit, registered, udpVars, sent, sock, recvQ, working>>
      /\ broken' \in BOOLEAN
  BY DEF MainStep, BeginRound, Collect, FdSet, Select, Scan, Read, Check, Push, tableVars,
         LoopInv, TypeOK, TableTypeOK
<1>2. TableTypeOK' /\ UdpInv'
  BY <1>1 DEF LoopInv, TypeOK, TableTypeOK, UdpInv, udpVars
<1>3. conn_cnt \in 0 .. TableSize /\ i \in 0 .. TableSize
  BY DEF LoopInv, TypeOK, TableTypeOK
<1>4. main \in {"fdset", "read"} => conns[i] \in Connections \cup {NoConn}
  BY <1>3 DEF LoopInv, MainInv, TypeOK, TableTypeOK, Places
<1>5. CASE BeginRound
  BY <1>1, <1>2, <1>5 DEF BeginRound, LoopInv, TypeOK, MainInv, udpVars
<1>6. CASE Collect
  BY <1>1, <1>2, <1>3, <1>6 DEF Collect, LoopInv, TypeOK, MainInv, udpVars
<1>7. CASE FdSet
  <2>1. i' \in 0 .. TableSize
    BY <1>3, <1>7 DEF FdSet, LoopInv, MainInv
  <2>2. readfds' \subseteq Connections
    BY <1>4, <1>7 DEF FdSet, LoopInv, TypeOK
  <2>3. QED
    BY <1>1, <1>2, <1>7, <2>1, <2>2 DEF FdSet, LoopInv, TypeOK, MainInv, udpVars
<1>8. CASE Select
  BY <1>1, <1>2, <1>8 DEF Select, LoopInv, TypeOK, MainInv, udpVars
<1>9. CASE Scan
  BY <1>1, <1>2, <1>3, <1>9 DEF Scan, EndRound, LoopInv, TypeOK, MainInv, udpVars
<1>10. CASE Read
  <2>1. cur' \in Connections \cup {NoConn} /\ (~broken' => cur' \in Connections)
    BY <1>4, <1>10 DEF Read
  <2>2. i < TableSize
    BY <1>10 DEF Read, LoopInv, MainInv
  <2>3. QED
    BY <1>1, <1>2, <1>10, <2>1, <2>2 DEF Read, LoopInv, TypeOK, MainInv, udpVars
<1>11. CASE Check
  <2>1. cur \in Connections /\ i < TableSize
    BY <1>11 DEF Check, LoopInv, MainInv
  <2>2. CASE cur \in readfds /\ readed[cur] = 1
    <3>1. readed' \in [Connections -> {0, 1}]
      BY <1>11, <2>2 DEF Check, LoopInv, TypeOK
    <3>2. main' = "push" /\ UNCHANGED <<i, readfds, cur, selectQ>>
      BY <1>11, <2>2 DEF Check
    <3>3. QED
      BY <1>1, <1>2, <2>1, <3>1, <3>2 DEF LoopInv, TypeOK, MainInv, udpVars
  <2>3. CASE ~(cur \in readfds /\ readed[cur] = 1)
    <3>1. UNCHANGED <<readed, selectQ, readfds>> /\ main' = "scan" /\ i' = i + 1 /\ cur' = NoConn
      BY <1>11, <2>3 DEF Check, NextPlace
    <3>2. i' \in 0 .. TableSize
      BY <1>3, <2>1, <3>1
    <3>3. QED
      BY <1>1, <1>2, <3>1, <3>2 DEF LoopInv, TypeOK, MainInv, udpVars
  <2>4. QED
    BY <2>2, <2>3
<1>12. CASE Push
  <2>1. cur \in Connections /\ i < TableSize
    BY <1>12 DEF Push, LoopInv, MainInv
  <2>2. /\ Append(selectQ, cur) \in Seq(Connections)
        /\ Len(Append(selectQ, cur)) = Len(selectQ) + 1
    BY <2>1 DEF LoopInv, TypeOK
  <2>3. QED
    BY <1>1, <1>2, <1>12, <2>1, <2>2 DEF Push, NextPlace, LoopInv, TypeOK, MainInv, udpVars
<1>13. QED
  BY <1>5, <1>6, <1>7, <1>8, <1>9, <1>10, <1>11, <1>12 DEF MainStep

-----------------------------------------------------------------------------
(* The steps of the udp and the callback thread, and of the kernel. *)

LEMMA LoopInvUdp ==
  ASSUME LoopInv, UdpStep \/ RecvfromFails \/ RefuseReturns
  PROVE  LoopInv'
<1> USE EventLoopAssumption, TableAssumption
<1>1. UNCHANGED <<tableVars, mainVars, sent, working>>
  BY DEF UdpStep, UdpPop, UdpLock, Recvfrom, Advance, RecvfromFails, RefuseReturns
<1>2. TableTypeOK' /\ MainInv'
  BY <1>1 DEF LoopInv, TypeOK, TableTypeOK, MainInv, tableVars, mainVars
<1>3. CASE UdpPop
  <2>1. Head(selectQ) \in Connections /\ Tail(selectQ) \in Seq(Connections)
        /\ Len(Tail(selectQ)) = Len(selectQ) - 1
    BY <1>3, HeadTailProperties DEF UdpPop, LoopInv, TypeOK
  <2>2. QED
    BY <1>1, <1>2, <1>3, <2>1 DEF UdpPop, LoopInv, TypeOK, UdpInv, mainVars
<1>4. CASE UdpLock
  BY <1>1, <1>2, <1>4 DEF UdpLock, LoopInv, TypeOK, UdpInv, mainVars
<1>5. CASE Recvfrom
  <2>1. udpConn \in Connections
    BY <1>5 DEF Recvfrom, LoopInv, TypeOK, UdpInv
  <2>2. Head(sock[udpConn]) \in Data /\ Tail(sock[udpConn]) \in Seq(Data)
    BY <1>5, <2>1, HeadTailProperties DEF Recvfrom, LoopInv, TypeOK
  <2>3. QED
    BY <1>1, <1>2, <1>5, <2>1, <2>2 DEF Recvfrom, LoopInv, TypeOK, UdpInv, mainVars
<1>6. CASE Advance
  <2>1. udpConn \in Connections /\ inSlot \in Data /\ Len(recvQ) < RecvCapacity
    BY <1>6 DEF Advance, LoopInv, TypeOK, UdpInv
  <2>2. /\ recvQ' \in Seq(Datagrams)
        /\ Len(recvQ') = Len(recvQ) + 1
    BY <1>6, <2>1 DEF Advance, LoopInv, TypeOK, Datagrams
  <2>3. QED
    BY <1>1, <1>2, <1>6, <2>1, <2>2 DEF Advance, LoopInv, TypeOK, UdpInv, mainVars
<1>7. CASE RecvfromFails
  BY <1>1, <1>2, <1>7 DEF RecvfromFails, LoopInv, TypeOK, UdpInv, mainVars
<1>8. CASE RefuseReturns
  BY <1>1, <1>2, <1>8 DEF RefuseReturns, LoopInv, TypeOK, UdpInv, mainVars
<1>9. QED
  BY <1>3, <1>4, <1>5, <1>6, <1>7, <1>8 DEF UdpStep

LEMMA LoopInvRest ==
  ASSUME LoopInv,
         \/ CallbackPop
         \/ CallbackReturns
         \/ \E c \in Connections, d \in Data : Arrive(c, d)
  PROVE  LoopInv'
<1> USE EventLoopAssumption, TableAssumption
<1>1. UNCHANGED <<tableVars, mainVars, udpVars, readed, selectQ>>
  BY DEF CallbackPop, CallbackReturns, Arrive
<1>2. TableTypeOK' /\ MainInv'
  BY <1>1 DEF LoopInv, TypeOK, TableTypeOK, MainInv, tableVars, mainVars
<1>3. CASE CallbackPop
  <2>1. Head(recvQ) \in Datagrams /\ Tail(recvQ) \in Seq(Datagrams)
        /\ Len(Tail(recvQ)) = Len(recvQ) - 1
    BY <1>3, HeadTailProperties DEF CallbackPop, LoopInv, TypeOK
  <2>2. QED
    BY <1>1, <1>2, <1>3, <2>1
    DEF CallbackPop, RecvQueueFree, LoopInv, TypeOK, UdpInv, mainVars, udpVars
<1>4. CASE CallbackReturns
  BY <1>1, <1>2, <1>4 DEF CallbackReturns, LoopInv, TypeOK, UdpInv, mainVars, udpVars
<1>5. ASSUME NEW c \in Connections, NEW d \in Data, Arrive(c, d)
      PROVE  LoopInv'
  <2>1. Append(sock[c], d) \in Seq(Data)
    BY DEF LoopInv, TypeOK
  <2>2. QED
    BY <1>1, <1>2, <1>5, <2>1 DEF Arrive, LoopInv, TypeOK, UdpInv, mainVars, udpVars
<1>6. QED
  BY <1>3, <1>4, <1>5

LEMMA LoopInvStep == LoopInv /\ [Next]_vars => LoopInv'
<1> SUFFICES ASSUME LoopInv, [Next]_vars
             PROVE  LoopInv'
  OBVIOUS
<1>1. CASE UNCHANGED vars
  BY <1>1 DEF vars, tableVars, mainVars, udpVars, LoopInv, TypeOK, TableTypeOK, MainInv, UdpInv
<1>2. QED
  BY <1>1, LoopInvEdit, LoopInvMain, LoopInvUdp, LoopInvRest DEF Next

\* All variables keep their types and the queues their bounds, whatever is
\* added, deleted, repeated or fails and however edits meet: the main thread
\* never reads behind the array, and push_recv never writes into a full
\* receive queue. Each holds up to the step that goes past the array or
\* through NULL, if callers make the program take one.
THEOREM LoopTypeCorrect == Spec => []TypeOK
<1>1. LoopInv => TypeOK
  BY DEF LoopInv
<1>2. QED
  BY <1>1, LoopInvInit, LoopInvStep, PTL DEF Spec

-----------------------------------------------------------------------------
(***************************************************************************)
(* The table as the scan finds it. A place the main thread has tested may  *)
(* be given up before it reads the entry, which then is a leftover, but a  *)
(* connection all the same.                                                *)
(***************************************************************************)
Filled == main \in {"fdset", "read"} => conns[i] \in Connections

LEMMA NextIsTableStep ==
  ASSUME TableTypeOK, Filled, [Next]_vars
  PROVE  [TableNext]_tableVars
<1>1. CASE UNCHANGED vars
  BY <1>1 DEF vars
<1>2. CASE Next
  <2>1. ~broken
    BY <1>2 DEF Next
  <2>2. CASE MainEdits \/ CallbackEdit \/ RefuseEdits
    BY <2>1, <2>2, EditsAre DEF EditStep, TableNext
  <2>3. CASE FdSet \/ Read
    <3>1. conns[i] /= NoConn
      BY <2>3, TableAssumption DEF Filled, FdSet, Read
    <3>2. broken' = (conns[i] = NoConn) /\ UNCHANGED <<conns, conn_cnt, index, edit, registered>>
      BY <2>3 DEF FdSet, Read
    <3>3. broken = FALSE
      BY <2>1 DEF TableTypeOK
    <3>4. broken' = FALSE
      BY <3>1, <3>2
    <3>5. QED
      BY <3>2, <3>3, <3>4 DEF tableVars
  <2>4. BeginRound \/ Collect \/ Select \/ Scan \/ Check \/ Push => UNCHANGED tableVars
    BY DEF BeginRound, Collect, Select, Scan, Check, Push
  <2>5. UdpStep \/ RecvfromFails \/ RefuseReturns => UNCHANGED tableVars
    BY DEF UdpStep, UdpPop, UdpLock, Recvfrom, Advance, RecvfromFails, RefuseReturns
  <2>6. CallbackPop \/ CallbackReturns => UNCHANGED tableVars
    BY DEF CallbackPop, CallbackReturns
  <2>7. (\E c \in Connections, d \in Data : Arrive(c, d)) => UNCHANGED tableVars
    BY DEF Arrive
  <2>8. QED
    BY <1>2, <2>2, <2>3, <2>4, <2>5, <2>6, <2>7, Zenon DEF Next, MainStep
<1>3. QED
  BY <1>1, <1>2

\* What the main thread finds at a place it has just tested.
LEMMA TestedEntry ==
  ASSUME IInv, LoopInv, i < conn_cnt
  PROVE  conns[i] \in registered
<1>1. i \in 0 .. conn_cnt - 1
  BY TableAssumption DEF LoopInv, TypeOK, TableTypeOK
<1>2. TableExact
  BY ExactAfterEdits
<1>3. QED
  BY <1>1, <1>2 DEF TableExact, Table

\* The place a read is about to take place at, and what it held before.
LEMMA ReadPlace ==
  ASSUME IInv, LoopInv, [Next]_vars, main' \in {"fdset", "read"}
  PROVE  \/ conns'[i'] \in registered
         \/ main \in {"fdset", "read"} /\ conns'[i'] = conns[i]
<1>1. CASE Collect \/ Scan
  <2>1. i < conn_cnt /\ i' = i /\ conns' = conns
    BY <1>1 DEF Collect, Scan, EndRound, tableVars
  <2>2. QED
    BY <2>1, TestedEntry
<1>2. CASE ~broken /\ (MainEdits \/ CallbackEdit \/ RefuseEdits)
  <2>1. EditStep /\ main' = main /\ i' = i
    BY <1>2, EditsAre DEF mainVars
  <2>2. i \in Places
    BY <2>1, TableAssumption DEF LoopInv, MainInv, TypeOK, Places
  <2>3. QED
    BY <2>1, <2>2, StoresRegistered DEF EditStep
<1>3. CASE main' = main /\ i' = i /\ conns' = conns
  BY <1>3
<1>4. QED
  BY <1>1, <1>2, <1>3
  DEF Next, vars, tableVars, mainVars, MainStep, BeginRound, FdSet, Select, Read, Check, NextPlace,
      Push, UdpStep, UdpPop, UdpLock, Recvfrom, Advance, RecvfromFails, RefuseReturns, CallbackPop,
      CallbackReturns, Arrive

LEMMA FilledStep == IInv /\ LoopInv /\ Filled /\ [Next]_vars => Filled'
<1> SUFFICES ASSUME IInv, LoopInv, Filled, [Next]_vars, main' \in {"fdset", "read"}
             PROVE  conns'[i'] \in Connections
  BY DEF Filled
<1>1. registered \subseteq Connections
  BY DEF IInv, TableTypeOK
<1>2. QED
  BY <1>1, ReadPlace DEF Filled

LEMMA CarefulInvariant == Careful => (Spec => [](IInv /\ Filled))
<1> SUFFICES ASSUME Careful
             PROVE  Spec => [](IInv /\ Filled)
  OBVIOUS
<1>1. Init => IInv /\ Filled
  BY TableExactInit DEF Init, Filled
<1>2. IInv /\ LoopInv /\ Filled /\ [Next]_vars => IInv' /\ Filled'
  BY NextIsTableStep, TableExactStep, FilledStep DEF IInv
<1>3. QED
  BY <1>1, <1>2, LoopInvInit, LoopInvStep, PTL DEF Spec

\* The table stays exact while three threads edit it and one of them scans
\* it, access by access: for callers that add what is not there and delete
\* what is, one of them at a time, and no more connections than there are
\* places (event_add, event_del from read_cb and refuse_cb). The scan itself
\* never reads through NULL then.
THEOREM LoopTableIsExact == Careful => (Spec => []TableExact)
BY CarefulInvariant, ExactAfterEdits, PTL

-----------------------------------------------------------------------------
(* What a step does to the flags and the tokens. *)

TokenStays ==
  /\ UNCHANGED <<readed, selectQ, udpConn>>
  /\ \A c \in Connections : Pushed(c)' = Pushed(c)

TokenTaken ==
  /\ cur \in Connections /\ readed[cur] = 1
  /\ readed' = [readed EXCEPT ![cur] = 0]
  /\ main /= "push" /\ main' = "push" /\ cur' = cur
  /\ UNCHANGED <<selectQ, udpConn>>

TokenPushed ==
  /\ cur \in Connections
  /\ main = "push" /\ main' /= "push"
  /\ selectQ' = Append(selectQ, cur)
  /\ UNCHANGED <<readed, udpConn>>

TokenPopped ==
  /\ udpConn = NoConn /\ selectQ /= <<>>
  /\ udpConn' = Head(selectQ) /\ selectQ' = Tail(selectQ)
  /\ UNCHANGED <<readed, main, cur>>

TokenReturned ==
  /\ udpConn \in Connections /\ udpConn' = NoConn
  /\ readed' = [readed EXCEPT ![udpConn] = 1]
  /\ UNCHANGED <<selectQ, main, cur>>

TokenDropped ==
  /\ SystemErrors
  /\ udpConn' = NoConn
  /\ UNCHANGED <<readed, selectQ, main, cur>>

LEMMA TokenKinds ==
  ASSUME LoopInv, [Next]_vars
  PROVE  TokenStays \/ TokenTaken \/ TokenPushed \/ TokenPopped \/ TokenReturned \/ TokenDropped
<1>1. CASE UNCHANGED <<mainVars, udpVars, readed, selectQ>>
  BY <1>1 DEF mainVars, udpVars, TokenStays, Pushed
<1>2. CASE BeginRound \/ Collect \/ FdSet \/ Select \/ Scan \/ Read
  <2>1. UNCHANGED <<udpVars, readed, selectQ>> /\ main /= "push" /\ main' /= "push"
    BY <1>2 DEF BeginRound, Collect, FdSet, Select, Scan, Read, EndRound
  <2>2. QED
    BY <2>1 DEF udpVars, TokenStays, Pushed
<1>3. CASE ~broken /\ Check
  <2>1. CASE cur \in readfds /\ readed[cur] = 1
    BY <1>3, <2>1 DEF Check, LoopInv, MainInv, TokenTaken, udpVars
  <2>2. CASE ~(cur \in readfds /\ readed[cur] = 1)
    BY <1>3, <2>2 DEF Check, NextPlace, TokenStays, Pushed, udpVars
  <2>3. QED
    BY <1>3, <2>1, <2>2
<1>4. CASE ~broken /\ Push
  BY <1>4 DEF Push, NextPlace, LoopInv, MainInv, TokenPushed, udpVars
<1>5. CASE UdpPop
  BY <1>5 DEF UdpPop, LoopInv, UdpInv, TokenPopped, mainVars
<1>6. CASE UdpLock \/ Recvfrom
  BY <1>6 DEF UdpLock, Recvfrom, TokenStays, Pushed, mainVars
<1>7. CASE Advance
  BY <1>7 DEF Advance, LoopInv, TypeOK, UdpInv, TokenReturned, mainVars
<1>8. CASE RecvfromFails \/ RefuseReturns
  <2>1. SystemErrors
    BY <1>8 DEF RecvfromFails, RefuseReturns, LoopInv, UdpInv
  <2>2. QED
    BY <1>8, <2>1 DEF RecvfromFails, RefuseReturns, TokenStays, TokenDropped, Pushed, mainVars
<1>9. CASE MainEdits \/ CallbackPop \/ CallbackEdit \/ RefuseEdits \/ CallbackReturns
           \/ UNCHANGED vars \/ \E c \in Connections, d \in Data : Arrive(c, d)
  BY <1>1, <1>9 DEF MainEdits, CallbackPop, CallbackEdit, RefuseEdits, CallbackReturns, Arrive, vars
<1>10. QED
  BY <1>2, <1>3, <1>4, <1>5, <1>6, <1>7, <1>8, <1>9 DEF Next, MainStep, UdpStep

LEMMA QueuedAppend ==
  ASSUME LoopInv, TokenPushed, NEW c \in Connections
  PROVE  Queued(c)' <=> Queued(c) \/ c = cur
<1>1. /\ DOMAIN selectQ = 1 .. Len(selectQ) /\ Len(selectQ) \in Nat
      /\ DOMAIN selectQ' = 1 .. Len(selectQ) + 1
      /\ \A k \in 1 .. Len(selectQ) : selectQ'[k] = selectQ[k]
      /\ selectQ'[Len(selectQ) + 1] = cur
  BY DEF LoopInv, TypeOK, TokenPushed
<1>2. QED
  BY <1>1 DEF Queued

LEMMA QueuedTail ==
  ASSUME LoopInv, TokenInv, TokenPopped, NEW c \in Connections
  PROVE  Queued(c)' <=> Queued(c) /\ c /= udpConn'
<1>1. /\ DOMAIN selectQ = 1 .. Len(selectQ) /\ Len(selectQ) \in Nat \ {0}
      /\ DOMAIN selectQ' = 1 .. Len(selectQ) - 1
      /\ \A k \in 1 .. Len(selectQ) - 1 : selectQ'[k] = selectQ[k + 1]
      /\ udpConn' = selectQ[1]
  BY HeadTailProperties, EmptySeq DEF LoopInv, TypeOK, TokenPopped
<1>2. ASSUME Queued(c)' PROVE Queued(c) /\ c /= udpConn'
  <2>1. PICK k \in 1 .. Len(selectQ) - 1 : selectQ'[k] = c
    BY <1>1, <1>2 DEF Queued
  <2>2. selectQ[k + 1] = c /\ k + 1 \in DOMAIN selectQ /\ 1 \in DOMAIN selectQ /\ k + 1 /= 1
    BY <1>1, <2>1
  <2>3. QED
    BY <1>1, <2>2 DEF Queued, TokenInv
<1>3. ASSUME Queued(c), c /= udpConn' PROVE Queued(c)'
  <2>1. PICK k \in DOMAIN selectQ : selectQ[k] = c
    BY <1>3 DEF Queued
  <2>2. k - 1 \in 1 .. Len(selectQ) - 1 /\ selectQ'[k - 1] = c
    BY <1>1, <1>3, <2>1
  <2>3. QED
    BY <1>1, <2>2 DEF Queued
<1>4. QED
  BY <1>2, <1>3

LEMMA TokenInvStep ==
  ASSUME LoopInv, TokenInv, [Next]_vars
  PROVE  TokenInv'
<1> USE DEF TokenInv
<1>1. NoConn \notin Connections /\ readed \in [Connections -> {0, 1}]
  BY TableAssumption DEF LoopInv, TypeOK
<1>2. CASE TokenStays
  BY <1>2 DEF TokenStays, Queued, Popped
<1>3. CASE TokenTaken
  <2>1. /\ \A c \in Connections : readed'[c] = IF c = cur THEN 0 ELSE readed[c]
        /\ \A c \in Connections : Pushed(c)' <=> c = cur
        /\ \A c \in Connections : ~Pushed(c)
    BY <1>1, <1>3 DEF TokenTaken, Pushed
  <2>2. \A c \in Connections : Queued(c)' = Queued(c) /\ Popped(c)' = Popped(c)
    BY <1>3 DEF TokenTaken, Queued, Popped
  <2>3. QED
    BY <1>3, <2>1, <2>2 DEF TokenTaken
<1>4. CASE TokenPushed
  <2>1. \A c \in Connections : (Queued(c)' <=> Queued(c) \/ c = cur) /\ ~Pushed(c)' /\ (Popped(c)' = Popped(c))
    BY <1>4, QueuedAppend DEF TokenPushed, Pushed, Popped
  <2>2. Pushed(cur)
    BY <1>4 DEF TokenPushed, Pushed
  <2>3. \A j, k \in DOMAIN selectQ' : selectQ'[j] = selectQ'[k] => j = k
    <3>1. /\ DOMAIN selectQ = 1 .. Len(selectQ) /\ Len(selectQ) \in Nat
          /\ DOMAIN selectQ' = 1 .. Len(selectQ) + 1
          /\ \A k \in 1 .. Len(selectQ) : selectQ'[k] = selectQ[k]
          /\ selectQ'[Len(selectQ) + 1] = cur
      BY <1>4 DEF LoopInv, TypeOK, TokenPushed
    <3>2. \A k \in DOMAIN selectQ : selectQ[k] /= cur
      BY <1>4, <2>2 DEF TokenPushed, Queued
    <3>3. QED
      BY <3>1, <3>2
  <2>4. \A c \in Connections : readed'[c] = readed[c]
    BY <1>4 DEF TokenPushed
  <2>5. QED
    BY <1>4, <2>1, <2>2, <2>3, <2>4 DEF TokenPushed
<1>5. CASE TokenPopped
  <2>1. \A c \in Connections : /\ Queued(c)' <=> Queued(c) /\ c /= udpConn'
                               /\ Pushed(c)' = Pushed(c) /\ readed'[c] = readed[c]
                               /\ ~Popped(c)
    BY <1>1, <1>5, QueuedTail DEF TokenPopped, Pushed, Popped
  <2>2. \A c \in Connections : Popped(c)' => Queued(c)
    <3>1. 1 \in DOMAIN selectQ /\ udpConn' = selectQ[1]
      BY <1>5, HeadTailProperties, EmptySeq DEF LoopInv, TypeOK, TokenPopped
    <3>2. QED
      BY <3>1 DEF Queued, Popped
  <2>3. \A j, k \in DOMAIN selectQ' : selectQ'[j] = selectQ'[k] => j = k
    <3>1. /\ DOMAIN selectQ = 1 .. Len(selectQ) /\ Len(selectQ) \in Nat \ {0}
          /\ DOMAIN selectQ' = 1 .. Len(selectQ) - 1
          /\ \A k \in 1 .. Len(selectQ) - 1 : selectQ'[k] = selectQ[k + 1]
      BY <1>5, HeadTailProperties, EmptySeq DEF LoopInv, TypeOK, TokenPopped
    <3>2. ASSUME NEW j \in DOMAIN selectQ', NEW k \in DOMAIN selectQ', selectQ'[j] = selectQ'[k]
          PROVE  j = k
      <4>1. j + 1 \in DOMAIN selectQ /\ k + 1 \in DOMAIN selectQ
        BY <3>1
      <4>2. selectQ[j + 1] = selectQ[k + 1]
        BY <3>1, <3>2
      <4>3. j + 1 = k + 1
        BY <4>1, <4>2
      <4>4. QED
        BY <3>1, <4>3
    <3>3. QED
      BY <3>2
  <2>4. \A c \in Connections : Popped(c)' <=> c = udpConn'
    BY DEF Popped
  <2>5. QED
    BY <2>1, <2>2, <2>3, <2>4
<1>6. CASE TokenReturned
  <2>1. \A c \in Connections : /\ Queued(c)' = Queued(c) /\ Pushed(c)' = Pushed(c) /\ ~Popped(c)'
                               /\ readed'[c] = IF Popped(c) THEN 1 ELSE readed[c]
    BY <1>1, <1>6 DEF TokenReturned, Queued, Pushed, Popped
  <2>2. QED
    BY <1>6, <2>1 DEF TokenReturned
<1>7. CASE TokenDropped
  <2>1. \A c \in Connections : /\ Queued(c)' = Queued(c) /\ Pushed(c)' = Pushed(c) /\ ~Popped(c)'
                               /\ readed'[c] = readed[c]
    BY <1>1, <1>7 DEF TokenDropped, Queued, Pushed, Popped
  <2>2. QED
    BY <1>7, <2>1 DEF TokenDropped
<1>8. QED
  BY <1>2, <1>3, <1>4, <1>5, <1>6, <1>7, TokenKinds

LEMMA KeptInvStep ==
  ASSUME LoopInv, TokenInv, KeptInv, [Next]_vars
  PROVE  KeptInv'
<1> SUFFICES ASSUME ~SystemErrors, NEW c \in Connections
             PROVE  readed'[c] = 1 \/ Pushed(c)' \/ Queued(c)' \/ Popped(c)'
  BY DEF KeptInv
<1>1. readed[c] = 1 \/ Pushed(c) \/ Queued(c) \/ Popped(c)
  BY DEF KeptInv
<1>2. NoConn \notin Connections /\ readed \in [Connections -> {0, 1}]
  BY TableAssumption DEF LoopInv, TypeOK
<1>3. CASE TokenStays
  BY <1>1, <1>3 DEF TokenStays, Queued, Popped
<1>4. CASE TokenTaken
  BY <1>1, <1>2, <1>4 DEF TokenTaken, Pushed, Queued, Popped
<1>5. CASE TokenPushed
  BY <1>1, <1>5, QueuedAppend DEF TokenPushed, Pushed, Popped
<1>6. CASE TokenPopped
  BY <1>1, <1>2, <1>6, QueuedTail DEF TokenPopped, Pushed, Popped
<1>7. CASE TokenReturned
  BY <1>1, <1>2, <1>7 DEF TokenReturned, Pushed, Queued, Popped
<1>8. QED
  BY <1>3, <1>4, <1>5, <1>6, <1>7, TokenKinds DEF TokenDropped

LEMMA TokenInvInit == Init => TokenInv /\ KeptInv
<1> SUFFICES ASSUME Init
             PROVE  TokenInv /\ KeptInv
  OBVIOUS
<1>1. /\ main /= "push" /\ udpConn \notin Connections /\ selectQ = <<>>
      /\ \A c \in Connections : readed[c] = 1
  BY TableAssumption DEF Init
<1>2. DOMAIN selectQ = {}
  BY <1>1
<1>3. QED
  BY <1>1, <1>2 DEF TokenInv, KeptInv, Pushed, Queued, Popped

\* The invariant behind everything that follows.
LEMMA LoopInvariant == Spec => [](LoopInv /\ TokenInv /\ KeptInv)
BY LoopInvInit, LoopInvStep, TokenInvInit, TokenInvStep, KeptInvStep, PTL DEF Spec

-----------------------------------------------------------------------------
\* How often a connection is in the select queue.
LEMMA PlacesInQueue ==
  ASSUME LoopInv, TokenInv, NEW c \in Connections
  PROVE  Cardinality({k \in DOMAIN selectQ : selectQ[k] = c}) = IF Queued(c) THEN 1 ELSE 0
<1>1. CASE Queued(c)
  <2>1. PICK k \in DOMAIN selectQ : selectQ[k] = c
    BY <1>1 DEF Queued
  <2>2. {j \in DOMAIN selectQ : selectQ[j] = c} = {k}
    BY <2>1 DEF TokenInv
  <2>3. QED
    BY <1>1, <2>2, FS_Singleton
<1>2. CASE ~Queued(c)
  <2>1. {j \in DOMAIN selectQ : selectQ[j] = c} = {}
    BY <1>2 DEF Queued
  <2>2. QED
    BY <1>2, <2>1, FS_EmptySet
<1>3. QED
  BY <1>1, <1>2

LEMMA TokensCounted ==
  ASSUME LoopInv, TokenInv, NEW c \in Connections
  PROVE  Tokens(c) = (IF Queued(c) THEN 1 ELSE 0) + (IF Pushed(c) THEN 1 ELSE 0)
                       + (IF Popped(c) THEN 1 ELSE 0)
BY PlacesInQueue DEF Tokens, Pushed, Popped

\* Flag and token never coexist, so that no connection is queued twice,
\* although no lock covers the flag that the main thread takes down and the
\* udp thread raises; and without failures of recvfrom no connection is
\* forgotten (select_process, push_recv).
THEOREM OneTokenEach == Spec => []OneToken
<1>1. LoopInv /\ TokenInv /\ KeptInv => OneToken
  <2> SUFFICES ASSUME LoopInv, TokenInv, KeptInv, NEW c \in Connections
               PROVE  /\ Tokens(c) + readed[c] <= 1
                      /\ ~SystemErrors => Tokens(c) + readed[c] = 1
    BY DEF OneToken
  <2>1. readed[c] \in {0, 1}
    BY DEF LoopInv, TypeOK
  <2>2. Tokens(c) = (IF Queued(c) THEN 1 ELSE 0) + (IF Pushed(c) THEN 1 ELSE 0)
                      + (IF Popped(c) THEN 1 ELSE 0)
    BY TokensCounted
  <2>3. /\ readed[c] = 1 => ~Pushed(c) /\ ~Queued(c) /\ ~Popped(c)
        /\ Pushed(c) => ~Queued(c) /\ ~Popped(c)
        /\ Queued(c) => ~Popped(c)
    BY DEF TokenInv
  <2>4. ~SystemErrors => readed[c] = 1 \/ Pushed(c) \/ Queued(c) \/ Popped(c)
    BY DEF KeptInv
  <2>5. QED
    BY <2>1, <2>2, <2>3, <2>4
<1>2. QED
  BY <1>1, LoopInvariant, PTL

\* With no more connections than the select queue has room for, the main
\* thread never blocks in queue_normal_push: the one it is about to push is
\* not in the queue, and no other is in it twice.
THEOREM MainThreadNeverBlocks ==
  ASSUME IsFiniteSet(Connections), Cardinality(Connections) <= SelectCapacity
  PROVE  Spec => []MainNeverBlocks
<1>1. LoopInv /\ TokenInv /\ KeptInv => MainNeverBlocks
  <2> SUFFICES ASSUME LoopInv, TokenInv, main = "push"
               PROVE  Len(selectQ) < SelectCapacity
    BY DEF MainNeverBlocks
  <2> DEFINE Others == Connections \ {cur}
  <2>1. cur \in Connections /\ Pushed(cur)
    BY DEF LoopInv, MainInv, Pushed
  <2>2. \A k \in DOMAIN selectQ : selectQ[k] \in Others
    BY <2>1 DEF TokenInv, Queued, LoopInv, TypeOK
  <2>3. Len(selectQ) \in Nat /\ DOMAIN selectQ = 1 .. Len(selectQ)
        /\ selectQ \in [1 .. Len(selectQ) -> Connections]
    BY LenProperties DEF LoopInv, TypeOK
  <2>4. selectQ \in Injection(1 .. Len(selectQ), Others)
    BY <2>2, <2>3 DEF TokenInv, Injection, IsInjective
  <2>5. IsFiniteSet(Others) /\ Cardinality(Others) = Cardinality(Connections) - 1
    BY <2>1, FS_RemoveElement
  <2>6. Cardinality(1 .. Len(selectQ)) <= Cardinality(Others)
    BY <2>4, <2>5, FS_Injection
  <2>7. Cardinality(1 .. Len(selectQ)) = Len(selectQ)
    BY <2>3, FS_Interval
  <2>8. Cardinality(Connections) \in Nat
    BY FS_CardinalityType
  <2>9. QED
    BY <2>3, <2>5, <2>6, <2>7, <2>8, EventLoopAssumption
<1>2. QED
  BY <1>1, LoopInvariant, PTL

-----------------------------------------------------------------------------
(* Deleted connections. *)

Free(c) == ~Queued(c) /\ ~Pushed(c) /\ ~Popped(c)

NoTokenMeansFree == \A c \in Connections : Tokens(c) = 0 <=> Free(c)

LEMMA QuietMeans == LoopInv /\ TokenInv => NoTokenMeansFree
<1> USE DEF NoTokenMeansFree
<1> SUFFICES ASSUME LoopInv, TokenInv, NEW c \in Connections
             PROVE  Tokens(c) = 0 <=> Free(c)
  OBVIOUS
<1>1. Tokens(c) = (IF Queued(c) THEN 1 ELSE 0) + (IF Pushed(c) THEN 1 ELSE 0)
                    + (IF Popped(c) THEN 1 ELSE 0)
  BY TokensCounted
<1>2. QED
  BY <1>1 DEF Free

LEMMA QuietStaysQuiet ==
  ASSUME LoopInv, TokenInv, TokenInv', LoopInv', IInv, [Next]_vars,
         NEW c \in Connections \ (registered \cup registered'), Quiet(c)
  PROVE  Quiet(c)'
<1>0. c \in Connections /\ c \notin registered /\ c /= NoConn
  BY TableAssumption
<1>1. /\ ~Queued(c) /\ ~Pushed(c) /\ ~Popped(c) /\ cur /= c
      /\ \A k \in DOMAIN recvQ : recvQ[k].conn /= c
      /\ working = Nothing \/ working.conn /= c
      /\ ~(main \in {"fdset", "read"} /\ conns[i] = c)
  BY <1>0, QuietMeans DEF Quiet, Free, NoTokenMeansFree
<1>2. cur' /= c
  <2>1. CASE Read
    BY <1>1, <2>1 DEF Read
  <2>2. CASE cur' = cur \/ cur' = NoConn
    BY <1>1, <2>2, TableAssumption
  <2>3. QED
    BY <2>1, <2>2 DEF Next, vars, MainEdits, MainStep, BeginRound, Collect, FdSet, Select, Scan,
       EndRound, Check, Push, NextPlace, UdpStep, UdpPop, UdpLock, Recvfrom, Advance, RecvfromFails,
       RefuseEdits, RefuseReturns, CallbackPop, CallbackEdit, CallbackReturns, Arrive, mainVars
<1>7. ~(main' \in {"fdset", "read"} /\ conns'[i'] = c)
  BY <1>0, <1>1, ReadPlace
<1>3. ~Queued(c)' /\ ~Pushed(c)' /\ ~Popped(c)'
  <2>1. ~Pushed(c)'
    BY <1>2 DEF Pushed
  <2>2. CASE TokenStays \/ TokenTaken
    BY <1>1, <2>1, <2>2 DEF TokenStays, TokenTaken, Queued, Popped
  <2>3. CASE TokenPushed
    BY <1>0, <1>1, <2>3, QueuedAppend DEF TokenPushed, Pushed, Popped
  <2>4. CASE TokenPopped
    <3>1. 1 \in DOMAIN selectQ /\ udpConn' = selectQ[1]
      BY <2>4, HeadTailProperties, EmptySeq DEF LoopInv, TypeOK, TokenPopped
    <3>2. QED
      BY <1>0, <1>1, <2>1, <2>4, <3>1, QueuedTail DEF Queued, Popped
  <2>5. CASE TokenReturned \/ TokenDropped
    BY <1>0, <1>1, <2>1, <2>5 DEF TokenReturned, TokenDropped, Queued, Popped
  <2>6. QED
    BY <2>1, <2>2, <2>3, <2>4, <2>5, TokenKinds
<1>4. /\ \A k \in DOMAIN recvQ' : recvQ'[k].conn /= c
      /\ working' = Nothing \/ working'.conn /= c
  <2>1. CASE UNCHANGED <<recvQ, working>>
    BY <1>1, <2>1
  <2>2. CASE Advance
    <3>1. /\ DOMAIN recvQ = 1 .. Len(recvQ) /\ Len(recvQ) \in Nat
          /\ DOMAIN recvQ' = 1 .. Len(recvQ) + 1
          /\ \A k \in 1 .. Len(recvQ) : recvQ'[k] = recvQ[k]
          /\ recvQ'[Len(recvQ) + 1] = [conn |-> udpConn, data |-> inSlot]
          /\ working' = working
      BY <2>2 DEF Advance, LoopInv, TypeOK
    <3>2. udpConn /= c
      BY <1>1 DEF Popped
    <3>3. QED
      BY <1>1, <3>1, <3>2
  <2>3. CASE CallbackPop
    <3>1. /\ DOMAIN recvQ = 1 .. Len(recvQ) /\ Len(recvQ) \in Nat \ {0}
          /\ DOMAIN recvQ' = 1 .. Len(recvQ) - 1
          /\ \A k \in 1 .. Len(recvQ) - 1 : recvQ'[k] = recvQ[k + 1]
          /\ working' = recvQ[1]
      BY <2>3, HeadTailProperties, EmptySeq DEF CallbackPop, LoopInv, TypeOK
    <3>2. \A k \in DOMAIN recvQ : recvQ[k].conn /= c
      BY <1>1
    <3>3. QED
      BY <3>1, <3>2
  <2>4. CASE CallbackReturns
    BY <1>1, <2>4 DEF CallbackReturns
  <2>5. BeginRound \/ MainStep => UNCHANGED <<recvQ, working>>
    BY DEF MainStep, BeginRound, Collect, FdSet, Select, Scan, Read, Check, Push
  <2>6. MainEdits \/ CallbackEdit \/ RefuseEdits => UNCHANGED <<recvQ, working>>
    BY DEF MainEdits, CallbackEdit, RefuseEdits
  <2>7. UdpPop \/ UdpLock \/ Recvfrom \/ RecvfromFails \/ RefuseReturns => UNCHANGED <<recvQ, working>>
    BY DEF UdpPop, UdpLock, Recvfrom, RecvfromFails, RefuseReturns
  <2>8. \A b \in Connections, d \in Data : Arrive(b, d) => UNCHANGED <<recvQ, working>>
    BY DEF Arrive
  <2>9. QED
    BY <2>1, <2>2, <2>3, <2>4, <2>5, <2>6, <2>7, <2>8 DEF Next, UdpStep, vars
<1>5. Tokens(c)' = 0
  <2>1. Free(c)'
    BY <1>3 DEF Free
  <2>2. NoTokenMeansFree'
    BY QuietMeans, PTL
  <2>3. QED
    BY <1>0, <2>1, <2>2 DEF NoTokenMeansFree
<1>6. QED
  BY <1>2, <1>4, <1>5, <1>7 DEF Quiet

\* A deleted connection that every thread is done with stays out of the
\* queues and out of the threads' hands until it is added again, for every
\* size of the table, whichever thread deletes and between whichever two
\* accesses of a scan, for callers as in LoopTableIsExact. A scan that has
\* tested the connection's place and not read it yet is not done with it:
\* the deletion leaves the last entry where it was, and the scan picks it up
\* once more (select.c:120-121).
THEOREM DeletedConnectionsStayQuiet == Careful => (Spec => DeletedStaysQuiet)
<1> SUFFICES ASSUME Careful
             PROVE  Spec => DeletedStaysQuiet
  OBVIOUS
<1> DEFINE Kept == \A c \in Connections \ (registered \cup registered') : Quiet(c) => Quiet(c)'
<1>1. Spec => []IInv
  BY CarefulInvariant, PTL
<1>2. LoopInv /\ TokenInv /\ LoopInv' /\ TokenInv' /\ IInv /\ [Next]_vars => Kept
  BY QuietStaysQuiet
<1>3. Kept => [Kept]_vars
  OBVIOUS
<1>4. QED
  BY <1>1, <1>2, <1>3, LoopInvariant, PTL DEF Spec, DeletedStaysQuiet

-----------------------------------------------------------------------------
(* What a queue holds for a connection. *)

\* w[n] is what the first n entries of q hold for c, for n up to m.
Collects(w, q, c, m) ==
  /\ w[0] = <<>>
  /\ \A n \in 1 .. m :
       w[n] = IF q[n].conn = c THEN w[n - 1] \o <<q[n].data>> ELSE w[n - 1]

LEMMA CollectionExists ==
  ASSUME NEW q \in Seq(Datagrams), NEW c
  PROVE  \E w \in [0 .. Len(q) -> Seq(Data)] : Collects(w, q, c, Len(q))
<1> DEFINE X == {m \in Nat : m <= Len(q) =>
                   \E w \in [0 .. m -> Seq(Data)] : Collects(w, q, c, m)}
<1>1. 0 \in X
  <2>1. [n \in 0 .. 0 |-> <<>>] \in [0 .. 0 -> Seq(Data)]
    BY EmptySeq
  <2>2. Collects([n \in 0 .. 0 |-> <<>>], q, c, 0)
    BY DEF Collects
  <2>3. QED
    BY <2>1, <2>2
<1>2. ASSUME NEW m \in Nat, m \in X
      PROVE  m + 1 \in X
  <2> SUFFICES ASSUME m + 1 <= Len(q)
               PROVE  \E w \in [0 .. m + 1 -> Seq(Data)] : Collects(w, q, c, m + 1)
    OBVIOUS
  <2>1. Len(q) \in Nat
    OBVIOUS
  <2>2. PICK v \in [0 .. m -> Seq(Data)] : Collects(v, q, c, m)
    BY <1>2, <2>1
  <2>3. q[m + 1] \in Datagrams
    BY <2>1, ElementOfSeq
  <2> DEFINE last == IF q[m + 1].conn = c THEN v[m] \o <<q[m + 1].data>> ELSE v[m]
             w == [n \in 0 .. m + 1 |-> IF n = m + 1 THEN last ELSE v[n]]
  <2>4. last \in Seq(Data)
    BY <2>2, <2>3 DEF Datagrams
  <2>5. w \in [0 .. m + 1 -> Seq(Data)]
    BY <2>2, <2>4
  <2>6. \A n \in 0 .. m : w[n] = v[n]
    OBVIOUS
  <2>7. w[m + 1] = last
    OBVIOUS
  <2>8. Collects(w, q, c, m + 1)
    <3>1. w[0] = <<>>
      BY <2>2, <2>6 DEF Collects
    <3>2. ASSUME NEW n \in 1 .. m
          PROVE  w[n] = IF q[n].conn = c THEN w[n - 1] \o <<q[n].data>> ELSE w[n - 1]
      <4>1. w[n] = v[n] /\ w[n - 1] = v[n - 1]
        BY <2>6
      <4>2. QED
        BY <2>2, <4>1 DEF Collects
    <3>3. w[m + 1] = IF q[m + 1].conn = c THEN w[m] \o <<q[m + 1].data>> ELSE w[m]
      BY <2>6, <2>7
    <3>4. QED
      <4> HIDE DEF w
      <4>1. ASSUME NEW n \in 1 .. m + 1
            PROVE  w[n] = IF q[n].conn = c THEN w[n - 1] \o <<q[n].data>> ELSE w[n - 1]
        <5>1. CASE n \in 1 .. m
          BY <3>2, <5>1
        <5>2. CASE n = m + 1
          BY <3>3, <5>2
        <5>3. QED
          BY <5>1, <5>2
      <4>2. QED
        BY <3>1, <4>1 DEF Collects
  <2>9. QED
    BY <2>5, <2>8
<1>3. Len(q) \in X
  <2> HIDE DEF X
  <2>1. QED
    BY <1>1, <1>2, SetInduction
<1>4. QED
  BY <1>3

LEMMA PayloadsCollected ==
  ASSUME NEW q \in Seq(Datagrams), NEW c
  PROVE  \E w \in [0 .. Len(q) -> Seq(Data)] :
           Collects(w, q, c, Len(q)) /\ PayloadsOf(q, c) = w[Len(q)]
<1> DEFINE Body(w) == [n \in 0 .. Len(q) |->
                         IF n = 0 THEN <<>>
                         ELSE IF q[n].conn = c THEN w[n - 1] \o <<q[n].data>>
                         ELSE w[n - 1]]
           all == CHOOSE w : w = Body(w)
<1>1. PICK v \in [0 .. Len(q) -> Seq(Data)] : Collects(v, q, c, Len(q))
  BY CollectionExists
<1>2. Len(q) \in Nat
  OBVIOUS
<1>3. v = Body(v)
  <2>1. v[0] = <<>> /\ 0 \in 0 .. Len(q)
    BY <1>1, <1>2 DEF Collects
  <2>2. ASSUME NEW n \in 0 .. Len(q), n /= 0
        PROVE  v[n] = IF q[n].conn = c THEN v[n - 1] \o <<q[n].data>> ELSE v[n - 1]
    <3>1. n \in 1 .. Len(q)
      BY <1>2, <2>2
    <3>2. QED
      BY <1>1, <3>1 DEF Collects
  <2>3. \A n \in 0 .. Len(q) : v[n] = Body(v)[n]
    BY <2>1, <2>2
  <2>4. v = [n \in 0 .. Len(q) |-> v[n]]
    OBVIOUS
  <2>5. QED
    BY <2>3, <2>4
<1>4. all = Body(all)
  <2> HIDE DEF Body
  <2>1. QED
    BY <1>3
<1>5. Collects(all, q, c, Len(q))
  <2> HIDE DEF all, Body
  <2>1. \A n \in 0 .. Len(q) : all[n] = IF n = 0 THEN <<>>
                                     ELSE IF q[n].conn = c THEN all[n - 1] \o <<q[n].data>>
                                     ELSE all[n - 1]
    BY <1>4 DEF Body
  <2>2. 0 \in 0 .. Len(q) /\ \A n \in 1 .. Len(q) : n \in 0 .. Len(q) /\ n /= 0
    BY <1>2
  <2>3. QED
    BY <2>1, <2>2 DEF Collects
<1>6. all \in [0 .. Len(q) -> Seq(Data)]
  <2> DEFINE X == {n \in Nat : n <= Len(q) => all[n] \in Seq(Data)}
  <2> HIDE DEF all
  <2>1. 0 \in X
    BY <1>5, EmptySeq DEF Collects
  <2>2. ASSUME NEW n \in Nat, n \in X
        PROVE  n + 1 \in X
    <3> SUFFICES ASSUME n + 1 <= Len(q)
                 PROVE  all[n + 1] \in Seq(Data)
      OBVIOUS
    <3>1. n + 1 \in 1 .. Len(q) /\ n + 1 - 1 = n
      BY <1>2
    <3>2. q[n + 1] \in Datagrams
      BY <3>1, ElementOfSeq
    <3>3. all[n] \in Seq(Data)
      BY <1>2, <2>2
    <3>4. all[n + 1] = IF q[n + 1].conn = c THEN all[n] \o <<q[n + 1].data>> ELSE all[n]
      BY <1>5, <3>1 DEF Collects
    <3>5. QED
      BY <3>2, <3>3, <3>4 DEF Datagrams
  <2>3. Nat \subseteq X
    <3> HIDE DEF X
    <3>1. QED
      BY <2>1, <2>2, SetInduction
  <2>4. \A n \in 0 .. Len(q) : all[n] \in Seq(Data)
    BY <1>2, <2>3
  <2>5. all = [n \in 0 .. Len(q) |-> all[n]]
    <3>1. \E f : f = [n \in 0 .. Len(q) |-> IF n = 0 THEN <<>>
                                            ELSE IF q[n].conn = c THEN all[n - 1] \o <<q[n].data>>
                                            ELSE all[n - 1]]
                  /\ all = f
      BY <1>4
    <3>2. QED
      BY <3>1
  <2>6. QED
    BY <2>4, <2>5
<1>7. PayloadsOf(q, c) = all[Len(q)]
  BY DEF PayloadsOf
<1>8. QED
  BY <1>5, <1>6, <1>7

SameUpTo(q, r, m) == \A n \in 1 .. m : q[n] = r[n]

LEMMA CollectionsAgree ==
  ASSUME NEW q, NEW r, NEW c, NEW w, NEW v, NEW m \in Nat,
         SameUpTo(q, r, m),
         Collects(w, q, c, m), Collects(v, r, c, m)
  PROVE  w[m] = v[m]
<1> DEFINE X == {n \in Nat : n <= m => w[n] = v[n]}
<1>1. 0 \in X
  BY DEF Collects
<1>2. ASSUME NEW n \in Nat, n \in X
      PROVE  n + 1 \in X
  <2> SUFFICES ASSUME n + 1 <= m
               PROVE  w[n + 1] = v[n + 1]
    OBVIOUS
  <2>1. n + 1 \in 1 .. m /\ n + 1 - 1 = n /\ w[n] = v[n]
    BY <1>2
  <2>2. QED
    <3>1. w[n + 1] = IF q[n + 1].conn = c THEN w[n] \o <<q[n + 1].data>> ELSE w[n]
      BY <2>1 DEF Collects
    <3>2. v[n + 1] = IF r[n + 1].conn = c THEN v[n] \o <<r[n + 1].data>> ELSE v[n]
      BY <2>1 DEF Collects
    <3>3. q[n + 1] = r[n + 1]
      BY <2>1 DEF SameUpTo
    <3>4. QED
      BY <2>1, <3>1, <3>2, <3>3
<1>3. m \in X
  <2> HIDE DEF X
  <2>1. QED
    BY <1>1, <1>2, SetInduction
<1>4. QED
  BY <1>3

LEMMA PayloadsType ==
  ASSUME NEW q \in Seq(Datagrams), NEW c
  PROVE  PayloadsOf(q, c) \in Seq(Data)
<1>1. Len(q) \in Nat
  OBVIOUS
<1>2. QED
  BY <1>1, PayloadsCollected

LEMMA PayloadsEmpty ==
  ASSUME NEW c
  PROVE  PayloadsOf(<<>>, c) = <<>>
<1>1. <<>> \in Seq(Datagrams) /\ Len(<<>>) = 0
  BY EmptySeq
<1>2. PICK w \in [0 .. 0 -> Seq(Data)] :
        Collects(w, <<>>, c, 0) /\ PayloadsOf(<<>>, c) = w[0]
  <2>1. \E w \in [0 .. Len(<<>>) -> Seq(Data)] :
          Collects(w, <<>>, c, Len(<<>>)) /\ PayloadsOf(<<>>, c) = w[Len(<<>>)]
    BY <1>1, PayloadsCollected, Zenon
  <2>2. QED
    BY <1>1, <2>1
<1>3. QED
  BY <1>2 DEF Collects

LEMMA PayloadsAppend ==
  ASSUME NEW q \in Seq(Datagrams), NEW e \in Datagrams, NEW c
  PROVE  PayloadsOf(Append(q, e), c) =
           IF e.conn = c THEN PayloadsOf(q, c) \o <<e.data>> ELSE PayloadsOf(q, c)
<1> DEFINE r == Append(q, e)
<1>1. /\ Len(q) \in Nat /\ r \in Seq(Datagrams) /\ Len(r) = Len(q) + 1
      /\ \A n \in 1 .. Len(q) : r[n] = q[n]
      /\ r[Len(q) + 1] = e
  BY AppendProperties
<1> HIDE DEF r
<1>2. PICK w \in [0 .. Len(q) -> Seq(Data)] :
        Collects(w, q, c, Len(q)) /\ PayloadsOf(q, c) = w[Len(q)]
  BY PayloadsCollected
<1>3. PICK v \in [0 .. Len(r) -> Seq(Data)] :
        Collects(v, r, c, Len(r)) /\ PayloadsOf(r, c) = v[Len(r)]
  BY <1>1, PayloadsCollected
<1>4. Collects(v, r, c, Len(q))
  BY <1>1, <1>3 DEF Collects
<1>5. w[Len(q)] = v[Len(q)]
  <2>1. Len(q) \in Nat /\ SameUpTo(q, r, Len(q))
    BY <1>1 DEF SameUpTo
  <2>2. QED
    BY <1>2, <1>4, <2>1, CollectionsAgree
<1>6. v[Len(q) + 1] = IF e.conn = c THEN v[Len(q)] \o <<e.data>> ELSE v[Len(q)]
  <2>1. Len(q) + 1 \in 1 .. Len(r) /\ Len(q) + 1 - 1 = Len(q)
    BY <1>1
  <2>2. QED
    BY <1>1, <1>3, <2>1 DEF Collects
<1>7. QED
  BY <1>1, <1>2, <1>3, <1>5, <1>6 DEF r

LEMMA PayloadsOfTail ==
  ASSUME NEW q \in Seq(Datagrams), q /= <<>>, NEW c
  PROVE  PayloadsOf(q, c) =
           (IF Head(q).conn = c THEN <<Head(q).data>> ELSE <<>>) \o PayloadsOf(Tail(q), c)
<1> DEFINE r == Tail(q)
           first == IF Head(q).conn = c THEN <<Head(q).data>> ELSE <<>>
<1>1. /\ Len(q) \in Nat \ {0} /\ Head(q) = q[1] /\ Head(q) \in Datagrams
      /\ r \in Seq(Datagrams) /\ Len(r) = Len(q) - 1
      /\ \A n \in 1 .. Len(r) : r[n] = q[n + 1]
  BY HeadTailProperties, EmptySeq
<1>2. first \in Seq(Data)
  BY <1>1 DEF Datagrams
<1> HIDE DEF r
<1>3. PICK w \in [0 .. Len(q) -> Seq(Data)] :
        Collects(w, q, c, Len(q)) /\ PayloadsOf(q, c) = w[Len(q)]
  BY PayloadsCollected
<1>4. PICK v \in [0 .. Len(r) -> Seq(Data)] :
        Collects(v, r, c, Len(r)) /\ PayloadsOf(r, c) = v[Len(r)]
  BY <1>1, PayloadsCollected
<1> DEFINE X == {n \in Nat : n <= Len(r) => w[n + 1] = first \o v[n]}
<1>5. 0 \in X
  <2>1. w[1] = IF q[1].conn = c THEN <<>> \o <<q[1].data>> ELSE <<>>
    <3>1. 1 \in 1 .. Len(q) /\ 1 - 1 = 0
      BY <1>1
    <3>2. w[0] = <<>>
      BY <1>3 DEF Collects
    <3>3. \A k \in 1 .. Len(q) :
            w[k] = IF q[k].conn = c THEN w[k - 1] \o <<q[k].data>> ELSE w[k - 1]
      BY <1>3 DEF Collects
    <3>4. QED
      BY <3>1, <3>2, <3>3
  <2>2. w[1] = first
    BY <1>1, <2>1 DEF Datagrams
  <2>3. v[0] = <<>>
    BY <1>4 DEF Collects
  <2>4. first \o <<>> = first
    <3> HIDE DEF first
    <3>1. QED
      BY <1>2, ConcatEmptySeq
  <2>5. QED
    <3> HIDE DEF first
    <3>1. QED
      BY <2>2, <2>3, <2>4
<1>6. ASSUME NEW n \in Nat, n \in X
      PROVE  n + 1 \in X
  <2> HIDE DEF first
  <2> SUFFICES ASSUME n + 1 <= Len(r)
               PROVE  w[n + 2] = first \o v[n + 1]
    OBVIOUS
  <2>1. /\ n + 1 \in 1 .. Len(r) /\ n + 1 - 1 = n
        /\ n + 2 \in 1 .. Len(q) /\ n + 2 - 1 = n + 1
        /\ w[n + 1] = first \o v[n] /\ n \in 0 .. Len(r)
    BY <1>1, <1>6
  <2>2. r[n + 1] = q[n + 2] /\ r[n + 1] \in Datagrams
    BY <1>1, <2>1, ElementOfSeq
  <2>3. v[n + 1] = IF r[n + 1].conn = c THEN v[n] \o <<r[n + 1].data>> ELSE v[n]
    BY <1>4, <2>1 DEF Collects
  <2>4. w[n + 2] = IF q[n + 2].conn = c THEN w[n + 1] \o <<q[n + 2].data>> ELSE w[n + 1]
    <3>1. \A k \in 1 .. Len(q) :
            w[k] = IF q[k].conn = c THEN w[k - 1] \o <<q[k].data>> ELSE w[k - 1]
      BY <1>3 DEF Collects
    <3>2. PICK k \in 1 .. Len(q) : k = n + 2 /\ k - 1 = n + 1
      BY <2>1
    <3>3. QED
      BY <3>1, <3>2
  <2>5. v[n] \in Seq(Data) /\ r[n + 1].data \in Data
    BY <1>4, <2>1, <2>2 DEF Datagrams
  <2>6. (first \o v[n]) \o <<r[n + 1].data>> = first \o (v[n] \o <<r[n + 1].data>>)
    <3>1. PICK t \in Seq(Data) : t = v[n]
      BY <2>5
    <3>2. PICK d \in Data : d = r[n + 1].data
      BY <2>5
    <3>3. <<d>> \in Seq(Data)
      OBVIOUS
    <3>4. (first \o t) \o <<d>> = first \o (t \o <<d>>)
      BY <1>2, <3>3, ConcatAssociative
    <3>5. QED
      BY <3>1, <3>2, <3>4
  <2>7. QED
    BY <2>1, <2>2, <2>3, <2>4, <2>6
<1>7. Len(r) \in X
  <2>1. Len(r) \in Nat
    BY <1>1
  <2> HIDE DEF X
  <2>2. Nat \subseteq X
    BY <1>5, <1>6, SetInduction
  <2>3. QED
    BY <2>1, <2>2
<1>8. w[Len(r) + 1] = first \o v[Len(r)] /\ Len(r) + 1 = Len(q)
  <2> HIDE DEF first
  <2>1. QED
    BY <1>1, <1>7
<1>9. QED
  <2> HIDE DEF first
  <2>1. PayloadsOf(q, c) = first \o PayloadsOf(r, c)
    BY <1>3, <1>4, <1>8
  <2>2. QED
    BY <2>1 DEF r, first
-----------------------------------------------------------------------------
(* The loop implements DatagramService. *)

\* What the udp thread has received and not yet queued.
Received(c) == IF udpConn = c /\ udp = "advance" THEN <<inSlot>> ELSE <<>>

LEMMA PartsOfInFlight ==
  ASSUME LoopInv, NEW c \in Connections
  PROVE  /\ PayloadsOf(recvQ, c) \in Seq(Data)
         /\ Received(c) \in Seq(Data)
         /\ sock[c] \in Seq(Data)
         /\ InFlight(c) = (PayloadsOf(recvQ, c) \o Received(c)) \o sock[c]
<1>1. PayloadsOf(recvQ, c) \in Seq(Data)
  BY PayloadsType DEF LoopInv, TypeOK
<1>2. Received(c) \in Seq(Data)
  BY EmptySeq DEF LoopInv, UdpInv, Received
<1>3. sock[c] \in Seq(Data)
  BY DEF LoopInv, TypeOK
<1>4. InFlight(c) = (PayloadsOf(recvQ, c) \o Received(c)) \o sock[c]
  BY DEF InFlight, Received
<1>5. QED
  BY <1>1, <1>2, <1>3, <1>4

LEMMA PartsAfterwards ==
  ASSUME NEW c
  PROVE  InFlight(c)' = (PayloadsOf(recvQ', c) \o Received(c)') \o sock'[c]
BY DEF InFlight, Received

LEMMA HeadThenTail ==
  ASSUME NEW s \in Seq(Data), s /= <<>>
  PROVE  Head(s) \in Data /\ Tail(s) \in Seq(Data) /\ s = <<Head(s)>> \o Tail(s)
<1>1. Head(s) \in Data /\ Tail(s) \in Seq(Data)
  BY HeadTailProperties
<1>2. Len(s) \in Nat /\ 1 <= Len(s)
  BY EmptySeq
<1>3. SubSeq(s, 1, Len(s)) = <<s[1]>> \o SubSeq(s, 1 + 1, Len(s))
  BY <1>2, SubSeqRecursiveFirst
<1>4. QED
  BY <1>1, <1>2, <1>3, SubSeqFull, TailIsSubSeq

\* As long as no datagram changes hands, nothing is in flight that was not.
LEMMA StillInFlight ==
  ASSUME NEW c, Received(c)' = Received(c), recvQ' = recvQ, sock' = sock
  PROVE  InFlight(c)' = InFlight(c)
BY DEF InFlight, Received

\* The udp thread takes a datagram out of the socket.
LEMMA RecvfromKeeps ==
  ASSUME LoopInv, Recvfrom, NEW c \in Connections
  PROVE  InFlight(c)' = InFlight(c)
<1> DEFINE p == PayloadsOf(recvQ, c)
<1>1. /\ p \in Seq(Data) /\ sock[c] \in Seq(Data)
      /\ InFlight(c) = (p \o Received(c)) \o sock[c]
  BY PartsOfInFlight
<1>2. recvQ' = recvQ /\ Received(c) = <<>>
  BY DEF Recvfrom, Received
<1>3. InFlight(c)' = (p \o Received(c)') \o sock'[c]
  BY <1>2, PartsAfterwards
<1>4. CASE c = udpConn
  <2>1. /\ Received(c)' = <<Head(sock[c])>> /\ sock[c] /= <<>>
        /\ sock'[c] = Tail(sock[c])
    BY <1>4 DEF Recvfrom, Received, LoopInv, TypeOK
  <2>2. PICK h \in Data, t \in Seq(Data) :
          h = Head(sock[c]) /\ t = Tail(sock[c]) /\ sock[c] = <<h>> \o t
    BY <1>1, <2>1, HeadThenTail
  <2> HIDE DEF p
  <2>3. <<h>> \in Seq(Data)
    OBVIOUS
  <2>4. (p \o <<h>>) \o t = p \o (<<h>> \o t)
    BY <1>1, <2>3, ConcatAssociative
  <2>5. p \o <<>> = p
    BY <1>1, ConcatEmptySeq
  <2>6. QED
    BY <1>1, <1>2, <1>3, <2>1, <2>2, <2>4, <2>5
<1>5. CASE c /= udpConn
  <2>1. Received(c)' = <<>> /\ sock'[c] = sock[c]
    BY <1>5 DEF Recvfrom, Received, LoopInv, TypeOK
  <2>2. QED
    BY <1>1, <1>2, <1>3, <2>1
<1>6. QED
  BY <1>4, <1>5

\* The slot the udp thread has filled becomes an entry.
LEMMA AdvanceKeeps ==
  ASSUME LoopInv, Advance, NEW c \in Connections
  PROVE  InFlight(c)' = InFlight(c)
<1> DEFINE p == PayloadsOf(recvQ, c)
           e == [conn |-> udpConn, data |-> inSlot]
<1>1. /\ p \in Seq(Data) /\ sock[c] \in Seq(Data)
      /\ InFlight(c) = (p \o Received(c)) \o sock[c]
  BY PartsOfInFlight
<1>2. recvQ \in Seq(Datagrams) /\ e \in Datagrams /\ inSlot \in Data
  BY DEF Advance, LoopInv, TypeOK, UdpInv, Datagrams
<1>3. recvQ' = Append(recvQ, e) /\ sock' = sock /\ Received(c)' = <<>>
  BY DEF Advance, Received
<1>4. InFlight(c)' = (PayloadsOf(Append(recvQ, e), c) \o <<>>) \o sock[c]
  BY <1>3, PartsAfterwards
<1>5. PayloadsOf(Append(recvQ, e), c) = IF udpConn = c THEN p \o <<inSlot>> ELSE p
  BY <1>2, PayloadsAppend
<1>6. Received(c) = IF udpConn = c THEN <<inSlot>> ELSE <<>>
  BY DEF Advance, Received
<1> HIDE DEF p, e
<1>7. <<inSlot>> \in Seq(Data)
  BY <1>2
<1>8. p \o <<inSlot>> \in Seq(Data)
  BY <1>1, <1>7, ConcatProperties
<1>9. (p \o <<inSlot>>) \o <<>> = p \o <<inSlot>>
  BY <1>8, ConcatEmptySeq
<1>10. QED
  BY <1>1, <1>4, <1>5, <1>6, <1>9

\* The callback thread takes the oldest entry, and the udp thread is not in
\* push_recv meanwhile.
LEMMA CallbackPopHandsOver ==
  ASSUME LoopInv, CallbackPop
  PROVE  \E b \in Connections :
           /\ InFlight(b) /= <<>>
           /\ working' = [conn |-> b, data |-> Head(InFlight(b))]
           /\ InFlight(b)' = Tail(InFlight(b))
           /\ \A c \in Connections \ {b} : InFlight(c)' = InFlight(c)
<1> DEFINE r == Tail(recvQ)
<1>1. recvQ \in Seq(Datagrams) /\ recvQ /= <<>>
  BY DEF CallbackPop, LoopInv, TypeOK
<1>2. Head(recvQ) \in Datagrams /\ r \in Seq(Datagrams)
  BY <1>1, HeadTailProperties
<1>3. PICK b \in Connections, d \in Data : Head(recvQ) = [conn |-> b, data |-> d]
  BY <1>2 DEF Datagrams
<1>4. working' = Head(recvQ) /\ recvQ' = r /\ sock' = sock
  BY DEF CallbackPop
<1>5. \A c : Received(c) = <<>> /\ Received(c)' = <<>>
  BY DEF CallbackPop, udpVars, RecvQueueFree, Received
<1>6. ASSUME NEW c \in Connections
      PROVE  /\ InFlight(c) = (IF b = c THEN <<d>> ELSE <<>>) \o InFlight(c)'
             /\ InFlight(c)' \in Seq(Data)
  <2> DEFINE p == PayloadsOf(r, c)
             s == sock[c]
             first == IF b = c THEN <<d>> ELSE <<>>
  <2>1. p \in Seq(Data)
    BY <1>2, PayloadsType
  <2>2. s \in Seq(Data) /\ InFlight(c) = (PayloadsOf(recvQ, c) \o <<>>) \o s
    BY <1>5, PartsOfInFlight
  <2>3. PayloadsOf(recvQ, c) = first \o p
    BY <1>1, <1>3, PayloadsOfTail
  <2>4. InFlight(c)' = (p \o <<>>) \o s
    BY <1>4, <1>5, PartsAfterwards
  <2>5. first \in Seq(Data)
    BY <1>3
  <2> HIDE DEF p, s, first
  <2>6. p \o <<>> = p /\ p \o s \in Seq(Data)
    BY <2>1, <2>2, ConcatEmptySeq, ConcatProperties
  <2>7. first \o p \in Seq(Data)
    BY <2>1, <2>5, ConcatProperties
  <2>8. (first \o p) \o <<>> = first \o p
    BY <2>7, ConcatEmptySeq
  <2>9. (first \o p) \o s = first \o (p \o s)
    BY <2>1, <2>2, <2>5, ConcatAssociative
  <2>10. InFlight(c) = first \o InFlight(c)' /\ InFlight(c)' \in Seq(Data)
    BY <2>2, <2>3, <2>4, <2>6, <2>8, <2>9
  <2>11. QED
    BY <2>10 DEF first
<1>7. ASSUME NEW c \in Connections \ {b}
      PROVE  InFlight(c)' = InFlight(c)
  BY <1>6, ConcatEmptySeq
<1>8. PICK u \in Seq(Data) : u = InFlight(b)' /\ InFlight(b) = <<d>> \o u
  BY <1>3, <1>6
<1>9. <<d>> \o u /= <<>> /\ Head(<<d>> \o u) = d /\ Tail(<<d>> \o u) = u
  BY <1>3
<1>10. QED
  BY <1>3, <1>4, <1>7, <1>8, <1>9

\* A datagram arrives.
LEMMA ArriveAppends ==
  ASSUME LoopInv, NEW b \in Connections, NEW d \in Data, Arrive(b, d)
  PROVE  /\ InFlight(b)' = Append(InFlight(b), d)
         /\ \A c \in Connections \ {b} : InFlight(c)' = InFlight(c)
<1>1. /\ recvQ' = recvQ /\ \A c : Received(c)' = Received(c)
      /\ sock' = [sock EXCEPT ![b] = Append(sock[b], d)]
  BY DEF Arrive, udpVars, Received
<1>2. ASSUME NEW c \in Connections \ {b}
      PROVE  InFlight(c)' = InFlight(c)
  <2>1. sock'[c] = sock[c]
    BY <1>1 DEF LoopInv, TypeOK
  <2>2. QED
    BY <1>1, <2>1, PartsAfterwards, PartsOfInFlight
<1> DEFINE q == PayloadsOf(recvQ, b) \o Received(b)
           s == sock[b]
<1>3. PayloadsOf(recvQ, b) \in Seq(Data) /\ Received(b) \in Seq(Data) /\ s \in Seq(Data)
      /\ InFlight(b) = q \o s
  BY PartsOfInFlight
<1>4. q \in Seq(Data)
  <2> DEFINE p == PayloadsOf(recvQ, b)
             h == Received(b)
  <2> HIDE DEF p, h
  <2>1. p \in Seq(Data) /\ h \in Seq(Data)
    BY <1>3 DEF p, h
  <2>2. p \o h \in Seq(Data)
    BY <2>1, ConcatProperties
  <2>3. QED
    BY <2>2 DEF p, h
<1>5. InFlight(b)' = q \o Append(s, d)
  <2>1. sock'[b] = Append(s, d)
    BY <1>1 DEF LoopInv, TypeOK
  <2>2. QED
    BY <1>1, <2>1, PartsAfterwards
<1> HIDE DEF q, s
<1>6. Append(s, d) = s \o <<d>> /\ <<d>> \in Seq(Data)
  BY <1>3, AppendIsConcat
<1>7. (q \o s) \o <<d>> = q \o (s \o <<d>>)
  BY <1>3, <1>4, <1>6, ConcatAssociative, SMTT(30)
<1>8. q \o s \in Seq(Data)
  BY <1>3, <1>4, ConcatProperties
<1>9. Append(q \o s, d) = (q \o s) \o <<d>>
  BY <1>8, AppendIsConcat
<1>10. QED
  BY <1>2, <1>3, <1>5, <1>6, <1>7, <1>9

LEMMA ServiceInit == Init => Service!Init
<1> SUFFICES ASSUME Init
             PROVE  Service!Init
  OBVIOUS
<1>1. ASSUME NEW c \in Connections
      PROVE  InFlight(c) = <<>>
  <2>1. PayloadsOf(recvQ, c) = <<>>
    BY PayloadsEmpty DEF Init
  <2>2. Received(c) = <<>> /\ sock[c] = <<>>
    BY <1>1 DEF Init, Received
  <2>3. InFlight(c) = (<<>> \o <<>>) \o <<>>
    BY <2>1, <2>2 DEF InFlight, Received
  <2>4. QED
    BY <2>3
<1>2. [c \in Connections |-> InFlight(c)] = [c \in Connections |-> <<>>]
  BY <1>1
<1>3. QED
  BY <1>2 DEF Service!Init, Init

LEMMA ServiceStutters ==
  ASSUME \A c \in Connections : InFlight(c)' = InFlight(c), working' = working
  PROVE  UNCHANGED Service!vars
BY DEF Service!vars

LEMMA ServiceStep == LoopInv /\ [Next]_vars => [Service!Next]_Service!vars
<1> SUFFICES ASSUME LoopInv, [Next]_vars
             PROVE  Service!Next \/ UNCHANGED Service!vars
  OBVIOUS
<1>1. ASSUME UNCHANGED <<recvQ, sock, working, udpVars>>
      PROVE  UNCHANGED Service!vars
  <2>1. \A c : Received(c)' = Received(c)
    BY <1>1 DEF Received, udpVars
  <2>2. QED
    BY <1>1, <2>1, StillInFlight, ServiceStutters
<1>2. ASSUME udp /= "advance", udp' /= "advance", UNCHANGED <<recvQ, sock, working>>
      PROVE  UNCHANGED Service!vars
  <2>1. \A c : Received(c)' = Received(c)
    BY <1>2 DEF Received
  <2>2. QED
    BY <1>2, <2>1, StillInFlight, ServiceStutters
<1>3. CASE UNCHANGED vars
  BY <1>1, <1>3 DEF vars
<1>4. CASE MainEdits \/ CallbackEdit \/ RefuseEdits
  BY <1>1, <1>4 DEF MainEdits, CallbackEdit, RefuseEdits
<1>5. CASE BeginRound \/ MainStep
  BY <1>1, <1>5 DEF MainStep, BeginRound, Collect, FdSet, Select, Scan, Read, Check, Push
<1>6. CASE UdpPop \/ UdpLock \/ RecvfromFails \/ RefuseReturns
  BY <1>2, <1>6 DEF UdpPop, UdpLock, RecvfromFails, RefuseReturns
<1>7. CASE Recvfrom
  <2>1. working' = working
    BY <1>7 DEF Recvfrom
  <2>2. QED
    BY <1>7, <2>1, RecvfromKeeps, ServiceStutters
<1>8. CASE Advance
  <2>1. working' = working
    BY <1>8 DEF Advance
  <2>2. QED
    BY <1>8, <2>1, AdvanceKeeps, ServiceStutters
<1>9. CASE CallbackPop
  <2>1. PICK b \in Connections :
          /\ InFlight(b) /= <<>>
          /\ working' = [conn |-> b, data |-> Head(InFlight(b))]
          /\ InFlight(b)' = Tail(InFlight(b))
          /\ \A c \in Connections \ {b} : InFlight(c)' = InFlight(c)
    BY <1>9, CallbackPopHandsOver
  <2>2. working = Nothing
    BY <1>9 DEF CallbackPop
  <2> DEFINE pending == [c \in Connections |-> InFlight(c)]
  <2>3. pending' = [pending EXCEPT ![b] = Tail(@)]
    BY <2>1
  <2>4. Service!HandOver(b)
    BY <2>1, <2>2, <2>3 DEF Service!HandOver
  <2>5. QED
    BY <2>4 DEF Service!Next
<1>10. CASE CallbackReturns
  <2>1. \A c : Received(c)' = Received(c)
    BY <1>10 DEF CallbackReturns, Received, udpVars
  <2>2. \A c \in Connections : InFlight(c)' = InFlight(c)
    BY <1>10, <2>1, StillInFlight DEF CallbackReturns
  <2>3. Service!Finish
    BY <1>10, <2>2 DEF CallbackReturns, Service!Finish
  <2>4. QED
    BY <2>3 DEF Service!Next
<1>11. ASSUME NEW b \in Connections, NEW d \in Data, Arrive(b, d)
       PROVE  Service!Next
  <2>1. /\ InFlight(b)' = Append(InFlight(b), d)
        /\ \A c \in Connections \ {b} : InFlight(c)' = InFlight(c)
    BY <1>11, ArriveAppends
  <2> DEFINE pending == [c \in Connections |-> InFlight(c)]
  <2>2. pending' = [pending EXCEPT ![b] = Append(@, d)]
    BY <2>1
  <2>3. Service!Arrive(b, d)
    BY <1>11, <2>2 DEF Arrive, Service!Arrive
  <2>4. QED
    BY <2>3 DEF Service!Next
<1>12. QED
  BY <1>3, <1>4, <1>5, <1>6, <1>7, <1>8, <1>9, <1>10, <1>11 DEF Next, UdpStep

\* Every datagram reaches the callback thread at most once, one at a time,
\* and those of one connection in the order its socket received them,
\* whatever is added to and deleted from the table meanwhile and whether
\* recvfrom fails or not (select_process, thread_cost and push_recv of udp.c,
\* thread_cost of receive.c).
THEOREM LoopImplementsService == Spec => ImplementsService
<1>1. Spec => []LoopInv
  BY LoopInvariant, PTL
<1>2. QED
  BY <1>1, ServiceInit, ServiceStep, PTL DEF Spec, ImplementsService, Service!Spec
=============================================================================
