----------------------------- MODULE ConnTable -----------------------------
(***************************************************************************)
(* The table of connections select_process watches (event/select.c): an    *)
(* array filled from the front, in which every connection_t records its    *)
(* own place so that deleting it can move the last entry into the gap.     *)
(* Entries at and above conn_cnt are left over from earlier deletions.     *)
(*                                                                         *)
(* No lock covers any of it, and three threads may edit it while one of    *)
(* them scans it. An edit is therefore one step per access, in the order   *)
(* of the source; edit[t] says how far thread t has come.                  *)
(***************************************************************************)
EXTENDS Integers

CONSTANTS
  Connections,   \* the connection_t structures that pass event_add's check
  NoConn,        \* NULL
  TableSize,     \* entries in conns[] (1024)
  Editors,       \* the threads that call event_add and event_del
  RepeatEdits,   \* whether callers add what is there, or delete what is not
  EditsMeet      \* whether a thread edits while another one does

ASSUME TableAssumption ==
  /\ TableSize \in Nat \ {0}
  /\ NoConn \notin Connections
  /\ Editors \subseteq {"main", "udp", "callback"}
  /\ {RepeatEdits, EditsMeet} \subseteq BOOLEAN

Places  == 0 .. TableSize - 1
Threads == {"main", "udp", "callback"}

VARIABLES
  conns,       \* conns[]
  conn_cnt,    \* conn_cnt
  index,       \* c->index
  edit,        \* edit[t]: t's next access of an edit, and what it has read for it
  registered,  \* history: what callers have begun to add and not deleted since
  broken       \* an edit or a scan went past the array, below 0 or through NULL:
               \* what follows is not modelled

tableVars == <<conns, conn_cnt, index, edit, registered, broken>>

AddOps == {"store", "index", "count"}
DelOps == {"entry", "some", "take", "last", "move", "reindex"}
NoEdit == [op |-> "none", conn |-> NoConn, at |-> 0, tmp |-> NoConn]
Edits  == [op : AddOps \cup DelOps, conn : Connections, at : 0 .. TableSize,
           tmp : Connections \cup {NoConn}]

TableTypeOK ==
  /\ conns \in [Places -> Connections \cup {NoConn}]
  /\ conn_cnt \in -1 .. TableSize + 1   \* -1 is 2^32 - 1
  /\ ~broken => conn_cnt \in 0 .. TableSize
  /\ index \in [Connections -> 0 .. TableSize]
  /\ edit \in [Threads -> Edits \cup {NoEdit}]
  /\ registered \subseteq Connections
  /\ broken \in BOOLEAN

TableInit ==
  /\ conns = [i \in Places |-> NoConn]
  /\ conn_cnt = 0
  /\ index = [c \in Connections |-> 0]
  /\ edit = [t \in Threads |-> NoEdit]
  /\ registered = {}
  /\ broken = FALSE

\* The connections a scan of the table comes across.
Table == {conns[i] : i \in 0 .. conn_cnt - 1}

\* What a read of conns[n] gives, which is anything past the array.
Entry(n) == IF n \in Places THEN conns[n] ELSE NoConn

Editing(t) == edit[t] /= NoEdit

\* What conn_cnt is for t within an edit: the compiled code keeps the value it
\* read before or reads it again.
Count(t) == {edit[t].at, conn_cnt}

Goto(t, op) == edit' = [edit EXCEPT ![t].op = op]

Begin(t, c, op) ==
  /\ t \in Editors
  /\ ~Editing(t)
  /\ EditsMeet \/ \A u \in Threads : ~Editing(u)
  /\ edit' = [edit EXCEPT ![t] = [op |-> op, conn |-> c, at |-> conn_cnt, tmp |-> NoConn]]

-----------------------------------------------------------------------------
\* The code does not look for a connection that is there already, nor at the
\* end of the array: both are the caller's duty.
select_add_connection(t, c) ==
  /\ c \notin registered \/ RepeatEdits
  /\ Begin(t, c, "store")
  /\ registered' = registered \cup {c}
  /\ UNCHANGED <<conns, conn_cnt, index, broken>>

\* conns[conn_cnt] = c
AddStore(t) ==
  /\ edit[t].op = "store"
  /\ \E n \in Count(t) : conns' = [conns EXCEPT ![n] = edit[t].conn] /\ broken' = (n \notin Places)
  /\ Goto(t, "index")
  /\ UNCHANGED <<conn_cnt, index, registered>>

\* c->index = conn_cnt
AddIndex(t) ==
  /\ edit[t].op = "index"
  /\ \E n \in Count(t) : index' = [index EXCEPT ![edit[t].conn] = n]
  /\ Goto(t, "count")
  /\ UNCHANGED <<conns, conn_cnt, registered, broken>>

\* conn_cnt++
AddCount(t) ==
  /\ edit[t].op = "count"
  /\ \E n \in Count(t) : conn_cnt' = n + 1 /\ broken' = (n = TableSize)
  /\ edit' = [edit EXCEPT ![t] = NoEdit]
  /\ UNCHANGED <<conns, index, registered>>

-----------------------------------------------------------------------------
select_del_connection(t, c) ==
  /\ c \in registered \/ RepeatEdits
  /\ Begin(t, c, "entry")
  /\ UNCHANGED <<conns, conn_cnt, index, registered, broken>>

DelReturns(t) ==
  /\ edit' = [edit EXCEPT ![t] = NoEdit]
  /\ registered' = registered \ {edit[t].conn}

\* if (conns[c->index] != c
DelEntry(t) ==
  LET c == edit[t].conn IN
  /\ edit[t].op = "entry"
  /\ IF Entry(index[c]) = c THEN Goto(t, "some") /\ UNCHANGED registered ELSE DelReturns(t)
  /\ broken' = (index[c] \notin Places)
  /\ UNCHANGED <<conns, conn_cnt, index>>

\* || conn_cnt <= 0) return
DelSome(t) ==
  /\ edit[t].op = "some"
  /\ IF conn_cnt = 0
     THEN DelReturns(t)
     ELSE edit' = [edit EXCEPT ![t].op = "take", ![t].at = conn_cnt] /\ UNCHANGED registered
  /\ UNCHANGED <<conns, conn_cnt, index, broken>>

\* if (c->index < --conn_cnt)
DelTake(t) ==
  /\ edit[t].op = "take"
  /\ \E n \in Count(t) : conn_cnt' = n - 1 /\ broken' = (n = 0)
  /\ IF index[edit[t].conn] < conn_cnt'
     THEN edit' = [edit EXCEPT ![t].op = "last", ![t].at = conn_cnt'] /\ UNCHANGED registered
     ELSE DelReturns(t)
  /\ UNCHANGED <<conns, index>>

\* tmp = conns[conn_cnt]
DelLast(t) ==
  /\ edit[t].op = "last"
  /\ \E n \in Count(t) : /\ edit' = [edit EXCEPT ![t].op = "move", ![t].tmp = Entry(n)]
                         /\ broken' = (n \notin Places)
  /\ UNCHANGED <<conns, conn_cnt, index, registered>>

\* conns[c->index] = tmp
DelMove(t) ==
  LET k == index[edit[t].conn] IN
  /\ edit[t].op = "move"
  /\ conns' = [conns EXCEPT ![k] = edit[t].tmp]
  /\ broken' = (k \notin Places)
  /\ Goto(t, "reindex")
  /\ UNCHANGED <<conn_cnt, index, registered>>

\* Mutant: the moved connection is not told its new place.
DelForgetsIndex(t) ==
  /\ edit[t].op = "reindex"
  /\ DelReturns(t)
  /\ UNCHANGED <<conns, conn_cnt, index, broken>>

\* tmp->index = c->index
DelReindex(t) ==
  /\ edit[t].op = "reindex"
  /\ index' = [index EXCEPT ![edit[t].tmp] = index[edit[t].conn]]
  /\ broken' = (edit[t].tmp = NoConn)
  /\ DelReturns(t)
  /\ UNCHANGED <<conns, conn_cnt>>

-----------------------------------------------------------------------------
EditBegins(t) ==
  \E c \in Connections : select_add_connection(t, c) \/ select_del_connection(t, c)

EditGoesOn(t) ==
  \/ AddStore(t) \/ AddIndex(t) \/ AddCount(t)
  \/ DelEntry(t) \/ DelSome(t) \/ DelTake(t) \/ DelLast(t) \/ DelMove(t) \/ DelReindex(t)

TableNext == ~broken /\ \E t \in Threads : EditBegins(t) \/ EditGoesOn(t)

TableSpec == TableInit /\ [][TableNext]_tableVars

-----------------------------------------------------------------------------
\* Whenever no edit is under way, a scan of the table meets every connection
\* that was added and not deleted, and nothing else, each once and at the
\* place it records; while one is, a scan meets nothing else either, and
\* misses at most the connection the edit is about and the one it moves
\* (select_add_connection, select_del_connection). It rests on callers that
\* add and delete each connection in turn, one call at a time, and no more of
\* them than there are places: without that, two calls that meet lose or
\* double an entry, and a second delete of the connection that was last finds
\* its old entry still there and cuts off another.
TableExact ==
  /\ ~broken
  /\ Table \subseteq registered
  /\ \A c \in registered \ Table :
       \E t \in Threads : /\ Editing(t)
                          /\ \/ c = edit[t].conn
                             \/ edit[t].op \in {"last", "move"} /\ c = conns[conn_cnt]
  /\ (\A t \in Threads : ~Editing(t)) =>
       Table = registered /\ \A i \in 0 .. conn_cnt - 1 : index[conns[i]] = i
=============================================================================
