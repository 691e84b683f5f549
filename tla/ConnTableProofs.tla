-------------------------- MODULE ConnTableProofs --------------------------
(***************************************************************************)
(* Theorems about ConnTable, for every set of connections, every size of   *)
(* the table and every set of threads that edit it.                        *)
(***************************************************************************)
EXTENDS ConnTable, FiniteSets, FiniteSetTheorems, TLAPS

-----------------------------------------------------------------------------
(* Types, whatever the callers do. *)

LEMMA TableTypeInit == TableInit => TableTypeOK
<1> SUFFICES ASSUME TableInit
             PROVE  TableTypeOK
  OBVIOUS
<1>1. 0 \in 0 .. TableSize /\ 0 \in -1 .. TableSize + 1
  BY TableAssumption
<1>2. edit \in [Threads -> Edits \cup {NoEdit}]
  BY DEF TableInit
<1>3. QED
  BY <1>1, <1>2 DEF TableInit, TableTypeOK

LEMMA EditTypes ==
  ASSUME TableTypeOK, ~broken, NEW t \in Threads
  PROVE  /\ conn_cnt \in 0 .. TableSize
         /\ edit[t].op /= "none" => edit[t] \in Edits
         /\ Count(t) \subseteq 0 .. TableSize
         /\ \A n \in 0 .. TableSize : Entry(n) \in Connections \cup {NoConn}
BY TableAssumption DEF TableTypeOK, Edits, NoEdit, Count, Entry

LEMMA BeginTypes ==
  ASSUME TableTypeOK, ~broken, NEW t \in Threads, EditBegins(t)
  PROVE  TableTypeOK'
<1>1. PICK c \in Connections, op \in {"store", "entry"} :
        edit' = [edit EXCEPT ![t] = [op |-> op, conn |-> c, at |-> conn_cnt, tmp |-> NoConn]]
  BY DEF EditBegins, select_add_connection, select_del_connection, Begin
<1>2. [op |-> op, conn |-> c, at |-> conn_cnt, tmp |-> NoConn] \in Edits
  BY EditTypes DEF Edits, AddOps, DelOps
<1>3. edit' \in [Threads -> Edits \cup {NoEdit}]
  BY <1>1, <1>2 DEF TableTypeOK
<1>4. registered' \subseteq Connections /\ UNCHANGED <<conns, conn_cnt, index, broken>>
  BY DEF EditBegins, select_add_connection, select_del_connection, TableTypeOK
<1>5. QED
  BY <1>3, <1>4 DEF TableTypeOK

LEMMA StepTypes ==
  ASSUME TableTypeOK, ~broken, NEW t \in Threads, EditGoesOn(t)
  PROVE  TableTypeOK'
<1> DEFINE e == edit[t]
<1>1. e \in Edits /\ conn_cnt \in 0 .. TableSize /\ Count(t) \subseteq 0 .. TableSize
      /\ \A n \in 0 .. TableSize : Entry(n) \in Connections \cup {NoConn}
  BY EditTypes DEF EditGoesOn, AddStore, AddIndex, AddCount, DelEntry, DelSome, DelTake, DelLast,
                   DelMove, DelReindex
<1>2. /\ e.conn \in Connections /\ e.at \in 0 .. TableSize /\ e.tmp \in Connections \cup {NoConn}
      /\ index[e.conn] \in 0 .. TableSize
  BY <1>1 DEF Edits, TableTypeOK
<1>3. \A op \in AddOps \cup DelOps : [edit EXCEPT ![t].op = op] \in [Threads -> Edits \cup {NoEdit}]
  BY <1>1 DEF TableTypeOK, Edits
<1>4. [edit EXCEPT ![t] = NoEdit] \in [Threads -> Edits \cup {NoEdit}]
  BY DEF TableTypeOK
<1>5. DelReturns(t) => edit' \in [Threads -> Edits \cup {NoEdit}] /\ registered' \subseteq Connections
  BY <1>4 DEF DelReturns, TableTypeOK
<1>6. CASE AddStore(t)
  BY <1>1, <1>2, <1>3, <1>6 DEF AddStore, Goto, TableTypeOK, AddOps
<1>7. CASE AddIndex(t)
  BY <1>1, <1>2, <1>3, <1>7 DEF AddIndex, Goto, TableTypeOK, AddOps
<1>8. CASE AddCount(t)
  <2>1. PICK n \in 0 .. TableSize : conn_cnt' = n + 1 /\ broken' = (n = TableSize)
    BY <1>1, <1>8 DEF AddCount
  <2>2. conn_cnt' \in -1 .. TableSize + 1 /\ broken' \in BOOLEAN
    BY <2>1, TableAssumption
  <2>3. ~broken' => conn_cnt' \in 0 .. TableSize
    <3>1. n /= TableSize => conn_cnt' \in 0 .. TableSize
      BY <2>1, TableAssumption
    <3>2. QED
      BY <2>1, <3>1, Zenon
  <2>4. QED
    BY <1>4, <1>8, <2>2, <2>3 DEF AddCount, TableTypeOK
<1>9. CASE DelEntry(t)
  BY <1>2, <1>3, <1>5, <1>9 DEF DelEntry, Goto, TableTypeOK, DelOps
<1>10. CASE DelSome(t)
  <2>1. [edit EXCEPT ![t].op = "take", ![t].at = conn_cnt] \in [Threads -> Edits \cup {NoEdit}]
    BY <1>1 DEF TableTypeOK, Edits, DelOps
  <2>2. QED
    BY <1>5, <1>10, <2>1 DEF DelSome, TableTypeOK
<1>11. CASE DelTake(t)
  <2>1. PICK n \in 0 .. TableSize : conn_cnt' = n - 1 /\ broken' = (n = 0)
    BY <1>1, <1>11 DEF DelTake
  <2>2. conn_cnt' \in -1 .. TableSize + 1 /\ broken' \in BOOLEAN
    BY <2>1, TableAssumption
  <2>6. ~broken' => conn_cnt' \in 0 .. TableSize
    <3>1. n /= 0 => conn_cnt' \in 0 .. TableSize
      BY <2>1, TableAssumption
    <3>2. QED
      BY <2>1, <3>1, Zenon
  <2>3. index[e.conn] < conn_cnt' => conn_cnt' \in 0 .. TableSize
    BY <1>1, <1>2, <2>1, TableAssumption
  <2>4. index[e.conn] < conn_cnt' =>
          [edit EXCEPT ![t].op = "last", ![t].at = conn_cnt'] \in [Threads -> Edits \cup {NoEdit}]
    BY <1>1, <2>3 DEF TableTypeOK, Edits, DelOps
  <2>5. QED
    BY <1>5, <1>11, <2>2, <2>6, <2>4 DEF DelTake, TableTypeOK
<1>12. CASE DelLast(t)
  <2>1. PICK n \in Count(t) : /\ edit' = [edit EXCEPT ![t].op = "move", ![t].tmp = Entry(n)]
                              /\ broken' = (n \notin Places)
    BY <1>12 DEF DelLast
  <2>2. edit' \in [Threads -> Edits \cup {NoEdit}]
    BY <1>1, <2>1 DEF TableTypeOK, Edits, DelOps
  <2>3. QED
    BY <1>12, <2>1, <2>2 DEF DelLast, TableTypeOK
<1>13. CASE DelMove(t)
  BY <1>2, <1>3, <1>13 DEF DelMove, Goto, TableTypeOK, DelOps
<1>14. CASE DelReindex(t)
  BY <1>2, <1>5, <1>14 DEF DelReindex, TableTypeOK
<1>15. QED
  BY <1>6, <1>7, <1>8, <1>9, <1>10, <1>11, <1>12, <1>13, <1>14 DEF EditGoesOn

LEMMA TableTypeStep == TableTypeOK /\ [TableNext]_tableVars => TableTypeOK'
<1> SUFFICES ASSUME TableTypeOK, [TableNext]_tableVars
             PROVE  TableTypeOK'
  OBVIOUS
<1>1. CASE UNCHANGED tableVars
  BY <1>1 DEF tableVars, TableTypeOK
<1>2. QED
  BY <1>1, BeginTypes, StepTypes DEF TableNext

\* The array, its count and the recorded places keep their types until the
\* program goes past the array, below 0 or through NULL, whatever callers add
\* and delete and however their calls meet.
THEOREM TableTypeCorrect == TableSpec => []TableTypeOK
BY TableTypeInit, TableTypeStep, PTL DEF TableSpec

-----------------------------------------------------------------------------
(***************************************************************************)
(* The table of careful callers. Between edits the first conn_cnt places   *)
(* hold what is registered, each connection at the place it records; within*)
(* an edit, what is left of that at each of its accesses.                  *)
(***************************************************************************)
Careful ==
  /\ ~RepeatEdits /\ ~EditsMeet
  /\ IsFiniteSet(Connections) /\ Cardinality(Connections) <= TableSize

Held(n) == {conns[j] : j \in 0 .. n - 1}

Exact(n, R) ==
  /\ Held(n) = R
  /\ \A j \in 0 .. n - 1 : index[conns[j]] = j

AddInv(e) ==
  /\ e.at = conn_cnt /\ conn_cnt \in Places
  /\ e.conn \in registered
  /\ Exact(conn_cnt, registered \ {e.conn})
  /\ e.op \in {"index", "count"} => conns[conn_cnt] = e.conn
  /\ e.op = "count" => index[e.conn] = conn_cnt

TestInv(e) ==
  /\ e.conn \in registered
  /\ Exact(conn_cnt, registered)
  /\ e.op = "take" => e.at = conn_cnt

MoveInv(e) ==
  /\ e.at = conn_cnt /\ conn_cnt \in Places
  /\ e.conn \in registered
  /\ Exact(conn_cnt + 1, registered)
  /\ index[e.conn] \in 0 .. conn_cnt - 1
  /\ e.op = "move" => e.tmp = conns[conn_cnt]

\* The moved entry is in its new place and records the old one.
MovedInv(e) ==
  /\ e.conn \in registered /\ e.tmp \in Connections
  /\ Held(conn_cnt) = registered \ {e.conn}
  /\ index[e.conn] \in 0 .. conn_cnt - 1
  /\ conns[index[e.conn]] = e.tmp
  /\ \A j \in 0 .. conn_cnt - 1 \ {index[e.conn]} : index[conns[j]] = j /\ conns[j] /= e.tmp

EditInv(e) ==
  /\ e.op \in AddOps => AddInv(e)
  /\ e.op \in {"entry", "some", "take"} => TestInv(e)
  /\ e.op \in {"last", "move"} => MoveInv(e)
  /\ e.op = "reindex" => MovedInv(e)

CareInv ==
  /\ ~broken
  /\ \A t, u \in Threads : Editing(t) /\ Editing(u) => t = u
  /\ \A t \in Threads : Editing(t) => EditInv(edit[t])
  /\ (\A t \in Threads : ~Editing(t)) => Exact(conn_cnt, registered)

IInv == TableTypeOK /\ CareInv

\* As long as some connection is not in the table, the table is not full.
LEMMA RoomLeft ==
  ASSUME Careful, TableTypeOK, ~broken, NEW c \in Connections, Exact(conn_cnt, registered \ {c})
  PROVE  conn_cnt \in Places
<1> DEFINE S == 0 .. conn_cnt - 1
           T == Connections \ {c}
           f == [j \in S |-> conns[j]]
<1>1. conn_cnt \in 0 .. TableSize
  BY DEF TableTypeOK
<1>2. \A j \in S : conns[j] \in T
  BY DEF Exact, Held, TableTypeOK
<1>3. f \in Injection(S, T)
  <2>1. f \in [S -> T]
    BY <1>2
  <2>2. \A j, k \in S : f[j] = f[k] => j = k
    BY DEF Exact
  <2>3. QED
    BY <2>1, <2>2 DEF Injection, IsInjective
<1>4. IsFiniteSet(T) /\ Cardinality(T) = Cardinality(Connections) - 1
  BY FS_RemoveElement DEF Careful
<1>5. IsFiniteSet(S) /\ Cardinality(S) <= Cardinality(T)
  BY <1>3, <1>4, FS_Injection
<1>6. Cardinality(S) = conn_cnt
  BY <1>1, FS_Interval, TableAssumption
<1>7. Cardinality(Connections) \in Nat
  BY FS_CardinalityType DEF Careful
<1>8. QED
  BY <1>1, <1>4, <1>5, <1>6, <1>7, TableAssumption DEF Careful, Places

\* What a step of one thread's edit has to establish.
LEMMA EditStepInv ==
  ASSUME IInv, NEW t \in Threads, Editing(t) \/ \A u \in Threads : ~Editing(u),
         NEW e, edit' = [edit EXCEPT ![t] = e],
         ~broken',
         e /= NoEdit => EditInv(e)',
         e = NoEdit => Exact(conn_cnt, registered)'
  PROVE  CareInv'
<1>1. \A u \in Threads : edit'[u] = IF u = t THEN e ELSE NoEdit
  BY DEF IInv, CareInv, TableTypeOK, Editing
<1>2. \A u \in Threads : Editing(u)' <=> u = t /\ e /= NoEdit
  BY <1>1 DEF Editing
<1>3. \A u \in Threads : Editing(u)' => EditInv(edit[u])'
  <2>1. \A u \in Threads : Editing(u)' => edit'[u] = e
    BY <1>1, <1>2
  <2>2. QED
    BY <1>2, <2>1 DEF EditInv, AddInv, TestInv, MoveInv, MovedInv
<1>4. QED
  BY <1>2, <1>3 DEF CareInv

\* What a thread in an edit may rely on.
LEMMA EditHas ==
  ASSUME IInv, NEW t \in Threads, edit[t].op \in AddOps \cup DelOps
  PROVE  /\ edit[t] \in Edits /\ Editing(t)
         /\ EditInv(edit[t])
         /\ ~broken /\ conn_cnt \in 0 .. TableSize
         /\ edit[t].at = conn_cnt => Count(t) = {conn_cnt}
         /\ index[edit[t].conn] \in 0 .. TableSize
<1>1. edit[t] \in Edits /\ Editing(t)
  BY DEF IInv, TableTypeOK, Editing, NoEdit, AddOps, DelOps
<1>2. edit[t].conn \in Connections
  BY <1>1 DEF Edits
<1>3. QED
  BY <1>1, <1>2 DEF IInv, CareInv, TableTypeOK, Count

LEMMA BeginKeeps ==
  ASSUME Careful, IInv, NEW t \in Threads, EditBegins(t)
  PROVE  CareInv'
<1>1. /\ UNCHANGED <<conns, conn_cnt, index, broken>>
      /\ \A u \in Threads : ~Editing(u)
  BY DEF EditBegins, select_add_connection, select_del_connection, Begin, Careful
<1>2. Exact(conn_cnt, registered) /\ ~broken
  BY <1>1 DEF IInv, CareInv
<1>3. ASSUME NEW c \in Connections, select_add_connection(t, c)
      PROVE  CareInv'
  <2> DEFINE e == [op |-> "store", conn |-> c, at |-> conn_cnt, tmp |-> NoConn]
  <2>1. edit' = [edit EXCEPT ![t] = e] /\ registered' = registered \cup {c} /\ c \notin registered
    BY <1>3 DEF select_add_connection, Begin, Careful
  <2>2. registered' \ {c} = registered
    BY <2>1
  <2>3. conn_cnt \in Places
    BY <1>2, <2>1, RoomLeft DEF IInv
  <2>4. EditInv(e)'
    BY <1>1, <1>2, <2>1, <2>2, <2>3 DEF EditInv, AddInv, Exact, Held, Places
  <2>5. e /= NoEdit
    BY DEF NoEdit
  <2>6. QED
    BY <1>1, <1>2, <2>1, <2>4, <2>5, EditStepInv
<1>4. ASSUME NEW c \in Connections, select_del_connection(t, c)
      PROVE  CareInv'
  <2> DEFINE e == [op |-> "entry", conn |-> c, at |-> conn_cnt, tmp |-> NoConn]
  <2>1. edit' = [edit EXCEPT ![t] = e] /\ registered' = registered /\ c \in registered
    BY <1>4 DEF select_del_connection, Begin, Careful
  <2>2. EditInv(e)'
    BY <1>1, <1>2, <2>1 DEF EditInv, TestInv, Exact, Held, AddOps
  <2>3. e /= NoEdit
    BY DEF NoEdit
  <2>4. QED
    BY <1>1, <1>2, <2>1, <2>2, <2>3, EditStepInv
<1>5. QED
  BY <1>3, <1>4 DEF EditBegins

LEMMA AddKeeps ==
  ASSUME IInv, NEW t \in Threads, AddStore(t) \/ AddIndex(t) \/ AddCount(t)
  PROVE  CareInv'
<1> DEFINE c == edit[t].conn
<1>1. /\ edit[t].op \in AddOps /\ edit[t] \in Edits /\ Editing(t)
      /\ AddInv(edit[t]) /\ Count(t) = {conn_cnt} /\ ~broken
  BY EditHas DEF AddStore, AddIndex, AddCount, AddOps, EditInv, AddInv
<1>2. /\ edit[t].at = conn_cnt /\ conn_cnt \in Places /\ conn_cnt /= TableSize
      /\ c \in registered /\ Exact(conn_cnt, registered \ {c})
  BY <1>1, TableAssumption DEF AddInv, Places
<1>3. conn_cnt \in Nat /\ \A j \in 0 .. conn_cnt - 1 : j \in Places /\ conns[j] /= c
  BY <1>2, TableAssumption DEF Exact, Held, Places
<1>4. CASE AddStore(t)
  <2>0. PICK e : e = [edit[t] EXCEPT !.op = "index"]
    OBVIOUS
  <2>1. /\ conns' = [conns EXCEPT ![conn_cnt] = c] /\ ~broken' /\ edit' = [edit EXCEPT ![t] = e]
        /\ UNCHANGED <<conn_cnt, index, registered>>
    BY <1>1, <1>2, <1>4, <2>0 DEF AddStore, Goto, IInv, TableTypeOK
  <2>2. \A j \in 0 .. conn_cnt - 1 : conns'[j] = conns[j]
    BY <1>3, <2>1 DEF IInv, TableTypeOK
  <2>3. conns'[conn_cnt] = c
    BY <1>2, <2>1 DEF IInv, TableTypeOK
  <2>4. e.op = "index" /\ e.conn = c /\ e.at = conn_cnt /\ e /= NoEdit
    BY <1>1, <1>2, <2>0 DEF Edits, NoEdit
  <2>5. EditInv(e)'
    BY <1>2, <2>1, <2>2, <2>3, <2>4 DEF EditInv, AddInv, Exact, Held, AddOps, Places
  <2>6. ~broken'
    BY <1>1, <2>1
  <2>7. QED
    BY <1>1, <2>1, <2>4, <2>5, <2>6, EditStepInv, Zenon
<1>5. CASE AddIndex(t)
  <2>0. PICK e : e = [edit[t] EXCEPT !.op = "count"]
    OBVIOUS
  <2>1. /\ index' = [index EXCEPT ![c] = conn_cnt] /\ edit' = [edit EXCEPT ![t] = e]
        /\ UNCHANGED <<conns, conn_cnt, registered, broken>>
    BY <1>1, <1>5, <2>0 DEF AddIndex, Goto, IInv, TableTypeOK
  <2>2. \A j \in 0 .. conn_cnt - 1 : index'[conns[j]] = j
    BY <1>2, <1>3, <2>1 DEF Exact, Held, IInv, TableTypeOK
  <2>3. index'[c] = conn_cnt /\ conns[conn_cnt] = c
    BY <1>1, <1>5, <2>1 DEF AddIndex, AddInv, Edits, IInv, TableTypeOK
  <2>4. e.op = "count" /\ e.conn = c /\ e.at = conn_cnt /\ e /= NoEdit
    BY <1>1, <1>2, <2>0 DEF Edits, NoEdit
  <2>5. EditInv(e)'
    BY <1>2, <2>1, <2>2, <2>3, <2>4 DEF EditInv, AddInv, Exact, Held, AddOps, Places
  <2>6. ~broken'
    BY <1>1, <2>1
  <2>7. QED
    BY <1>1, <2>1, <2>4, <2>5, <2>6, EditStepInv, Zenon
<1>6. CASE AddCount(t)
  <2>1. /\ conn_cnt' = conn_cnt + 1 /\ broken' = (conn_cnt = TableSize)
        /\ edit' = [edit EXCEPT ![t] = NoEdit] /\ UNCHANGED <<conns, index, registered>>
    BY <1>1, <1>6 DEF AddCount
  <2>2. ~broken'
    BY <1>2, <2>1, Zenon
  <2>3. conns[conn_cnt] = c /\ index[c] = conn_cnt
    BY <1>1, <1>6 DEF AddCount, AddInv
  <2>4. 0 .. conn_cnt' - 1 = (0 .. conn_cnt - 1) \cup {conn_cnt}
    BY <1>3, <2>1
  <2>5. Exact(conn_cnt, registered)'
    <3>1. {conns[j] : j \in (0 .. conn_cnt - 1) \cup {conn_cnt}} = {conns[j] : j \in 0 .. conn_cnt - 1} \cup {c}
      BY <2>3
    <3>2. Held(conn_cnt)' = registered
      BY <1>2, <2>1, <2>4, <3>1 DEF Exact, Held
    <3>3. \A j \in (0 .. conn_cnt - 1) \cup {conn_cnt} : index[conns[j]] = j
      BY <1>2, <2>3 DEF Exact
    <3>4. QED
      BY <2>1, <2>4, <3>2, <3>3 DEF Exact
  <2>6. QED
    BY <1>1, <2>1, <2>2, <2>5, EditStepInv
<1>7. QED
  BY <1>4, <1>5, <1>6

\* Where a registered connection is found.
LEMMA PlaceOf ==
  ASSUME TableTypeOK, NEW n \in Nat, NEW R, Exact(n, R), NEW c \in R
  PROVE  index[c] \in 0 .. n - 1 /\ conns[index[c]] = c /\ n /= 0
<1>1. PICK j \in 0 .. n - 1 : conns[j] = c
  BY DEF Exact, Held
<1>2. index[c] = j
  BY <1>1 DEF Exact
<1>3. QED
  BY <1>1, <1>2

LEMMA TestKeeps ==
  ASSUME IInv, NEW t \in Threads, DelEntry(t) \/ DelSome(t) \/ DelTake(t)
  PROVE  CareInv'
<1> DEFINE c == edit[t].conn
           k == index[c]
<1>1. /\ edit[t].op \in {"entry", "some", "take"} /\ edit[t] \in Edits /\ Editing(t)
      /\ TestInv(edit[t]) /\ ~broken /\ conn_cnt \in 0 .. TableSize
      /\ edit[t].at = conn_cnt => Count(t) = {conn_cnt}
  BY EditHas DEF DelEntry, DelSome, DelTake, DelOps, EditInv
<1>2. /\ k \in 0 .. conn_cnt - 1 /\ conns[k] = c /\ conn_cnt \in Nat \ {0}
      /\ c \in registered /\ Exact(conn_cnt, registered) /\ c \in Connections
  <2>1. c \in registered /\ Exact(conn_cnt, registered) /\ conn_cnt \in Nat /\ c \in Connections
    BY <1>1, TableAssumption DEF TestInv, Edits
  <2>2. QED
    BY <2>1, PlaceOf DEF IInv
<1>3. k \in Places
  BY <1>1, <1>2, TableAssumption DEF Places
<1>4. CASE DelEntry(t)
  <2>1. PICK e : e = [edit[t] EXCEPT !.op = "some"]
    OBVIOUS
  <2>2. Entry(k) = c
    BY <1>2, <1>3 DEF Entry
  <2>3. /\ edit' = [edit EXCEPT ![t] = e] /\ broken' = (k \notin Places)
        /\ UNCHANGED <<conns, conn_cnt, index, registered>>
    BY <1>1, <1>4, <2>1, <2>2 DEF DelEntry, Goto, IInv, TableTypeOK
  <2>4. ~broken'
    BY <1>3, <2>3, Zenon
  <2>5. e.op = "some" /\ e.conn = c /\ e /= NoEdit
    BY <1>1, <2>1 DEF Edits, NoEdit
  <2>6. EditInv(e)'
    BY <1>2, <2>3, <2>5 DEF EditInv, TestInv, Exact, Held, AddOps
  <2>7. QED
    BY <1>1, <2>3, <2>4, <2>5, <2>6, EditStepInv, Zenon
<1>5. CASE DelSome(t)
  <2>1. PICK e : e = [edit[t] EXCEPT !.op = "take", !.at = conn_cnt]
    OBVIOUS
  <2>2. /\ edit' = [edit EXCEPT ![t] = e] /\ UNCHANGED <<conns, conn_cnt, index, registered, broken>>
    BY <1>1, <1>2, <1>5, <2>1 DEF DelSome, IInv, TableTypeOK
  <2>3. ~broken'
    BY <1>1, <2>2
  <2>4. e.op = "take" /\ e.conn = c /\ e.at = conn_cnt /\ e /= NoEdit
    BY <1>1, <2>1 DEF Edits, NoEdit
  <2>5. EditInv(e)'
    BY <1>2, <2>2, <2>4 DEF EditInv, TestInv, Exact, Held, AddOps
  <2>6. QED
    BY <1>1, <2>2, <2>3, <2>4, <2>5, EditStepInv, Zenon
<1>6. CASE DelTake(t)
  <2>1. Count(t) = {conn_cnt}
    BY <1>1, <1>6 DEF DelTake, TestInv
  <2>2. /\ conn_cnt' = conn_cnt - 1 /\ broken' = (conn_cnt = 0) /\ UNCHANGED <<conns, index>>
    BY <1>6, <2>1 DEF DelTake
  <2>3. ~broken'
    BY <1>2, <2>2, Zenon
  <2>4. CASE k < conn_cnt - 1
    <3>1. PICK e : e = [edit[t] EXCEPT !.op = "last", !.at = conn_cnt - 1]
      OBVIOUS
    <3>2. edit' = [edit EXCEPT ![t] = e] /\ UNCHANGED registered
      BY <1>1, <1>6, <2>2, <2>4, <3>1 DEF DelTake, IInv, TableTypeOK
    <3>3. e.op = "last" /\ e.conn = c /\ e.at = conn_cnt' /\ e /= NoEdit
      BY <1>1, <2>2, <3>1 DEF Edits, NoEdit
    <3>4. conn_cnt' + 1 = conn_cnt /\ conn_cnt' \in Places /\ k \in 0 .. conn_cnt' - 1
      BY <1>1, <1>2, <2>2, <2>4, TableAssumption DEF Places
    <3>5. Exact(conn_cnt + 1, registered)'
      BY <1>2, <2>2, <3>2, <3>4 DEF Exact, Held
    <3>6. EditInv(e)'
      BY <1>2, <2>2, <3>2, <3>3, <3>4, <3>5 DEF EditInv, MoveInv, AddOps, Places
    <3>7. QED
      BY <1>1, <2>3, <3>2, <3>3, <3>6, EditStepInv, Zenon
  <2>5. CASE ~(k < conn_cnt - 1)
    <3>1. k = conn_cnt - 1
      BY <1>2, <2>5
    <3>2. edit' = [edit EXCEPT ![t] = NoEdit] /\ registered' = registered \ {c}
      BY <1>6, <2>2, <2>5 DEF DelTake, DelReturns
    <3>3. \A j \in 0 .. conn_cnt - 2 : conns[j] \in registered \ {c} /\ index[conns[j]] = j
      BY <1>2, <3>1 DEF Exact, Held
    <3>4. \A d \in registered \ {c} : index[d] \in 0 .. conn_cnt - 2 /\ conns[index[d]] = d
      <4>1. \A d \in registered : index[d] \in 0 .. conn_cnt - 1 /\ conns[index[d]] = d
        BY <1>2, PlaceOf DEF IInv
      <4>2. \A d \in registered \ {c} : index[d] /= k
        BY <1>2, <4>1
      <4>3. QED
        BY <1>2, <3>1, <4>1, <4>2
    <3>5. 0 .. conn_cnt' - 1 = 0 .. conn_cnt - 2
      BY <1>2, <2>2
    <3>6. Held(conn_cnt)' = registered'
      <4>1. {conns[j] : j \in 0 .. conn_cnt - 2} = registered \ {c}
        BY <3>3, <3>4
      <4>2. QED
        BY <2>2, <3>2, <3>5, <4>1 DEF Held
    <3>7. Exact(conn_cnt, registered)'
      BY <2>2, <3>3, <3>5, <3>6 DEF Exact
    <3>8. QED
      BY <1>1, <2>3, <3>2, <3>7, EditStepInv, Zenon
  <2>6. QED
    BY <2>4, <2>5
<1>7. QED
  BY <1>4, <1>5, <1>6

LEMMA MoveKeeps ==
  ASSUME IInv, NEW t \in Threads, DelLast(t) \/ DelMove(t)
  PROVE  CareInv'
<1> DEFINE c    == edit[t].conn
           k    == index[c]
           last == conns[conn_cnt]
<1>1. /\ edit[t].op \in {"last", "move"} /\ edit[t] \in Edits /\ Editing(t)
      /\ MoveInv(edit[t]) /\ ~broken /\ Count(t) = {conn_cnt}
  BY EditHas DEF DelLast, DelMove, DelOps, AddOps, EditInv, MoveInv
<1>2. /\ edit[t].at = conn_cnt /\ conn_cnt \in Places /\ conn_cnt \in Nat /\ k \in 0 .. conn_cnt - 1
      /\ k \in Places /\ c \in registered /\ Exact(conn_cnt + 1, registered)
  BY <1>1, TableAssumption DEF MoveInv, Places
<1>3. CASE DelLast(t)
  <2>1. PICK e : e = [edit[t] EXCEPT !.op = "move", !.tmp = last]
    OBVIOUS
  <2>2. Entry(conn_cnt) = last
    BY <1>2 DEF Entry
  <2>3. /\ edit' = [edit EXCEPT ![t] = e] /\ broken' = (conn_cnt \notin Places)
        /\ UNCHANGED <<conns, conn_cnt, index, registered>>
    BY <1>1, <1>3, <2>1, <2>2 DEF DelLast, IInv, TableTypeOK
  <2>4. ~broken'
    BY <1>2, <2>3, Zenon
  <2>5. e.op = "move" /\ e.conn = c /\ e.at = conn_cnt /\ e.tmp = last /\ e /= NoEdit
    BY <1>1, <1>2, <2>1 DEF Edits, NoEdit
  <2>6. EditInv(e)'
    BY <1>2, <2>3, <2>5 DEF EditInv, MoveInv, Exact, Held, AddOps, Places
  <2>7. QED
    BY <1>1, <2>3, <2>4, <2>5, <2>6, EditStepInv, Zenon
<1>4. CASE DelMove(t)
  <2>1. PICK e : e = [edit[t] EXCEPT !.op = "reindex"]
    OBVIOUS
  <2>2. edit[t].tmp = last
    BY <1>1, <1>4 DEF DelMove, MoveInv
  <2>3. /\ conns' = [conns EXCEPT ![k] = last] /\ edit' = [edit EXCEPT ![t] = e]
        /\ broken' = (k \notin Places) /\ UNCHANGED <<conn_cnt, index, registered>>
    BY <1>1, <1>4, <2>1, <2>2 DEF DelMove, Goto, IInv, TableTypeOK
  <2>4. ~broken'
    BY <1>2, <2>3, Zenon
  <2>5. e.op = "reindex" /\ e.conn = c /\ e.tmp = last /\ e /= NoEdit
    BY <1>1, <2>1, <2>2 DEF Edits, NoEdit
  <2>6. \A j \in 0 .. conn_cnt : conns[j] \in registered /\ index[conns[j]] = j
    <3>1. 0 .. (conn_cnt + 1) - 1 = 0 .. conn_cnt
      BY <1>2
    <3>2. QED
      BY <1>2, <3>1 DEF Exact, Held
  <2>7. last \in registered /\ index[last] = conn_cnt /\ last \in Connections /\ last /= c
    BY <1>2, <2>6 DEF IInv, TableTypeOK
  <2>8. \A j \in 0 .. conn_cnt - 1 : conns'[j] = IF j = k THEN last ELSE conns[j]
    BY <1>2, <2>3, TableAssumption DEF IInv, TableTypeOK, Places
  <2>9. \A d \in registered : index[d] \in 0 .. conn_cnt /\ conns[index[d]] = d
    <3>1. \A d \in registered : index[d] \in 0 .. (conn_cnt + 1) - 1 /\ conns[index[d]] = d
      BY <1>2, PlaceOf DEF IInv
    <3>2. QED
      BY <1>2, <3>1
  <2>10. \A j \in 0 .. conn_cnt - 1 : conns'[j] \in registered \ {c}
    BY <1>2, <2>6, <2>7, <2>8, <2>9
  <2>11. \A d \in registered \ {c} : \E j \in 0 .. conn_cnt - 1 : conns'[j] = d
    <3> TAKE d \in registered \ {c}
    <3>1. CASE d = last
      BY <1>2, <2>8, <3>1
    <3>2. CASE d /= last
      <4>1. index[d] \in 0 .. conn_cnt - 1 /\ index[d] /= k
        BY <1>2, <2>9, <3>2
      <4>2. QED
        BY <2>8, <2>9, <4>1
    <3>3. QED
      BY <3>1, <3>2
  <2>12. Held(conn_cnt)' = registered \ {c}
    BY <2>3, <2>10, <2>11 DEF Held
  <2>13. \A j \in 0 .. conn_cnt - 1 \ {k} : index[conns'[j]] = j /\ conns'[j] /= last
    BY <1>2, <2>6, <2>7, <2>8
  <2>14. EditInv(e)'
    BY <1>2, <2>3, <2>5, <2>7, <2>8, <2>12, <2>13 DEF EditInv, MovedInv, AddOps
  <2>15. QED
    BY <1>1, <2>3, <2>4, <2>5, <2>14, EditStepInv, Zenon
<1>5. QED
  BY <1>3, <1>4

LEMMA ReindexKeeps ==
  ASSUME IInv, NEW t \in Threads, DelReindex(t)
  PROVE  CareInv'
<1> DEFINE c   == edit[t].conn
           k   == index[c]
           tmp == edit[t].tmp
<1>1. /\ Editing(t) /\ MovedInv(edit[t]) /\ conn_cnt \in 0 .. TableSize
  BY EditHas DEF DelReindex, DelOps, EditInv
<1>2. /\ index' = [index EXCEPT ![tmp] = k] /\ broken' = (tmp = NoConn)
      /\ edit' = [edit EXCEPT ![t] = NoEdit] /\ registered' = registered \ {c}
      /\ UNCHANGED <<conns, conn_cnt>>
  BY DEF DelReindex, DelReturns
<1>3. tmp \in Connections /\ tmp /= NoConn /\ k \in 0 .. conn_cnt - 1 /\ conns[k] = tmp
  BY <1>1, TableAssumption DEF MovedInv
<1>4. ~broken'
  BY <1>2, <1>3, Zenon
<1>5. \A j \in 0 .. conn_cnt - 1 : index'[conns[j]] = j
  <2> TAKE j \in 0 .. conn_cnt - 1
  <2>1. CASE j = k
    BY <1>2, <1>3, <2>1 DEF IInv, TableTypeOK
  <2>2. CASE j /= k
    <3>1. index[conns[j]] = j /\ conns[j] /= tmp /\ conns[j] \in Connections
      BY <1>1, <2>2 DEF MovedInv, Held, IInv, TableTypeOK
    <3>2. QED
      BY <1>2, <3>1 DEF IInv, TableTypeOK
  <2>3. QED
    BY <2>1, <2>2
<1>6. Held(conn_cnt) = registered \ {c}
  BY <1>1 DEF MovedInv
<1>7. Exact(conn_cnt, registered)'
  BY <1>2, <1>5, <1>6 DEF Exact, Held
<1>8. QED
  BY <1>1, <1>2, <1>4, <1>7, EditStepInv, Zenon

\* An edit puts nothing into the array but what is registered.
LEMMA StoresRegistered ==
  ASSUME IInv, NEW t \in Threads, EditBegins(t) \/ EditGoesOn(t), NEW j \in Places
  PROVE  conns'[j] = conns[j] \/ conns'[j] \in registered
<1>1. CASE conns' = conns
  BY <1>1
<1>2. CASE AddStore(t)
  <2>1. AddInv(edit[t]) /\ Count(t) = {conn_cnt}
    BY <1>2, EditHas DEF AddStore, AddOps, EditInv, AddInv
  <2>2. conns' = [conns EXCEPT ![conn_cnt] = edit[t].conn] /\ edit[t].conn \in registered
    BY <1>2, <2>1 DEF AddStore, AddInv
  <2>3. QED
    BY <2>2 DEF IInv, TableTypeOK
<1>3. CASE DelMove(t)
  <2>1. MoveInv(edit[t]) /\ edit[t].op = "move"
    BY <1>3, EditHas DEF DelMove, DelOps, EditInv
  <2>2. Exact(conn_cnt + 1, registered) /\ conn_cnt \in Nat /\ edit[t].tmp = conns[conn_cnt]
    BY <2>1, TableAssumption DEF MoveInv, Places
  <2>3. conn_cnt \in 0 .. (conn_cnt + 1) - 1
    BY <2>2
  <2>4. edit[t].tmp \in registered
    BY <2>2, <2>3 DEF Exact, Held
  <2>5. QED
    BY <1>3, <2>4 DEF DelMove, IInv, TableTypeOK
<1>4. QED
  BY <1>1, <1>2, <1>3 DEF EditBegins, EditGoesOn, select_add_connection, select_del_connection,
     AddIndex, AddCount, DelEntry, DelSome, DelTake, DelLast, DelReindex

LEMMA TableExactInit == TableInit => IInv
<1> SUFFICES ASSUME TableInit
             PROVE  IInv
  OBVIOUS
<1>1. TableTypeOK
  BY TableTypeInit
<1>2. \A t \in Threads : ~Editing(t)
  BY DEF TableInit, Editing
<1>3. Exact(conn_cnt, registered)
  BY DEF TableInit, Exact, Held
<1>4. QED
  BY <1>1, <1>2, <1>3 DEF IInv, CareInv, TableInit

LEMMA TableExactStep == Careful /\ IInv /\ [TableNext]_tableVars => IInv'
<1> SUFFICES ASSUME Careful, IInv, [TableNext]_tableVars
             PROVE  IInv'
  OBVIOUS
<1>1. TableTypeOK'
  BY TableTypeStep DEF IInv
<1>2. CASE UNCHANGED tableVars
  BY <1>2 DEF IInv, tableVars, TableTypeOK, CareInv, EditInv, AddInv, TestInv, MoveInv, MovedInv,
              Exact, Held, Editing
<1>3. CASE TableNext
  BY <1>1, <1>3, BeginKeeps, AddKeeps, TestKeeps, MoveKeeps, ReindexKeeps
  DEF IInv, TableNext, EditGoesOn
<1>4. QED
  BY <1>2, <1>3

LEMMA ExactAfterEdits == IInv => TableExact
<1> SUFFICES ASSUME IInv
             PROVE  TableExact
  OBVIOUS
<1>1. Table = Held(conn_cnt) /\ ~broken
  BY DEF Table, Held, IInv, CareInv
<1>2. CASE \A t \in Threads : ~Editing(t)
  BY <1>1, <1>2 DEF IInv, CareInv, Exact, TableExact
<1>3. ASSUME NEW t \in Threads, Editing(t)
      PROVE  TableExact
  <2> DEFINE e == edit[t]
  <2>1. e \in Edits /\ EditInv(e) /\ e.op \in AddOps \cup DelOps
    BY <1>3 DEF IInv, CareInv, TableTypeOK, Editing, Edits
  <2>2. Table \subseteq registered
    <3>1. CASE e.op \in AddOps \cup {"entry", "some", "take", "reindex"}
      BY <1>1, <2>1, <3>1 DEF EditInv, AddInv, TestInv, MovedInv, Exact
    <3>2. CASE e.op \in {"last", "move"}
      <4>1. Exact(conn_cnt + 1, registered) /\ conn_cnt \in Nat
        BY <2>1, <3>2, TableAssumption DEF EditInv, MoveInv, Places
      <4>2. QED
        BY <1>1, <4>1 DEF Exact, Held
    <3>3. QED
      BY <2>1, <3>1, <3>2 DEF DelOps
  <2>3. ASSUME NEW c \in registered \ Table
        PROVE  c = e.conn \/ (e.op \in {"last", "move"} /\ c = conns[conn_cnt])
    <3>1. CASE e.op \in AddOps \cup {"entry", "some", "take", "reindex"}
      BY <1>1, <2>1, <2>3, <3>1 DEF EditInv, AddInv, TestInv, MovedInv, Exact
    <3>2. CASE e.op \in {"last", "move"}
      <4>1. Exact(conn_cnt + 1, registered) /\ conn_cnt \in Nat
        BY <2>1, <3>2, TableAssumption DEF EditInv, MoveInv, Places
      <4>2. PICK j \in 0 .. (conn_cnt + 1) - 1 : conns[j] = c
        BY <4>1 DEF Exact, Held
      <4>3. j = conn_cnt
        BY <1>1, <4>1, <4>2 DEF Held
      <4>4. QED
        BY <3>2, <4>2, <4>3
    <3>3. QED
      BY <2>1, <3>1, <3>2 DEF DelOps
  <2>4. QED
    BY <1>1, <1>3, <2>2, <2>3 DEF TableExact
<1>4. QED
  BY <1>2, <1>3

\* As long as callers delete what they added and add what is not there, one
\* call at a time and no more connections than there are places, a scan meets
\* exactly the registered connections between edits, however many deletions
\* have moved entries around, and one that coincides with an edit misses at
\* most the connection the edit is about and the one it moves.
THEOREM TableIsExact == Careful => (TableSpec => []TableExact)
<1> SUFFICES ASSUME Careful
             PROVE  TableSpec => []TableExact
  OBVIOUS
<1>1. IInv /\ [TableNext]_tableVars => IInv'
  BY TableExactStep
<1>2. QED
  BY <1>1, TableExactInit, ExactAfterEdits, PTL DEF TableSpec
=============================================================================
