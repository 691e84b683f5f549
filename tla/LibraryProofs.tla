--------------------------- MODULE LibraryProofs ---------------------------
(***************************************************************************)
(* Theorems about the parts of the library that LibraryMC puts beside each *)
(* other, apart from the log: what the calls that ask for interfaces find  *)
(* out (Interfaces), which speaker an address finds (Addresses), what      *)
(* arrives of a header that is encoded, sent and decoded (PackageCodec),   *)
(* what the reader of wave files says of a file (WaveHeader), which        *)
(* formats a mask names (FormatMasks), and what a checksum notices         *)
(* (Checksum).                                                             *)
(***************************************************************************)
EXTENDS Interfaces, Addresses, PackageCodec, WaveHeader, FormatMasks, Checksum, NatSets,
        SequenceTheorems, FiniteSetTheorems, TLAPS

-----------------------------------------------------------------------------
(* Interfaces: what a call has taken and not given back depends on where   *)
(* it is.                                                                  *)

HeldInv ==
  /\ unanswered \in Nat
  /\ lists = IF at \in {"match", "walk", "crashed"} THEN 1 ELSE 0
  /\ sockets = unanswered + IF at \in {"flags", "hwaddr", "mtu", "send", "recv", "parse"} THEN 1 ELSE 0

LEMMA HeldStep == HeldInv /\ [InterfacesNext]_interfaceVars => HeldInv'
<1> SUFFICES ASSUME HeldInv, [InterfacesNext]_interfaceVars
             PROVE  HeldInv'
  OBVIOUS
<1> USE DEF HeldInv, Ask, Go, Return, FreeList, CloseSocket, Kept
<1>1. CASE UNCHANGED interfaceVars \/ Change
  BY <1>1 DEF interfaceVars, Change
<1>2. ASSUME NEW sf, NEW a, get_interface(sf, a) \/ list_interfaces(sf)
      PROVE  HeldInv'
  BY <1>2 DEF get_interface, list_interfaces
<1>3. CASE get_default_interface \/ SendOrRecvFails \/ SendsRequest \/ ReceivesRoutes \/ ParseRoute
  BY <1>3 DEF get_default_interface, SendOrRecvFails, SendsRequest, ReceivesRoutes, ParseRoute
<1>4. CASE GetIfAddrs \/ Match \/ WalkEntry
  BY <1>4 DEF GetIfAddrs, Match, WalkEntry
<1>5. CASE OpenSocket \/ IoctlFails \/ IsLoopback \/ IsNoLoopback \/ GetMac \/ GetMtu
  BY <1>5 DEF OpenSocket, IoctlFails, IsLoopback, IsNoLoopback, GetMac, GetMtu
<1>6. QED
  BY <1>1, <1>2, <1>3, <1>4, <1>5 DEF InterfacesNext

\* Every list is freed and every socket closed on every way out of the three
\* calls, but for the socket of get_default_interface after an error of send or
\* recv (get_interface, list_interfaces, get_default_interface).
THEOREM NothingIsLeft == InterfacesSpec => []EverythingGivenBack
<1>1. InterfacesInit => HeldInv
  BY DEF InterfacesInit, HeldInv
<1>2. HeldInv => EverythingGivenBack
  BY DEF HeldInv, EverythingGivenBack
<1>3. QED
  BY <1>1, <1>2, HeldStep, PTL DEF InterfacesSpec

(***************************************************************************)
(* What a call has found out so far is true of the system, as long as it   *)
(* does not change.                                                        *)
(***************************************************************************)
Quiet == ~changes.during

\* A call of get_interface that may still succeed, or has.
Getting == question.op = "get" /\ (at /= "idle" \/ returned = 0)

GetShape ==
  Getting =>
    /\ at \in {"idle", "getifaddrs", "match", "crashed", "socket", "flags", "hwaddr", "mtu"}
    /\ reply = [name |-> reply.name, index |-> reply.index, ip |-> reply.ip,
                mac |-> reply.mac, mtu |-> reply.mtu]
    /\ question.asked.kind = "name" => reply.name = question.asked.name

FoundAddress ==
  /\ reply.index = IndexOf(reply.name)
  /\ \E e \in Range(system.addrs) :
       e.name = reply.name /\ e.family = question.family /\ e.ip = reply.ip

GetTruth ==
  Getting /\ Quiet =>
    /\ question.asked.kind = "number" => reply.name \in NamesOf(question.asked.index)
    /\ at = "match" => snapshot = system.addrs
    /\ at \in {"socket", "flags", "hwaddr", "mtu", "idle"} => FoundAddress
    /\ at \in {"hwaddr", "mtu", "idle"} => \E l \in LinkNamed(reply.name) : ~l.loop
    /\ at \in {"mtu", "idle"} => \E l \in LinkNamed(reply.name) : l.mac = reply.mac
    /\ at = "idle" => \E l \in LinkNamed(reply.name) : l.mtu = reply.mtu

GetInv == system \in Systems /\ GetShape /\ GetTruth

LEMMA FirstFits ==
  ASSUME NEW S \in SUBSET (Nat \ {0}), NEW i, i = (IF S # {} THEN Min(S) ELSE 0), i /= 0
  PROVE  i \in S
BY MinIsLeast

LEMMA GetStep == GetInv /\ [InterfacesNext]_interfaceVars => GetInv'
<1> SUFFICES ASSUME GetInv, [InterfacesNext]_interfaceVars
             PROVE  GetInv'
  OBVIOUS
<1> USE DEF GetInv, GetShape, Quiet, Getting
<1>1. CASE UNCHANGED interfaceVars
  BY <1>1 DEF interfaceVars, GetTruth, FoundAddress, NamesOf, LinkNamed, IndexOf
<1>2. CASE Change
  BY <1>2 DEF Change, GetTruth
<1>3. ASSUME NEW sf \in Sockets, NEW a \in Inquiries, get_interface(sf, a)
      PROVE  GetInv'
  <2>1. /\ system' = system /\ question' = [op |-> "get", family |-> sf, asked |-> a]
    BY <1>3 DEF get_interface, Ask
  <2>2. PICK i \in Numbers(a) :
          LET names == IF a.kind = "none" THEN {} ELSE IF i >= 0 THEN NamesOf(i) ELSE {a.name}
          IN \/ Return(-1)
             \/ \E n \in names \ AddressNames : reply' = [Unset EXCEPT !.name = n] /\ Go("getifaddrs")
    BY <1>3 DEF get_interface
  <2>3. CASE Return(-1)
    BY <2>1, <2>3 DEF Return, GetTruth
  <2>4. ASSUME NEW n \in IF a.kind = "none" THEN {} ELSE IF i >= 0 THEN NamesOf(i) ELSE {a.name},
               reply' = [Unset EXCEPT !.name = n], Go("getifaddrs")
        PROVE  GetInv'
    <3>1. at' = "getifaddrs" /\ reply' = [name |-> n, index |-> 0, ip |-> "", mac |-> "", mtu |-> 0]
      BY <2>4 DEF Go, Unset
    <3>2. a.kind = "name" => n = a.name
      BY <2>2, <2>4 DEF Numbers
    <3>3. a.kind = "number" => n \in NamesOf(a.index)
      BY <2>2, <2>4, InterfacesAssumption DEF Numbers
    <3>4. a.kind = "number" => n \in NamesOf(a.index)'
      BY <2>1, <3>3 DEF NamesOf
    <3>5. QED
      BY <2>1, <3>1, <3>2, <3>4 DEF GetTruth
  <2>5. QED
    BY <2>2, <2>3, <2>4
<1>4. ASSUME NEW sf, list_interfaces(sf) \/ get_default_interface
      PROVE  GetInv'
  BY <1>4 DEF list_interfaces, get_default_interface, Ask, GetTruth
<1>5. ASSUME question.op /= "get", UNCHANGED <<system, question>>
      PROVE  GetInv'
  BY <1>5 DEF GetTruth
<1>6. CASE SendOrRecvFails \/ SendsRequest \/ ReceivesRoutes \/ ParseRoute \/ WalkEntry
  <2>1. question.op /= "get" /\ UNCHANGED <<system, question>>
    BY <1>6 DEF SendOrRecvFails, SendsRequest, ReceivesRoutes, ParseRoute, WalkEntry, Kept
  <2>2. QED
    BY <1>5, <2>1
<1>7. CASE question.op = "get" /\ GetIfAddrs
  <2>1. UNCHANGED <<system, question, changes, reply>>
    BY <1>7 DEF GetIfAddrs, Kept
  <2>2. at = "getifaddrs" /\ \/ at' = "match" /\ snapshot' = system.addrs
                             \/ at' = "idle" /\ returned' = -1
    BY <1>7 DEF GetIfAddrs, Go, Return
  <2>3. QED
    BY <1>7, <2>1, <2>2 DEF GetTruth, NamesOf
<1>8. CASE Match
  <2>1. UNCHANGED <<system, question, changes>> /\ at = "match"
    BY <1>8 DEF Match, Kept
  <2>2. CASE at' = "crashed" /\ UNCHANGED reply
    BY <1>8, <2>1, <2>2 DEF GetTruth, NamesOf
  <2>3. CASE at' = "idle" /\ returned' = -1
    BY <1>8, <2>1, <2>3 DEF GetTruth
  <2>4. CASE /\ Matching /= 0 /\ at' = "socket"
             /\ reply' = [reply EXCEPT !.ip = snapshot[Matching].ip, !.index = IndexOf(reply.name)]
    <3> SUFFICES ASSUME Getting
                 PROVE  GetInv'
      BY <2>1, <2>4 DEF GetTruth
    <3>1. reply' = [name |-> reply.name, index |-> IndexOf(reply.name), ip |-> snapshot[Matching].ip,
                    mac |-> reply.mac, mtu |-> reply.mtu]
      BY <2>4
    <3>2. ASSUME Quiet
          PROVE  \E e \in Range(system.addrs) :
                   e.name = reply.name /\ e.family = question.family /\ e.ip = snapshot[Matching].ip
      <4>1. snapshot = system.addrs /\ snapshot \in Seq(Range(snapshot))
        BY <2>1, <3>2, InterfacesAssumption DEF GetTruth
      <4>2. Matching \in {i \in 1 .. Len(snapshot) : snapshot[i].family = question.family
                                                     /\ snapshot[i].name = reply.name}
        <5> DEFINE S == {i \in 1 .. Len(snapshot) : snapshot[i].family = question.family
                                                     /\ snapshot[i].name = reply.name}
        <5>1. Matching = IF S # {} THEN Min(S) ELSE 0
          BY DEF Matching, SelectInSeq
        <5>2. S \in SUBSET (Nat \ {0})
          OBVIOUS
        <5> HIDE DEF S
        <5>3. Matching \in S
          BY <2>4, <5>1, <5>2, FirstFits
        <5>4. QED
          BY <5>3 DEF S
      <4>3. Matching \in DOMAIN snapshot
        BY <4>1, <4>2
      <4>4. snapshot[Matching] \in Range(system.addrs)
        BY <4>1, <4>3 DEF Range
      <4>5. QED
        BY <4>2, <4>4
    <3>3. Quiet => FoundAddress'
      BY <2>1, <3>1, <3>2 DEF FoundAddress, IndexOf
    <3>4. QED
      BY <2>1, <2>4, <3>1, <3>3 DEF GetTruth, NamesOf
  <2>5. QED
    BY <1>8, <2>2, <2>3, <2>4 DEF Match, Go, Return
<1>9. ASSUME UNCHANGED <<system, question, changes>>, at' = "idle", returned' = -1
      PROVE  GetInv'
  BY <1>9 DEF GetTruth
<1>10. CASE IoctlFails \/ IsLoopback
  BY <1>9, <1>10 DEF IoctlFails, IsLoopback, Return, Kept
<1>11. CASE OpenSocket
  <2>1. UNCHANGED <<system, question, changes, reply>> /\ at = "socket"
    BY <1>11 DEF OpenSocket, Kept
  <2>2. CASE at' = "flags"
    <3>1. FoundAddress' <=> FoundAddress
      BY <2>1 DEF FoundAddress, IndexOf
    <3>2. QED
      BY <2>1, <2>2, <3>1 DEF GetTruth, NamesOf
  <2>3. QED
    BY <1>9, <1>11, <2>1, <2>2 DEF OpenSocket, Go, Return
<1>12. CASE IsNoLoopback
  <2>1. /\ UNCHANGED <<system, question, changes, reply>> /\ at = "flags" /\ at' = "hwaddr"
        /\ \E l \in LinkNamed(reply.name) : ~l.loop
    BY <1>12 DEF IsNoLoopback, Kept, Go
  <2>2. FoundAddress' <=> FoundAddress
    BY <2>1 DEF FoundAddress, IndexOf
  <2>3. QED
    BY <2>1, <2>2 DEF GetTruth, NamesOf, LinkNamed
<1>13. CASE GetMac \/ GetMtu
  <2>1. PICK l \in LinkNamed(reply.name) :
          \/ at = "hwaddr" /\ reply' = [reply EXCEPT !.mac = l.mac] /\ at' = "mtu"
          \/ at = "mtu" /\ reply' = [reply EXCEPT !.mtu = l.mtu] /\ at' = "idle" /\ returned' = 0
    BY <1>13 DEF GetMac, GetMtu, Go, Return
  <2>2. UNCHANGED <<system, question, changes>>
    BY <1>13 DEF GetMac, GetMtu, Kept
  <2> SUFFICES ASSUME Getting
               PROVE  GetInv'
    BY <2>1, <2>2 DEF GetTruth
  <2>3. /\ reply'.name = reply.name /\ reply'.index = reply.index /\ reply'.ip = reply.ip
        /\ reply' = [name |-> reply'.name, index |-> reply'.index, ip |-> reply'.ip,
                     mac |-> reply'.mac, mtu |-> reply'.mtu]
        /\ at = "hwaddr" => reply'.mac = l.mac
        /\ at = "mtu" => reply'.mac = reply.mac /\ reply'.mtu = l.mtu
    BY <2>1
  <2>4. /\ FoundAddress' <=> FoundAddress
        /\ LinkNamed(reply.name)' = LinkNamed(reply.name)
        /\ \A i : NamesOf(i)' = NamesOf(i)
    BY <2>2, <2>3 DEF FoundAddress, IndexOf, NamesOf, LinkNamed
  <2>5. QED
    BY <2>1, <2>2, <2>3, <2>4 DEF GetTruth
<1>14. QED
  BY <1>1, <1>2, <1>3, <1>4, <1>5, <1>6, <1>7, <1>8, <1>10, <1>11, <1>12, <1>13
     DEF InterfacesNext, GetIfAddrs, Kept

\* The routes get_default_interface walks are some of the system's.
RouteInv ==
  /\ question.op = "default" => at \in {"idle", "send", "recv", "parse"}
  /\ question.op = "default" /\ at /= "idle" => reply = Unset
  /\ question.op = "default" /\ at \in {"send", "recv", "parse"} => entry \in Nat \ {0}
  /\ question.op = "default" /\ at = "parse" =>
       /\ snapshot \in Seq(Range(snapshot))
       /\ Quiet => Range(snapshot) \subseteq Range(system.routes)
  /\ DefaultHasRoute

LEMMA RouteStep ==
  system \in Systems /\ RouteInv /\ [InterfacesNext]_interfaceVars => RouteInv'
<1> SUFFICES ASSUME system \in Systems, RouteInv, [InterfacesNext]_interfaceVars
             PROVE  RouteInv'
  OBVIOUS
<1> USE DEF RouteInv, Quiet
<1>1. CASE UNCHANGED interfaceVars
  BY <1>1 DEF interfaceVars, DefaultHasRoute, Returned, NamesOf
<1>2. CASE Change
  BY <1>2 DEF Change, DefaultHasRoute, Returned
<1>3. ASSUME question'.op /= "default"
      PROVE  RouteInv'
  BY <1>3 DEF DefaultHasRoute, Returned
<1>4. ASSUME NEW sf, NEW a, get_interface(sf, a) \/ list_interfaces(sf)
      PROVE  RouteInv'
  BY <1>3, <1>4 DEF get_interface, list_interfaces, Ask
<1>5. CASE question.op /= "default" /\ Kept
  BY <1>3, <1>5 DEF Kept
<1>6. CASE get_default_interface
  BY <1>6 DEF get_default_interface, Ask, Go, Return, DefaultHasRoute, Returned
<1>7. ASSUME UNCHANGED <<system, question, changes>>, at' = "idle", returned' /= 1
      PROVE  RouteInv'
  BY <1>7 DEF DefaultHasRoute, Returned
<1>8. CASE SendOrRecvFails
  BY <1>7, <1>8 DEF SendOrRecvFails, Kept, Return
<1>9. CASE SendsRequest
  BY <1>9 DEF SendsRequest, Kept, Go, DefaultHasRoute, Returned
<1>10. CASE question.op = "default" /\ ReceivesRoutes
  <2>1. PICK k \in 0 .. Len(system.routes) : snapshot' = SubSeq(system.routes, 1, k)
    BY <1>10 DEF ReceivesRoutes
  <2>2. system.routes \in Seq(Range(system.routes))
    BY InterfacesAssumption
  <2>3. /\ snapshot' \in Seq(Range(system.routes)) /\ Len(snapshot') = k
        /\ \A i \in 1 .. k : snapshot'[i] = system.routes[i]
    BY <2>1, <2>2, SubSeqProperties
  <2>4. DOMAIN snapshot' = 1 .. k /\ 1 .. k \subseteq DOMAIN system.routes
    BY <2>1, <2>2, <2>3
  <2>5. Range(snapshot') \subseteq Range(system.routes)
    BY <2>3, <2>4 DEF Range
  <2>6. snapshot' \in Seq(Range(snapshot'))
    BY <2>3, <2>4 DEF Range
  <2>7. /\ at = "recv" /\ at' = "parse"
        /\ UNCHANGED <<system, question, changes, reply, entry>>
    BY <1>10 DEF ReceivesRoutes, Go, Kept
  <2>8. QED
    BY <2>5, <2>6, <2>7 DEF DefaultHasRoute, Returned
<1>11. CASE question.op = "default" /\ ParseRoute
  <2>1. at = "parse" /\ UNCHANGED <<system, question, changes, snapshot>>
    BY <1>11 DEF ParseRoute, Kept
  <2>2. CASE entry' = entry + 1 /\ UNCHANGED <<at, returned, reply>>
    BY <1>11, <2>1, <2>2 DEF DefaultHasRoute, Returned
  <2>3. CASE at' = "idle" /\ returned' = 0
    BY <1>7, <2>1, <2>3
  <2>4. ASSUME entry \in DOMAIN snapshot, snapshot[entry].table = "main",
               NEW n \in NamesOf(snapshot[entry].oif), reply' = [reply EXCEPT !.name = n],
               at' = "idle"
        PROVE  RouteInv'
    <3>1. reply'.name = n
      BY <1>11, <2>1, <2>4 DEF Unset
    <3>3. Quiet => snapshot[entry] \in Range(system.routes)
      BY <1>11, <2>1, <2>4 DEF Range
    <3>4. DefaultHasRoute'
      <4>1. ASSUME Quiet
            PROVE  \E e \in Range(system.routes) : e.table = "main" /\ reply'.name \in NamesOf(e.oif)'
        <5>1. PICK e \in Range(system.routes) : e = snapshot[entry]
          BY <3>3, <4>1
        <5>2. n \in NamesOf(e.oif)
          BY <2>4, <5>1
        <5>3. n \in NamesOf(e.oif)'
          BY <2>1, <5>2 DEF NamesOf
        <5>4. QED
          BY <2>4, <3>1, <5>1, <5>3
      <4>2. QED
        BY <2>1, <4>1 DEF DefaultHasRoute, Returned
    <3>5. QED
      BY <2>4, <3>4
  <2>5. QED
    BY <1>11, <2>2, <2>3, <2>4 DEF ParseRoute, Return, Usable
<1>12. CASE question.op = "default" /\ (GetIfAddrs \/ Match \/ OpenSocket \/ IoctlFails \/ IsLoopback
                                        \/ IsNoLoopback \/ GetMac \/ GetMtu \/ WalkEntry)
  BY <1>12 DEF GetIfAddrs, Match, OpenSocket, IoctlFails, IsLoopback, IsNoLoopback, GetMac, GetMtu, WalkEntry
<1>13. ASSUME question.op /= "default", GetIfAddrs \/ Match \/ OpenSocket \/ IoctlFails \/ IsLoopback
                                        \/ IsNoLoopback \/ GetMac \/ GetMtu \/ WalkEntry
                                        \/ ReceivesRoutes \/ ParseRoute
       PROVE  RouteInv'
  <2>1. Kept
    BY <1>13 DEF GetIfAddrs, Match, OpenSocket, IoctlFails, IsLoopback, IsNoLoopback, GetMac, GetMtu,
                 WalkEntry, ReceivesRoutes, ParseRoute
  <2>2. QED
    BY <1>5, <1>13, <2>1
<1>14. QED
  BY <1>1, <1>2, <1>4, <1>6, <1>8, <1>9, <1>10, <1>11, <1>12, <1>13 DEF InterfacesNext

(***************************************************************************)
(* Counting the entries of a family.                                       *)
(***************************************************************************)
Upto(j) == OfFamily(snapshot, question.family, j)

LEMMA CountingOn ==
  ASSUME NEW q, NEW f, NEW n \in Nat
  PROVE  IsFiniteSet(OfFamily(q, f, n)) /\ Cardinality(OfFamily(q, f, n)) \in Nat
<1>1. IsFiniteSet(1 .. n)
  BY FS_Interval
<1>2. OfFamily(q, f, n) \subseteq 1 .. n
  BY DEF OfFamily
<1>3. QED
  BY <1>1, <1>2, FS_Subset, FS_CardinalityType

LEMMA CountingOne ==
  ASSUME NEW q, NEW f, NEW n \in Nat, n + 1 \in OfFamily(q, f, n + 1)
  PROVE  /\ OfFamily(q, f, n + 1) = OfFamily(q, f, n) \cup {n + 1}
         /\ Cardinality(OfFamily(q, f, n + 1)) = Cardinality(OfFamily(q, f, n)) + 1
<1>1. OfFamily(q, f, n + 1) = OfFamily(q, f, n) \cup {n + 1} /\ n + 1 \notin OfFamily(q, f, n)
  BY DEF OfFamily
<1>2. QED
  BY <1>1, CountingOn, FS_AddElement

LEMMA CountingOrder ==
  ASSUME NEW q, NEW f, NEW m \in Nat, NEW n \in Nat, m <= n
  PROVE  /\ Cardinality(OfFamily(q, f, m)) <= Cardinality(OfFamily(q, f, n))
         /\ m < n /\ n \in OfFamily(q, f, n) =>
              Cardinality(OfFamily(q, f, m)) < Cardinality(OfFamily(q, f, n))
<1> DEFINE M == OfFamily(q, f, m)
           N == OfFamily(q, f, n)
<1>1. IsFiniteSet(M) /\ IsFiniteSet(N) /\ Cardinality(M) \in Nat /\ Cardinality(N) \in Nat
  BY CountingOn
<1>2. M \subseteq N
  BY DEF OfFamily
<1>3. m < n /\ n \in N => M /= N
  BY DEF OfFamily
<1> HIDE DEF M, N
<1>4. Cardinality(M) <= Cardinality(N) /\ (Cardinality(M) = Cardinality(N) => M = N)
  BY <1>1, <1>2, FS_Subset
<1>5. QED
  BY <1>1, <1>3, <1>4 DEF M, N

LEMMA CountingEmpty == \A q, f : OfFamily(q, f, 0) = {} /\ Cardinality(OfFamily(q, f, 0)) = 0
BY FS_EmptySet DEF OfFamily

(***************************************************************************)
(* list_interfaces has listed the entries of the family up to where it is. *)
(***************************************************************************)
Describes(r, e) == r.name = e.name /\ r.ip = e.ip

ListedSoFar ==
  /\ snapshot \in Seq(Range(snapshot)) /\ entry \in 1 .. Len(snapshot) + 1
  /\ reply \in Seq(Range(reply)) /\ Len(reply) <= MaxLen
  /\ Len(reply) = Cardinality(Upto(entry - 1))
  /\ \A j \in Upto(entry - 1) : Describes(reply[Cardinality(Upto(j))], snapshot[j])

ListInv ==
  /\ question.op = "list" =>
       /\ at \in {"idle", "getifaddrs", "walk", "crashed"}
       /\ at = "getifaddrs" => reply = <<>> /\ entry = 1
       /\ at = "walk" => ListedSoFar
  /\ ListsTheFirst

LEMMA SeqOfOwnRange ==
  ASSUME NEW S, NEW q \in Seq(S)
  PROVE  q \in Seq(Range(q)) /\ Range(q) \subseteq S
BY DEF Range

\* It goes on to the next entry,
LEMMA ListedGoesOn ==
  ASSUME ListedSoFar, entry \in DOMAIN snapshot, RoomInAnswer, UNCHANGED <<snapshot, question>>,
         entry' = entry + 1,
         \/ /\ snapshot[entry].family = question.family
            /\ \E i : reply' = Append(reply, [name |-> snapshot[entry].name, ip |-> snapshot[entry].ip,
                                              index |-> i])
         \/ snapshot[entry].family /= question.family /\ UNCHANGED reply
  PROVE  ListedSoFar'
<1> DEFINE n == entry - 1
<1>1. n \in Nat /\ n + 1 = entry /\ entry \in 1 .. Len(snapshot) /\ Len(snapshot) \in Nat
  BY DEF ListedSoFar
<1>2. \A j : Upto(j)' = Upto(j)
  BY DEF Upto
<1>3. entry' - 1 = n + 1 /\ Upto(entry - 1) = Upto(n)
  BY <1>1
<1>4. MaxLen \in Nat /\ Len(reply) \in Nat
  BY InterfacesAssumption DEF ListedSoFar
<1>5. CASE snapshot[entry].family /= question.family
  <2>1. Upto(n + 1) = Upto(n)
    BY <1>1, <1>5 DEF Upto, OfFamily
  <2>2. QED
    BY <1>1, <1>2, <1>3, <1>5, <2>1, SMTT(30) DEF ListedSoFar
<1>6. ASSUME snapshot[entry].family = question.family,
             NEW i, reply' = Append(reply, [name |-> snapshot[entry].name, ip |-> snapshot[entry].ip, index |-> i])
      PROVE  ListedSoFar'
  <2> DEFINE r == [name |-> snapshot[entry].name, ip |-> snapshot[entry].ip, index |-> i]
  <2>1. Describes(r, snapshot[entry])
    BY DEF Describes
  <2> HIDE DEF r
  <2>2. reply \in Seq(Range(reply) \cup {r})
    BY DEF ListedSoFar
  <2>3. reply' = Append(reply, r)
    BY <1>6 DEF r
  <2>4. /\ reply' \in Seq(Range(reply) \cup {r}) /\ Len(reply') = Len(reply) + 1
        /\ \A j \in 1 .. Len(reply) : reply'[j] = reply[j]
        /\ reply'[Len(reply) + 1] = r
    BY <2>2, <2>3, AppendProperties
  <2>5. /\ Upto(n + 1) = Upto(n) \cup {n + 1}
        /\ Cardinality(Upto(n + 1)) = Cardinality(Upto(n)) + 1
    <3>1. n \in Nat /\ n + 1 \in OfFamily(snapshot, question.family, n + 1)
      BY <1>1, <1>6 DEF OfFamily
    <3> HIDE DEF n
    <3>2. QED
      BY <3>1, CountingOne DEF Upto
  <2>6. ASSUME NEW j \in Upto(n + 1)
        PROVE  Describes(reply'[Cardinality(Upto(j))], snapshot[j])
    <3>1. CASE j = n + 1
      BY <1>1, <1>3, <2>1, <2>4, <2>5, <3>1 DEF ListedSoFar
    <3>2. CASE j \in Upto(n)
      <4>1. j \in 1 .. n /\ j \in Upto(j)
        BY <3>2 DEF Upto, OfFamily
      <4>2. Cardinality(Upto(j)) \in Nat /\ Cardinality(Upto(n)) \in Nat
        BY <1>1, <4>1, CountingOn DEF Upto
      <4>3. Cardinality(Upto(j)) <= Cardinality(Upto(n))
        BY <1>1, <4>1, CountingOrder DEF Upto
      <4>4. 0 < Cardinality(Upto(j))
        BY <4>1, CountingOrder, CountingEmpty DEF Upto
      <4>5. Cardinality(Upto(j)) \in 1 .. Len(reply)
        BY <1>3, <4>2, <4>3, <4>4 DEF ListedSoFar
      <4>6. QED
        BY <1>3, <2>4, <3>2, <4>5 DEF ListedSoFar
    <3>3. QED
      BY <2>5, <3>1, <3>2
  <2>7. reply' \in Seq(Range(reply'))
    BY <2>4, SeqOfOwnRange
  <2>8. Len(reply') <= MaxLen /\ Len(reply') = Cardinality(Upto(n + 1))
    BY <1>3, <1>4, <2>4, <2>5 DEF ListedSoFar, RoomInAnswer
  <2>9. snapshot' \in Seq(Range(snapshot')) /\ entry' \in 1 .. Len(snapshot') + 1
    BY <1>1 DEF ListedSoFar
  <2>10. QED
    BY <1>2, <1>3, <2>6, <2>7, <2>8, <2>9 DEF ListedSoFar
<1>7. QED
  BY <1>5, <1>6

\* and returns when there is none, or no room.
LEMMA ListedReturns ==
  ASSUME ListedSoFar, ~(entry \in DOMAIN snapshot /\ RoomInAnswer), question.op = "list",
         UNCHANGED <<snapshot, question, reply>>, returned' = Len(reply)
  PROVE  ListsTheFirst'
<1> DEFINE n == entry - 1
           all == Cardinality(Upto(Len(snapshot)))
<1>1. entry \in Nat /\ n \in Nat /\ n <= Len(snapshot) /\ Len(snapshot) \in Nat /\ n = entry - 1 /\ DOMAIN snapshot = 1 .. Len(snapshot)
  BY DEF ListedSoFar
<1>2. MaxLen \in Nat /\ Len(reply) \in Nat /\ Len(reply) <= MaxLen /\ Len(reply) = Cardinality(Upto(n))
  BY InterfacesAssumption DEF ListedSoFar
<1>3. n = Len(snapshot) \/ Len(reply) = MaxLen
  BY <1>1, <1>2 DEF RoomInAnswer
<1>4. all \in Nat /\ Cardinality(Upto(n)) <= all
  BY <1>1, CountingOn, CountingOrder DEF Upto
<1>5. Min({MaxLen, all}) = Len(reply)
  <2>1. Min({MaxLen, all}) \in {MaxLen, all} /\ \A k \in {MaxLen, all} : Min({MaxLen, all}) <= k
    BY <1>2, <1>4, MinIsLeast
  <2>2. n = Len(snapshot) => all = Len(reply)
    BY <1>2
  <2> HIDE DEF all
  <2>3. QED
    BY <1>2, <1>3, <1>4, <2>1, <2>2
<1>6. ASSUME NEW j \in Upto(Len(snapshot)), Cardinality(Upto(j)) <= MaxLen
      PROVE  Describes(reply[Cardinality(Upto(j))], snapshot[j])
  <2>1. j \in 1 .. Len(snapshot) /\ j \in Upto(j) /\ (j <= n => j \in Upto(n))
    BY <1>1 DEF Upto, OfFamily
  <2>2. ASSUME n < j
        PROVE  FALSE
    <3>1. Cardinality(Upto(n)) < Cardinality(Upto(j))
      BY <1>1, <2>1, <2>2, CountingOrder DEF Upto
    <3>2. Cardinality(Upto(j)) \in Nat
      BY <2>1, CountingOn DEF Upto
    <3>3. QED
      BY <1>1, <1>2, <1>3, <1>6, <2>1, <2>2, <3>1, <3>2
  <2>3. j \in Upto(n)
    BY <1>1, <2>1, <2>2
  <2>4. QED
    BY <1>1, <2>3 DEF ListedSoFar
<1>7. QED
  BY <1>5, <1>6 DEF ListsTheFirst, Upto, Describes

LEMMA ListStep ==
  system \in Systems /\ ListInv /\ [InterfacesNext]_interfaceVars => ListInv'
<1> SUFFICES ASSUME system \in Systems, ListInv, [InterfacesNext]_interfaceVars
             PROVE  ListInv'
  OBVIOUS
<1>1. ASSUME UNCHANGED <<snapshot, entry, reply, question, at, returned>>
      PROVE  ListInv'
  BY <1>1 DEF ListInv, ListedSoFar, ListsTheFirst, Upto
<1>2. CASE UNCHANGED interfaceVars \/ Change
  BY <1>1, <1>2 DEF interfaceVars, Change
<1>3. ASSUME question'.op /= "list"
      PROVE  ListInv'
  BY <1>3 DEF ListInv, ListsTheFirst
<1>4. ASSUME NEW sf, NEW a, get_interface(sf, a) \/ get_default_interface
      PROVE  ListInv'
  BY <1>3, <1>4 DEF get_interface, get_default_interface, Ask
<1>5. CASE question.op /= "list" /\ Kept
  BY <1>3, <1>5 DEF Kept
<1>6. ASSUME NEW sf, list_interfaces(sf)
      PROVE  ListInv'
  BY <1>6 DEF list_interfaces, Ask, Go, ListInv, ListsTheFirst
<1>7. CASE question.op = "list" /\ GetIfAddrs
  <2>1. at = "getifaddrs" /\ UNCHANGED <<question, reply, entry>>
    BY <1>7 DEF GetIfAddrs, Kept
  <2>2. CASE at' = "idle" /\ returned' = -1
    BY <2>1, <2>2 DEF ListInv, ListsTheFirst
  <2>3. CASE at' = "walk" /\ snapshot' = system.addrs
    <3>1. reply = <<>> /\ entry = 1
      BY <1>7, <2>1 DEF ListInv
    <3>2. snapshot' \in Seq(Range(snapshot')) /\ MaxLen \in Nat
      BY <2>3, InterfacesAssumption
    <3>3. reply' \in Seq(Range(reply')) /\ Len(reply') = 0
      BY <2>1, <3>1
    <3>4. Upto(0)' = {} /\ Cardinality(Upto(0))' = 0
      BY CountingEmpty DEF Upto
    <3>5. entry' - 1 = 0 /\ entry' \in 1 .. Len(snapshot') + 1
      BY <2>1, <3>1, <3>2
    <3>6. ListedSoFar'
      BY <3>2, <3>3, <3>4, <3>5 DEF ListedSoFar
    <3>7. QED
      BY <2>3, <3>6 DEF ListInv, ListsTheFirst
  <2>4. QED
    BY <1>7, <2>2, <2>3 DEF GetIfAddrs, Go, Return
<1>8. CASE question.op = "list" /\ WalkEntry
  <2>1. ListedSoFar /\ at = "walk" /\ UNCHANGED <<question, snapshot>>
    BY <1>8 DEF WalkEntry, Kept, ListInv
  <2>2. CASE at' = "crashed"
    BY <2>1, <2>2 DEF ListInv, ListsTheFirst
  <2>3. CASE /\ entry \in DOMAIN snapshot /\ RoomInAnswer /\ entry' = entry + 1 /\ UNCHANGED at
             /\ \/ /\ snapshot[entry].family = question.family
                   /\ \E i : reply' = Append(reply, [name |-> snapshot[entry].name,
                                                     ip |-> snapshot[entry].ip, index |-> i])
                \/ snapshot[entry].family /= question.family /\ UNCHANGED reply
    <3>1. ListedSoFar'
      BY <2>1, <2>3, ListedGoesOn
    <3>2. QED
      BY <1>8, <2>1, <2>3, <3>1 DEF ListInv, ListsTheFirst
  <2>4. CASE /\ ~(entry \in DOMAIN snapshot /\ RoomInAnswer)
             /\ at' = "idle" /\ returned' = Len(reply) /\ UNCHANGED reply
    <3>1. ListsTheFirst'
      BY <1>8, <2>1, <2>4, ListedReturns
    <3>2. QED
      BY <2>1, <2>4, <3>1 DEF ListInv
  <2>5. QED
    BY <1>8, <2>2, <2>3, <2>4 DEF WalkEntry, Go, Return
<1>9. ASSUME question.op = "list", Match \/ OpenSocket \/ IoctlFails \/ IsLoopback \/ IsNoLoopback
                                   \/ GetMac \/ GetMtu \/ SendOrRecvFails \/ SendsRequest
                                   \/ ReceivesRoutes \/ ParseRoute
      PROVE  ListInv'
  BY <1>9 DEF ListInv, Match, OpenSocket, IoctlFails, IsLoopback, IsNoLoopback, GetMac, GetMtu,
              SendOrRecvFails, SendsRequest, ReceivesRoutes, ParseRoute
<1>10. ASSUME question.op /= "list",
              GetIfAddrs \/ WalkEntry \/ Match \/ OpenSocket \/ IoctlFails \/ IsLoopback
                \/ IsNoLoopback \/ GetMac \/ GetMtu \/ SendOrRecvFails \/ SendsRequest
                \/ ReceivesRoutes \/ ParseRoute
       PROVE  ListInv'
  <2>1. Kept
    BY <1>10 DEF GetIfAddrs, WalkEntry, Match, OpenSocket, IoctlFails, IsLoopback, IsNoLoopback, GetMac,
                 GetMtu, SendOrRecvFails, SendsRequest, ReceivesRoutes, ParseRoute
  <2>2. QED
    BY <1>5, <1>10, <2>1
<1>11. QED
  BY <1>2, <1>4, <1>6, <1>7, <1>8, <1>9, <1>10 DEF InterfacesNext

-----------------------------------------------------------------------------
\* What get_interface answers with success is true of one interface.
LEMMA AnswerDescribesOne == GetInv => DescribesOneInterface
<1> SUFFICES ASSUME GetInv, Returned("get"), returned = 0
             PROVE  DescribesOneInterface
  BY DEF DescribesOneInterface
<1>1. /\ Getting /\ Quiet /\ at = "idle"
      /\ reply = [name |-> reply.name, index |-> reply.index, ip |-> reply.ip,
                  mac |-> reply.mac, mtu |-> reply.mtu]
      /\ question.asked.kind = "name" => reply.name = question.asked.name
      /\ question.asked.kind = "number" => reply.name \in NamesOf(question.asked.index)
      /\ FoundAddress
      /\ \E l \in LinkNamed(reply.name) : ~l.loop
      /\ \E l \in LinkNamed(reply.name) : l.mac = reply.mac
      /\ \E l \in LinkNamed(reply.name) : l.mtu = reply.mtu
  BY DEF GetInv, GetShape, GetTruth, Getting, Quiet, Returned
<1>2. PICK i \in DOMAIN system.links : system.links[i].name = reply.name
  BY <1>1 DEF LinkNamed
<1>3. \A j \in DOMAIN system.links : system.links[j].name = reply.name => j = i
  BY <1>2, InterfacesAssumption DEF GetInv
<1>4. \A l \in LinkNamed(reply.name) : l = system.links[i]
  BY <1>3 DEF LinkNamed
<1>5. i \in Nat \ {0}
  BY <1>2, InterfacesAssumption DEF GetInv
<1>6. IndexOf(reply.name) = i
  <2>1. {j \in DOMAIN system.links : system.links[j].name = reply.name} = {i}
    BY <1>2, <1>3
  <2>2. IndexOf(reply.name) = Max({0, i})
    BY <2>1 DEF IndexOf
  <2>3. QED
    BY <1>5, <2>2 DEF Max
<1>7. question.asked.kind = "number" => question.asked.index = i
  BY <1>1, <1>3 DEF NamesOf
<1>8. /\ ~system.links[i].loop
      /\ reply.name = system.links[i].name /\ reply.index = i
      /\ reply.mac = system.links[i].mac /\ reply.mtu = system.links[i].mtu
  BY <1>1, <1>2, <1>4, <1>6 DEF FoundAddress
<1>9. /\ \E e \in Range(system.addrs) :
           e.name = system.links[i].name /\ e.family = question.family /\ e.ip = reply.ip
      /\ question.asked.kind = "number" => question.asked.index = i
      /\ question.asked.kind = "name" => question.asked.name = system.links[i].name
  BY <1>1, <1>2, <1>7 DEF FoundAddress
<1>10. QED
  BY <1>8, <1>9 DEF DescribesOneInterface

\* While the system stays as it is, get_interface answers with one of its
\* interfaces, the one asked for, get_default_interface with one that has a
\* route in the main table; and list_interfaces lists the first addresses of
\* the family in any case, for every number of interfaces, addresses and routes
\* and every size of the caller's array.
THEOREM AnswersTellTheTruth == InterfacesSpec => []AnswersAreTrue
<1>1. InterfacesInit => GetInv /\ RouteInv /\ ListInv
  BY DEF InterfacesInit, GetInv, GetShape, GetTruth, Getting, RouteInv, DefaultHasRoute, Returned,
         ListInv, ListsTheFirst
<1>2. GetInv => system \in Systems
  BY DEF GetInv
<1>3. GetInv /\ RouteInv /\ ListInv => AnswersAreTrue
  BY AnswerDescribesOne DEF RouteInv, ListInv, AnswersAreTrue
<1>4. QED
  BY <1>1, <1>2, <1>3, GetStep, RouteStep, ListStep, PTL DEF InterfacesSpec

-----------------------------------------------------------------------------
(* Addresses: every addr_t is a host written over memory of one content,   *)
(* and clean are those where that was zero.                                *)

Size(family) == IF family = "inet" THEN 2 ELSE 8

AddressInv ==
  /\ recorded \in Seq(Range(recorded)) /\ clean \subseteq 1 .. Len(recorded)
  /\ \A i \in 1 .. Len(recorded) : \E h \in Hosts \cup Range(Texts), r \in Rest :
       recorded[i] = AddrOver(h, r) /\ (i \in clean <=> r = 0)

LEMMA RecordKeeps ==
  ASSUME AddressInv, NEW h \in Hosts \cup Range(Texts), NEW r \in Rest, Record(AddrOver(h, r)),
         clean' = IF r = 0 THEN clean \cup {Len(recorded')} ELSE clean
  PROVE  AddressInv'
<1> DEFINE a == AddrOver(h, r)
           n == Len(recorded)
<1>1. n \in Nat /\ clean \subseteq 1 .. n /\ recorded \in Seq(Range(recorded) \cup {a})
  BY DEF AddressInv
<1>2. recorded' = Append(recorded, a)
  BY DEF Record
<1> HIDE DEF a
<1>3. /\ recorded' \in Seq(Range(recorded) \cup {a}) /\ Len(recorded') = n + 1
      /\ \A i \in 1 .. n : recorded'[i] = recorded[i]
      /\ recorded'[n + 1] = a
  BY <1>1, <1>2, AppendProperties
<1>4. recorded' \in Seq(Range(recorded'))
  BY <1>3 DEF Range
<1> HIDE DEF n
<1>5. /\ clean' \subseteq 1 .. n + 1
      /\ \A i \in 1 .. n : i \in clean' <=> i \in clean
      /\ n + 1 \in clean' <=> r = 0
  <2>1. clean' = IF r = 0 THEN clean \cup {n + 1} ELSE clean
    BY <1>3
  <2>2. CASE r = 0
    <3>1. clean' = clean \cup {n + 1}
      BY <2>1, <2>2
    <3>2. 1 .. n \subseteq 1 .. n + 1 /\ n + 1 \in 1 .. n + 1 /\ n + 1 \notin 1 .. n
      BY <1>1
    <3> DEFINE m == n + 1
    <3> HIDE DEF m
    <3>3. /\ clean' \subseteq 1 .. m /\ m \in clean'
          /\ \A i \in 1 .. n : i \in clean' <=> i \in clean
      BY <1>1, <3>1, <3>2 DEF m
    <3>4. QED
      BY <2>2, <3>3 DEF m
  <2>3. CASE r /= 0
    BY <1>1, <2>1, <2>3
  <2>4. QED
    BY <2>2, <2>3
<1>6. ASSUME NEW i \in 1 .. n + 1
      PROVE  \E g \in Hosts \cup Range(Texts), q \in Rest :
               recorded'[i] = AddrOver(g, q) /\ (i \in clean' <=> q = 0)
  <2>1. CASE i = n + 1
    BY <1>3, <1>5, <2>1 DEF a
  <2>2. CASE i \in 1 .. n
    BY <1>3, <1>5, <2>2 DEF AddressInv, n
  <2>3. QED
    BY <1>1, <2>1, <2>2
<1>7. QED
  BY <1>3, <1>4, <1>5, <1>6 DEF AddressInv

LEMMA AddressStep == AddressInv /\ [AddressNext]_addressVars => AddressInv'
<1> SUFFICES ASSUME AddressInv, [AddressNext]_addressVars
             PROVE  AddressInv'
  OBVIOUS
<1>1. CASE UNCHANGED addressVars
  BY <1>1 DEF addressVars, AddressInv
<1>2. ASSUME NEW h \in Hosts, NEW r \in Rest, Detected(h, r)
      PROVE  AddressInv'
  BY <1>2, RecordKeeps DEF Detected
<1>3. ASSUME NEW h \in Hosts, NEW p \in Ports, Seen(h, p)
      PROVE  AddressInv'
  <2>1. get_sockaddr(Peer(h, p)) = AddrOver(h, 0)
    BY DEF get_sockaddr, AddrOver, Peer
  <2>2. Record(AddrOver(h, 0)) /\ clean' = clean \cup {Len(recorded')}
    BY <1>3, <2>1 DEF Seen
  <2>3. QED
    BY <2>2, RecordKeeps, AddressAssumption
<1>4. ASSUME NEW t \in SomeTexts, Configured(t)
      PROVE  AddressInv'
  <2>1. t \in DOMAIN Texts /\ addr_stoa(t).addr = AddrOver(Texts[t], 0)
    BY <1>4 DEF Configured, addr_stoa
  <2>2. Texts[t] \in Range(Texts)
    BY <2>1 DEF Range
  <2>3. QED
    BY <1>4, <2>1, <2>2, RecordKeeps, AddressAssumption DEF Configured
<1>5. QED
  BY <1>1, <1>2, <1>3, <1>4 DEF AddressNext

AddrPlaces == 1 .. 8   \* the groups of an addr_t

LEMMA FunctionIsSeq ==
  ASSUME NEW S, NEW n \in Nat, NEW q \in [1 .. n -> S]
  PROVE  q \in Seq(S) /\ Len(q) = n
OBVIOUS

\* The bytes of an addr_t.
LEMMA AddrFields ==
  ASSUME NEW h, IsHost(h), NEW r \in Rest
  PROVE  LET a == AddrOver(h, r)
             n == Size(h.family)
         IN /\ a.type = h.family /\ a.padding = r /\ h.family \in {"inet", "inet6"}
            /\ a.groups \in Seq(Groups) /\ Len(a.groups) = 8
            /\ h.groups \in Seq(Groups) /\ Len(h.groups) = n
            /\ \A k \in AddrPlaces : a.groups[k] = IF k <= n THEN h.groups[k] ELSE r
<1> DEFINE n == Size(h.family)
           g == Filled(h.groups, r)
<1>1. h.groups \in [1 .. n -> Groups] /\ n \in {2, 8} /\ h.family \in {"inet", "inet6"}
  BY DEF IsHost, Size
<1>2. h.groups \in Seq(Groups) /\ Len(h.groups) = n
  BY <1>1
<1>3. \A k \in AddrPlaces : g[k] = IF k <= n THEN h.groups[k] ELSE r
  BY <1>2 DEF Filled, AddrPlaces
<1>4. r \in Groups
  BY AddressAssumption
<1>5. g \in [1 .. 8 -> Groups]
  BY <1>1, <1>2, <1>4 DEF Filled
<1> HIDE DEF g, n
<1>6. g \in Seq(Groups) /\ Len(g) = 8
  BY <1>5, FunctionIsSeq
<1>7. QED
  BY <1>1, <1>2, <1>3, <1>6 DEF AddrOver, g, n

LEMMA FirstIsFirst ==
  ASSUME NEW S \in SUBSET (Nat \ {0})
  PROVE  /\ First(S) = 0 <=> S = {}
         /\ S /= {} => First(S) \in S /\ \A j \in S : First(S) <= j
BY MinIsLeast DEF First

\* The first n groups, for n up to 8.
LEMMA Beginnings ==
  ASSUME NEW g \in Seq(Groups), Len(g) = 8, NEW n \in {2, 8}
  PROVE  /\ SubSeq(g, 1, n) \in Seq(Groups) /\ Len(SubSeq(g, 1, n)) = n
         /\ \A k \in 1 .. n : SubSeq(g, 1, n)[k] = g[k]
<1>1. n \in Int /\ 1 <= n /\ 1 \in Int /\ n - 1 + 1 = n /\ \A k \in 1 .. n : k \in 1 .. Len(g) /\ 1 + k - 1 = k
  OBVIOUS
<1>2. \A k \in 1 .. n : g[k] \in Groups
  BY <1>1, ElementOfSeq
<1>3. /\ SubSeq(g, 1, n) \in Seq(Groups) /\ Len(SubSeq(g, 1, n)) = n - 1 + 1
      /\ \A k \in 1 .. n - 1 + 1 : SubSeq(g, 1, n)[k] = g[1 + k - 1]
  BY <1>1, <1>2, SubSeqProperties
<1>4. QED
  BY <1>1, <1>3

LEMMA SameGroups ==
  ASSUME NEW g \in Seq(Groups), NEW h \in Seq(Groups), Len(g) = Len(h),
         \A k \in 1 .. Len(h) : g[k] = h[k]
  PROVE  g = h
BY SeqEqual

LEMMA CleanOnesMatch ==
  ASSUME AddressInv, NEW h \in Hosts, NEW i \in 1 .. Len(recorded)
  PROVE  recorded[i] = AddrOver(h, 0) <=> i \in clean /\ Is(recorded[i], h)
<1>1. PICK g \in Hosts \cup Range(Texts), r \in Rest :
        recorded[i] = AddrOver(g, r) /\ (i \in clean <=> r = 0)
  BY DEF AddressInv
<1>2. IsHost(h) /\ IsHost(g) /\ 0 \in Rest
  BY AddressAssumption
<1> DEFINE n == Size(h.family)
           a == AddrOver(h, 0)
           b == AddrOver(g, r)
<1>3. /\ a.type = h.family /\ a.padding = 0 /\ a.groups \in Seq(Groups) /\ Len(a.groups) = 8
      /\ h.groups \in Seq(Groups) /\ Len(h.groups) = n
      /\ \A k \in AddrPlaces : a.groups[k] = IF k <= n THEN h.groups[k] ELSE 0
  BY <1>2, AddrFields
<1>4. /\ b.type = g.family /\ b.padding = r /\ b.groups \in Seq(Groups) /\ Len(b.groups) = 8
      /\ g.groups \in Seq(Groups) /\ Len(g.groups) = Size(g.family)
      /\ \A k \in AddrPlaces : b.groups[k] = IF k <= Size(g.family) THEN g.groups[k] ELSE r
  BY <1>2, AddrFields
<1>5. n \in {2, 8} /\ \A k \in 1 .. n : k \in AddrPlaces /\ k <= n
  BY DEF Size, AddrPlaces
<1>6. 1 .. 8 = AddrPlaces /\ \A k \in AddrPlaces : k \in Nat
  BY DEF AddrPlaces
<1>7. a = [type |-> a.type, padding |-> a.padding, groups |-> a.groups]
  BY DEF AddrOver
<1>8. b = [type |-> b.type, padding |-> b.padding, groups |-> b.groups]
  BY DEF AddrOver
<1> HIDE DEF a, b, n
<1>9. ASSUME b = a
      PROVE  r = 0 /\ Is(b, h)
  <2>1. SubSeq(b.groups, 1, n) = h.groups
    <3>1. /\ SubSeq(b.groups, 1, n) \in Seq(Groups) /\ Len(SubSeq(b.groups, 1, n)) = n
          /\ \A k \in 1 .. n : SubSeq(b.groups, 1, n)[k] = b.groups[k]
      BY <1>4, <1>5, Beginnings
    <3>2. \A k \in 1 .. n : b.groups[k] = h.groups[k]
      BY <1>3, <1>5, <1>9
    <3>3. QED
      BY <1>3, <3>1, <3>2, SameGroups
  <2>2. QED
    BY <1>3, <1>4, <1>9, <2>1 DEF Is
<1>10. ASSUME r = 0, Is(b, h)
      PROVE  b = a
  <2>1. b.type = h.family /\ SubSeq(b.groups, 1, n) = h.groups
    BY <1>3, <1>10 DEF Is
  <2>2. \A k \in 1 .. n : b.groups[k] = h.groups[k]
    BY <1>4, <1>5, <2>1, Beginnings
  <2>3. \A k \in AddrPlaces : n < k => b.groups[k] = 0
    <3>1. n = Size(g.family)
      BY <1>4, <2>1 DEF n
    <3>2. QED
      BY <1>4, <1>5, <1>10, <1>6, <3>1
  <2>4. \A k \in AddrPlaces : b.groups[k] = a.groups[k]
    BY <1>3, <1>5, <1>6, <2>2, <2>3
  <2>5. b.groups = a.groups
    BY <1>3, <1>4, <1>6, <2>4, SameGroups, ZenonT(30)
  <2>6. QED
    BY <1>3, <1>4, <1>7, <1>8, <1>10, <2>1, <2>5
<1>11. QED
  BY <1>1, <1>9, <1>10 DEF a, b

\* PeerIsFound: two ways of writing an address differ in no byte.
LEMMA PeersAreFound == AddressInv => PeerIsFound
<1> SUFFICES ASSUME AddressInv, NEW h \in Hosts, NEW p \in Ports
             PROVE  find_speaker_by_ip(get_sockaddr(Peer(h, p))) = First({i \in clean : Is(recorded[i], h)})
  BY DEF PeerIsFound
<1>1. get_sockaddr(Peer(h, p)) = AddrOver(h, 0)
  BY DEF get_sockaddr, AddrOver, Peer
<1>2. find_speaker_by_ip(AddrOver(h, 0)) = First({i \in DOMAIN recorded : recorded[i] = AddrOver(h, 0)})
  BY DEF find_speaker_by_ip
<1>3. {i \in DOMAIN recorded : recorded[i] = AddrOver(h, 0)} = {i \in clean : Is(recorded[i], h)}
  <2>1. DOMAIN recorded = 1 .. Len(recorded) /\ clean \subseteq 1 .. Len(recorded)
    BY DEF AddressInv
  <2>2. \A i \in 1 .. Len(recorded) : recorded[i] = AddrOver(h, 0) <=> i \in clean /\ Is(recorded[i], h)
    BY CleanOnesMatch, Zenon
  <2>3. QED
    BY <2>1, <2>2, Zenon
<1>4. QED
  BY <1>1, <1>2, <1>3

LEMMA RecordedFields ==
  ASSUME AddressInv, NEW i \in 1 .. Len(recorded)
  PROVE  /\ recorded[i].type \in {"inet", "inet6"}
         /\ recorded[i].groups \in Seq(Groups) /\ Len(recorded[i].groups) = 8
<1>1. PICK h \in Hosts \cup Range(Texts), r \in Rest : recorded[i] = AddrOver(h, r)
  BY DEF AddressInv
<1>2. IsHost(h)
  BY AddressAssumption
<1>3. QED
  BY <1>1, <1>2, AddrFields

\* The socket address of a speaker.
LEMMA SockaddrFields ==
  ASSUME AddressInv, NEW i \in 1 .. Len(recorded), NEW p \in Ports
  PROVE  LET s == set_sockaddr(recorded[i], p)
             n == Size(recorded[i].type)
         IN /\ s.family = recorded[i].type /\ s.port = p % 65536
            /\ s.groups = SubSeq(recorded[i].groups, 1, n)
            /\ s.groups \in Seq(Groups) /\ Len(s.groups) = n
            /\ \A k \in 1 .. n : s.groups[k] = recorded[i].groups[k]
            /\ EQUAL_SOCK_ADDR(s, recorded[i])
            /\ IsHost(s)
<1> DEFINE s == set_sockaddr(recorded[i], p)
           n == Size(recorded[i].type)
           g == recorded[i].groups
<1>1. recorded[i].type \in {"inet", "inet6"} /\ g \in Seq(Groups) /\ Len(g) = 8
  BY RecordedFields
<1>2. s.family = recorded[i].type /\ s.port = p % 65536 /\ s.groups = SubSeq(g, 1, n)
  BY DEF set_sockaddr, Size
<1>3. n \in {2, 8} /\ (n = 2 <=> recorded[i].type = "inet")
  BY <1>1 DEF Size
<1> HIDE DEF s, n, g
<1>4. /\ s.groups \in Seq(Groups) /\ Len(s.groups) = n
      /\ \A k \in 1 .. n : s.groups[k] = g[k]
  BY <1>1, <1>2, <1>3, Beginnings, SMTT(30)
<1>5. EQUAL_SOCK_ADDR(s, recorded[i])
  BY <1>2, <1>4 DEF EQUAL_SOCK_ADDR, g
<1>6. s.groups \in [1 .. n -> Groups]
  BY <1>4, LenProperties
<1>7. IsHost(s)
  <2>1. CASE recorded[i].type = "inet"
    BY <1>2, <1>3, <1>6, <2>1 DEF IsHost
  <2>2. CASE recorded[i].type = "inet6"
    BY <1>2, <1>3, <1>6, <2>2 DEF IsHost
  <2>3. QED
    BY <1>1, <2>1, <2>2
<1>8. QED
  BY <1>2, <1>4, <1>5, <1>7 DEF s, n, g

\* The host of a speaker is found where its socket address is.
LEMMA HostHasBytes ==
  ASSUME AddressInv, NEW i \in 1 .. Len(recorded), NEW p \in Ports, NEW j \in 1 .. Len(recorded)
  PROVE  Is(recorded[j], Host(recorded[i])) <=>
           recorded[j].type = recorded[i].type /\ EQUAL_SOCK_ADDR(set_sockaddr(recorded[i], p), recorded[j])
<1> DEFINE s == set_sockaddr(recorded[i], p)
           g == SubSeq(recorded[i].groups, 1, Size(recorded[i].type))
<1>1. s.groups = g
  BY SockaddrFields
<1>2. Host(recorded[i]) = [family |-> recorded[i].type, groups |-> g]
  BY DEF Host, Size
<1> HIDE DEF s, g
<1>3. Is(recorded[j], Host(recorded[i])) <=>
        recorded[j].type = recorded[i].type /\ SubSeq(recorded[j].groups, 1, Len(g)) = g
  BY <1>2 DEF Is
<1>4. EQUAL_SOCK_ADDR(s, recorded[j]) <=> SubSeq(recorded[j].groups, 1, Len(g)) = g
  BY <1>1 DEF EQUAL_SOCK_ADDR
<1>5. QED
  BY <1>3, <1>4 DEF s

LEMMA AddrsAreFound == AddressInv => AddrIsFound
<1>0. AddressInv => DOMAIN recorded = 1 .. Len(recorded)
  BY DEF AddressInv
<1> SUFFICES ASSUME AddressInv, NEW i \in 1 .. Len(recorded), NEW p \in Ports, NEW len \in Lens,
                    NEW alike \in SUBSET DOMAIN recorded
             PROVE  LET a     == recorded[i]
                        found == find_speaker_by_addr(set_sockaddr(a, p), len, alike)
                    IN IF a.type = "inet6" /\ len > AddrLen
                       THEN found \in alike \cup {0}
                       ELSE /\ found \in 1 .. i
                            /\ recorded[found].type = a.type =>
                                 found = First({j \in DOMAIN recorded : Is(recorded[j], Host(a))})
  BY <1>0, Zenon DEF AddrIsFound
<1> DEFINE a == recorded[i]
           s == set_sockaddr(a, p)
           behind == a.type = "inet6" /\ len > AddrLen
           S == {j \in DOMAIN recorded : EQUAL_SOCK_ADDR(s, recorded[j]) /\ (behind => j \in alike)}
           T == {j \in DOMAIN recorded : Is(recorded[j], Host(a))}
           found == find_speaker_by_addr(s, len, alike)
<1>1. s.family = a.type /\ EQUAL_SOCK_ADDR(s, a)
  BY SockaddrFields
<1>2. found = First(S)
  <2>1. {j \in DOMAIN recorded : EQUAL_SOCK_ADDR(s, recorded[j])
                               /\ (s.family = "inet6" /\ len > AddrLen => j \in alike)} = S
    BY <1>1, Zenon
  <2>2. QED
    BY <2>1, Zenon DEF find_speaker_by_addr
<1>3. S \in SUBSET (Nat \ {0}) /\ T \in SUBSET (Nat \ {0}) /\ i \in Nat /\ S \subseteq DOMAIN recorded
  BY DEF AddressInv
<1>4. behind => S \subseteq alike
  OBVIOUS
<1>5. ~behind => i \in S
  BY <1>1
<1>6. \A j \in T : ~behind => j \in S
  BY <1>0, HostHasBytes, Zenon
<1>7. \A j \in S : recorded[j].type = a.type => j \in T
  BY <1>0, HostHasBytes, Zenon
<1> HIDE DEF found, S, T
<1>8. found = 0 \/ (found \in S /\ \A j \in S : found <= j)
  BY <1>2, <1>3, FirstIsFirst
<1>9. CASE behind
  BY <1>4, <1>8, <1>9 DEF found
<1>10. CASE ~behind
  <2>1. found \in S /\ \A j \in S : found <= j
    BY <1>2, <1>3, <1>5, <1>10, FirstIsFirst
  <2>2. found \in 1 .. i
    BY <1>3, <1>5, <1>10, <2>1
  <2>3. ASSUME recorded[found].type = a.type
        PROVE  found = First(T)
    <3>1. found \in T
      BY <1>7, <2>1, <2>3
    <3>2. First(T) \in T /\ First(T) <= found
      BY <1>3, <3>1, FirstIsFirst
    <3>3. found <= First(T) /\ found \in Nat /\ First(T) \in Nat
      BY <1>3, <1>6, <1>10, <2>1, <3>1, <3>2
    <3>4. QED
      BY <3>2, <3>3
  <2>4. QED
    BY <1>10, <2>2, <2>3 DEF found, T
<1>11. QED
  BY <1>9, <1>10

LEMMA SockaddrsReturn == AddressInv => SockaddrRoundTrip
<1> SUFFICES ASSUME AddressInv, NEW i \in 1 .. Len(recorded), NEW p \in Ports
             PROVE  LET s == set_sockaddr(recorded[i], p)
                    IN /\ Is(get_sockaddr(s), Host(recorded[i]))
                       /\ is_addr_valid(get_sockaddr(s)) <=> is_addr_valid(recorded[i])
                       /\ EQUAL_SOCK_ADDR(s, recorded[i])
                       /\ sockaddr_port(s) = p % 65536
  BY SMTT(30) DEF SockaddrRoundTrip, AddressInv
<1> DEFINE s == set_sockaddr(recorded[i], p)
           n == Size(recorded[i].type)
           a == get_sockaddr(s)
           g == recorded[i].groups
<1>1. /\ s.family = recorded[i].type /\ s.port = p % 65536 /\ IsHost(s)
      /\ s.groups = SubSeq(g, 1, n) /\ s.groups \in Seq(Groups) /\ Len(s.groups) = n
      /\ \A k \in 1 .. n : s.groups[k] = g[k]
      /\ EQUAL_SOCK_ADDR(s, recorded[i])
  BY SockaddrFields
<1>2. recorded[i].type \in {"inet", "inet6"}
  BY RecordedFields
<1>3. n \in {2, 8} /\ (n = 2 <=> recorded[i].type = "inet")
  BY <1>2 DEF Size
<1>4. 0 \in Rest /\ a = AddrOver(s, 0)
  BY AddressAssumption DEF get_sockaddr
<1> HIDE DEF s, a
<1>5. /\ a.type = s.family /\ a.groups \in Seq(Groups) /\ Len(a.groups) = 8
      /\ \A k \in AddrPlaces : a.groups[k] = IF k <= Size(s.family) THEN s.groups[k] ELSE 0
  <2>1. IsHost(s) /\ 0 \in Rest /\ a = AddrOver(s, 0)
    BY <1>1, <1>4
  <2>2. QED
    BY <2>1, AddrFields
<1> HIDE DEF n, g
<1>6. \A k \in 1 .. n : a.groups[k] = g[k]
  <2>1. \A k \in 1 .. n : k \in AddrPlaces /\ k <= n
    BY <1>3 DEF AddrPlaces
  <2>2. Size(s.family) = n
    BY <1>1 DEF n
  <2>3. QED
    BY <1>1, <1>5, <2>1, <2>2
<1>7. SubSeq(a.groups, 1, n) = s.groups
  <2>1. /\ SubSeq(a.groups, 1, n) \in Seq(Groups) /\ Len(SubSeq(a.groups, 1, n)) = n
        /\ \A k \in 1 .. n : SubSeq(a.groups, 1, n)[k] = a.groups[k]
    BY <1>3, <1>5, Beginnings
  <2>2. QED
    BY <1>1, <1>6, <2>1, SameGroups
<1>8. Is(a, [family |-> recorded[i].type, groups |-> SubSeq(g, 1, n)])
  BY <1>1, <1>5, <1>7 DEF Is
<1>9. is_addr_valid(a) <=> is_addr_valid(recorded[i])
  <2>1. a.type = recorded[i].type
    BY <1>1, <1>5
  <2>2. CASE recorded[i].type = "inet"
    BY <1>3, <1>6, <2>1, <2>2 DEF is_addr_valid, g
  <2>3. CASE recorded[i].type = "inet6"
    <3>1. \A k \in 1 .. 4 : k \in 1 .. n
      BY <1>3, <2>3
    <3>2. QED
      BY <1>6, <2>1, <2>3, <3>1 DEF is_addr_valid, g
  <2>4. QED
    BY <1>2, <2>2, <2>3
<1>10. QED
  BY <1>1, <1>8, <1>9 DEF sockaddr_port, a, s, n, g, Size, Host

\* Which speaker an address leads to, for any hosts, texts, ports and contents
\* of memory and any number of speakers of both families: by addr_t the first of
\* those recorded over zeroed memory and no other, by socket address the first
\* with the same bytes, if the caller's len is that of the bare address, and an
\* address survives the way into a socket address and back
\* (find_speaker_by_ip, find_speaker_by_addr, set_sockaddr, get_sockaddr).
THEOREM WhichSpeakersAreFound == AddressSpec => []SpeakersAreFound
<1>1. AddressInit => AddressInv
  BY DEF AddressInit, AddressInv, Range
<1>2. AddressInv => SpeakersAreFound
  BY PeersAreFound, AddrsAreFound, SockaddrsReturn DEF SpeakersAreFound
<1>3. QED
  BY <1>1, <1>2, AddressStep, PTL DEF AddressSpec

-----------------------------------------------------------------------------
(* Packages: bytes in buffers.                                             *)

\* The bytes t are in the buffer at o.
Holds(pack, o, t) == \A k \in 1 .. Len(t) : pack[o + k - 1] = t[k]

LEMMA RoomIs == \A k : k \in Room <=> k \in Nat /\ k < 36
BY SMTT(30) DEF Room

LEMMA NibbleIs == \A x : x \in Nibble <=> x \in Nat /\ x < 16
BY SMTT(30) DEF Nibble

LEMMA ByteIs == \A x : x \in Byte <=> x \in Nat /\ x < 256
BY SMTT(30) DEF Byte

LEMMA HalfIs == \A x : x \in Half => x \in Nat /\ x < 65536
<1>1. PICK m \in Int : m = 65535
  OBVIOUS
<1>2. Half = 0 .. m
  BY <1>1 DEF Half
<1>3. m < 65536
  BY <1>1
<1> SUFFICES ASSUME NEW x, x \in Half
             PROVE  x \in Nat /\ x < 65536
  OBVIOUS
<1>4. x \in Nat /\ x <= m
  BY <1>2
<1>5. QED
  BY <1>3, <1>4

LEMMA WriteHolds ==
  ASSUME NEW S, NEW t \in Seq(S), NEW o \in Nat, o + Len(t) <= 36, NEW pack
  PROVE  Holds(Write(pack, o, t), o, t)
<1> SUFFICES ASSUME NEW k \in 1 .. Len(t)
             PROVE  Write(pack, o, t)[o + k - 1] = t[k]
  BY DEF Holds
<1>1. o + k - 1 \in Room /\ (o + k - 1) - o + 1 = k /\ k \in DOMAIN t
  BY RoomIs
<1>2. QED
  BY <1>1 DEF Write

LEMMA WriteKeeps ==
  ASSUME NEW S, NEW t \in Seq(S), NEW o \in Nat, o + Len(t) <= 36, NEW pack,
         NEW u \in Seq(S), NEW q \in Nat, o + Len(t) <= q \/ q + Len(u) <= o,
         Holds(pack, o, t)
  PROVE  Holds(Write(pack, q, u), o, t)
<1> SUFFICES ASSUME NEW k \in 1 .. Len(t)
             PROVE  Write(pack, q, u)[o + k - 1] = t[k]
  BY DEF Holds
<1>1. o + k - 1 \in Room /\ (o + k - 1) - q + 1 \notin DOMAIN u
  BY RoomIs
<1>2. pack[o + k - 1] = t[k]
  BY DEF Holds
<1>3. QED
  BY <1>1, <1>2 DEF Write

\* What the receiver has of what was sent.
LEMMA Received ==
  ASSUME NEW S, NEW t \in Seq(S), NEW o \in Nat, NEW size \in Nat, o + Len(t) <= size, size <= 36,
         NEW pack, NEW mine, Holds(pack, o, t)
  PROVE  Holds(Write(mine, 0, Read(pack, 0, size)), o, t)
<1> SUFFICES ASSUME NEW k \in 1 .. Len(t)
             PROVE  Write(mine, 0, Read(pack, 0, size))[o + k - 1] = t[k]
  BY DEF Holds
<1>1. o + k - 1 \in Room /\ o + k - 1 = (o + k - 1) - 0 + 1 - 1
  BY RoomIs
<1>2. (o + k - 1) - 0 + 1 \in 1 .. size /\ 0 + ((o + k - 1) - 0 + 1) - 1 = o + k - 1
  OBVIOUS
<1>3. DOMAIN Read(pack, 0, size) = 1 .. size
  BY DEF Read
<1>4. Read(pack, 0, size)[(o + k - 1) - 0 + 1] = pack[o + k - 1]
  BY <1>2 DEF Read
<1>5. Write(mine, 0, Read(pack, 0, size))[o + k - 1] = Read(pack, 0, size)[(o + k - 1) - 0 + 1]
  BY <1>1, <1>2, <1>3 DEF Write
<1>6. QED
  BY <1>4, <1>5 DEF Holds

LEMMA HoldsBoth ==
  ASSUME NEW S, NEW t \in Seq(S), NEW u \in Seq(S), NEW o \in Nat, NEW pack,
         Holds(pack, o, t \o u)
  PROVE  Holds(pack, o, t) /\ Holds(pack, o + Len(t), u)
<1>1. Len(t \o u) = Len(t) + Len(u)
  OBVIOUS
<1>2. ASSUME NEW k \in 1 .. Len(t) PROVE pack[o + k - 1] = t[k]
  <2>1. k \in 1 .. Len(t \o u) /\ (t \o u)[k] = t[k]
    BY <1>1
  <2>2. QED
    BY <2>1 DEF Holds
<1>3. ASSUME NEW k \in 1 .. Len(u) PROVE pack[o + Len(t) + k - 1] = u[k]
  <2>1. /\ Len(t) + k \in 1 .. Len(t \o u) /\ (t \o u)[Len(t) + k] = u[k]
        /\ o + (Len(t) + k) - 1 = o + Len(t) + k - 1
    BY <1>1
  <2>2. QED
    BY <2>1 DEF Holds
<1>4. QED
  BY <1>2, <1>3 DEF Holds

LEMMA WritesBoth ==
  ASSUME NEW S, NEW t \in Seq(S), NEW u \in Seq(S), NEW n \in Nat, Len(t) = n, n + Len(u) <= 36,
         NEW pack
  PROVE  Holds(Write(pack, 0, t \o u), 0, t) /\ Holds(Write(pack, 0, t \o u), n, u)
<1> DEFINE tu == t \o u
           p == Write(pack, 0, tu)
<1>1. tu \in Seq(S) /\ Len(tu) = Len(t) + Len(u)
  BY ConcatProperties, Zenon
<1>2. Holds(p, 0, tu)
  <2> HIDE DEF tu
  <2>1. 0 \in Nat /\ 0 + Len(tu) <= 36
    BY <1>1
  <2>2. QED
    BY <1>1, <2>1, WriteHolds, Zenon
<1> HIDE DEF p
<1>3. 0 \in Nat /\ 0 + Len(t) = n
  OBVIOUS
<1>4. Holds(p, 0, t) /\ Holds(p, 0 + Len(t), u)
  BY <1>2, <1>3, HoldsBoth, Zenon
<1>5. QED
  BY <1>3, <1>4, Zenon DEF p, tu

LEMMA ReadIs ==
  ASSUME NEW S, NEW t \in Seq(S), NEW o \in Nat, NEW pack, Holds(pack, o, t)
  PROVE  Read(pack, o, Len(t)) = t
BY DEF Holds, Read

LEMMA ReadsIn ==
  ASSUME NEW pack, NEW n \in Nat, NEW a \in Nat, NEW b \in Nat, a <= b, b <= n
  PROVE  SubSeq(Read(pack, 0, n), a + 1, b) = Read(pack, a, b - a)
<1> DEFINE S == {Read(pack, 0, n)[k] : k \in 1 .. n}
<1>1. Read(pack, 0, n) \in Seq(S)
  <2>1. Read(pack, 0, n) \in [1 .. n -> S]
    BY DEF Read
  <2>2. QED
    BY <2>1, SeqDef
<1> HIDE DEF S
<1>2. Len(Read(pack, 0, n)) = n
  BY <1>1 DEF Read
<1>3. /\ Len(SubSeq(Read(pack, 0, n), a + 1, b)) = b - a
      /\ \A k \in 1 .. b - a : SubSeq(Read(pack, 0, n), a + 1, b)[k] = Read(pack, 0, n)[a + k]
  BY <1>1, <1>2
<1>4. \A k \in 1 .. b - a : Read(pack, 0, n)[a + k] = Read(pack, a, b - a)[k]
  BY DEF Read
<1>5. SubSeq(Read(pack, 0, n), a + 1, b) = [k \in 1 .. b - a |-> SubSeq(Read(pack, 0, n), a + 1, b)[k]]
  BY <1>1, <1>2, <1>3
<1>6. QED
  BY <1>3, <1>4, <1>5 DEF Read

\* The numbers the headers are made of.
LEMMA ByteHeld ==
  ASSUME NEW b, NEW o \in Nat, NEW pack, Holds(pack, o, <<b>>)
  PROVE  pack[o] = b
<1>1. 1 \in 1 .. Len(<<b>>) /\ <<b>>[1] = b /\ o + 1 - 1 = o
  OBVIOUS
<1>2. QED
  BY <1>1 DEF Holds

LEMMA U16Type == \A x \in Half : U16(x) \in Seq(Byte) /\ Len(U16(x)) = 2
BY HalfIs, ByteIs DEF U16

LEMMA U32Type ==
  ASSUME NEW x, x[1] \in Half, x[2] \in Half
  PROVE  U32(x) \in Seq(Byte) /\ Len(U32(x)) = 4
<1> DEFINE a == U16(x[1])
           b == U16(x[2])
<1>1. a \in Seq(Byte) /\ Len(a) = 2 /\ b \in Seq(Byte) /\ Len(b) = 2
  BY U16Type
<1> HIDE DEF a, b
<1>2. a \o b \in Seq(Byte) /\ Len(a \o b) = Len(a) + Len(b)
  BY <1>1, ConcatProperties, Zenon
<1>3. QED
  BY <1>1, <1>2 DEF U32, a, b

LEMMA HalfFromBytes == \A x \in Nat : x < 65536 => (x % 256) + 256 * ((x \div 256) % 256) = x
OBVIOUS

LEMMA U16Held ==
  ASSUME NEW x \in Half, NEW o \in Nat, NEW pack, Holds(pack, o, U16(x))
  PROVE  U16At(pack, o) = x
<1>1. /\ Len(U16(x)) = 2 /\ U16(x)[1] = x % 256 /\ U16(x)[2] = (x \div 256) % 256
      /\ 1 \in 1 .. 2 /\ 2 \in 1 .. 2 /\ o + 1 - 1 = o /\ o + 2 - 1 = o + 1
  BY DEF U16
<1>2. pack[o] = x % 256 /\ pack[o + 1] = (x \div 256) % 256
  BY <1>1 DEF Holds
<1>3. QED
  BY <1>2, HalfFromBytes, HalfIs DEF U16At

LEMMA U32Held ==
  ASSUME NEW x, x[1] \in Half, x[2] \in Half, NEW o \in Nat, NEW pack, Holds(pack, o, U32(x))
  PROVE  U16At(pack, o) = x[1] /\ U16At(pack, o + 2) = x[2]
<1>1. Holds(pack, o, U16(x[1])) /\ Holds(pack, o + 2, U16(x[2]))
  BY U16Type, HoldsBoth DEF U32
<1>2. QED
  BY <1>1, U16Held

LEMMA HalvesAre ==
  /\ \A x \in Halves(2) : x[1] \in Half /\ x[2] \in Half /\ x = <<x[1], x[2]>>
  /\ \A x \in Halves(4) :
       /\ x[1] \in Half /\ x[2] \in Half /\ x[3] \in Half /\ x[4] \in Half
       /\ x = <<x[1], x[2], x[3], x[4]>>
BY DEF Halves

LEMMA NibblesFit ==
  \A a, b \in Nat : b < 16 => BIT_4TO8(a, b) \in Nat /\ BIT_4TO8(a, b) < 256
BY DEF BIT_4TO8

LEMMA LowerHalfTold ==
  \A a, b \in Nat : b < 16 => High(BIT_4TO8(a, b)) = a % 16 /\ Low(BIT_4TO8(a, b)) = b
BY DEF BIT_4TO8, High, Low

LEMMA NibblesTold ==
  \A a, b \in Nat : a < 16 /\ b < 16 => High(BIT_4TO8(a, b)) = a /\ Low(BIT_4TO8(a, b)) = b
BY DEF BIT_4TO8, High, Low

LEMMA BytesAreSeqs ==
  ASSUME NEW n \in Nat, NEW t \in Bytes(n)
  PROVE  t \in Seq(Byte) /\ Len(t) = n
<1>1. t \in Seq(Byte)
  BY SeqDef DEF Bytes
<1>2. DOMAIN t = 1 .. n
  BY DEF Bytes
<1>3. QED
  BY <1>1, <1>2

LEMMA AddressBytes ==
  ASSUME NEW sf, NEW ip \in Bytes(16)
  PROVE  /\ AddrSize(sf) \in {4, 16}
         /\ SubSeq(ip, 1, AddrSize(sf)) \in Seq(Byte) /\ Len(SubSeq(ip, 1, AddrSize(sf))) = AddrSize(sf)
<1>1. AddrSize(sf) \in {4, 16}
  BY DEF AddrSize
<1>2. \A k \in 1 .. AddrSize(sf) : ip[k] \in Byte
  BY <1>1 DEF Bytes
<1>3. QED
  BY <1>1, <1>2, SubSeqProperties

-----------------------------------------------------------------------------
(* Requests.                                                               *)

RequestTypes ==
  [ver : Nibble, connected : Nibble, type : Families, ip : Bytes(16), id : Halves(2),
   mac : Bytes(6), rate_mask : Half, bits_mask : Byte, data_port : Half]

Flags(req) == req.ver * 16 + (IF req.connected /= 0 THEN 8 ELSE 0)
                + (IF req.type = "inet6" THEN 4 ELSE 0)

\* The fields of a request are where spk_detect_request_encode puts them.
HoldsRequest(pack, n, req) ==
  /\ Holds(pack, 0, <<Flags(req)>>)
  /\ Holds(pack, 1, SubSeq(req.ip, 1, n))
  /\ Holds(pack, 1 + n, U32(req.id))
  /\ Holds(pack, 5 + n, req.mac)
  /\ Holds(pack, 11 + n, U16(req.rate_mask))
  /\ Holds(pack, 13 + n, <<req.bits_mask>>)
  /\ Holds(pack, 14 + n, U16(req.data_port))

LEMMA HoldsAll ==
  ASSUME NEW S, NEW a \in Seq(S), NEW b \in Seq(S), NEW c \in Seq(S), NEW d \in Seq(S),
         NEW e \in Seq(S), NEW f \in Seq(S), NEW g \in Seq(S), NEW pack,
         Len(a) = 1, Len(c) = 4, Len(d) = 6, Len(e) = 2, Len(f) = 1,
         Holds(pack, 0, a \o b \o c \o d \o e \o f \o g)
  PROVE  /\ Holds(pack, 0, a) /\ Holds(pack, 1, b) /\ Holds(pack, 1 + Len(b), c)
         /\ Holds(pack, 5 + Len(b), d) /\ Holds(pack, 11 + Len(b), e)
         /\ Holds(pack, 13 + Len(b), f) /\ Holds(pack, 14 + Len(b), g)
<1> DEFINE ab == a \o b
           abc == ab \o c
           abcd == abc \o d
           abcde == abcd \o e
           abcdef == abcde \o f
<1>1. ab \in Seq(S) /\ Len(ab) = Len(a) + Len(b)
  BY ConcatProperties, Zenon
<1>2. abc \in Seq(S) /\ Len(abc) = Len(ab) + Len(c)
  <2> HIDE DEF ab
  <2>1. QED BY <1>1, ConcatProperties, Zenon
<1>3. abcd \in Seq(S) /\ Len(abcd) = Len(abc) + Len(d)
  <2> HIDE DEF abc
  <2>1. QED BY <1>2, ConcatProperties, Zenon
<1>4. abcde \in Seq(S) /\ Len(abcde) = Len(abcd) + Len(e)
  <2> HIDE DEF abcd
  <2>1. QED BY <1>3, ConcatProperties, Zenon
<1>5. abcdef \in Seq(S) /\ Len(abcdef) = Len(abcde) + Len(f)
  <2> HIDE DEF abcde
  <2>1. QED BY <1>4, ConcatProperties, Zenon
<1>6. Holds(pack, 0, abcdef) /\ Holds(pack, 0 + Len(abcdef), g)
  <2>1. Holds(pack, 0, abcdef \o g)
    OBVIOUS
  <2> HIDE DEF abcdef
  <2>2. QED
    BY <2>1, <1>5, HoldsBoth
<1>7. Holds(pack, 0, abcde) /\ Holds(pack, 0 + Len(abcde), f)
  <2> HIDE DEF abcde
  <2>1. QED BY <1>6, <1>4, HoldsBoth
<1>8. Holds(pack, 0, abcd) /\ Holds(pack, 0 + Len(abcd), e)
  <2> HIDE DEF abcd
  <2>1. QED BY <1>7, <1>3, HoldsBoth
<1>9. Holds(pack, 0, abc) /\ Holds(pack, 0 + Len(abc), d)
  <2> HIDE DEF abc
  <2>1. QED BY <1>8, <1>2, HoldsBoth
<1>10. Holds(pack, 0, ab) /\ Holds(pack, 0 + Len(ab), c)
  <2> HIDE DEF ab
  <2>1. QED BY <1>9, <1>1, HoldsBoth
<1>11. Holds(pack, 0, a) /\ Holds(pack, 0 + Len(a), b)
  BY <1>10, HoldsBoth
<1> HIDE DEF ab, abc, abcd, abcde, abcdef
<1>12. /\ 0 + Len(a) = 1 /\ 0 + Len(ab) = 1 + Len(b) /\ 0 + Len(abc) = 5 + Len(b)
       /\ 0 + Len(abcd) = 11 + Len(b) /\ 0 + Len(abcde) = 13 + Len(b)
       /\ 0 + Len(abcdef) = 14 + Len(b)
  BY <1>1, <1>2, <1>3, <1>4, <1>5
<1>13. QED
  BY <1>6, <1>7, <1>8, <1>9, <1>10, <1>11, <1>12

LEMMA RequestPieces ==
  ASSUME NEW sf, NEW req \in RequestTypes
  PROVE  /\ <<Flags(req)>> \in Seq(Byte) /\ Len(<<Flags(req)>>) = 1
         /\ SubSeq(req.ip, 1, AddrSize(sf)) \in Seq(Byte)
         /\ Len(SubSeq(req.ip, 1, AddrSize(sf))) = AddrSize(sf)
         /\ U32(req.id) \in Seq(Byte) /\ Len(U32(req.id)) = 4
         /\ req.mac \in Seq(Byte) /\ Len(req.mac) = 6
         /\ U16(req.rate_mask) \in Seq(Byte) /\ Len(U16(req.rate_mask)) = 2
         /\ <<req.bits_mask>> \in Seq(Byte) /\ Len(<<req.bits_mask>>) = 1
         /\ U16(req.data_port) \in Seq(Byte) /\ Len(U16(req.data_port)) = 2
<1>1. /\ req.ver \in Nibble /\ req.ip \in Bytes(16) /\ req.id \in Halves(2) /\ req.mac \in Bytes(6)
      /\ req.rate_mask \in Half /\ req.bits_mask \in Byte /\ req.data_port \in Half
  BY DEF RequestTypes
<1>2. Flags(req) \in Byte
  BY <1>1, NibbleIs, ByteIs DEF Flags
<1>3. \A b \in Byte : <<b>> \in Seq(Byte) /\ Len(<<b>>) = 1
  OBVIOUS
<1>4. req.mac \in Seq(Byte) /\ Len(req.mac) = 6
  BY <1>1, BytesAreSeqs
<1>5. QED
  BY <1>1, <1>2, <1>3, <1>4, AddressBytes, U16Type, U32Type, HalvesAre

LEMMA RequestEncoded ==
  ASSUME NEW sf, NEW req \in RequestTypes, NEW mine
  PROVE  HoldsRequest(spk_detect_request_encode(sf, mine, req), AddrSize(sf), req)
<1> DEFINE a == <<Flags(req)>>
           b == SubSeq(req.ip, 1, AddrSize(sf))
           c == U32(req.id)
           d == req.mac
           e == U16(req.rate_mask)
           f == <<req.bits_mask>>
           g == U16(req.data_port)
           t == a \o b \o c \o d \o e \o f \o g
           p == Write(mine, 0, t)
<1>1. p = spk_detect_request_encode(sf, mine, req)
  BY DEF spk_detect_request_encode, Flags
<1>2. /\ a \in Seq(Byte) /\ Len(a) = 1 /\ b \in Seq(Byte) /\ Len(b) = AddrSize(sf)
      /\ c \in Seq(Byte) /\ Len(c) = 4 /\ d \in Seq(Byte) /\ Len(d) = 6
      /\ e \in Seq(Byte) /\ Len(e) = 2 /\ f \in Seq(Byte) /\ Len(f) = 1
      /\ g \in Seq(Byte) /\ Len(g) = 2
  BY RequestPieces
<1> HIDE DEF a, b, c, d, e, f, g
<1>3. AddrSize(sf) \in {4, 16}
  BY DEF AddrSize
<1>4. t \in Seq(Byte) /\ Len(t) = AddrSize(sf) + 16
  <2> DEFINE ab == a \o b
             abc == ab \o c
             abcd == abc \o d
             abcde == abcd \o e
             abcdef == abcde \o f
  <2>1. ab \in Seq(Byte) /\ Len(ab) = Len(a) + Len(b)
    BY <1>2, ConcatProperties, Zenon
  <2> HIDE DEF ab
  <2>2. abc \in Seq(Byte) /\ Len(abc) = Len(ab) + Len(c)
    BY <1>2, <2>1, ConcatProperties, Zenon
  <2> HIDE DEF abc
  <2>3. abcd \in Seq(Byte) /\ Len(abcd) = Len(abc) + Len(d)
    BY <1>2, <2>2, ConcatProperties, Zenon
  <2> HIDE DEF abcd
  <2>4. abcde \in Seq(Byte) /\ Len(abcde) = Len(abcd) + Len(e)
    BY <1>2, <2>3, ConcatProperties, Zenon
  <2> HIDE DEF abcde
  <2>5. abcdef \in Seq(Byte) /\ Len(abcdef) = Len(abcde) + Len(f)
    BY <1>2, <2>4, ConcatProperties, Zenon
  <2> HIDE DEF abcdef
  <2>6. abcdef \o g \in Seq(Byte) /\ Len(abcdef \o g) = Len(abcdef) + Len(g)
    BY <1>2, <2>5, ConcatProperties, Zenon
  <2> HIDE DEF t, p
  <2>7. Len(abcdef) + Len(g) = AddrSize(sf) + 16
    <3>1. Len(ab) = AddrSize(sf) + 1 /\ Len(abc) = AddrSize(sf) + 5
      BY <1>2, <1>3, <2>1, <2>2
    <3>2. Len(abcd) = AddrSize(sf) + 11
      BY <1>2, <1>3, <3>1, <2>3
    <3>3. Len(abcde) = AddrSize(sf) + 13
      BY <1>2, <1>3, <3>2, <2>4
    <3>4. Len(abcdef) = Len(abcde) + 1 /\ Len(g) = 2
      BY <1>2, <2>5
    <3>5. AddrSize(sf) \in Int
      BY <1>3
    <3>6. QED
      BY <3>3, <3>4, <3>5
  <2>8. QED
    BY <2>6, <2>7, Zenon DEF t, abcdef, abcde, abcd, abc, ab
<1>5. Holds(p, 0, t)
  <2> HIDE DEF t
  <2>1. QED
    BY <1>3, <1>4, WriteHolds
<1>6. /\ Holds(p, 0, a) /\ Holds(p, 1, b) /\ Holds(p, 1 + Len(b), c) /\ Holds(p, 5 + Len(b), d)
      /\ Holds(p, 11 + Len(b), e) /\ Holds(p, 13 + Len(b), f) /\ Holds(p, 14 + Len(b), g)
  <2> HIDE DEF p
  <2>1. QED
    BY <1>2, <1>5, HoldsAll, ZenonT(30)
<1>7. QED
  BY <1>1, <1>2, <1>6 DEF HoldsRequest, a, b, c, d, e, f, g

LEMMA RequestReceived ==
  ASSUME NEW sf, NEW req \in RequestTypes, NEW pack, NEW mine,
         HoldsRequest(pack, AddrSize(sf), req)
  PROVE  HoldsRequest(Write(mine, 0, Read(pack, 0, spk_detect_request_size(sf))), AddrSize(sf), req)
<1> DEFINE n == AddrSize(sf)
           size == spk_detect_request_size(sf)
           p == Write(mine, 0, Read(pack, 0, size))
<1>1. n \in {4, 16} /\ size = n + 16
  BY DEF AddrSize, spk_detect_request_size
<1> HIDE DEF n, size
<1>2. \A t \in Seq(Byte) : \A o \in Nat :
        o + Len(t) <= n + 16 /\ Holds(pack, o, t) => Holds(p, o, t)
  BY <1>1, Received
<1> HIDE DEF p
<1>3. HoldsRequest(pack, n, req)
  BY DEF n
<1>4. HoldsRequest(p, n, req)
  <2> DEFINE a == <<Flags(req)>>
             b == SubSeq(req.ip, 1, n)
             c == U32(req.id)
             d == req.mac
             e == U16(req.rate_mask)
             f == <<req.bits_mask>>
             g == U16(req.data_port)
  <2>1. /\ a \in Seq(Byte) /\ Len(a) = 1 /\ b \in Seq(Byte) /\ Len(b) = n
        /\ c \in Seq(Byte) /\ Len(c) = 4 /\ d \in Seq(Byte) /\ Len(d) = 6
        /\ e \in Seq(Byte) /\ Len(e) = 2 /\ f \in Seq(Byte) /\ Len(f) = 1
        /\ g \in Seq(Byte) /\ Len(g) = 2
    BY RequestPieces DEF n
  <2>2. /\ Holds(pack, 0, a) /\ Holds(pack, 1, b) /\ Holds(pack, 1 + n, c) /\ Holds(pack, 5 + n, d)
        /\ Holds(pack, 11 + n, e) /\ Holds(pack, 13 + n, f) /\ Holds(pack, 14 + n, g)
    BY <1>3 DEF HoldsRequest
  <2> HIDE DEF a, b, c, d, e, f, g
  <2>3. /\ 0 \in Nat /\ 0 + Len(a) <= n + 16
        /\ 1 \in Nat /\ 1 + Len(b) <= n + 16
        /\ 1 + n \in Nat /\ 1 + n + Len(c) <= n + 16
        /\ 5 + n \in Nat /\ 5 + n + Len(d) <= n + 16
        /\ 11 + n \in Nat /\ 11 + n + Len(e) <= n + 16
        /\ 13 + n \in Nat /\ 13 + n + Len(f) <= n + 16
        /\ 14 + n \in Nat /\ 14 + n + Len(g) <= n + 16
    BY <1>1, <2>1
  <2>4. /\ Holds(p, 0, a) /\ Holds(p, 1, b) /\ Holds(p, 1 + n, c) /\ Holds(p, 5 + n, d)
        /\ Holds(p, 11 + n, e) /\ Holds(p, 13 + n, f) /\ Holds(p, 14 + n, g)
    BY <1>2, <2>1, <2>2, <2>3, Zenon
  <2>5. QED
    BY <2>4 DEF HoldsRequest, a, b, c, d, e, f, g
<1>5. QED
  BY <1>4 DEF p, n, size

LEMMA FlagsTold ==
  \A v, c, t, f : v \in Nat /\ v < 16 /\ c \in {0, 1} /\ t \in {0, 1} /\ f = v * 16 + c * 8 + t * 4 =>
    f \div 16 = v /\ (f \div 8) % 2 = c /\ (f \div 4) % 2 = t
OBVIOUS

LEMMA RequestDecoded ==
  ASSUME NEW sf, NEW req \in RequestTypes, NEW pack, HoldsRequest(pack, AddrSize(sf), req),
         req.type = sf, Families \subseteq {"inet", "inet6"}
  PROVE  spk_detect_request_decode(sf, pack) =
           [ver |-> req.ver, connected |-> IF req.connected = 0 THEN 0 ELSE 1, type |-> req.type,
            ip |-> SubSeq(req.ip, 1, AddrSize(sf)), id |-> <<req.id[1], 0>>,
            mac |-> req.mac, rate_mask |-> req.rate_mask, bits_mask |-> req.bits_mask,
            data_port |-> req.data_port]
<1> DEFINE n == AddrSize(sf)
<1>1. n \in {4, 16}
  BY DEF AddrSize
<1>2. /\ req.ver \in Nibble /\ req.ip \in Bytes(16) /\ req.id \in Halves(2) /\ req.mac \in Bytes(6)
      /\ req.rate_mask \in Half /\ req.bits_mask \in Byte /\ req.data_port \in Half
      /\ req.type \in Families
  BY DEF RequestTypes
<1>3. /\ pack[0] \div 16 = req.ver
      /\ (pack[0] \div 8) % 2 = IF req.connected = 0 THEN 0 ELSE 1
      /\ IF (pack[0] \div 4) % 2 = 1 THEN req.type = "inet6" ELSE req.type = "inet"
  <2>1. pack[0] = Flags(req)
    BY ByteHeld DEF HoldsRequest
  <2> DEFINE c == IF req.connected = 0 THEN 0 ELSE 1
             t == IF req.type = "inet6" THEN 1 ELSE 0
  <2>2. c \in {0, 1} /\ t \in {0, 1} /\ (IF t = 1 THEN req.type = "inet6" ELSE req.type = "inet")
    <3>1. CASE req.type = "inet6"
      BY <3>1
    <3>2. CASE req.type = "inet"
      BY <3>2
    <3>3. QED
      BY <1>2, <3>1, <3>2
  <2>3. req.ver \in Nat /\ req.ver < 16
    BY <1>2, NibbleIs
  <2>4. pack[0] = req.ver * 16 + c * 8 + t * 4
    BY <2>1, <2>3 DEF Flags
  <2> HIDE DEF t
  <2>5. pack[0] \div 16 = req.ver /\ (pack[0] \div 8) % 2 = c /\ (pack[0] \div 4) % 2 = t
    <3> HIDE DEF c
    <3>1. QED
      BY <2>2, <2>3, <2>4, FlagsTold
  <2>6. QED
    BY <2>2, <2>5
<1>4. Read(pack, 1, n) = SubSeq(req.ip, 1, n)
  <2>1. SubSeq(req.ip, 1, n) \in Seq(Byte) /\ Len(SubSeq(req.ip, 1, n)) = n
    BY <1>2, AddressBytes
  <2>2. Holds(pack, 1, SubSeq(req.ip, 1, n))
    BY DEF HoldsRequest
  <2>3. QED
    BY <2>1, <2>2, ReadIs
<1> HIDE DEF n
<1>5. U16At(pack, 1 + n) = req.id[1]
  <2>1. req.id[1] \in Half /\ req.id[2] \in Half /\ 1 + n \in Nat
    BY <1>1, <1>2, HalvesAre
  <2>2. Holds(pack, 1 + n, U32(req.id))
    BY DEF HoldsRequest, n
  <2>3. QED
    BY <2>1, <2>2, U32Held, Zenon
<1>6. Read(pack, 5 + n, 6) = req.mac
  <2>1. req.mac \in Seq(Byte) /\ Len(req.mac) = 6
    BY <1>2, BytesAreSeqs
  <2>2. Holds(pack, 5 + n, req.mac)
    BY DEF HoldsRequest, n
  <2>3. 5 + n \in Nat
    BY <1>1
  <2>4. QED
    BY <2>1, <2>2, <2>3, ReadIs
<1>7. /\ U16At(pack, 11 + n) = req.rate_mask /\ pack[13 + n] = req.bits_mask
      /\ U16At(pack, 14 + n) = req.data_port
  <2>1. 11 + n \in Nat /\ 13 + n \in Nat /\ 14 + n \in Nat
    BY <1>1
  <2>2. /\ Holds(pack, 11 + n, U16(req.rate_mask)) /\ Holds(pack, 13 + n, <<req.bits_mask>>)
        /\ Holds(pack, 14 + n, U16(req.data_port))
    BY DEF HoldsRequest, n
  <2>3. QED
    BY <1>2, <2>1, <2>2, U16Held, ByteHeld
<1>8. (1 + n) + 4 = 5 + n /\ (1 + n) + 10 = 11 + n /\ (1 + n) + 12 = 13 + n /\ (1 + n) + 13 = 14 + n
  BY <1>1
<1>9. (IF (pack[0] \div 4) % 2 = 1 THEN "inet6" ELSE "inet") = req.type
  BY <1>3
<1>10. QED
  BY <1>3, <1>4, <1>5, <1>6, <1>7, <1>8, <1>9 DEF spk_detect_request_decode, n


-----------------------------------------------------------------------------
(* Responses, commands, times and samples.                                 *)

LEMMA ByteIsSeq == \A b \in Byte : <<b>> \in Seq(Byte) /\ Len(<<b>>) = 1
OBVIOUS

ResponseTypes == [ver : Nibble, response : Nibble, ip : Bytes(16)]

LEMMA ResponseDecoded ==
  ASSUME NEW sf, NEW res \in ResponseTypes, NEW mine, NEW yours
  PROVE  spk_detect_response_decode(sf,
            Write(yours, 0, Read(spk_detect_response_encode(sf, mine, res), 0,
                                 spk_detect_response_size(sf)))) =
           [ver |-> res.ver, response |-> res.response, type |-> sf,
            ip |-> SubSeq(res.ip, 1, AddrSize(sf))]
<1> DEFINE n == AddrSize(sf)
           a == <<BIT_4TO8(res.ver, res.response)>>
           b == SubSeq(res.ip, 1, n)
           size == spk_detect_response_size(sf)
           p == Write(mine, 0, a \o b)
           q == Write(yours, 0, Read(p, 0, size))
<1>1. n \in {4, 16} /\ size = n + 1
  BY DEF AddrSize, spk_detect_response_size
<1>2. /\ res.ver \in Nat /\ res.ver < 16 /\ res.response \in Nat /\ res.response < 16
      /\ res.ip \in Bytes(16)
  BY NibbleIs DEF ResponseTypes
<1>3. a \in Seq(Byte) /\ Len(a) = 1 /\ b \in Seq(Byte) /\ Len(b) = n
  BY <1>2, NibblesFit, ByteIs, ByteIsSeq, AddressBytes
<1>4. p = spk_detect_response_encode(sf, mine, res)
  BY DEF spk_detect_response_encode
<1>5. q[0] = BIT_4TO8(res.ver, res.response) /\ Read(q, 1, n) = b
  <2> HIDE DEF a, b, n, size
  <2>1. /\ 1 \in Nat /\ 1 + Len(b) <= 36 /\ 0 \in Nat /\ 0 + Len(a) <= size /\ 1 + Len(b) <= size
        /\ size \in Nat /\ size <= 36
    BY <1>1, <1>3
  <2>2. Holds(p, 0, a) /\ Holds(p, 1, b)
    BY <1>3, <2>1, WritesBoth, Zenon
  <2> HIDE DEF p
  <2>3. Holds(q, 0, a) /\ Holds(q, 1, b)
    BY <1>3, <2>1, <2>2, Received, Zenon
  <2> HIDE DEF q
  <2>4. Read(q, 1, n) = b
    BY <1>3, <2>1, <2>3, ReadIs, Zenon
  <2>5. q[0] = BIT_4TO8(res.ver, res.response)
    BY <2>1, <2>3, ByteHeld, Zenon DEF a
  <2>6. QED
    BY <2>4, <2>5
<1> HIDE DEF q
<1>6. spk_detect_response_decode(sf, q) =
        [ver |-> res.ver, response |-> res.response, type |-> sf, ip |-> b]
  <2>1. High(q[0]) = res.ver /\ Low(q[0]) = res.response
    BY <1>2, <1>5, NibblesTold, Zenon
  <2>2. QED
    BY <1>5, <2>1, Zenon DEF spk_detect_response_decode
<1>7. QED
  BY <1>4, <1>6 DEF q

\* A header as control_header_encode puts it, of any of the control packages.
HoldsHead(pack, ctl) ==
  Holds(pack, 0, <<BIT_4TO8(ctl.ver, ctl.cmd)>>) /\ Holds(pack, 1, U32(ctl.spid))

IsHead(ctl) == ctl.ver \in Byte /\ ctl.cmd \in Nibble /\ ctl.spid \in Halves(2)

LEMMA HeadPieces ==
  ASSUME NEW ctl, IsHead(ctl)
  PROVE  /\ <<BIT_4TO8(ctl.ver, ctl.cmd)>> \in Seq(Byte) /\ Len(<<BIT_4TO8(ctl.ver, ctl.cmd)>>) = 1
         /\ U32(ctl.spid) \in Seq(Byte) /\ Len(U32(ctl.spid)) = 4
<1>1. BIT_4TO8(ctl.ver, ctl.cmd) \in Byte
  BY NibblesFit, NibbleIs, ByteIs DEF IsHead
<1>2. QED
  BY <1>1, ByteIsSeq, U32Type, HalvesAre DEF IsHead

LEMMA HeadArrives ==
  ASSUME NEW ctl, IsHead(ctl), NEW t \in Seq(Byte), Len(t) <= 4, NEW mine, NEW yours,
         NEW size \in ControlSizes
  PROVE  LET p == Write(control_header_encode(mine, ctl), ControlHeaderSize, t)
             q == Write(yours, 0, Read(p, 0, size))
         IN /\ control_header_decode(q) = [ver |-> ctl.ver % 16, cmd |-> ctl.cmd, spid |-> ctl.spid]
            /\ 12 + Len(t) <= size => Holds(q, 12, t)
<1> DEFINE a == <<BIT_4TO8(ctl.ver, ctl.cmd)>>
           b == U32(ctl.spid)
           u == a \o b
           h == Write(mine, 0, u)
           p == Write(h, 12, t)
           q == Write(yours, 0, Read(p, 0, size))
<1>0. size \in Nat /\ 5 <= size /\ size <= 36
  BY DEF ControlSizes, CONTROL_PACKAGE_SIZE, CONTROL_TIME_SIZE, ControlHeaderSize
<1>1. a \in Seq(Byte) /\ Len(a) = 1 /\ b \in Seq(Byte) /\ Len(b) = 4
  BY HeadPieces
<1>2. h = control_header_encode(mine, ctl)
  BY DEF control_header_encode
<1> HIDE DEF a, b
<1>3. /\ 0 \in Nat /\ 1 \in Nat /\ 12 \in Nat /\ 1 + Len(b) <= 36
      /\ 0 + Len(a) <= 12 /\ 1 + Len(b) <= 12 /\ 12 + Len(t) <= 36 /\ 0 + Len(a) <= 36
      /\ 0 + Len(a) <= size /\ 1 + Len(b) <= size
  BY <1>0, <1>1
<1>4. Holds(h, 0, a) /\ Holds(h, 1, b)
  BY <1>1, <1>3, WritesBoth, Zenon
<1> HIDE DEF h
<1>5. Holds(p, 0, a) /\ Holds(p, 1, b)
  BY <1>1, <1>3, <1>4, WriteKeeps, Zenon
<1>6. Holds(p, 12, t)
  BY <1>3, WriteHolds, Zenon
<1> HIDE DEF p
<1>7. Holds(q, 0, a) /\ Holds(q, 1, b) /\ (12 + Len(t) <= size => Holds(q, 12, t))
  BY <1>0, <1>1, <1>3, <1>5, <1>6, Received, Zenon
<1> HIDE DEF q
<1>8. q[0] = BIT_4TO8(ctl.ver, ctl.cmd)
  BY <1>3, <1>7, ByteHeld, Zenon DEF a
<1>9. High(q[0]) = ctl.ver % 16 /\ Low(q[0]) = ctl.cmd
  <2>1. ctl.ver \in Nat /\ ctl.cmd \in Nat /\ ctl.cmd < 16
    BY NibbleIs, ByteIs DEF IsHead
  <2>2. QED
    BY <1>8, <2>1, LowerHalfTold, Zenon
<1>10. U32At(q, 1) = ctl.spid
  <2>1. ctl.spid[1] \in Half /\ ctl.spid[2] \in Half /\ ctl.spid = <<ctl.spid[1], ctl.spid[2]>>
    BY HalvesAre DEF IsHead
  <2>2. U16At(q, 1) = ctl.spid[1] /\ U16At(q, 1 + 2) = ctl.spid[2]
    BY <1>3, <1>7, <2>1, U32Held, Zenon DEF b
  <2>3. QED
    BY <2>1, <2>2 DEF U32At
<1>11. QED
  BY <1>2, <1>7, <1>9, <1>10, Zenon DEF control_header_decode, ControlHeaderSize, q, p

CommandTypes ==
  [ver : Byte, cmd : Nibble, spid : Halves(2), bits : Nibble, rate : Nibble, channel : Byte,
   size : Half]

LEMMA CommandDecoded ==
  ASSUME NEW ctl \in CommandTypes, NEW mine, NEW yours, NEW size \in ControlSizes
  PROVE  LET q == Write(yours, 0, Read(control_package_encode(mine, ctl), 0, size))
         IN /\ control_header_decode(q) = [ver |-> ctl.ver % 16, cmd |-> ctl.cmd, spid |-> ctl.spid]
            /\ 14 <= size /\ ctl.cmd = SPCMD_SAMPLE => High(q[12]) = ctl.bits /\ Low(q[12]) = ctl.rate
            /\ 14 <= size /\ ctl.cmd = SPCMD_CHUNK => U16At(q, 12) = ctl.size
<1> DEFINE payload == CASE ctl.cmd = SPCMD_SAMPLE -> <<BIT_4TO8(ctl.bits, ctl.rate), ctl.channel>>
                        [] ctl.cmd = SPCMD_CHUNK  -> U16(ctl.size)
                        [] OTHER                  -> <<>>
           p == Write(control_header_encode(mine, ctl), ControlHeaderSize, payload)
           q == Write(yours, 0, Read(p, 0, size))
<1>1. /\ ctl.ver \in Byte /\ ctl.cmd \in Nibble /\ ctl.spid \in Halves(2)
      /\ ctl.bits \in Nat /\ ctl.bits < 16 /\ ctl.rate \in Nat /\ ctl.rate < 16
      /\ ctl.channel \in Byte /\ ctl.size \in Half
  BY NibbleIs DEF CommandTypes
<1>2. SPCMD_SAMPLE /= SPCMD_CHUNK
  BY DEF SPCMD_SAMPLE, SPCMD_CHUNK
<1>3. p = control_package_encode(mine, ctl)
  BY DEF control_package_encode
<1>4. payload \in Seq(Byte) /\ Len(payload) <= 2
  <2>1. CASE ctl.cmd = SPCMD_SAMPLE
    <3>1. BIT_4TO8(ctl.bits, ctl.rate) \in Byte
      BY <1>1, NibblesFit, ByteIs
    <3>2. \A x, y \in Byte : <<x, y>> \in Seq(Byte) /\ Len(<<x, y>>) <= 2
      OBVIOUS
    <3>3. payload = <<BIT_4TO8(ctl.bits, ctl.rate), ctl.channel>>
      BY <1>2, <2>1
    <3>4. QED
      BY <1>1, <3>1, <3>2, <3>3, Zenon
  <2>2. CASE ctl.cmd = SPCMD_CHUNK
    <3>1. payload = U16(ctl.size)
      BY <1>2, <2>2
    <3>2. U16(ctl.size) \in Seq(Byte) /\ Len(U16(ctl.size)) = 2 /\ 2 <= 2
      BY <1>1, U16Type
    <3>3. QED
      BY <3>1, <3>2, Zenon
  <2>3. CASE ctl.cmd /= SPCMD_SAMPLE /\ ctl.cmd /= SPCMD_CHUNK
    BY <2>3
  <2>4. QED
    BY <2>1, <2>2, <2>3
<1>5. IsHead(ctl)
  BY <1>1 DEF IsHead
<1>6. /\ control_header_decode(q) = [ver |-> ctl.ver % 16, cmd |-> ctl.cmd, spid |-> ctl.spid]
      /\ 14 <= size => Holds(q, 12, payload)
  <2> HIDE DEF payload
  <2>1. Len(payload) <= 4 /\ (14 <= size => 12 + Len(payload) <= size)
    BY <1>4 DEF ControlSizes, CONTROL_PACKAGE_SIZE, CONTROL_TIME_SIZE, ControlHeaderSize
  <2>2. QED
    BY <1>4, <1>5, <2>1, HeadArrives
<1> HIDE DEF p, q
<1>7. ASSUME 14 <= size, ctl.cmd = SPCMD_SAMPLE
      PROVE  High(q[12]) = ctl.bits /\ Low(q[12]) = ctl.rate
  <2> DEFINE x == BIT_4TO8(ctl.bits, ctl.rate)
  <2>1. Holds(q, 12, <<x, ctl.channel>>)
    BY <1>2, <1>6, <1>7
  <2>2. 1 \in 1 .. Len(<<x, ctl.channel>>) /\ <<x, ctl.channel>>[1] = x /\ 12 + 1 - 1 = 12
    OBVIOUS
  <2>3. q[12] = x
    BY <2>1, <2>2 DEF Holds
  <2>4. High(x) = ctl.bits /\ Low(x) = ctl.rate
    BY <1>1, NibblesTold, Zenon
  <2>5. QED
    BY <2>3, <2>4, Zenon
<1>8. ASSUME 14 <= size, ctl.cmd = SPCMD_CHUNK
      PROVE  U16At(q, 12) = ctl.size
  <2>1. Holds(q, 12, U16(ctl.size))
    BY <1>2, <1>6, <1>8
  <2>2. QED
    BY <1>1, <2>1, U16Held
<1>9. QED
  BY <1>3, <1>6, <1>7, <1>8 DEF q

Sign(half) == IF half >= 32768 THEN 65535 ELSE 0

TimeTypes == [ver : Byte, cmd : Nibble, spid : Halves(2), time : Halves(4)]

LEMMA TimeDecoded ==
  ASSUME NEW ctl \in TimeTypes, NEW mine, NEW yours, NEW size \in ControlSizes
  PROVE  LET q == Write(yours, 0, Read(control_time_encode(mine, ctl), 0, size))
             t == ctl.time
         IN /\ control_header_decode(q) = [ver |-> ctl.ver % 16, cmd |-> ctl.cmd, spid |-> ctl.spid]
            /\ 16 <= size => control_time_decode(q).time = <<t[1], t[2], Sign(t[2]), Sign(t[2])>>
<1> DEFINE p == Write(control_header_encode(mine, ctl), ControlHeaderSize, U32(ctl.time))
           q == Write(yours, 0, Read(p, 0, size))
<1>1. /\ IsHead(ctl) /\ ctl.time[1] \in Half /\ ctl.time[2] \in Half
  BY HalvesAre DEF TimeTypes, IsHead
<1>2. p = control_time_encode(mine, ctl)
  BY DEF control_time_encode
<1>3. U32(ctl.time) \in Seq(Byte) /\ Len(U32(ctl.time)) = 4
  BY <1>1, U32Type
<1>4. /\ control_header_decode(q) = [ver |-> ctl.ver % 16, cmd |-> ctl.cmd, spid |-> ctl.spid]
      /\ 16 <= size => Holds(q, 12, U32(ctl.time))
  <2> DEFINE u == U32(ctl.time)
  <2> HIDE DEF u
  <2>1. u \in Seq(Byte) /\ Len(u) <= 4 /\ 12 + Len(u) = 16
    BY <1>3 DEF u
  <2>2. /\ control_header_decode(q) = [ver |-> ctl.ver % 16, cmd |-> ctl.cmd, spid |-> ctl.spid]
        /\ 12 + Len(u) <= size => Holds(q, 12, u)
    BY <1>1, <2>1, HeadArrives, Zenon DEF u
  <2>3. QED
    BY <2>1, <2>2 DEF u
<1> HIDE DEF q
<1>5. 16 <= size => U16At(q, 12) = ctl.time[1] /\ U16At(q, 12 + 2) = ctl.time[2]
  BY <1>1, <1>4, U32Held
<1>6. 16 <= size => U32At(q, ControlHeaderSize) = <<ctl.time[1], ctl.time[2]>>
  BY <1>5 DEF U32At, ControlHeaderSize
<1>7. QED
  BY <1>2, <1>4, <1>6 DEF control_time_decode, q, Sign

StreamTypes ==
  [ver : Nibble, compress : Nibble, bits : Nibble, rate : Nibble, channel : Byte, seq : Half,
   time : Halves(2), len : Half]

LEMMA PcmDecoded ==
  ASSUME NEW hd \in StreamTypes, NEW mine, NEW yours
  PROVE  LET q == Write(yours, 0, Read(pcm_header_encode(mine, hd), 0, PCM_HEADER_SIZE))
             decoded == pcm_header_decode(q)
         IN /\ decoded.ver = hd.ver /\ decoded.compress = hd.compress /\ decoded.bits = hd.bits
            /\ decoded.rate = hd.rate /\ decoded.channel = hd.channel /\ decoded.seq = hd.seq
<1> DEFINE x == BIT_4TO8(hd.ver, hd.compress)
           y == BIT_4TO8(hd.bits, hd.rate)
           a == <<x, y, hd.channel>>
           b == U16(hd.seq)
           c == U16(hd.len)
           ab == a \o b
           t == ab \o c
           p == Write(mine, 0, t)
           q == Write(yours, 0, Read(p, 0, 11))
<1>1. /\ hd.ver \in Nat /\ hd.ver < 16 /\ hd.compress \in Nat /\ hd.compress < 16
      /\ hd.bits \in Nat /\ hd.bits < 16 /\ hd.rate \in Nat /\ hd.rate < 16
      /\ hd.channel \in Byte /\ hd.seq \in Half /\ hd.len \in Half
  BY NibbleIs DEF StreamTypes
<1>2. p = pcm_header_encode(mine, hd)
  BY DEF pcm_header_encode
<1>3. a \in Seq(Byte) /\ Len(a) = 3
  <2>1. x \in Byte /\ y \in Byte
    BY <1>1, NibblesFit, ByteIs
  <2> HIDE DEF x, y
  <2>2. QED
    BY <1>1, <2>1
<1>4. b \in Seq(Byte) /\ Len(b) = 2 /\ c \in Seq(Byte) /\ Len(c) = 2
  BY <1>1, U16Type
<1> HIDE DEF a, b, c
<1>5. ab \in Seq(Byte) /\ Len(ab) = Len(a) + Len(b)
  BY <1>3, <1>4, ConcatProperties, Zenon
<1>6. Len(ab) = 5
  <2> HIDE DEF ab, t, p
  <2>1. QED
    BY <1>3, <1>4, <1>5
<1>7. /\ 0 \in Nat /\ 3 \in Nat /\ 5 \in Nat /\ 11 \in Nat /\ 11 <= 36 /\ 5 + Len(c) <= 36
      /\ 0 + Len(a) <= 11 /\ 3 + Len(b) <= 11 /\ 0 + Len(a) = 3
  BY <1>3, <1>4
<1>8. Holds(p, 0, ab)
  <2> HIDE DEF ab
  <2>1. QED
    BY <1>4, <1>5, <1>6, <1>7, WritesBoth, Zenon
<1> HIDE DEF p
<1>9. Holds(p, 0, a) /\ Holds(p, 0 + Len(a), b)
  BY <1>3, <1>4, <1>7, <1>8, HoldsBoth, Zenon
<1>10. Holds(q, 0, a) /\ Holds(q, 3, b)
  BY <1>3, <1>4, <1>7, <1>9, Received, Zenon
<1> HIDE DEF ab, t
<1> HIDE DEF q
<1>11. q[0] = x /\ q[1] = y /\ q[2] = hd.channel
  <2>1. /\ 1 \in 1 .. Len(a) /\ 2 \in 1 .. Len(a) /\ 3 \in 1 .. Len(a)
        /\ 0 + 1 - 1 = 0 /\ 0 + 2 - 1 = 1 /\ 0 + 3 - 1 = 2
    BY <1>3
  <2>2. q[0] = a[1] /\ q[1] = a[2] /\ q[2] = a[3]
    BY <1>10, <2>1 DEF Holds
  <2>3. QED
    BY <2>2 DEF a
<1>12. U16At(q, 3) = hd.seq
  BY <1>1, <1>7, <1>10, U16Held, Zenon DEF b
<1>13. High(x) = hd.ver /\ Low(x) = hd.compress /\ High(y) = hd.bits /\ Low(y) = hd.rate
  <2>1. High(x) = hd.ver /\ Low(x) = hd.compress
    BY <1>1, NibblesTold, Zenon
  <2>2. High(y) = hd.bits /\ Low(y) = hd.rate
    BY <1>1, NibblesTold, Zenon
  <2>3. QED
    BY <2>1, <2>2
<1>14. QED
  BY <1>2, <1>11, <1>12, <1>13 DEF pcm_header_decode, PCM_HEADER_SIZE, q

-----------------------------------------------------------------------------
(* What is under way is what one encoder made of one header, and what has  *)
(* been received of it is what the decoder makes of those bytes, behind    *)
(* whatever the receiver's memory held.                                    *)

Encoded(kind, sf, header, j) ==
  CASE kind = "request"  -> spk_detect_request_encode(sf, Memory(j), header)
    [] kind = "response" -> spk_detect_response_encode(sf, Memory(j), header)
    [] kind = "command"  -> control_package_encode(Memory(j), header)
    [] kind = "time"     -> control_time_encode(Memory(j), header)
    [] kind = "pcm"      -> pcm_header_encode(Memory(j), header)

Sizes(kind, sf) ==
  CASE kind = "request"  -> {spk_detect_request_size(sf)}
    [] kind = "response" -> {spk_detect_response_size(sf)}
    [] kind = "command"  -> ControlSizes
    [] kind = "time"     -> ControlSizes
    [] kind = "pcm"      -> {PCM_HEADER_SIZE}

MaySend(kind, sf, header) ==
  \/ kind = "request" /\ header \in Requests /\ header.type = sf /\ sf \in Families
  \/ kind = "response" /\ header \in Responses
  \/ kind = "command" /\ header \in Commands
  \/ kind = "time" /\ header \in Times
  \/ kind = "pcm" /\ header \in Streams

UnderWay(kind, sf, header, j) ==
  /\ MaySend(kind, sf, header)
  /\ sent = [kind |-> kind, family |-> sf, header |-> header]
  /\ \E size \in Sizes(kind, sf) : datagram = Read(Encoded(kind, sf, header, j), 0, size)
  /\ \/ got = Nothing
     \/ \E k \in Junk : got = [kind |-> kind,
                               header |-> Decoded(kind, sf, Write(Memory(k), 0, datagram))]

PackageInv ==
  \/ sent = Nothing /\ got = Nothing
  \/ \E kind, sf, header, j : UnderWay(kind, sf, header, j)

LEMMA PackageStep == PackageInv /\ [PackageNext]_packageVars => PackageInv'
<1> SUFFICES ASSUME PackageInv, [PackageNext]_packageVars
             PROVE  PackageInv'
  OBVIOUS
<1>1. ASSUME NEW kind, NEW sf, NEW header, NEW j, NEW size \in Sizes(kind, sf),
             Send(kind, sf, header, Encoded(kind, sf, header, j), size),
             MaySend(kind, sf, header)
      PROVE  PackageInv'
  BY <1>1 DEF Send, PackageInv, UnderWay
<1>2. CASE SendRequest
  <2>1. PICK sf \in Families, req \in Requests, j \in Junk :
          /\ req.type = sf
          /\ Send("request", sf, req, spk_detect_request_encode(sf, Memory(j), req),
                  spk_detect_request_size(sf))
    BY <1>2 DEF SendRequest
  <2>2. /\ Encoded("request", sf, req, j) = spk_detect_request_encode(sf, Memory(j), req)
        /\ spk_detect_request_size(sf) \in Sizes("request", sf) /\ MaySend("request", sf, req)
    BY <2>1 DEF Encoded, Sizes, MaySend
  <2>3. QED
    BY <1>1, <2>1, <2>2, Zenon
<1>3. CASE SendResponse
  <2>1. PICK sf \in Families, res \in Responses, j \in Junk :
          Send("response", sf, res, spk_detect_response_encode(sf, Memory(j), res),
               spk_detect_response_size(sf))
    BY <1>3 DEF SendResponse
  <2>2. /\ Encoded("response", sf, res, j) = spk_detect_response_encode(sf, Memory(j), res)
        /\ spk_detect_response_size(sf) \in Sizes("response", sf) /\ MaySend("response", sf, res)
    BY DEF Encoded, Sizes, MaySend
  <2>3. QED
    BY <1>1, <2>1, <2>2, Zenon
<1>4. CASE SendCommand
  <2>1. PICK sf \in Families, ctl \in Commands, j \in Junk, size \in ControlSizes :
          Send("command", sf, ctl, control_package_encode(Memory(j), ctl), size)
    BY <1>4 DEF SendCommand
  <2>2. /\ Encoded("command", sf, ctl, j) = control_package_encode(Memory(j), ctl)
        /\ size \in Sizes("command", sf) /\ MaySend("command", sf, ctl)
    BY DEF Encoded, Sizes, MaySend
  <2>3. QED
    BY <1>1, <2>1, <2>2, Zenon
<1>5. CASE SendTime
  <2>1. PICK sf \in Families, ctl \in Times, j \in Junk, size \in ControlSizes :
          Send("time", sf, ctl, control_time_encode(Memory(j), ctl), size)
    BY <1>5 DEF SendTime
  <2>2. /\ Encoded("time", sf, ctl, j) = control_time_encode(Memory(j), ctl)
        /\ size \in Sizes("time", sf) /\ MaySend("time", sf, ctl)
    BY DEF Encoded, Sizes, MaySend
  <2>3. QED
    BY <1>1, <2>1, <2>2, Zenon
<1>6. CASE SendPcm
  <2>1. PICK sf \in Families, hd \in Streams, j \in Junk :
          Send("pcm", sf, hd, pcm_header_encode(Memory(j), hd), PCM_HEADER_SIZE)
    BY <1>6 DEF SendPcm
  <2>2. /\ Encoded("pcm", sf, hd, j) = pcm_header_encode(Memory(j), hd)
        /\ PCM_HEADER_SIZE \in Sizes("pcm", sf) /\ MaySend("pcm", sf, hd)
    BY DEF Encoded, Sizes, MaySend
  <2>3. QED
    BY <1>1, <2>1, <2>2, Zenon
<1>7. CASE Receive
  <2>1. sent /= Nothing /\ UNCHANGED <<sent, datagram>>
    BY <1>7 DEF Receive
  <2>2. PICK kind, sf, header, j : UnderWay(kind, sf, header, j)
    BY <2>1 DEF PackageInv
  <2>3. sent.kind = kind /\ sent.family = sf
    BY <2>2 DEF UnderWay
  <2>4. PICK k \in Junk : got' = [kind |-> kind,
                                  header |-> Decoded(kind, sf, Write(Memory(k), 0, datagram))]
    BY <1>7, <2>3 DEF Receive
  <2>5. UnderWay(kind, sf, header, j)'
    BY <2>1, <2>2, <2>4 DEF UnderWay
  <2>6. QED
    BY <2>5 DEF PackageInv
<1>8. CASE Vanish
  BY <1>8 DEF Vanish, PackageInv
<1>9. CASE UNCHANGED packageVars
  BY <1>9 DEF packageVars, PackageInv, UnderWay
<1>10. QED
  BY <1>2, <1>3, <1>4, <1>5, <1>6, <1>7, <1>8, <1>9 DEF PackageNext

LEMMA PackageInvariant == PackageSpec => []PackageInv
<1>1. PackageInit => PackageInv
  BY DEF PackageInit, PackageInv
<1>2. QED
  BY <1>1, PackageStep, PTL DEF PackageSpec

\* What is sent is as long as was asked for.
LEMMA SentLength ==
  ASSUME NEW pack, NEW size \in ControlSizes
  PROVE  size \in Nat /\ Len(Read(pack, 0, size)) = size
BY DEF Read, ControlSizes, CONTROL_PACKAGE_SIZE, CONTROL_TIME_SIZE, ControlHeaderSize

\* The flags, bit by bit.
LEMMA FlagBits ==
  ASSUME NEW sf \in {"inet", "inet6"}, NEW req \in RequestTypes, req.type \in {"inet", "inet6"}
  PROVE  /\ BitsAt(Flags(req), Table[sf].ver) = req.ver
         /\ BitsAt(Flags(req), Table[sf].connected) = IF req.connected = 0 THEN 0 ELSE 1
         /\ BitsAt(Flags(req), Table[sf].type) = IF req.type = "inet6" THEN 1 ELSE 0
<1> DEFINE c == IF req.connected = 0 THEN 0 ELSE 1
           t == IF req.type = "inet6" THEN 1 ELSE 0
           f == Flags(req)
<1>1. /\ Table[sf].ver = <<0, 3>> /\ Table[sf].connected = <<4, 4>> /\ Table[sf].type = <<5, 5>>
  BY DEF Table
<1>2. 2^(7 - 3) = 16 /\ 2^(3 - 0 + 1) = 16 /\ 2^(7 - 4) = 8 /\ 2^(4 - 4 + 1) = 2
      /\ 2^(7 - 5) = 4 /\ 2^(5 - 5 + 1) = 2
  BY SMT
<1>3. req.ver \in Nat /\ req.ver < 16 /\ c \in {0, 1} /\ t \in {0, 1}
  BY NibbleIs DEF RequestTypes
<1>4. f = req.ver * 16 + c * 8 + t * 4
  BY <1>3 DEF Flags
<1> HIDE DEF c, t, f
<1>5. f \div 16 = req.ver /\ (f \div 8) % 2 = c /\ (f \div 4) % 2 = t
  <2> DEFINE v == req.ver
  <2>1. v \in Nat /\ v < 16 /\ c \in {0, 1} /\ t \in {0, 1} /\ f = v * 16 + c * 8 + t * 4
    BY <1>3, <1>4
  <2> HIDE DEF v
  <2>2. f \div 16 = v /\ (f \div 8) % 2 = c /\ (f \div 4) % 2 = t
    BY <2>1
  <2>3. QED
    BY <2>2 DEF v
<1>6. (f \div 16) % 16 = req.ver
  BY <1>3, <1>5
<1>7. /\ BitsAt(f, <<0, 3>>) = (f \div 16) % 16
      /\ BitsAt(f, <<4, 4>>) = (f \div 8) % 2
      /\ BitsAt(f, <<5, 5>>) = (f \div 4) % 2
  BY <1>2 DEF BitsAt
<1>8. QED
  BY <1>1, <1>5, <1>6, <1>7 DEF c, t, f

\* The bytes between two bits of the table.
LEMMA RowsAre ==
  ASSUME NEW sf \in {"inet", "inet6"}, NEW d
  PROVE  LET n == AddrSize(sf)
             t == Table[sf]
         IN /\ BytesAt(d, t.ip) = SubSeq(d, 1 + 1, 1 + n)
            /\ BytesAt(d, t.id) = SubSeq(d, 1 + n + 1, 5 + n)
            /\ BytesAt(d, t.mac) = SubSeq(d, 5 + n + 1, 11 + n)
            /\ BytesAt(d, t.rate_mask) = SubSeq(d, 11 + n + 1, 13 + n)
            /\ BytesAt(d, t.bits_mask) = SubSeq(d, 13 + n + 1, 14 + n)
            /\ BytesAt(d, t.data_port) = SubSeq(d, 14 + n + 1, n + 16)
            /\ t.data_port[2] + 1 = 8 * (n + 16)
<1>1. CASE sf = "inet"
  <2>1. AddrSize(sf) = 4 /\ Table[sf] = Table.inet
    BY <1>1 DEF AddrSize, Table
  <2>2. /\ Table.inet.ip = <<8, 39>> /\ Table.inet.id = <<40, 71>> /\ Table.inet.mac = <<72, 119>>
        /\ Table.inet.rate_mask = <<120, 135>> /\ Table.inet.bits_mask = <<136, 143>>
        /\ Table.inet.data_port = <<144, 159>>
    BY DEF Table
  <2>3. /\ BytesAt(d, <<8, 39>>) = SubSeq(d, 2, 5) /\ BytesAt(d, <<40, 71>>) = SubSeq(d, 6, 9)
        /\ BytesAt(d, <<72, 119>>) = SubSeq(d, 10, 15)
        /\ BytesAt(d, <<120, 135>>) = SubSeq(d, 16, 17)
        /\ BytesAt(d, <<136, 143>>) = SubSeq(d, 18, 18)
        /\ BytesAt(d, <<144, 159>>) = SubSeq(d, 19, 20)
    BY DEF BytesAt
  <2>4. <<144, 159>>[2] + 1 = 8 * (4 + 16)
    OBVIOUS
  <2>5. QED
    BY <2>1, <2>2, <2>3, <2>4
<1>2. CASE sf = "inet6"
  <2>1. AddrSize(sf) = 16 /\ Table[sf] = Table.inet6
    BY <1>2 DEF AddrSize, Table
  <2>2. /\ Table.inet6.ip = <<8, 135>> /\ Table.inet6.id = <<136, 167>>
        /\ Table.inet6.mac = <<168, 215>> /\ Table.inet6.rate_mask = <<216, 231>>
        /\ Table.inet6.bits_mask = <<232, 239>> /\ Table.inet6.data_port = <<240, 255>>
    BY DEF Table
  <2>3. /\ BytesAt(d, <<8, 135>>) = SubSeq(d, 2, 17) /\ BytesAt(d, <<136, 167>>) = SubSeq(d, 18, 21)
        /\ BytesAt(d, <<168, 215>>) = SubSeq(d, 22, 27)
        /\ BytesAt(d, <<216, 231>>) = SubSeq(d, 28, 29)
        /\ BytesAt(d, <<232, 239>>) = SubSeq(d, 30, 30)
        /\ BytesAt(d, <<240, 255>>) = SubSeq(d, 31, 32)
    BY DEF BytesAt
  <2>4. <<240, 255>>[2] + 1 = 8 * (16 + 16)
    OBVIOUS
  <2>5. QED
    BY <2>1, <2>2, <2>3, <2>4
<1>3. QED
  BY <1>1, <1>2

AsInTable(d, sf, req) ==
  LET t == Table[sf]
  IN /\ BitsAt(d[1], t.ver) = req.ver
     /\ BitsAt(d[1], t.connected) = IF req.connected = 0 THEN 0 ELSE 1
     /\ BitsAt(d[1], t.type) = IF req.type = "inet6" THEN 1 ELSE 0
     /\ BytesAt(d, t.ip) = SubSeq(req.ip, 1, AddrSize(sf))
     /\ BytesAt(d, t.id) = U32(req.id)
     /\ BytesAt(d, t.mac) = req.mac
     /\ BytesAt(d, t.rate_mask) = U16(req.rate_mask)
     /\ BytesAt(d, t.bits_mask) = <<req.bits_mask>>
     /\ BytesAt(d, t.data_port) = U16(req.data_port)
     /\ Len(d) * 8 = t.data_port[2] + 1

LEMMA TableFollowed ==
  ASSUME NEW sf \in {"inet", "inet6"}, NEW req \in RequestTypes, NEW pack,
         HoldsRequest(pack, AddrSize(sf), req), req.type \in {"inet", "inet6"}
  PROVE  AsInTable(Read(pack, 0, spk_detect_request_size(sf)), sf, req)
<1> DEFINE n == AddrSize(sf)
           d == Read(pack, 0, n + 16)
<1>1. n \in Nat /\ spk_detect_request_size(sf) = n + 16
  BY DEF AddrSize, spk_detect_request_size
<1>2. ASSUME NEW a \in Nat, NEW b \in Nat, a <= b, b <= n + 16, NEW f \in Seq(Byte),
             Len(f) = b - a, Holds(pack, a, f)
      PROVE  SubSeq(d, a + 1, b) = f
  <2>1. n + 16 \in Nat
    BY <1>1
  <2>2. SubSeq(d, a + 1, b) = Read(pack, a, b - a)
    BY <1>2, <2>1, ReadsIn, Zenon
  <2>3. Read(pack, a, Len(f)) = f
    BY <1>2, ReadIs, Zenon
  <2>4. QED
    BY <1>2, <2>2, <2>3, Zenon
<1>3. Len(d) = n + 16 /\ d[1] = Flags(req)
  <2>1. pack[0] = Flags(req)
    BY ByteHeld DEF HoldsRequest
  <2>2. d[1] = pack[0]
    BY <1>1 DEF Read
  <2>3. QED
    BY <1>1, <2>1, <2>2 DEF Read
<1> HIDE DEF d
<1> DEFINE ip == SubSeq(req.ip, 1, n)
           id == U32(req.id)
           mac == req.mac
           rate == U16(req.rate_mask)
           bits == <<req.bits_mask>>
           port == U16(req.data_port)
<1>4. /\ id \in Seq(Byte) /\ Len(id) = 4 /\ mac \in Seq(Byte) /\ Len(mac) = 6
      /\ rate \in Seq(Byte) /\ Len(rate) = 2 /\ bits \in Seq(Byte) /\ Len(bits) = 1
      /\ port \in Seq(Byte) /\ Len(port) = 2 /\ ip \in Seq(Byte) /\ Len(ip) = n
  BY RequestPieces
<1>5. /\ Holds(pack, 1 + n, id) /\ Holds(pack, 5 + n, mac) /\ Holds(pack, 11 + n, rate)
      /\ Holds(pack, 13 + n, bits) /\ Holds(pack, 14 + n, port) /\ Holds(pack, 1, ip)
  BY DEF HoldsRequest
<1> HIDE DEF ip, id, mac, rate, bits, port, n
<1>6. /\ 1 + n \in Nat /\ 5 + n \in Nat /\ 11 + n \in Nat /\ 13 + n \in Nat /\ 14 + n \in Nat
      /\ n + 16 \in Nat /\ 1 + n <= 5 + n /\ 5 + n <= 11 + n /\ 11 + n <= 13 + n
      /\ 13 + n <= 14 + n /\ 14 + n <= n + 16 /\ 5 + n <= n + 16 /\ 11 + n <= n + 16
      /\ 13 + n <= n + 16 /\ n + 16 <= n + 16 /\ 1 \in Nat /\ 1 <= 1 + n /\ 1 + n <= n + 16
  BY <1>1
<1>7. /\ Len(id) = (5 + n) - (1 + n) /\ Len(mac) = (11 + n) - (5 + n)
      /\ Len(rate) = (13 + n) - (11 + n) /\ Len(bits) = (14 + n) - (13 + n)
      /\ Len(port) = (n + 16) - (14 + n) /\ Len(ip) = (1 + n) - 1
  BY <1>1, <1>4
<1>8. /\ SubSeq(d, 1 + n + 1, 5 + n) = id /\ SubSeq(d, 5 + n + 1, 11 + n) = mac
      /\ SubSeq(d, 11 + n + 1, 13 + n) = rate
  BY <1>2, <1>4, <1>5, <1>6, <1>7, Zenon
<1>9. /\ SubSeq(d, 13 + n + 1, 14 + n) = bits /\ SubSeq(d, 14 + n + 1, n + 16) = port
      /\ SubSeq(d, 1 + 1, 1 + n) = ip
  BY <1>2, <1>4, <1>5, <1>6, <1>7, Zenon
<1>10. /\ BytesAt(d, Table[sf].ip) = ip /\ BytesAt(d, Table[sf].id) = id
       /\ BytesAt(d, Table[sf].mac) = mac /\ BytesAt(d, Table[sf].rate_mask) = rate
       /\ BytesAt(d, Table[sf].bits_mask) = bits /\ BytesAt(d, Table[sf].data_port) = port
  BY <1>8, <1>9, RowsAre, Zenon DEF n
<1>11. Len(d) * 8 = Table[sf].data_port[2] + 1
  <2>1. Table[sf].data_port[2] + 1 = 8 * (n + 16)
    BY RowsAre, Zenon DEF n
  <2>2. QED
    BY <1>1, <1>3, <2>1
<1>12. QED
  <2>1. /\ BitsAt(d[1], Table[sf].ver) = req.ver
        /\ BitsAt(d[1], Table[sf].connected) = IF req.connected = 0 THEN 0 ELSE 1
        /\ BitsAt(d[1], Table[sf].type) = IF req.type = "inet6" THEN 1 ELSE 0
    BY <1>3, FlagBits, Zenon
  <2>2. AsInTable(d, sf, req)
    BY <1>10, <1>11, <2>1, Zenon DEF AsInTable, ip, id, mac, rate, bits, port, n
  <2>3. QED
    BY <1>1, <2>2, Zenon DEF d

\* A detection request has each of the nine fields at the bits the table in
\* detect.h gives it and is as long as the table, in both address families and
\* whatever its fields are (spk_detect_request_encode).
THEOREM RequestsFollowTheTable == PackageSpec => []RequestFollowsTable
<1>1. PackageInv => RequestFollowsTable
  <2> SUFFICES ASSUME PackageInv, sent.kind = "request"
               PROVE  RequestFollowsTable
    BY DEF RequestFollowsTable
  <2>1. PICK kind, sf, req, j : UnderWay(kind, sf, req, j)
    BY DEF PackageInv, Nothing
  <2>2. /\ kind = "request" /\ sent.family = sf /\ sent.header = req
        /\ MaySend(kind, sf, req)
    BY <2>1 DEF UnderWay
  <2>3. req \in RequestTypes /\ sf \in {"inet", "inet6"} /\ req.type = sf
    BY <2>2, PackageAssumption DEF MaySend, RequestTypes
  <2>4. datagram = Read(spk_detect_request_encode(sf, Memory(j), req), 0, spk_detect_request_size(sf))
    BY <2>1, <2>2 DEF UnderWay, Encoded, Sizes
  <2>5. HoldsRequest(spk_detect_request_encode(sf, Memory(j), req), AddrSize(sf), req)
    BY <2>3, RequestEncoded
  <2>6. req.type \in {"inet", "inet6"}
    BY <2>3
  <2>7. AsInTable(datagram, sf, req)
    BY <2>3, <2>4, <2>5, <2>6, TableFollowed, Zenon
  <2>8. QED
    BY <2>2, <2>7, Zenon DEF RequestFollowsTable, AsInTable
<1>2. QED
  BY <1>1, PackageInvariant, PTL

\* Whatever the headers are, and whatever the buffers of both sides held, the
\* decoders get what the encoders were given: of a request all but an id of
\* more than 16 bits and the difference of CONNECTED and DISCONECTED; all of a
\* response; of a control packet its head at each of the sizes a program may
\* send, and the format, the chunk size or a time of 32 bits where the packet
\* is long enough to hold them; of samples their format and sequence number.
THEOREM PackagesDoArrive == PackageSpec => []PackagesArrive
<1>1. PackageInv => PackagesArrive
  <2> SUFFICES ASSUME PackageInv, got /= Nothing
               PROVE  PackagesArrive
    BY DEF PackagesArrive, RequestArrives, ResponseArrives, CommandArrives, TimeArrives,
           FormatArrives, Nothing
  <2>1. PICK kind, sf, h, j : UnderWay(kind, sf, h, j)
    BY DEF PackageInv
  <2>2. PICK k \in Junk : got = [kind |-> kind,
                                 header |-> Decoded(kind, sf, Write(Memory(k), 0, datagram))]
    BY <2>1 DEF UnderWay
  <2> DEFINE q(i) == Write(Memory(i), 0, datagram)
  <2>3. /\ got.kind = kind /\ got.header = Decoded(kind, sf, q(k))
        /\ sent.family = sf /\ sent.header = h /\ MaySend(kind, sf, h)
    BY <2>1, <2>2 DEF UnderWay
  <2>10. PICK size \in Sizes(kind, sf) : datagram = Read(Encoded(kind, sf, h, j), 0, size)
    BY <2>1 DEF UnderWay
  <2> HIDE DEF q
  <2>4. RequestArrives
    <3> SUFFICES ASSUME kind = "request" PROVE RequestArrives
      BY <2>3 DEF RequestArrives
    <3> DEFINE pack == spk_detect_request_encode(sf, Memory(j), h)
    <3>1. h \in RequestTypes /\ h.type = sf
      BY <2>3, PackageAssumption DEF MaySend, RequestTypes
    <3>2. datagram = Read(pack, 0, spk_detect_request_size(sf))
      BY <2>10 DEF Encoded, Sizes
    <3>3. HoldsRequest(pack, AddrSize(sf), h)
      BY <3>1, RequestEncoded
    <3> HIDE DEF pack
    <3>4. HoldsRequest(q(k), AddrSize(sf), h)
      BY <3>1, <3>2, <3>3, RequestReceived, Zenon DEF q
    <3>5. got.header = spk_detect_request_decode(sf, q(k))
      BY <2>3 DEF Decoded
    <3>6. Families \subseteq {"inet", "inet6"}
      BY PackageAssumption
    <3>7. spk_detect_request_decode(sf, q(k)) =
            [ver |-> h.ver, connected |-> IF h.connected = 0 THEN 0 ELSE 1, type |-> h.type,
             ip |-> SubSeq(h.ip, 1, AddrSize(sf)), id |-> <<h.id[1], 0>>, mac |-> h.mac,
             rate_mask |-> h.rate_mask, bits_mask |-> h.bits_mask, data_port |-> h.data_port]
      BY <3>1, <3>4, <3>6, RequestDecoded
    <3>8. h.id[2] = 0 => <<h.id[1], 0>> = h.id
      BY <3>1, HalvesAre DEF RequestTypes
    <3>9. QED
      BY <2>3, <3>5, <3>7, <3>8 DEF RequestArrives
  <2>5. ResponseArrives
    <3> SUFFICES ASSUME kind = "response" PROVE ResponseArrives
      BY <2>3 DEF ResponseArrives
    <3>1. h \in ResponseTypes
      BY <2>3, PackageAssumption DEF MaySend, ResponseTypes
    <3>2. datagram = Read(spk_detect_response_encode(sf, Memory(j), h), 0,
                          spk_detect_response_size(sf))
      BY <2>10 DEF Encoded, Sizes
    <3>3. got.header = spk_detect_response_decode(sf, q(k))
      BY <2>3 DEF Decoded
    <3>4. spk_detect_response_decode(sf, q(k)) =
            [ver |-> h.ver, response |-> h.response, type |-> sf,
             ip |-> SubSeq(h.ip, 1, AddrSize(sf))]
      BY <3>1, <3>2, ResponseDecoded, Zenon DEF q
    <3>5. QED
      BY <2>3, <3>3, <3>4 DEF ResponseArrives
  <2>6. CommandArrives
    <3> SUFFICES ASSUME kind = "command" PROVE CommandArrives
      BY <2>3 DEF CommandArrives
    <3>1. h \in CommandTypes
      BY <2>3, PackageAssumption DEF MaySend, CommandTypes
    <3>2. size \in ControlSizes /\ datagram = Read(control_package_encode(Memory(j), h), 0, size)
      BY <2>10 DEF Encoded, Sizes
    <3>3. got.header = control_package_decode(q(k))
      BY <2>3 DEF Decoded
    <3>4. \A i : control_header_decode(q(i)) = [ver |-> h.ver % 16, cmd |-> h.cmd, spid |-> h.spid]
      BY <3>1, <3>2, CommandDecoded, Zenon DEF q
    <3>5. /\ 14 <= size /\ h.cmd = SPCMD_SAMPLE => High(q(k)[12]) = h.bits /\ Low(q(k)[12]) = h.rate
          /\ 14 <= size /\ h.cmd = SPCMD_CHUNK => U16At(q(k), 12) = h.size
      BY <3>1, <3>2, CommandDecoded, Zenon DEF q
    <3>6. \A i \in Junk, cmd \in Nibble : control_is_cmd(q(i), cmd) <=> cmd = h.cmd
      BY <3>4 DEF control_is_cmd
    <3>7. /\ got.header.head = control_header_decode(q(k))
          /\ got.header.bits = High(q(k)[12]) /\ got.header.rate = Low(q(k)[12])
          /\ got.header.size = U16At(q(k), 12)
      BY <3>3 DEF control_package_decode, ControlHeaderSize
    <3>8. Len(datagram) >= ControlHeaderSize + 2 <=> 14 <= size
      BY <3>2, SentLength DEF ControlHeaderSize
    <3>9. QED
      BY <2>3, <3>4, <3>5, <3>6, <3>7, <3>8, Zenon DEF CommandArrives, q
  <2>7. TimeArrives
    <3> SUFFICES ASSUME kind = "time" PROVE TimeArrives
      BY <2>3 DEF TimeArrives
    <3> DEFINE t == h.time
               sign == Sign(t[2])
    <3>1. h \in TimeTypes
      BY <2>3, PackageAssumption DEF MaySend, TimeTypes
    <3>2. size \in ControlSizes /\ datagram = Read(control_time_encode(Memory(j), h), 0, size)
      BY <2>10 DEF Encoded, Sizes
    <3>3. got.header = control_time_decode(q(k))
      BY <2>3 DEF Decoded
    <3>4. got.header.head = [ver |-> h.ver % 16, cmd |-> h.cmd, spid |-> h.spid]
      <4>1. control_header_decode(q(k)) = [ver |-> h.ver % 16, cmd |-> h.cmd, spid |-> h.spid]
        BY <3>1, <3>2, TimeDecoded, Zenon DEF q
      <4>2. got.header.head = control_header_decode(q(k))
        BY <3>3 DEF control_time_decode
      <4>3. QED
        BY <4>1, <4>2, Zenon
    <3>5. 16 <= size => got.header.time = <<t[1], t[2], sign, sign>>
      <4>1. 16 <= size => control_time_decode(q(k)).time = <<t[1], t[2], sign, sign>>
        BY <3>1, <3>2, TimeDecoded, Zenon DEF q
      <4>2. QED
        BY <3>3, <4>1, Zenon
    <3>6. t = <<t[1], t[2], t[3], t[4]>> /\ t[2] \in Nat
      BY <3>1, HalvesAre, HalfIs DEF TimeTypes
    <3>7. sign = IF t[2] < 32768 THEN 0 ELSE 65535
      BY <3>6 DEF Sign
    <3>8. Len(datagram) >= ControlHeaderSize + 4 <=> 16 <= size
      BY <3>2, SentLength DEF ControlHeaderSize
    <3> HIDE DEF t, sign
    <3>9. t[3] = t[4] /\ t[3] = sign => <<t[1], t[2], sign, sign>> = <<t[1], t[2], t[3], t[4]>>
      OBVIOUS
    <3>10. 16 <= size /\ t[3] = t[4] /\ t[3] = sign => got.header.time = t
      BY <3>5, <3>6, <3>9, Zenon
    <3>11. sent.header.time = t
      BY <2>3, Zenon DEF t
    <3> DEFINE fits == t[3] = t[4] /\ t[3] = IF t[2] < 32768 THEN 0 ELSE 65535
               whole == Len(datagram) >= ControlHeaderSize + 4
    <3>12. whole /\ fits => got.header.time = t
      BY <3>7, <3>8, <3>10
    <3>13. TimeArrives <=>
             (got.kind = "time" =>
                /\ got.header.head = [ver |-> h.ver % 16, cmd |-> h.cmd, spid |-> h.spid]
                /\ whole /\ fits => got.header.time = t)
      BY <2>3, <3>11 DEF TimeArrives
    <3> HIDE DEF fits, whole
    <3>14. QED
      BY <3>4, <3>12, <3>13, Zenon
  <2>8. FormatArrives
    <3> SUFFICES ASSUME kind = "pcm" PROVE FormatArrives
      BY <2>3 DEF FormatArrives
    <3>1. h \in StreamTypes
      BY <2>3, PackageAssumption DEF MaySend, StreamTypes
    <3>2. datagram = Read(pcm_header_encode(Memory(j), h), 0, PCM_HEADER_SIZE)
      BY <2>10 DEF Encoded, Sizes
    <3>3. got.header = pcm_header_decode(q(k))
      BY <2>3 DEF Decoded
    <3>4. LET hd == pcm_header_decode(q(k))
          IN /\ hd.ver = h.ver /\ hd.compress = h.compress /\ hd.bits = h.bits
             /\ hd.rate = h.rate /\ hd.channel = h.channel /\ hd.seq = h.seq
      BY <3>1, <3>2, PcmDecoded, ZenonT(30) DEF q
    <3>5. QED
      BY <2>3, <3>3, <3>4, Zenon DEF FormatArrives
  <2>9. QED
    BY <2>4, <2>5, <2>6, <2>7, <2>8 DEF PackagesArrive
<1>2. QED
  BY <1>1, PackageInvariant, PTL

-----------------------------------------------------------------------------
(* The wave reader. The place of a bit in the list of channels is the      *)
(* number of bits up to it.                                                *)

Rank(mask, b) == Cardinality({x \in mask : x < b + 1})

LEMMA RankType ==
  ASSUME NEW mask \in SUBSET Nat, IsFiniteSet(mask), NEW b \in mask
  PROVE  Rank(mask, b) \in 1 .. Cardinality(mask)
<1> DEFINE S == {x \in mask : x < b + 1}
<1>1. S \in SUBSET mask /\ b \in S
  OBVIOUS
<1>2. IsFiniteSet(S) /\ Cardinality(S) <= Cardinality(mask)
  BY <1>1, FS_Subset
<1>3. Cardinality(S) \in Nat /\ Cardinality(mask) \in Nat /\ Cardinality(S) /= 0
  BY <1>1, <1>2, FS_CardinalityType, FS_EmptySet
<1> HIDE DEF S
<1>4. Cardinality(S) \in 1 .. Cardinality(mask)
  BY <1>2, <1>3
<1>5. QED
  BY <1>4 DEF Rank, S

LEMMA RankGrows ==
  ASSUME NEW mask \in SUBSET Nat, IsFiniteSet(mask), NEW b \in mask, NEW c \in mask, b < c
  PROVE  Rank(mask, b) < Rank(mask, c)
<1> DEFINE S == {x \in mask : x < b + 1}
           T == {x \in mask : x < c + 1}
<1>1. S \in SUBSET T /\ T \in SUBSET mask /\ c \in T /\ c \notin S
  <2>1. b \in Nat /\ c \in Nat /\ \A x \in mask : x \in Nat
    OBVIOUS
  <2>2. c < c + 1 /\ ~(c < b + 1) /\ \A x \in mask : x < b + 1 => x < c + 1
    BY <2>1
  <2>3. QED
    BY <2>2
<1> HIDE DEF S, T
<1>2. IsFiniteSet(T)
  BY <1>1, FS_Subset
<1>3. IsFiniteSet(S) /\ Cardinality(S) <= Cardinality(T) /\ Cardinality(S) /= Cardinality(T)
  BY <1>1, <1>2, FS_Subset
<1>4. Cardinality(S) \in Nat /\ Cardinality(T) \in Nat
  BY <1>2, <1>3, FS_CardinalityType
<1>5. Cardinality(S) < Cardinality(T)
  BY <1>3, <1>4
<1>6. QED
  BY <1>5 DEF Rank, S, T

LEMMA EveryRank ==
  ASSUME NEW mask \in SUBSET Nat, IsFiniteSet(mask), NEW k \in 1 .. Cardinality(mask)
  PROVE  \E b \in mask : Rank(mask, b) = k
<1> DEFINE n == Cardinality(mask)
           f == [b \in mask |-> Rank(mask, b)]
<1>1. f \in [mask -> 1 .. n]
  BY RankType
<1>2. \A b, c \in mask : f[b] = f[c] => b = c
  <2> SUFFICES ASSUME NEW b \in mask, NEW c \in mask, f[b] = f[c], b /= c
               PROVE  FALSE
    OBVIOUS
  <2>1. b < c \/ c < b
    OBVIOUS
  <2>2. Rank(mask, b) \in Nat /\ Rank(mask, c) \in Nat
    BY RankType
  <2>3. Rank(mask, b) < Rank(mask, c) \/ Rank(mask, c) < Rank(mask, b)
    BY <2>1, RankGrows
  <2>4. QED
    BY <2>2, <2>3
<1>3. f \in Injection(mask, 1 .. n)
  BY <1>1, <1>2 DEF Injection, IsInjective
<1>4. n \in Nat
  BY FS_CardinalityType
<1>5. IsFiniteSet(1 .. n) /\ Cardinality(1 .. n) = n
  BY <1>4, FS_Interval
<1> HIDE DEF f
<1>6. f \in Surjection(mask, 1 .. n)
  BY <1>3, <1>5, FS_Injection
<1>7. PICK b \in mask : f[b] = k
  BY <1>6 DEF Surjection
<1>8. QED
  BY <1>7 DEF f

\* The list of a mask: its bits, in order, each once.
LEMMA ListedInOrder ==
  ASSUME NEW mask \in SUBSET Nat, IsFiniteSet(mask)
  PROVE  /\ Range(Listed(mask)) = {b + 1 : b \in mask}
         /\ \A j, k \in DOMAIN Listed(mask) : j < k => Listed(mask)[j] < Listed(mask)[k]
         /\ Len(Listed(mask)) = Cardinality(mask)
<1> DEFINE n == Cardinality(mask)
           L == Listed(mask)
           T == {b + 1 : b \in mask}
<1>1. n \in Nat
  BY FS_CardinalityType
<1>2. L = [k \in 1 .. n |-> CHOOSE c \in T : Cardinality({b \in mask : b < c}) = k]
  BY DEF Listed
<1>3. DOMAIN L = 1 .. n /\ Len(L) = n
  BY <1>1, <1>2
<1>4. ASSUME NEW k \in 1 .. n
      PROVE  L[k] - 1 \in mask /\ L[k] = (L[k] - 1) + 1 /\ Rank(mask, L[k] - 1) = k
  <2>1. PICK b \in mask : Rank(mask, b) = k
    BY EveryRank
  <2>2. b + 1 \in T /\ Cardinality({x \in mask : x < b + 1}) = k
    BY <2>1 DEF Rank
  <2>3. L[k] = CHOOSE c \in T : Cardinality({x \in mask : x < c}) = k
    BY <1>2
  <2>4. L[k] \in T /\ Cardinality({x \in mask : x < L[k]}) = k
    <3> HIDE DEF L, T
    <3>1. QED
      BY <2>2, <2>3
  <2>5. PICK c \in mask : L[k] = c + 1
    BY <2>4
  <2>6. QED
    BY <2>4, <2>5 DEF Rank
<1> HIDE DEF L
<1>5. ASSUME NEW b \in mask
      PROVE  \E k \in 1 .. n : L[k] = b + 1
  <2>1. Rank(mask, b) \in 1 .. n
    BY RankType
  <2> DEFINE k == Rank(mask, b)
             c == L[k] - 1
  <2>2. c \in mask /\ L[k] = c + 1 /\ Rank(mask, c) = k
    BY <1>4, <2>1
  <2>3. ~(b < c) /\ ~(c < b)
    <3>1. k \in Nat
      BY <2>1
    <3>2. b < c => Rank(mask, b) < Rank(mask, c)
      BY <2>2, RankGrows
    <3>3. c < b => Rank(mask, c) < Rank(mask, b)
      BY <2>2, RankGrows
    <3> HIDE DEF c
    <3>4. QED
      BY <2>2, <3>1, <3>2, <3>3
  <2>4. c = b
    <3> HIDE DEF c
    <3>1. QED
      BY <2>2, <2>3
  <2>5. QED
    BY <2>1, <2>2, <2>4
<1>6. Range(L) = T
  <2>1. Range(L) = {L[k] : k \in 1 .. n}
    BY <1>3 DEF Range
  <2>2. \A k \in 1 .. n : L[k] \in T
    BY <1>4
  <2>3. \A c \in T : \E k \in 1 .. n : L[k] = c
    BY <1>5
  <2> HIDE DEF T
  <2>4. QED
    BY <2>1, <2>2, <2>3
<1>7. ASSUME NEW j \in 1 .. n, NEW k \in 1 .. n, j < k
      PROVE  L[j] < L[k]
  <2> DEFINE b == L[j] - 1
             c == L[k] - 1
  <2>1. b \in mask /\ c \in mask /\ L[j] = b + 1 /\ L[k] = c + 1
        /\ Rank(mask, b) = j /\ Rank(mask, c) = k
    BY <1>4
  <2> HIDE DEF b, c
  <2>2. b \in Nat /\ c \in Nat
    BY <2>1
  <2>3. b < c \/ b = c \/ c < b
    BY <2>2
  <2>4. ~(c < b)
    BY <1>7, <2>1, RankGrows
  <2>5. b /= c
    BY <1>7, <2>1
  <2>6. QED
    BY <2>1, <2>2, <2>3, <2>4, <2>5
<1>8. QED
  BY <1>3, <1>6, <1>7 DEF L

ChannelListInv ==
  Ready => file \in Files /\ channel_list = ChannelList(file)

LEMMA ChannelListStep == ChannelListInv /\ [WaveNext]_waveVars => ChannelListInv'
<1> SUFFICES ASSUME ChannelListInv, [WaveNext]_waveVars
             PROVE  ChannelListInv'
  OBVIOUS
<1>1. ASSUME NEW f \in Files, header_check(f)
      PROVE  ChannelListInv'
  <2>1. file' = f /\ (None \in {riff', fmt', format', data'} \/ channel_list' = ChannelList(f))
    BY <1>1 DEF header_check
  <2>2. QED
    BY <1>1, <2>1 DEF ChannelListInv, Ready, header_check
<1>2. ASSUME NEW type, get_chunksize(type)
      PROVE  ChannelListInv'
  BY <1>2 DEF get_chunksize, ChannelListInv, Ready
<1>3. CASE get_duration
  BY <1>3 DEF get_duration, ChannelListInv, Ready
<1>4. CASE UNCHANGED waveVars
  BY <1>4 DEF waveVars, ChannelListInv, Ready
<1>5. QED
  BY <1>1, <1>2, <1>3, <1>4 DEF WaveNext

\* The list of channels is that of the file last looked at, each bit of its mask
\* once and in order, whichever files were accepted or refused before, and of
\* the length a plain file asks for (header_check, get_channel_list).
THEOREM ListIsOfTheLastFile == WaveSpec => []ListIsOfThisFile
<1>1. WaveInit => ChannelListInv
  BY DEF WaveInit, ChannelListInv, Ready
<1>2. ChannelListInv => ListIsOfThisFile
  <2> SUFFICES ASSUME ChannelListInv, Ready
               PROVE  ListIsOfThisFile
    BY DEF ListIsOfThisFile
  <2> DEFINE mask == ChannelMask(file)
  <2>1. file \in Files /\ channel_list = Listed(mask) /\ get_channel_list = channel_list
    BY DEF ChannelListInv, ChannelList, get_channel_list
  <2>2. mask \in SUBSET (0 .. 31)
    BY <2>1, WaveAssumption DEF ChannelMask
  <2>3. mask \in SUBSET Nat /\ IsFiniteSet(mask)
    <3>1. 0 \in Int /\ 31 \in Int
      OBVIOUS
    <3>2. IsFiniteSet(0 .. 31)
      BY <3>1, FS_Interval, Zenon
    <3>3. QED
      BY <2>2, <3>2, FS_Subset
  <2>4. file.chunk = Format /\ file.channels \in {1, 2} => Cardinality(mask) = file.channels
    <3>1. Format /= Extensible
      BY DEF Format, Extensible
    <3>2. ASSUME file.chunk = Format, file.channels = 1 PROVE mask = {2}
      BY <3>1, <3>2 DEF ChannelMask
    <3>3. ASSUME file.chunk = Format, file.channels = 2 PROVE mask = {0, 1}
      BY <3>1, <3>3 DEF ChannelMask
    <3>4. Cardinality({2}) = 1 /\ Cardinality({0, 1}) = 2
      <4>1. Cardinality({0}) = 1 /\ Cardinality({2}) = 1 /\ IsFiniteSet({0})
        BY FS_Singleton, Zenon
      <4>2. 1 \notin {0} /\ {0} \cup {1} = {0, 1}
        OBVIOUS
      <4>3. Cardinality({0} \cup {1}) = Cardinality({0}) + 1
        BY <4>1, <4>2, FS_AddElement, Zenon
      <4>4. QED
        BY <4>1, <4>2, <4>3
    <3>5. QED
      BY <3>2, <3>3, <3>4
  <2>5. QED
    BY <2>1, <2>3, <2>4, ListedInOrder DEF ListIsOfThisFile
<1>3. QED
  BY <1>1, <1>2, ChannelListStep, PTL DEF WaveSpec

-----------------------------------------------------------------------------
(* Wave files: the sizes of chunks.                                        *)

Tenth == 1 .. 10
LEMMA TenthIs == \A i : i \in Tenth <=> i \in Nat /\ 1 <= i /\ i <= 10
BY DEF Tenth

Fits(per_sec, i) == Whole(per_sec, i) /\ per_sec * i <= 1500000

LEMMA QualityIs ==
  ASSUME NEW per_sec, NEW m \in Tenth, m = 1 \/ Fits(per_sec, m),
         \A i \in Tenth : m < i => ~Fits(per_sec, i)
  PROVE  chunk_quality(per_sec) = (per_sec * m) \div 1000
<1> DEFINE S == {1} \cup {i \in Tenth : Fits(per_sec, i)}
<1>1. m \in S /\ \A i \in S : i \in Nat /\ m >= i
  BY TenthIs
<1>2. \A x \in S : (\A y \in S : x >= y) => x = m
  BY <1>1, TenthIs
<1> HIDE DEF S
<1>3. Max(S) = m
  BY <1>1, <1>2 DEF Max
<1>4. chunk_quality(per_sec) = (per_sec * Max(S)) \div 1000
  BY SMT DEF chunk_quality, S, Tenth, Fits
<1>5. QED
  BY <1>3, <1>4, Zenon

\* Bytes per second of one channel, how many milliseconds of them CHUNK_QUALITY
\* takes, and the bytes that are.
QualityTable ==
  {<<88200, 10, 882>>, <<96000, 10, 960>>, <<132300, 10, 1323>>, <<144000, 10, 1440>>,
   <<176400, 5, 882>>, <<192000, 7, 1344>>, <<288000, 5, 1440>>, <<384000, 3, 1152>>,
   <<576000, 2, 1152>>, <<768000, 1, 768>>, <<1152000, 1, 1152>>, <<1536000, 1, 1536>>}

LEMMA QualityTaken ==
  ASSUME NEW row \in QualityTable
  PROVE  chunk_quality(row[1]) = row[3]
<1> DEFINE p == row[1]
           m == row[2]
           q == row[3]
<1>1. \E t \in QualityTable : p = t[1] /\ m = t[2] /\ q = t[3]
  OBVIOUS
<1> HIDE DEF p, m, q
<1>2. /\ m \in Tenth /\ (m = 1 \/ Fits(p, m)) /\ \A i \in Tenth : m < i => ~Fits(p, i)
      /\ q = (p * m) \div 1000
  BY <1>1, TenthIs, SMT DEF QualityTable, Fits, Whole
<1>3. m \in Tenth /\ (m = 1 \/ Fits(p, m)) /\ \A i \in Tenth : m < i => ~Fits(p, i)
  BY <1>2
<1>4. p \in Nat
  BY <1>1, SMT DEF QualityTable
<1>5. chunk_quality(p) = (p * m) \div 1000
  BY <1>3, <1>4, QualityIs
<1>6. QED
  BY <1>2, <1>5, ZenonT(30) DEF p, q

FormatRates == {44100, 48000, 96000, 192000, 384000}
Microseconds(bytes, per_sec) == (bytes * 1000000) \div per_sec

\* Chunks of p bytes per second in samples of so many bytes: m milliseconds in
\* q bytes, of k samples, and l samples.
Chunks(p, rate, bytes, m, k, l, q) ==
  /\ chunk_quality(p) = q /\ q * 1000 = p * m /\ Microseconds(q, p) = 1000 * m
  /\ q = k * bytes \/ (rate = 44100 /\ bytes = 4)
  /\ chunk_speed(p) = l * bytes

LEMMA ChunkOfFormat ==
  ASSUME NEW rate \in FormatRates, NEW bytes \in {2, 3, 4}, NEW p, p = rate * bytes
  PROVE  \E m, k, l, q \in Nat : Chunks(p, rate, bytes, m, k, l, q)
<1>1. PICK row \in QualityTable : row[1] = p
  BY SMT DEF QualityTable, FormatRates
<1> DEFINE m == row[2]
           q == row[3]
           k == q \div bytes
           l == chunk_speed(p) \div bytes
<1>2. chunk_quality(p) = q
  <2>1. chunk_quality(row[1]) = row[3]
    BY QualityTaken
  <2>2. QED
    BY <1>1, <2>1, Zenon
<1>3. m \in Nat /\ q \in Nat /\ q * 1000 = p * m /\ Microseconds(q, p) = 1000 * m
  BY <1>1, SMT DEF QualityTable, Microseconds
<1>4. q = k * bytes \/ (rate = 44100 /\ bytes = 4)
  BY <1>1, SMT DEF QualityTable, FormatRates
<1>5. chunk_speed(p) = l * bytes /\ l \in Nat
  BY SMT DEF chunk_speed, FormatRates
<1>6. k \in Nat
  BY <1>3
<1> HIDE DEF m, q, k, l
<1>7. Chunks(p, rate, bytes, m, k, l, q)
  BY <1>2, <1>3, <1>4, <1>5, SMT DEF Chunks
<1>8. QED
  BY <1>3, <1>5, <1>6, <1>7, ZenonT(30)

AnswerInv ==
  answer.type \in {CHUNK_QUALITY, CHUNK_SPEED} =>
    LET p     == file.rate * (file.bits \div 8)
        chunk == samples_chunk(p, answer.type)
    IN /\ file \in Files
       /\ answer.chunk = chunk * file.channels
       /\ answer.time = Microseconds(chunk, p)

LEMMA AnswerStep == ChannelListInv /\ AnswerInv /\ [WaveNext]_waveVars => AnswerInv'
<1> SUFFICES ASSUME ChannelListInv, AnswerInv, [WaveNext]_waveVars
             PROVE  AnswerInv'
  OBVIOUS
<1>1. ASSUME NEW f \in Files, header_check(f)
      PROVE  AnswerInv'
  BY <1>1 DEF header_check, AnswerInv, NoAnswer, CHUNK_QUALITY, CHUNK_SPEED
<1>2. ASSUME NEW type \in {CHUNK_QUALITY, CHUNK_SPEED}, get_chunksize(type)
      PROVE  AnswerInv'
  <2> DEFINE p == file.rate * (file.bits \div 8)
             chunk == samples_chunk(p, type)
  <2>1. file' = file /\ file \in Files
    BY <1>2 DEF get_chunksize, ChannelListInv
  <2>2. CASE UNCHANGED answer
    BY <2>1, <2>2 DEF AnswerInv
  <2>3. CASE answer' = [type |-> type, chunk |-> chunk * file.channels,
                        time |-> Microseconds(chunk, p)]
    <3>1. answer'.type = type /\ answer'.chunk = chunk * file.channels
          /\ answer'.time = Microseconds(chunk, p)
      BY <2>3
    <3>2. QED
      BY <2>1, <3>1 DEF AnswerInv
  <2>4. QED
    BY <1>2, <2>2, <2>3, SMT DEF get_chunksize, get_bytes_per_sample, Microseconds
<1>3. CASE get_duration
  <2>1. file' = file /\ (answer' = answer \/ \E b : answer' = [type |-> Duration, time |-> b])
    BY <1>3 DEF get_duration
  <2>2. CASE answer' = answer
    BY <2>1, <2>2 DEF AnswerInv
  <2>3. ASSUME NEW b, answer' = [type |-> Duration, time |-> b]
        PROVE  AnswerInv'
    BY <2>3 DEF AnswerInv, Duration, CHUNK_QUALITY, CHUNK_SPEED
  <2>4. QED
    BY <2>1, <2>2, <2>3
<1>4. CASE UNCHANGED waveVars
  BY <1>4 DEF waveVars, AnswerInv
<1>5. QED
  BY <1>1, <1>2, <1>3, <1>4 DEF WaveNext

LEMMA KnownFormats ==
  ASSUME Known(file)
  PROVE  /\ file.rate \in FormatRates
         /\ file.bits \in {16, 20, 24, 32} /\ file.bits \div 8 \in {2, 3, 4}
         /\ file.bits \div 8 = 4 => file.bits = 32
<1>1. PICK r \in 1 .. RATE_MAX - 1 : file.rate = rate_name(r)
  BY DEF Known
<1>2. PICK b \in 1 .. BIT_MAX - 1 : file.bits = bits_name(b)
  BY DEF Known
<1>3. r \in {1, 2, 3, 4, 5} /\ b \in {1, 2, 3, 4, 5}
  BY DEF RATE_MAX, BIT_MAX
<1>4. file.rate \in FormatRates
  BY <1>1, <1>3 DEF rate_name, RATE_44100, RATE_48000, RATE_96000, RATE_192000, RATE_384000,
                     FormatRates
<1>5. file.bits \in {16, 20, 24, 32}
  BY <1>2, <1>3 DEF bits_name, BIT_16, BIT_20, BIT_24, BIT_32, BIT_32_FLOAT
<1>6. QED
  BY <1>4, <1>5

\* What get_chunksize answers for any file of a format of audio.h, with any
\* number of channels: CHUNK_QUALITY takes whole milliseconds without dropping
\* a byte, and neither way of choosing the size divides a sample between two
\* chunks, but for the one format named (samples_chunk, get_chunksize).
THEOREM ChunksCanBePlayed == WaveSpec => []ChunksAreWhole
<1>1. WaveInit => ChannelListInv /\ AnswerInv
  BY DEF WaveInit, ChannelListInv, Ready, AnswerInv, NoAnswer, CHUNK_QUALITY, CHUNK_SPEED
<1>2. AnswerInv => ChunksAreWhole
  <2> SUFFICES ASSUME AnswerInv, Known(file), answer.type \in {CHUNK_QUALITY, CHUNK_SPEED}
               PROVE  ChunksAreWhole
    BY DEF ChunksAreWhole, QualityDropsNothing, SamplesAreWhole, Chunked
  <2> DEFINE bytes == file.bits \div 8
             rate  == file.rate
             p     == rate * bytes
             c     == file.channels
  <2>1. /\ rate \in FormatRates /\ bytes \in {2, 3, 4}
        /\ bytes = 4 => file.bits = 32
    BY KnownFormats
  <2>2. /\ c \in Nat /\ answer.chunk = samples_chunk(p, answer.type) * c
        /\ answer.time = Microseconds(samples_chunk(p, answer.type), p)
    BY WaveAssumption DEF AnswerInv
  <2>3. CHUNK_QUALITY /= CHUNK_SPEED
    BY DEF CHUNK_QUALITY, CHUNK_SPEED
  <2> HIDE DEF bytes, rate, p, c
  <2>4. PICK m \in Nat, k \in Nat, l \in Nat, q \in Nat : Chunks(p, rate, bytes, m, k, l, q)
    BY <2>1, ChunkOfFormat, Zenon DEF p
  <2>5. /\ chunk_quality(p) = q /\ q * 1000 = p * m /\ Microseconds(q, p) = 1000 * m
        /\ q = k * bytes \/ (rate = 44100 /\ bytes = 4)
        /\ chunk_speed(p) = l * bytes
    BY <2>4, SMT DEF Chunks
  <2>6. ASSUME NEW s \in Nat, answer.chunk = s * bytes * c
        PROVE  \E samples \in 0 .. answer.chunk : answer.chunk = samples * bytes * c
    <3>1. CASE c = 0
      <4>1. answer.chunk = 0
        BY <2>1, <2>6, <3>1
      <4>2. 0 \in 0 .. answer.chunk /\ answer.chunk = 0 * bytes * c
        BY <2>1, <3>1, <4>1
      <4>3. QED
        BY <4>2, Zenon
    <3>2. CASE c > 0
      <4>1. s * bytes \in Nat /\ s <= s * bytes
        BY <2>1
      <4>2. \A x \in Nat : x <= x * c
        BY <2>2, <3>2
      <4>3. s \in 0 .. answer.chunk
        BY <2>2, <2>6, <4>1, <4>2
      <4>4. QED
        BY <2>6, <4>3, Zenon
    <3>3. QED
      BY <2>2, <3>1, <3>2
  <2>7. CASE answer.type = CHUNK_QUALITY
    <3>1. answer.chunk = q * c /\ answer.time = 1000 * m
      BY <2>2, <2>5, <2>7 DEF samples_chunk
    <3>2. QualityDropsNothing
      <4>1. answer.time % 1000 = 0 /\ answer.time \div 1000 = m
        BY <3>1, <2>5
      <4>2. rate \in Nat /\ bytes \in Nat /\ p = rate * bytes
        BY <2>1 DEF FormatRates, p
      <4>3. answer.chunk * 1000 = (answer.time \div 1000) * rate * bytes * c
        <5>1. (q * c) * 1000 = (q * 1000) * c
          BY <2>2
        <5>2. q * 1000 = (rate * bytes) * m
          BY <2>5, <4>2
        <5>3. ((rate * bytes) * m) * c = m * rate * bytes * c
          BY <2>2, <4>2
        <5>4. (q * c) * 1000 = m * rate * bytes * c
          BY <5>1, <5>2, <5>3
        <5>5. QED
          BY <3>1, <4>1, <5>4
      <4>4. QED
        BY <4>1, <4>3 DEF QualityDropsNothing, rate, bytes, c
    <3>3. SamplesAreWhole
      <4>1. CASE q = k * bytes
        <5>1. answer.chunk = k * bytes * c
          BY <3>1, <4>1
        <5>2. QED
          BY <2>6, <5>1 DEF SamplesAreWhole, bytes, c
      <4>2. CASE rate = 44100 /\ bytes = 4
        BY <2>1, <2>7, <4>2 DEF SamplesAreWhole, rate
      <4>3. QED
        BY <2>5, <4>1, <4>2
    <3>4. QED
      BY <3>2, <3>3 DEF ChunksAreWhole
  <2>8. CASE answer.type = CHUNK_SPEED
    <3>1. answer.chunk = l * bytes * c
      BY <2>2, <2>3, <2>5, <2>8 DEF samples_chunk
    <3>2. SamplesAreWhole
      BY <2>6, <3>1 DEF SamplesAreWhole, bytes, c
    <3>3. QualityDropsNothing
      BY <2>3, <2>8 DEF QualityDropsNothing, Chunked
    <3>4. QED
      BY <3>2, <3>3 DEF ChunksAreWhole
  <2>9. QED
    BY <2>7, <2>8
<1>3. QED
  BY <1>1, <1>2, ChannelListStep, AnswerStep, PTL DEF WaveSpec

-----------------------------------------------------------------------------
(* The masks of formats.                                                    *)

\* Formats are the numbers 1 to 5, in both enumerations.
LEMMA FormatNumbers == RATE_NONE .. RATE_MAX - 1 = 0 .. 5 /\ BIT_NONE .. BIT_MAX - 1 = 0 .. 5
BY DEF RATE_NONE, RATE_MAX, BIT_NONE, BIT_MAX

\* A mask as its bits: masks of these formats have six of them.
Digits == [0 .. 5 -> {0, 1}]
Value(g) == g[0] + 2 * g[1] + 4 * g[2] + 8 * g[3] + 16 * g[4] + 32 * g[5]

LEMMA Powers ==
  /\ 2^0 = 1 /\ 2^1 = 2 /\ 2^2 = 4 /\ 2^3 = 8 /\ 2^4 = 16 /\ 2^5 = 32
  /\ \A w \in 6 .. 15 : 2^w \in Nat /\ 2^w >= 64
<1>1. /\ 2^0 = 1 /\ 2^1 = 2 /\ 2^2 = 4 /\ 2^3 = 8 /\ 2^4 = 16 /\ 2^5 = 32
      /\ 2^6 = 64 /\ 2^7 = 128 /\ 2^8 = 256 /\ 2^9 = 512 /\ 2^10 = 1024 /\ 2^11 = 2048
      /\ 2^12 = 4096 /\ 2^13 = 8192 /\ 2^14 = 16384 /\ 2^15 = 32768
  BY SMT
<1>2. QED
  BY <1>1

LEMMA SetDigits ==
  ASSUME NEW g \in Digits
  PROVE  /\ Value(g) \in 0 .. 63
         /\ \A w \in 0 .. 15 : MASK_ISSET(Value(g), w) <=> w \in 0 .. 5 /\ g[w] = 1
<1> DEFINE m == Value(g)
<1>1. /\ g[0] \in {0, 1} /\ g[1] \in {0, 1} /\ g[2] \in {0, 1} /\ g[3] \in {0, 1}
      /\ g[4] \in {0, 1} /\ g[5] \in {0, 1}
  BY DEF Digits
<1>2. m \in 0 .. 63
  BY <1>1 DEF Value
<1>3. /\ MASK_ISSET(m, 0) <=> g[0] = 1
      /\ MASK_ISSET(m, 1) <=> g[1] = 1
      /\ MASK_ISSET(m, 2) <=> g[2] = 1
      /\ MASK_ISSET(m, 3) <=> g[3] = 1
      /\ MASK_ISSET(m, 4) <=> g[4] = 1
      /\ MASK_ISSET(m, 5) <=> g[5] = 1
  BY <1>1, Powers DEF MASK_ISSET, Value
<1> HIDE DEF m
<1>4. ASSUME NEW w \in 6 .. 15
      PROVE  ~MASK_ISSET(m, w)
  <2> DEFINE power == 2^w
  <2>1. power \in Nat /\ power >= 64
    BY Powers
  <2> HIDE DEF power
  <2>2. m \div power = 0
    BY <1>2, <2>1
  <2>3. QED
    BY <2>2 DEF MASK_ISSET, power
<1>5. \A w \in 0 .. 15 : w \in {0, 1, 2, 3, 4, 5} \/ w \in 6 .. 15
  OBVIOUS
<1>6. QED
  BY <1>2, <1>3, <1>4, <1>5 DEF m

\* The bit that is or'ed in is 1 afterwards, and the others are as they were.
LEMMA WithDigit ==
  ASSUME NEW g \in Digits, NEW v \in 1 .. 5
  PROVE  WithBit(Value(g), v) = Value([g EXCEPT ![v] = 1])
<1>1. MASK_ISSET(Value(g), v) <=> g[v] = 1
  BY SetDigits
<1>2. g[v] \in {0, 1}
  BY DEF Digits
<1>3. CASE g[v] = 1
  <2>1. [g EXCEPT ![v] = 1] = g
    BY <1>3 DEF Digits
  <2>2. QED
    BY <1>1, <1>3, <2>1 DEF WithBit
<1>4. CASE g[v] = 0
  <2> DEFINE h == [g EXCEPT ![v] = 1]
  <2>1. \A w \in 0 .. 5 : h[w] = IF w = v THEN 1 ELSE g[w]
    BY DEF Digits
  <2> HIDE DEF h
  <2>2. WithBit(Value(g), v) = Value(g) + 2^v
    BY <1>1, <1>4 DEF WithBit
  <2>3. /\ g[0] \in {0, 1} /\ g[1] \in {0, 1} /\ g[2] \in {0, 1} /\ g[3] \in {0, 1}
        /\ g[4] \in {0, 1} /\ g[5] \in {0, 1}
    BY DEF Digits
  <2>4. Value(h) = Value(g) + 2^v
    <3>1. /\ h[0] = g[0] /\ (v = 1 => h[1] = 1 /\ g[1] = 0) /\ (v /= 1 => h[1] = g[1])
          /\ (v = 2 => h[2] = 1 /\ g[2] = 0) /\ (v /= 2 => h[2] = g[2])
          /\ (v = 3 => h[3] = 1 /\ g[3] = 0) /\ (v /= 3 => h[3] = g[3])
          /\ (v = 4 => h[4] = 1 /\ g[4] = 0) /\ (v /= 4 => h[4] = g[4])
          /\ (v = 5 => h[5] = 1 /\ g[5] = 0) /\ (v /= 5 => h[5] = g[5])
      BY <1>4, <2>1
    <3>2. \/ v = 1 /\ 2^v = 2
          \/ v = 2 /\ 2^v = 4
          \/ v = 3 /\ 2^v = 8
          \/ v = 4 /\ 2^v = 16
          \/ v = 5 /\ 2^v = 32
      <4>1. v = 1 \/ v = 2 \/ v = 3 \/ v = 4 \/ v = 5
        OBVIOUS
      <4>2. QED
        BY <4>1, Powers, Zenon
    <3> DEFINE power == 2^v
    <3> HIDE DEF power
    <3>3. \/ v = 1 /\ power = 2
          \/ v = 2 /\ power = 4
          \/ v = 3 /\ power = 8
          \/ v = 4 /\ power = 16
          \/ v = 5 /\ power = 32
      BY <3>2 DEF power
    <3>4. Value(h) = Value(g) + power
      BY <2>3, <3>1, <3>3 DEF Value
    <3>5. QED
      BY <3>4 DEF power
  <2>5. QED
    BY <2>2, <2>4 DEF h
<1>5. QED
  BY <1>2, <1>3, <1>4

\* mask holds the masks of the beginnings of arr.
Masks(mask, arr, n) ==
  /\ mask[0] = 0
  /\ \A i \in 1 .. n : mask[i] = IF arr[i] > 0 THEN WithBit(mask[i - 1], arr[i]) ELSE mask[i - 1]

LEMMA MasksExist ==
  ASSUME NEW arr, Len(arr) \in Nat
  PROVE  \E mask : Masks(mask, arr, Len(arr)) /\ MASK_ARR_PACK(arr) = mask[Len(arr)]
<1> DEFINE Step(m, i) == IF arr[i] > 0 THEN WithBit(m, arr[i]) ELSE m
           Body(w) == [i \in 0 .. Len(arr) |-> IF i = 0 THEN 0 ELSE Step(w[i - 1], i)]
           all == CHOOSE w : w = Body(w)
           X == {m \in Nat : \E w : w[0] = 0 /\ \A i \in 1 .. m : w[i] = Step(w[i - 1], i)}
<1> HIDE DEF Step
<1>1. 0 \in X
  <2> DEFINE w == [i \in {0} |-> 0]
  <2>1. w[0] = 0 /\ \A i \in 1 .. 0 : w[i] = Step(w[i - 1], i)
    OBVIOUS
  <2>2. QED
    BY <2>1
<1>2. ASSUME NEW m \in Nat, m \in X
      PROVE  m + 1 \in X
  <2>1. PICK w : w[0] = 0 /\ \A i \in 1 .. m : w[i] = Step(w[i - 1], i)
    BY <1>2
  <2> DEFINE v == [i \in 0 .. m + 1 |-> IF i = m + 1 THEN Step(w[m], m + 1) ELSE w[i]]
  <2>2. \A i \in 0 .. m : v[i] = w[i]
    OBVIOUS
  <2>3. v[m + 1] = Step(w[m], m + 1)
    OBVIOUS
  <2> HIDE DEF v
  <2>4. v[0] = 0
    BY <2>1, <2>2
  <2>5. ASSUME NEW i \in 1 .. m + 1
        PROVE  v[i] = Step(v[i - 1], i)
    <3>1. CASE i \in 1 .. m
      <4>1. i \in 0 .. m /\ i - 1 \in 0 .. m
        BY <3>1
      <4>2. QED
        BY <2>1, <2>2, <3>1, <4>1
    <3>2. CASE i = m + 1
      <4>1. i - 1 = m /\ m \in 0 .. m
        BY <3>2
      <4>2. QED
        BY <2>2, <2>3, <3>2, <4>1
    <3>3. QED
      BY <3>1, <3>2
  <2>6. QED
    BY <2>4, <2>5
<1>3. PICK w : w[0] = 0 /\ \A i \in 1 .. Len(arr) : w[i] = Step(w[i - 1], i)
  <2>1. Len(arr) \in X
    <3> HIDE DEF X
    <3>1. QED
      BY <1>1, <1>2, SetInduction
  <2>2. QED
    BY <2>1
<1> HIDE DEF X
<1>4. Body(w) = Body(Body(w))
  <2>1. \A i \in 0 .. Len(arr) : Body(w)[i] = w[i]
    BY <1>3
  <2>2. \A i \in 0 .. Len(arr) : i /= 0 => i - 1 \in 0 .. Len(arr)
    OBVIOUS
  <2> DEFINE b == Body(w)
  <2>3. \A i \in 0 .. Len(arr) : i /= 0 => b[i - 1] = w[i - 1]
    <3> HIDE DEF Body
    <3>1. QED
      BY <2>1, <2>2
  <2> HIDE DEF b
  <2>4. Body(w) = Body(b)
    BY <2>3
  <2>5. QED
    BY <2>4 DEF b
<1>5. all = Body(all)
  <2> HIDE DEF Body
  <2>1. QED
    BY <1>4
<1>6. all[0] = 0 /\ \A i \in 1 .. Len(arr) : all[i] = Step(all[i - 1], i)
  <2> HIDE DEF all
  <2>1. \A i \in 0 .. Len(arr) : all[i] = IF i = 0 THEN 0 ELSE Step(all[i - 1], i)
    BY <1>5
  <2>2. 0 \in 0 .. Len(arr) /\ \A i \in 1 .. Len(arr) : i \in 0 .. Len(arr) /\ i /= 0
    OBVIOUS
  <2> HIDE DEF Body
  <2>3. QED
    BY <2>1, <2>2
<1>7. MASK_ARR_PACK(arr) = all[Len(arr)]
  BY DEF MASK_ARR_PACK, Step
<1>8. QED
  <2> HIDE DEF all
  <2>1. Masks(all, arr, Len(arr))
    BY <1>6 DEF Masks, Step
  <2>2. QED
    BY <1>7, <2>1

LEMMA PackedFormats ==
  ASSUME NEW n \in Nat, NEW arr \in [1 .. n -> 0 .. 5]
  PROVE  \E g \in Digits : MASK_ARR_PACK(arr) = Value(g) /\ \A w \in 0 .. 5 : g[w] = 1 <=> w \in Range(arr) \ {0}
<1>1. Len(arr) = n
  OBVIOUS
<1>2. PICK mask : Masks(mask, arr, n) /\ MASK_ARR_PACK(arr) = mask[n]
  BY <1>1, MasksExist
<1> DEFINE Entered(k) == {arr[i] : i \in 1 .. k} \ {0}
           Packed(k) == \E g \in Digits : /\ mask[k] = Value(g)
                                         /\ \A w \in 0 .. 5 : g[w] = 1 <=> w \in Entered(k)
           X == {k \in Nat : k <= n => Packed(k)}
<1>3. 0 \in X
  <2> DEFINE g == [w \in 0 .. 5 |-> 0]
  <2>1. g \in Digits /\ \A w \in 0 .. 5 : g[w] = 0
    BY DEF Digits
  <2> HIDE DEF g
  <2>2. Value(g) = 0
    BY <2>1 DEF Value
  <2>3. QED
    BY <1>2, <2>1, <2>2 DEF Masks
<1>4. ASSUME NEW k \in Nat, k \in X
      PROVE  k + 1 \in X
  <2> HIDE DEF Packed
  <2> SUFFICES ASSUME k + 1 <= n
               PROVE  Packed(k + 1)
    OBVIOUS
  <2>0. Packed(k)
    BY <1>4
  <2> USE DEF Packed
  <2>1. PICK g \in Digits : mask[k] = Value(g) /\ \A w \in 0 .. 5 : g[w] = 1 <=> w \in Entered(k)
    BY <2>0
  <2>2. k + 1 \in 1 .. n /\ k + 1 - 1 = k /\ arr[k + 1] \in 0 .. 5
    OBVIOUS
  <2>3. mask[k + 1] = IF arr[k + 1] > 0 THEN WithBit(mask[k], arr[k + 1]) ELSE mask[k]
    BY <1>2, <2>2 DEF Masks
  <2>4. \A w : w \in Entered(k + 1) <=> w \in Entered(k) \/ (w = arr[k + 1] /\ w /= 0)
    <3>1. 1 .. k + 1 = (1 .. k) \cup {k + 1}
      OBVIOUS
    <3>2. QED
      BY <3>1
  <2> HIDE DEF Entered
  <2>5. CASE arr[k + 1] = 0
    BY <2>1, <2>3, <2>4, <2>5
  <2>6. CASE arr[k + 1] /= 0
    <3> DEFINE h == [g EXCEPT ![arr[k + 1]] = 1]
    <3>1. arr[k + 1] \in 1 .. 5
      BY <2>2, <2>6
    <3>2. mask[k + 1] = Value(h)
      <4>1. mask[k + 1] = WithBit(Value(g), arr[k + 1])
        BY <2>1, <2>3, <3>1
      <4>2. WithBit(Value(g), arr[k + 1]) = Value(h)
        BY <2>1, <3>1, WithDigit, Zenon
      <4>3. QED
        BY <4>1, <4>2
    <3>3. h \in Digits /\ \A w \in 0 .. 5 : h[w] = IF w = arr[k + 1] THEN 1 ELSE g[w]
      BY <3>1 DEF Digits
    <3> HIDE DEF h
    <3>4. \A w \in 0 .. 5 : h[w] = 1 <=> w \in Entered(k + 1)
      BY <2>1, <2>4, <2>6, <3>3
    <3>5. QED
      BY <3>2, <3>3, <3>4
  <2>7. QED
    BY <2>5, <2>6
<1>5. Packed(n)
  <2>1. n \in X
    <3> HIDE DEF X
    <3>1. QED
      BY <1>3, <1>4, SetInduction
  <2>2. n <= n
    OBVIOUS
  <2> HIDE DEF Packed
  <2>3. QED
    BY <2>1, <2>2
<1>6. Range(arr) = {arr[i] : i \in 1 .. n}
  BY DEF Range
<1>7. QED
  BY <1>2, <1>5, <1>6 DEF Packed

\* What a mask of formats says of each of the bits of its type.
MaskOf(mask, arr, n) ==
  /\ arr \in [1 .. n -> 0 .. 5]
  /\ mask \in 0 .. 63
  /\ \A v \in 0 .. 15 : MASK_ISSET(mask, v) <=> v \in Range(arr) \ {0}

LEMMA PackedMask ==
  ASSUME NEW n \in Nat, NEW arr \in [1 .. n -> 0 .. 5]
  PROVE  MaskOf(MASK_ARR_PACK(arr), arr, n)
<1>1. PICK g \in Digits : /\ MASK_ARR_PACK(arr) = Value(g)
                          /\ \A w \in 0 .. 5 : g[w] = 1 <=> w \in Range(arr) \ {0}
  BY PackedFormats
<1>2. Range(arr) \subseteq 0 .. 5
  BY DEF Range
<1>3. QED
  BY <1>1, <1>2, SetDigits DEF MaskOf

MasksInv == MaskOf(rate_mask, rates, RateEntries) /\ MaskOf(bits_mask, depths, BitsEntries)

LEMMA NoFormats ==
  ASSUME NEW n \in Nat
  PROVE  MaskOf(0, [k \in 1 .. n |-> 0], n)
<1> DEFINE arr == [k \in 1 .. n |-> 0]
           g == [w \in 0 .. 5 |-> 0]
<1>1. arr \in [1 .. n -> 0 .. 5] /\ \A v \in Range(arr) : v = 0
  BY DEF Range
<1>2. g \in Digits /\ \A w \in 0 .. 5 : g[w] = 0
  BY DEF Digits
<1> HIDE DEF arr, g
<1>3. Value(g) = 0
  BY <1>2 DEF Value
<1>4. QED
  BY <1>1, <1>2, <1>3, SetDigits DEF MaskOf, arr

\* The masks tell the formats a speaker supports from those it does not, for
\* arrays of every size, whatever is entered and however often (MASK_ARR_PACK,
\* MASK_ISSET).
THEOREM MasksAreRight == FormatsSpec => []MasksTellFormats
<1> USE FormatsAssumption
<1>1. FormatsInit => MasksInv
  BY NoFormats DEF FormatsInit, MasksInv, RATE_NONE, BIT_NONE
<1>2. MasksInv /\ [FormatsNext]_formatVars => MasksInv'
  <2> SUFFICES ASSUME MasksInv, [FormatsNext]_formatVars
               PROVE  MasksInv'
    OBVIOUS
  <2>1. ASSUME NEW k \in 1 .. RateEntries, NEW v \in RATE_NONE .. RATE_MAX - 1, SupportsRate(k, v)
        PROVE  MasksInv'
    <3>1. rates' \in [1 .. RateEntries -> 0 .. 5]
      BY <2>1, FormatNumbers DEF SupportsRate, MasksInv, MaskOf
    <3>2. rate_mask' = MASK_ARR_PACK(rates') /\ UNCHANGED <<depths, bits_mask>>
      BY <2>1 DEF SupportsRate
    <3>3. MaskOf(MASK_ARR_PACK(rates'), rates', RateEntries)
      BY <3>1, PackedMask
    <3>4. QED
      BY <3>2, <3>3 DEF MasksInv
  <2>2. ASSUME NEW k \in 1 .. BitsEntries, NEW v \in BIT_NONE .. BIT_MAX - 1, SupportsBits(k, v)
        PROVE  MasksInv'
    <3>1. depths' \in [1 .. BitsEntries -> 0 .. 5]
      BY <2>2, FormatNumbers DEF SupportsBits, MasksInv, MaskOf
    <3>2. bits_mask' = MASK_ARR_PACK(depths') /\ UNCHANGED <<rates, rate_mask>>
      BY <2>2 DEF SupportsBits
    <3>3. MaskOf(MASK_ARR_PACK(depths'), depths', BitsEntries)
      BY <3>1, PackedMask
    <3>4. QED
      BY <3>2, <3>3 DEF MasksInv
  <2>3. CASE UNCHANGED formatVars
    BY <2>3 DEF formatVars, MasksInv
  <2>4. QED
    BY <2>1, <2>2, <2>3 DEF FormatsNext
<1>3. MasksInv => MasksTellFormats
  <2>1. 2^16 = 65536 /\ 2^8 = 256
    BY SMT
  <2>2. \A v : v \in 0 .. 7 => v \in 0 .. 15
    OBVIOUS
  <2>3. QED
    BY <2>1, <2>2 DEF MasksInv, MaskOf, MasksTellFormats, RATE_NONE, BIT_NONE
<1>4. QED
  BY <1>1, <1>2, <1>3, PTL DEF FormatsSpec

-----------------------------------------------------------------------------
(* The checksum: taking a byte is one-to-one, in the checksum and in the byte. *)

Octets == SUBSET (0 .. 7)

LEMMA BitsOfXor == \A a, b, i : i \in Xor(a, b) <=> (i \in a /\ i \notin b) \/ (i \in b /\ i \notin a)
BY DEF Xor

LEMMA XorOfOctets ==
  ASSUME NEW a \in Octets, NEW b \in Octets
  PROVE  Xor(a, b) \in Octets
BY DEF Xor, Octets

LEMMA XorWithItself == \A a : Xor(a, a) = {}
BY DEF Xor

LEMMA XorTellsApart ==
  ASSUME NEW a, NEW b, NEW c
  PROVE  /\ Xor(a, c) = Xor(b, c) => a = b
         /\ Xor(c, a) = Xor(c, b) => a = b
         /\ Xor(a, c) = a => c = {}
<1>1. (Xor(a, c) = Xor(b, c) \/ Xor(c, a) = Xor(c, b)) => \A i : i \in a <=> i \in b
  BY BitsOfXor
<1>2. Xor(a, c) = a => \A i : i \notin c
  BY BitsOfXor
<1>3. QED
  BY <1>1, <1>2

\* Bit by bit: each bit moves up, and with bit 7 go in the three of CRC_POLY.
LEMMA BitsOfShifted ==
  ASSUME NEW c \in Octets
  PROVE  /\ Shifted(c) \in Octets
         /\ 0 \in Shifted(c) <=> 7 \in c
         /\ \A i \in 0 .. 6 : i + 1 \in Shifted(c) <=>
              (i \in c /\ ~(7 \in c /\ i \in {0, 1})) \/ (i \notin c /\ 7 \in c /\ i \in {0, 1})
<1>1. Doubled(c) \in Octets /\ 0 \notin Doubled(c) /\ \A i \in 0 .. 6 : i + 1 \in Doubled(c) <=> i \in c
  BY DEF Doubled, Octets
<1>2. CRC_POLY \in Octets
  BY DEF CRC_POLY, Octets
<1>3. \A i \in 0 .. 6 : i + 1 \in CRC_POLY <=> i \in {0, 1}
  BY DEF CRC_POLY
<1>4. 0 \in CRC_POLY
  BY DEF CRC_POLY
<1>5. CASE 7 \in c
  <2>1. Shifted(c) = Xor(Doubled(c), CRC_POLY)
    BY <1>5 DEF Shifted
  <2>2. Shifted(c) \in Octets
    BY <1>1, <1>2, <2>1, XorOfOctets
  <2>3. 0 \in Shifted(c)
    BY <1>1, <1>4, <2>1, BitsOfXor
  <2>4. ASSUME NEW i \in 0 .. 6
        PROVE  i + 1 \in Shifted(c) <=> (i \in c /\ i \notin {0, 1}) \/ (i \notin c /\ i \in {0, 1})
    BY <1>1, <1>3, <2>1, BitsOfXor
  <2>5. QED
    BY <1>5, <2>2, <2>3, <2>4
<1>6. CASE 7 \notin c
  BY <1>1, <1>6 DEF Shifted
<1>7. QED
  BY <1>5, <1>6

LEMMA ShiftedTellsApart ==
  ASSUME NEW c \in Octets, NEW d \in Octets, Shifted(c) = Shifted(d)
  PROVE  c = d
<1>1. 7 \in c <=> 7 \in d
  BY BitsOfShifted
<1>2. ASSUME NEW i \in 0 .. 6
      PROVE  i \in c <=> i \in d
  <2>1. i + 1 \in Shifted(c) <=> i + 1 \in Shifted(d)
    OBVIOUS
  <2>2. QED
    BY <1>1, <2>1, BitsOfShifted
<1>3. \A i \in 0 .. 7 : i \in c <=> i \in d
  BY <1>1, <1>2
<1>4. QED
  BY <1>3 DEF Octets

LEMMA NothingShifted == Shifted({}) = {}
BY DEF Shifted, Doubled

\* Taking a byte loses nothing: other checksums, or other bytes, give others.
LEMMA TakenTellsApart ==
  ASSUME NEW c \in Octets, NEW d \in Octets, NEW a \in Octets, NEW b \in Octets
  PROVE  /\ Taken(c, a) \in Octets
         /\ Taken(c, a) = Taken(d, a) => c = d
         /\ Taken(c, a) = Taken(c, b) => a = b
         /\ Taken(c, c) = {}
<1> DEFINE two(x) == Shifted(Shifted(x))
           four(x) == two(two(x))
           eight(x) == four(four(x))
<1>1. \A x \in Octets : Shifted(x) \in Octets
  BY BitsOfShifted
<1>2. \A x, y \in Octets : Shifted(x) = Shifted(y) => x = y
  BY ShiftedTellsApart
<1>3. \A x, y \in Octets : two(x) \in Octets /\ (two(x) = two(y) => x = y)
  BY <1>1, <1>2
<1>4. two({}) = {}
  BY NothingShifted
<1> HIDE DEF two
<1>5. \A x, y \in Octets : four(x) \in Octets /\ (four(x) = four(y) => x = y)
  BY <1>3
<1>6. four({}) = {}
  BY <1>4
<1> HIDE DEF four
<1>7. \A x, y \in Octets : eight(x) \in Octets /\ (eight(x) = eight(y) => x = y)
  BY <1>5
<1>8. eight({}) = {}
  BY <1>6
<1>9. \A x, y : Taken(x, y) = eight(Xor(x, y))
  BY DEF Taken, four, two
<1> HIDE DEF eight
<1>10. Xor(c, a) \in Octets /\ Xor(d, a) \in Octets /\ Xor(c, b) \in Octets
  BY XorOfOctets
<1>11. Taken(c, a) = Taken(d, a) => c = d
  <2>1. Taken(c, a) = Taken(d, a) => Xor(c, a) = Xor(d, a)
    BY <1>7, <1>9, <1>10
  <2>2. QED
    BY <2>1, XorTellsApart, Zenon
<1>12. Taken(c, a) = Taken(c, b) => a = b
  <2>1. Taken(c, a) = Taken(c, b) => Xor(c, a) = Xor(c, b)
    BY <1>7, <1>9, <1>10
  <2>2. QED
    BY <2>1, XorTellsApart, Zenon
<1>13. Taken(c, c) = {}
  BY <1>8, <1>9, XorWithItself
<1>14. QED
  BY <1>7, <1>9, <1>10, <1>11, <1>12, <1>13

\* w holds the checksums of the beginnings of s.
Checksums(w, s) ==
  /\ w[0] = CRC_INIT
  /\ \A n \in 1 .. Len(s) : w[n] = Taken(w[n - 1], s[n])

\* w and v are the checksums of two messages with the same m bytes in front.
Alike(w, s, v, t, m) ==
  /\ Checksums(w, s) /\ Checksums(v, t)
  /\ Len(s) \in Nat /\ Len(t) \in Nat /\ m \in Nat
  /\ m <= Len(s) /\ m <= Len(t) /\ \A n \in 1 .. m : s[n] = t[n]

\* What the checksum is after m bytes depends on these.
LEMMA ChecksumsAgree ==
  ASSUME NEW s, NEW t, NEW w, NEW v, NEW m,
         Alike(w, s, v, t, m)
  PROVE  w[m] = v[m]
<1> DEFINE X == {n \in Nat : n <= m => w[n] = v[n]}
<1>1. 0 \in X
  BY DEF Alike, Checksums
<1>2. ASSUME NEW n \in Nat, n \in X
      PROVE  n + 1 \in X
  <2> SUFFICES ASSUME n + 1 <= m
               PROVE  w[n + 1] = v[n + 1]
    OBVIOUS
  <2>1. /\ n + 1 \in 1 .. m /\ n + 1 \in 1 .. Len(s) /\ n + 1 \in 1 .. Len(t)
        /\ n + 1 - 1 = n /\ w[n] = v[n]
    BY <1>2 DEF Alike
  <2>2. w[n + 1] = Taken(w[n], s[n + 1]) /\ v[n + 1] = Taken(v[n], t[n + 1])
    BY <2>1 DEF Alike, Checksums
  <2>3. s[n + 1] = t[n + 1]
    BY <2>1 DEF Alike
  <2>4. QED
    BY <2>1, <2>2, <2>3
<1>3. QED
  <2> HIDE DEF X
  <2>1. m \in X
    BY <1>1, <1>2, SetInduction DEF Alike
  <2>2. QED
    BY <2>1 DEF Alike, X

LEMMA ChecksumsAreOctets ==
  ASSUME NEW s \in Seq(Octets), NEW w, Checksums(w, s), NEW m \in 0 .. Len(s)
  PROVE  w[m] \in Octets
<1> DEFINE X == {n \in Nat : n <= Len(s) => w[n] \in Octets}
<1>0. Len(s) \in Nat
  OBVIOUS
<1>1. 0 \in X
  BY DEF Checksums, CRC_INIT, Octets
<1>2. ASSUME NEW n \in Nat, n \in X
      PROVE  n + 1 \in X
  <2> SUFFICES ASSUME n + 1 <= Len(s)
               PROVE  w[n + 1] \in Octets
    OBVIOUS
  <2>1. n + 1 \in 1 .. Len(s) /\ n + 1 - 1 = n /\ w[n] \in Octets
    BY <1>0, <1>2
  <2>2. s[n + 1] \in Octets
    BY <2>1, ElementOfSeq
  <2>3. w[n + 1] = Taken(w[n], s[n + 1])
    BY <2>1 DEF Checksums
  <2>4. QED
    BY <2>1, <2>2, <2>3, TakenTellsApart
<1>3. QED
  <2> HIDE DEF X
  <2>1. m \in X
    BY <1>0, <1>1, <1>2, SetInduction
  <2>2. QED
    BY <1>0, <2>1 DEF X

\* The recursion of crc8_check has a solution: from each beginning of a
\* message to the one longer by a byte.
LEMMA ChecksumsExist ==
  ASSUME NEW s, Len(s) \in Nat
  PROVE  \E w : Checksums(w, s) /\ crc8_check(s) = w[Len(s)]
<1> DEFINE Body(w) == [n \in 0 .. Len(s) |-> IF n = 0 THEN CRC_INIT ELSE Taken(w[n - 1], s[n])]
           all == CHOOSE w : w = Body(w)
           X == {m \in Nat : \E w : w[0] = CRC_INIT /\ \A n \in 1 .. m : w[n] = Taken(w[n - 1], s[n])}
<1>1. 0 \in X
  <2> DEFINE w == [n \in {0} |-> CRC_INIT]
  <2>1. w[0] = CRC_INIT /\ \A n \in 1 .. 0 : w[n] = Taken(w[n - 1], s[n])
    OBVIOUS
  <2>2. QED
    BY <2>1
<1>2. ASSUME NEW m \in Nat, m \in X
      PROVE  m + 1 \in X
  <2>1. PICK w : w[0] = CRC_INIT /\ \A n \in 1 .. m : w[n] = Taken(w[n - 1], s[n])
    BY <1>2
  <2> DEFINE v == [n \in 0 .. m + 1 |-> IF n = m + 1 THEN Taken(w[m], s[m + 1]) ELSE w[n]]
  <2>2. \A n \in 0 .. m : v[n] = w[n]
    OBVIOUS
  <2>3. v[m + 1] = Taken(w[m], s[m + 1])
    OBVIOUS
  <2> HIDE DEF v
  <2>4. v[0] = CRC_INIT
    BY <2>1, <2>2
  <2>5. ASSUME NEW n \in 1 .. m + 1
        PROVE  v[n] = Taken(v[n - 1], s[n])
    <3>1. CASE n \in 1 .. m
      <4>1. n \in 0 .. m /\ n - 1 \in 0 .. m
        BY <3>1
      <4>2. QED
        BY <2>1, <2>2, <3>1, <4>1
    <3>2. CASE n = m + 1
      <4>1. n - 1 = m /\ m \in 0 .. m
        BY <3>2
      <4>2. QED
        BY <2>2, <2>3, <3>2, <4>1
    <3>3. QED
      BY <3>1, <3>2
  <2>6. QED
    BY <2>4, <2>5
<1>3. PICK w : w[0] = CRC_INIT /\ \A n \in 1 .. Len(s) : w[n] = Taken(w[n - 1], s[n])
  <2>1. Len(s) \in X
    <3> HIDE DEF X
    <3>1. QED
      BY <1>1, <1>2, SetInduction
  <2>2. QED
    BY <2>1
<1> HIDE DEF X
<1>4. Body(w) = Body(Body(w))
  <2>1. \A n \in 0 .. Len(s) : Body(w)[n] = w[n]
    BY <1>3
  <2>2. \A n \in 0 .. Len(s) : n /= 0 => n - 1 \in 0 .. Len(s)
    OBVIOUS
  <2>3. \A n \in 0 .. Len(s) : n /= 0 => Body(w)[n - 1] = w[n - 1]
    <3> HIDE DEF Body
    <3>1. QED
      BY <2>1, <2>2
  <2> DEFINE b == Body(w)
  <2>4. \A n \in 0 .. Len(s) : n /= 0 => b[n - 1] = w[n - 1]
    <3> HIDE DEF Body
    <3>1. QED
      BY <2>3
  <2> HIDE DEF b
  <2>5. Body(w) = Body(b)
    BY <2>4
  <2>6. QED
    BY <2>5 DEF b
<1>5. all = Body(all)
  <2> HIDE DEF Body
  <2>1. QED
    BY <1>4
<1>6. Checksums(all, s)
  <2> HIDE DEF all
  <2>1. \A n \in 0 .. Len(s) : all[n] = IF n = 0 THEN CRC_INIT ELSE Taken(all[n - 1], s[n])
    BY <1>5
  <2>2. 0 \in 0 .. Len(s) /\ \A n \in 1 .. Len(s) : n \in 0 .. Len(s) /\ n /= 0
    OBVIOUS
  <2> HIDE DEF Body
  <2>3. QED
    BY <2>1, <2>2 DEF Checksums
<1>7. crc8_check(s) = all[Len(s)]
  BY DEF crc8_check
<1>8. QED
  BY <1>6, <1>7

LEMMA ChecksumOfSealed ==
  ASSUME NEW s \in Seq(Octets)
  PROVE  crc8_check(s) \in Octets /\ crc8_check(Append(s, crc8_check(s))) = {}
<1> DEFINE c == crc8_check(s)
           t == Append(s, c)
<1>1. PICK w : Checksums(w, s) /\ c = w[Len(s)]
  BY LenProperties, ChecksumsExist
<1>2. Len(s) \in Nat
  OBVIOUS
<1>3. c \in Octets
  <2>1. w[Len(s)] \in Octets
    BY <1>1, <1>2, ChecksumsAreOctets
  <2>2. QED
    BY <1>1, <2>1
<1> HIDE DEF c
<1>4. /\ t \in Seq(Octets) /\ Len(t) = Len(s) + 1 /\ t[Len(s) + 1] = c
      /\ \A n \in 1 .. Len(s) : t[n] = s[n]
  BY <1>3, AppendProperties
<1> HIDE DEF t
<1>5. PICK v : Checksums(v, t) /\ crc8_check(t) = v[Len(t)]
  BY <1>4, LenProperties, ChecksumsExist
<1>6. v[Len(s)] = w[Len(s)]
  <2>1. Alike(w, s, v, t, Len(s))
    BY <1>1, <1>2, <1>4, <1>5 DEF Alike
  <2>2. QED
    BY <2>1, ChecksumsAgree
<1>7. v[Len(s) + 1] = Taken(v[Len(s)], t[Len(s) + 1])
  <2>1. Len(s) + 1 \in 1 .. Len(t) /\ Len(s) + 1 - 1 = Len(s)
    BY <1>2, <1>4
  <2>2. QED
    BY <1>5, <2>1 DEF Checksums
<1>8. crc8_check(t) = Taken(c, c)
  BY <1>1, <1>4, <1>5, <1>6, <1>7
<1>9. QED
  BY <1>3, <1>8, TakenTellsApart DEF t, c

\* One byte changed: from there on the checksums are others.
LEMMA ChecksumsDiffer ==
  ASSUME NEW s \in Seq(Octets), NEW t \in Seq(Octets), Len(t) = Len(s),
         NEW k \in 1 .. Len(s), s[k] /= t[k], \A n \in 1 .. Len(s) : n /= k => s[n] = t[n]
  PROVE  crc8_check(s) /= crc8_check(t)
<1>1. PICK w : Checksums(w, s) /\ crc8_check(s) = w[Len(s)]
  BY LenProperties, ChecksumsExist
<1>2. PICK v : Checksums(v, t) /\ crc8_check(t) = v[Len(t)]
  BY LenProperties, ChecksumsExist
<1>3. Len(s) \in Nat /\ k \in Nat /\ k >= 1 /\ k <= Len(s)
  OBVIOUS
<1>4. w[k - 1] = v[k - 1]
  <2>1. Alike(w, s, v, t, k - 1)
    BY <1>1, <1>2, <1>3 DEF Alike
  <2>2. QED
    BY <2>1, ChecksumsAgree
<1>5. \A n \in 0 .. Len(s) : w[n] \in Octets /\ v[n] \in Octets
  BY <1>1, <1>2, ChecksumsAreOctets
<1>6. \A n \in 1 .. Len(s) : /\ n - 1 \in 0 .. Len(s) /\ s[n] \in Octets /\ t[n] \in Octets
                             /\ w[n] = Taken(w[n - 1], s[n]) /\ v[n] = Taken(v[n - 1], t[n])
  BY <1>1, <1>2, <1>3, ElementOfSeq DEF Checksums
<1> DEFINE X == {n \in Nat : n >= k /\ n <= Len(s) => w[n] /= v[n]}
<1>7. 0 \in X
  BY <1>3
<1>8. ASSUME NEW n \in Nat, n \in X
      PROVE  n + 1 \in X
  <2> SUFFICES ASSUME n + 1 >= k, n + 1 <= Len(s)
               PROVE  w[n + 1] /= v[n + 1]
    OBVIOUS
  <2>1. n + 1 \in 1 .. Len(s) /\ n + 1 - 1 = n /\ n \in 0 .. Len(s)
    BY <1>3
  <2>2. CASE n + 1 = k
    <3>1. w[n] = v[n] /\ w[n] \in Octets /\ s[k] \in Octets /\ t[k] \in Octets
      BY <1>4, <1>5, <1>6, <2>1, <2>2
    <3>2. w[k] = Taken(w[n], s[k]) /\ v[k] = Taken(w[n], t[k])
      BY <1>6, <2>1, <2>2, <3>1
    <3>3. QED
      BY <2>2, <3>1, <3>2, TakenTellsApart
  <2>3. CASE n + 1 /= k
    <3>1. w[n] /= v[n] /\ w[n] \in Octets /\ v[n] \in Octets
      BY <1>3, <1>5, <1>8, <2>1, <2>3
    <3>2. s[n + 1] \in Octets /\ w[n + 1] = Taken(w[n], s[n + 1]) /\ v[n + 1] = Taken(v[n], s[n + 1])
      BY <1>6, <2>1, <2>3
    <3>3. QED
      BY <3>1, <3>2, TakenTellsApart
  <2>4. QED
    BY <2>2, <2>3
<1>9. QED
  <2> HIDE DEF X
  <2>1. Len(s) \in X
    BY <1>3, <1>7, <1>8, SetInduction
  <2>2. QED
    BY <1>1, <1>2, <1>3, <2>1 DEF X

MessageInv == message \in Seq(CrcBytes)

\* A message with its checksum behind it has the checksum 0, and has another when
\* any one of its bytes was changed, for messages of any bytes and every length
\* (crc8_check).
THEOREM ChecksumsClose == ChecksumSpec => []ChecksumCloses
<1>1. ChecksumInit => MessageInv
  BY DEF ChecksumInit, MessageInv
<1>2. MessageInv /\ [ChecksumNext]_message => MessageInv'
  BY AppendProperties DEF MessageInv, ChecksumNext
<1>3. MessageInv => ChecksumCloses
  <2> SUFFICES ASSUME MessageInv
               PROVE  ChecksumCloses
    OBVIOUS
  <2>1. message \in Seq(Octets)
    <3>1. CrcBytes \subseteq Octets
      BY ChecksumAssumption DEF Octets
    <3>2. QED
      BY <3>1, SeqMonotonic DEF MessageInv
  <2> DEFINE sealed == Append(message, crc8_check(message))
  <2>2. crc8_check(message) \in Octets /\ crc8_check(sealed) = {}
    BY <2>1, ChecksumOfSealed
  <2>3. sealed \in Seq(Octets) /\ DOMAIN sealed = 1 .. Len(sealed)
    BY <2>1, <2>2, AppendProperties
  <2> HIDE DEF sealed
  <2>4. ASSUME NEW k \in DOMAIN sealed, NEW b \in CrcBytes \ {{}}
        PROVE  crc8_check([sealed EXCEPT ![k] = Xor(@, b)]) /= {}
    <3> DEFINE t == [sealed EXCEPT ![k] = Xor(sealed[k], b)]
    <3>1. sealed[k] \in Octets /\ b \in Octets
      BY <2>3, ChecksumAssumption, ElementOfSeq DEF Octets
    <3>2. Xor(sealed[k], b) \in Octets /\ Xor(sealed[k], b) /= sealed[k]
      BY <3>1, XorOfOctets, XorTellsApart
    <3>3. /\ t \in Seq(Octets) /\ Len(t) = Len(sealed)
          /\ t[k] = Xor(sealed[k], b) /\ \A n \in 1 .. Len(sealed) : n /= k => sealed[n] = t[n]
      BY <2>3, <3>2, ExceptSeq
    <3> HIDE DEF t
    <3>4. crc8_check(sealed) /= crc8_check(t)
      BY <2>3, <3>2, <3>3, ChecksumsDiffer
    <3>5. QED
      BY <2>2, <3>4 DEF t
  <2>5. QED
    BY <2>2, <2>4 DEF ChecksumCloses, sealed
<1>4. QED
  BY <1>1, <1>2, <1>3, PTL DEF ChecksumSpec
=============================================================================
