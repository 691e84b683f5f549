----------------------------- MODULE Interfaces -----------------------------
(***************************************************************************)
(* The questions ip.c asks the operating system about network interfaces:  *)
(* get_interface, get_default_interface and list_interfaces, as they are   *)
(* compiled for Linux. Each system call is a step that sees the interfaces *)
(* as they are then, or fails; between two calls they may change.          *)
(*                                                                         *)
(* A system maps the index of each interface to its name, MAC, MTU and     *)
(* whether it is the loopback. Beside that stand the addresses in the      *)
(* order of getifaddrs, where an interface without one has the family      *)
(* "none" (ifa_addr is NULL), and the kernel's routes.                     *)
(***************************************************************************)
EXTENDS Integers, Sequences, SequencesExt, FiniteSetsExt

CONSTANTS
  Systems,      \* records [links, addrs, routes] the system may be in
  Inquiries,    \* what get_interface is asked for: records [kind, name, index]
  AddressNames, \* names that addr_stoa takes for addresses
  Sockets,      \* the families asked for: "inet", "inet6"
  MaxLen,       \* the caller's array of list_interfaces
  MaxChanges,   \* bound on the changes of the system
  MaxQuestions  \* bound on the calls

\* The kernel counts interfaces from 1 and gives no name twice.
ASSUME InterfacesAssumption ==
  /\ {MaxLen, MaxChanges, MaxQuestions} \subseteq Nat
  /\ \A s \in Systems :
       /\ DOMAIN s.links \subseteq Nat \ {0}
       /\ \A i, j \in DOMAIN s.links : s.links[i].name = s.links[j].name => i = j
       /\ s.addrs \in Seq(Range(s.addrs)) /\ s.routes \in Seq(Range(s.routes))
  /\ \A a \in Inquiries : a.kind = "number" => a.index \in Nat

VARIABLES
  system,    \* the interfaces as they are
  question,  \* the call in progress and its arguments
  at,        \* its next system call; "idle" when it has returned
  reply,     \* what it has written for its caller
  returned,  \* what it returned
  snapshot,  \* what getifaddrs or the kernel's reply contained
  entry,     \* the place in it get_default_interface or list_interfaces is at
  lists,     \* results of getifaddrs that are not freed
  sockets,   \* sockets that are not closed
  changes,   \* how often the system has changed, and since when it has not
  asked,     \* how many calls there were
  unanswered \* history: calls of get_default_interface that ended with an error

interfaceVars == <<system, question, at, reply, returned, snapshot, entry, lists, sockets,
                   changes, asked, unanswered>>

Unset == [name |-> "", index |-> 0, ip |-> "", mac |-> "", mtu |-> 0]

InterfacesInit ==
  /\ system \in Systems
  /\ question = [op |-> "none"] /\ at = "idle" /\ reply = Unset /\ returned = 0
  /\ snapshot = <<>> /\ entry = 1 /\ lists = 0 /\ sockets = 0
  /\ changes = [all |-> 0, during |-> FALSE] /\ asked = 0 /\ unanswered = 0

\* An interface comes, goes, or is renamed.
Change ==
  /\ changes.all < MaxChanges
  /\ \E s \in Systems : system' = s /\ s /= system
  /\ changes' = [all |-> changes.all + 1, during |-> TRUE]
  /\ UNCHANGED <<question, at, reply, returned, snapshot, entry, lists, sockets, asked, unanswered>>

-----------------------------------------------------------------------------
\* if_indextoname and if_nametoindex; an index of 0 is nobody's.
NamesOf(i) == IF i \in DOMAIN system.links THEN {system.links[i].name} ELSE {}
IndexOf(n) == Max({0} \cup {i \in DOMAIN system.links : system.links[i].name = n})

\* What an ioctl knows of the interface with this name.
LinkNamed(n) == {system.links[i] : i \in {j \in DOMAIN system.links : system.links[j].name = n}}

Ask(q) ==
  /\ at = "idle" /\ asked < MaxQuestions
  /\ question' = q /\ asked' = asked + 1
  /\ snapshot' = <<>> /\ entry' = 1
  /\ changes' = [changes EXCEPT !.during = FALSE]
  /\ UNCHANGED <<system, lists, unanswered>>

Go(step) == at' = step /\ UNCHANGED returned
Return(r) == at' = "idle" /\ returned' = r

FreeList == lists' = lists - 1

\* Mutant: a loopback leaves by itself.
KeepSocket == UNCHANGED sockets

CloseSocket == sockets' = sockets - 1

Kept == UNCHANGED <<system, question, changes, asked>>   \* by every step of a call

-----------------------------------------------------------------------------
(* get_interface. *)

\* is_uint32: a text of digits that does not fit is any number, also none.
Numbers(a) ==
  CASE a.kind = "number" -> {a.index}
    [] a.kind = "huge"   -> {-1} \cup UNION {DOMAIN s.links : s \in Systems}
    [] OTHER             -> {-1}

\* An index is turned into a name, which may not look like an address. NULL, an
\* empty text and a text that is too long for a name are of the kind "none".
get_interface(sf, a) ==
  /\ Ask([op |-> "get", family |-> sf, asked |-> a])
  /\ UNCHANGED sockets
  /\ \E i \in Numbers(a) :
       LET names == IF a.kind = "none" THEN {} ELSE IF i >= 0 THEN NamesOf(i) ELSE {a.name}
       IN \/ /\ names \subseteq AddressNames
             /\ reply' = Unset /\ Return(-1)
          \/ \E n \in names \ AddressNames :
               reply' = [Unset EXCEPT !.name = n] /\ Go("getifaddrs")

\* getifaddrs, of get_interface and list_interfaces.
GetIfAddrs ==
  /\ at = "getifaddrs"
  /\ \/ /\ snapshot' = system.addrs /\ lists' = lists + 1
        /\ Go(IF question.op = "get" THEN "match" ELSE "walk")
     \/ Return(-1) /\ UNCHANGED <<snapshot, lists>>
  /\ Kept /\ UNCHANGED <<reply, entry, sockets, unanswered>>

\* The family of an entry is read before its name; without an address that is
\* a read through NULL.
\* Mutant: an entry of the other family is taken.
MatchingAnyFamily == SelectInSeq(snapshot, LAMBDA e : e.name = reply.name)

Matching == SelectInSeq(snapshot, LAMBDA e : e.family = question.family /\ e.name = reply.name)
NullAt   == SelectInSeq(snapshot, LAMBDA e : e.family = "none")

Match ==
  /\ at = "match"
  /\ \/ /\ NullAt /= 0 /\ (Matching = 0 \/ NullAt < Matching)
        /\ Go("crashed") /\ UNCHANGED <<reply, lists>>
     \/ /\ Matching /= 0 /\ ~(NullAt /= 0 /\ NullAt < Matching)
        /\ reply' = [reply EXCEPT !.ip = snapshot[Matching].ip, !.index = IndexOf(reply.name)]
        /\ FreeList /\ Go("socket")
     \/ /\ Matching = 0 /\ NullAt = 0
        /\ FreeList /\ Return(-1) /\ UNCHANGED reply
  /\ Kept /\ UNCHANGED <<snapshot, entry, sockets, unanswered>>

\* socket() for the ioctls that follow.
OpenSocket ==
  /\ at = "socket"
  /\ \/ sockets' = sockets + 1 /\ Go("flags")
     \/ Return(-1) /\ UNCHANGED sockets
  /\ Kept /\ UNCHANGED <<reply, snapshot, entry, lists, unanswered>>

\* SIOCGIFFLAGS, SIOCGIFHWADDR and SIOCGIFMTU fail at least when the name is gone.
IoctlFails ==
  /\ at \in {"flags", "hwaddr", "mtu"}
  /\ CloseSocket /\ Return(-1)
  /\ Kept /\ UNCHANGED <<reply, snapshot, entry, lists, unanswered>>

IsLoopback ==
  /\ at = "flags" /\ \E l \in LinkNamed(reply.name) : l.loop
  /\ CloseSocket /\ Return(-1)
  /\ Kept /\ UNCHANGED <<reply, snapshot, entry, lists, unanswered>>

IsNoLoopback ==
  /\ at = "flags" /\ \E l \in LinkNamed(reply.name) : ~l.loop
  /\ Go("hwaddr")
  /\ Kept /\ UNCHANGED <<reply, snapshot, entry, lists, sockets, unanswered>>

GetMac ==
  /\ at = "hwaddr"
  /\ \E l \in LinkNamed(reply.name) : reply' = [reply EXCEPT !.mac = l.mac]
  /\ Go("mtu")
  /\ Kept /\ UNCHANGED <<snapshot, entry, lists, sockets, unanswered>>

GetMtu ==
  /\ at = "mtu"
  /\ \E l \in LinkNamed(reply.name) : reply' = [reply EXCEPT !.mtu = l.mtu]
  /\ CloseSocket /\ Return(0)
  /\ Kept /\ UNCHANGED <<snapshot, entry, lists, unanswered>>

-----------------------------------------------------------------------------
(* get_default_interface: the family it is asked for is not looked at. The *)
(* loop around recv always ends after the first datagram, since it tests   *)
(* the flags of the request; the routes that come later are not seen.      *)

get_default_interface ==
  /\ Ask([op |-> "default"]) /\ reply' = Unset
  /\ \/ sockets' = sockets + 1 /\ Go("send")
     \/ UNCHANGED sockets /\ Return(-1)

\* After an error the socket stays open.
SendOrRecvFails ==
  /\ at \in {"send", "recv"}
  /\ Return(-1) /\ unanswered' = unanswered + 1
  /\ Kept /\ UNCHANGED <<reply, snapshot, entry, lists, sockets>>

SendsRequest ==
  /\ at = "send" /\ Go("recv")
  /\ Kept /\ UNCHANGED <<reply, snapshot, entry, lists, sockets, unanswered>>

\* The first datagram: some of the routes, or none if it reports an error. (Of
\* an empty table it is so short that it counts as an error of recv.)
ReceivesRoutes ==
  /\ at = "recv" /\ system.routes /= <<>> /\ Go("parse")
  /\ \E k \in 0 .. Len(system.routes) : snapshot' = SubSeq(system.routes, 1, k)
  /\ Kept /\ UNCHANGED <<reply, entry, lists, sockets, unanswered>>

\* A route over several interfaces has no RTA_OIF.
Usable(r) == r.table = "main" /\ NamesOf(r.oif) /= {}

ParseRoute ==
  /\ at = "parse"
  /\ \/ /\ entry \in DOMAIN snapshot /\ ~Usable(snapshot[entry])
        /\ entry' = entry + 1 /\ UNCHANGED <<at, returned, reply, sockets>>
     \/ /\ entry \in DOMAIN snapshot /\ Usable(snapshot[entry])
        /\ \E n \in NamesOf(snapshot[entry].oif) : reply' = [reply EXCEPT !.name = n]
        /\ CloseSocket /\ Return(1) /\ UNCHANGED entry
     \/ /\ entry \notin DOMAIN snapshot
        /\ CloseSocket /\ Return(0) /\ UNCHANGED <<entry, reply>>
  /\ Kept /\ UNCHANGED <<snapshot, lists, unanswered>>

-----------------------------------------------------------------------------
(* list_interfaces. MAC and MTU are left as they were. *)

list_interfaces(sf) ==
  /\ Ask([op |-> "list", family |-> sf]) /\ reply' = <<>>
  /\ Go("getifaddrs") /\ UNCHANGED sockets

RoomInAnswer == Len(reply) < MaxLen

WalkEntry ==
  /\ at = "walk"
  /\ \/ /\ entry \in DOMAIN snapshot /\ RoomInAnswer
        /\ \/ snapshot[entry].family = "none" /\ Go("crashed") /\ UNCHANGED <<reply, entry>>
           \/ /\ snapshot[entry].family = question.family
              /\ reply' = Append(reply, [name |-> snapshot[entry].name, ip |-> snapshot[entry].ip,
                                           index |-> IndexOf(snapshot[entry].name)])
              /\ entry' = entry + 1 /\ UNCHANGED <<at, returned>>
           \/ /\ snapshot[entry].family \notin {"none", question.family}
              /\ entry' = entry + 1 /\ UNCHANGED <<at, returned, reply>>
        /\ UNCHANGED lists
     \/ /\ ~(entry \in DOMAIN snapshot /\ RoomInAnswer)
        /\ FreeList /\ Return(Len(reply)) /\ UNCHANGED <<reply, entry>>
  /\ Kept /\ UNCHANGED <<snapshot, sockets, unanswered>>

-----------------------------------------------------------------------------
InterfacesNext ==
  \/ Change
  \/ \E sf \in Sockets : list_interfaces(sf) \/ \E a \in Inquiries : get_interface(sf, a)
  \/ get_default_interface
  \/ GetIfAddrs \/ Match \/ OpenSocket \/ IoctlFails \/ IsLoopback \/ IsNoLoopback \/ GetMac \/ GetMtu
  \/ SendOrRecvFails \/ SendsRequest \/ ReceivesRoutes \/ ParseRoute \/ WalkEntry

InterfacesSpec == InterfacesInit /\ [][InterfacesNext]_interfaceVars

-----------------------------------------------------------------------------
(* Properties. *)

\* Whatever fails, and wherever a call returns, it has freed its list and
\* closed its socket; all but get_default_interface, of which each call that
\* ends with an error of send or recv leaves a socket open.
EverythingGivenBack == at = "idle" => lists = 0 /\ sockets = unanswered

Returned(op) == at = "idle" /\ question.op = op /\ ~changes.during

\* While the interfaces stay as they are, get_interface describes one of them,
\* the one asked for, in all the fields it puts together from five system
\* calls, with an address of the family asked for, and never a loopback.
DescribesOneInterface ==
  Returned("get") /\ returned = 0 =>
    \E i \in DOMAIN system.links :
      LET l == system.links[i] IN
      /\ ~l.loop
      /\ reply.name = l.name /\ reply.index = i /\ reply.mac = l.mac /\ reply.mtu = l.mtu
      /\ \E e \in Range(system.addrs) : e.name = l.name /\ e.family = question.family /\ e.ip = reply.ip
      /\ question.asked.kind = "number" => question.asked.index = i
      /\ question.asked.kind = "name" => question.asked.name = l.name

\* get_default_interface names an interface a route of the main table leaves
\* through.
DefaultHasRoute ==
  Returned("default") /\ returned = 1 =>
    \E r \in Range(system.routes) : r.table = "main" /\ reply.name \in NamesOf(r.oif)

\* The entries of this family up to the j-th.
OfFamily(entries, family, j) == {i \in 1 .. j : entries[i].family = family}

\* list_interfaces lists the first addresses of the family, as many as the
\* caller has room for, also if interfaces go away while it walks the list.
ListsTheFirst ==
  at = "idle" /\ question.op = "list" /\ returned >= 0 =>
    LET Upto(j) == OfFamily(snapshot, question.family, j) IN
    /\ returned = Len(reply)
    /\ returned = Min({MaxLen, Cardinality(Upto(Len(snapshot)))})
    /\ \A j \in Upto(Len(snapshot)) :
         LET k == Cardinality(Upto(j)) IN
         k <= MaxLen => reply[k].name = snapshot[j].name /\ reply[k].ip = snapshot[j].ip

\* What the three calls answer is true of the system, also if it changes while
\* they ask it as far as the parts above say so.
AnswersAreTrue == DescribesOneInterface /\ DefaultHasRoute /\ ListsTheFirst
=============================================================================
