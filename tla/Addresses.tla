----------------------------- MODULE Addresses ------------------------------
(***************************************************************************)
(* The addresses of speakers: how an addr_t comes about from a text, from  *)
(* a socket's peer or from a detection packet (ip.c, package.c), and how   *)
(* a speaker is found by it (speaker_struct.c).                            *)
(*                                                                         *)
(* A host is a family and the 16-bit groups of its address, two or eight.  *)
(* In memory an addr_t is the family, padding, and room for eight groups,  *)
(* of which an IPv4 address takes the first two; what was never written    *)
(* has any content of Rest.                                                *)
(***************************************************************************)
EXTENDS Integers, Sequences, FiniteSetsExt

CONSTANTS
  Hosts,       \* records [family, groups]
  SomeTexts,   \* texts somebody takes for addresses
  Texts,       \* Texts[t]: the host a text stands for, if it does for one
  Rest,        \* what unwritten groups and padding may contain; 0 is among it
  Ports,       \* port numbers as callers give them, of 32 bits
  MaxRecorded  \* bound on the speakers

Groups == 0 .. 65535

IsHost(h) == \/ h.family = "inet" /\ h.groups \in [1 .. 2 -> Groups]
             \/ h.family = "inet6" /\ h.groups \in [1 .. 8 -> Groups]

ASSUME AddressAssumption ==
  /\ \A h \in Hosts \cup Range(Texts) : IsHost(h)
  /\ 0 \in Rest /\ Rest \subseteq Groups
  /\ Ports \subseteq Nat /\ MaxRecorded \in Nat

VARIABLES
  recorded,  \* the speakers' addr_t, in the order of the flat list
  clean      \* history: those that were written into zeroed memory

addressVars == <<recorded, clean>>

Filled(groups, r) == [k \in 1 .. 8 |-> IF k <= Len(groups) THEN groups[k] ELSE r]

\* An addr_t with h written over memory full of r.
AddrOver(h, r) == [type |-> h.family, padding |-> r, groups |-> Filled(h.groups, r)]

\* What memset leaves of it.
Zeroed == [type |-> "none", padding |-> 0, groups |-> Filled(<<>>, 0)]

-----------------------------------------------------------------------------
(* ip.c *)

\* The address and the result; what is no address gives neither.
addr_stoa(t) ==
  IF t \in DOMAIN Texts THEN [addr |-> AddrOver(Texts[t], 0), ret |-> 1] ELSE [addr |-> Zeroed, ret |-> 0]

\* Of an IPv6 address its upper half is looked at.
is_addr_valid(a) ==
  \/ a.type = "inet" /\ (\E k \in 1 .. 2 : a.groups[k] > 0)
  \/ a.type = "inet6" /\ (\E k \in 1 .. 4 : a.groups[k] > 0)

set_sockaddr(a, port) ==
  [family |-> a.type, port |-> port % 65536, groups |-> SubSeq(a.groups, 1, IF a.type = "inet" THEN 2 ELSE 8)]

\* Mutant: the addr_t is not zeroed first.
get_sockaddr_over(s) == AddrOver(s, Max(Rest))

get_sockaddr(s) == AddrOver(s, 0)

sockaddr_port(s) == s.port

\* The family of the second address is not looked at.
EQUAL_SOCK_ADDR(s, a) == s.groups = SubSeq(a.groups, 1, Len(s.groups))

-----------------------------------------------------------------------------
(* speaker_struct.c: the first speaker that fits, or 0. *)

First(S) == IF S = {} THEN 0 ELSE Min(S)

\* memcmp over the whole addr_t
find_speaker_by_ip(a) == First({i \in DOMAIN recorded : recorded[i] = a})

\* What the caller may pass for len: the size of an IPv6 address, or that of
\* its socket address, which is SOCKADDR_SIZE.
AddrLen == 16
Lens    == {AddrLen, 28}

\* The speaker's family is not looked at. Of an IPv6 address len bytes are
\* compared; past the address they are other fields of the speaker, and those
\* of the speakers in alike happen to be as what lies behind the address.
find_speaker_by_addr(s, len, alike) ==
  First({i \in DOMAIN recorded :
           EQUAL_SOCK_ADDR(s, recorded[i]) /\ (s.family = "inet6" /\ len > AddrLen => i \in alike)})

-----------------------------------------------------------------------------
(* Recording a speaker. *)

AddressInit == recorded = <<>> /\ clean = {}

Record(a) == Len(recorded) < MaxRecorded /\ recorded' = Append(recorded, a)

\* spk_detect_request_decode into the caller's memory, then
\* SPEAKER_STRUCT_INIT_FROM_HEADER.
Detected(h, r) ==
  /\ Record(AddrOver(h, r))
  /\ clean' = IF r = 0 THEN clean \cup {Len(recorded')} ELSE clean

\* The peer of a socket, as recvfrom gives it.
Peer(h, port) == [family |-> h.family, port |-> port % 65536, groups |-> h.groups]

Seen(h, port) ==
  /\ Record(get_sockaddr(Peer(h, port)))
  /\ clean' = clean \cup {Len(recorded')}

\* A text, if it is an address.
Configured(t) ==
  /\ addr_stoa(t).ret /= 0
  /\ Record(addr_stoa(t).addr)
  /\ clean' = clean \cup {Len(recorded')}

AddressNext ==
  \/ \E h \in Hosts, r \in Rest : Detected(h, r)
  \/ \E h \in Hosts, p \in Ports : Seen(h, p)
  \/ \E t \in SomeTexts : Configured(t)

AddressSpec == AddressInit /\ [][AddressNext]_addressVars

-----------------------------------------------------------------------------
(* Properties. *)

Is(a, h) == a.type = h.family /\ SubSeq(a.groups, 1, Len(h.groups)) = h.groups
Host(a)  == [family |-> a.type, groups |-> SubSeq(a.groups, 1, IF a.type = "inet" THEN 2 ELSE 8)]

\* Looked up by the addr_t of a packet's sender, exactly the speakers with the
\* sender's address that were recorded over zeroed memory can be found, the
\* first of them is: all ways to write an addr_t into such memory agree in
\* every byte, padding included, which is compared. A speaker decoded from a
\* packet into memory with anything else in it is never found, and is recorded
\* again (find_speaker_by_ip, get_sockaddr, addr_stoa).
PeerIsFound ==
  \A h \in Hosts, p \in Ports :
    find_speaker_by_ip(get_sockaddr(Peer(h, p))) = First({i \in clean : Is(recorded[i], h)})

\* Looked up by the socket address of a speaker, whatever memory it was
\* recorded over, the first speaker with that host is found, unless one of the
\* other family whose bytes are the same comes before it. This takes a len of
\* the 16 bytes of an address; with the size of its socket address an IPv6
\* speaker is found only if the bytes behind the address agree as well
\* (find_speaker_by_addr, set_sockaddr).
AddrIsFound ==
  \A i \in DOMAIN recorded : \A p \in Ports, len \in Lens, alike \in SUBSET DOMAIN recorded :
    LET a     == recorded[i]
        found == find_speaker_by_addr(set_sockaddr(a, p), len, alike)
    IN IF a.type = "inet6" /\ len > AddrLen
       THEN found \in alike \cup {0}
       ELSE /\ found \in 1 .. i
            /\ recorded[found].type = a.type =>
                 found = First({j \in DOMAIN recorded : Is(recorded[j], Host(a))})

\* An address made into a socket address and back is the same host, valid if
\* and only if it was before, with the port's lower 16 bits, and equal to its
\* socket address by EQUAL_SOCK_ADDR, whatever the memory behind an IPv4
\* address held (set_sockaddr, get_sockaddr, sockaddr_port, is_addr_valid).
SockaddrRoundTrip ==
  \A i \in DOMAIN recorded : \A p \in Ports :
    LET s == set_sockaddr(recorded[i], p)
    IN /\ Is(get_sockaddr(s), Host(recorded[i]))
       /\ is_addr_valid(get_sockaddr(s)) <=> is_addr_valid(recorded[i])
       /\ EQUAL_SOCK_ADDR(s, recorded[i])
       /\ sockaddr_port(s) = p % 65536

\* Which speaker an address leads to: by addr_t the first one recorded over
\* zeroed memory, by socket address the first one with the same bytes, as the
\* parts above say, and the host an address is of survives the way into a
\* socket address and back (ip.c, speaker_struct.c).
SpeakersAreFound == PeerIsFound /\ AddrIsFound /\ SockaddrRoundTrip
=============================================================================
