---------------------------- MODULE InterfacesMC ----------------------------
(***************************************************************************)
(* Interfaces for TLC: a loopback and a network card with addresses of     *)
(* both families; the same with another card, whose index the first one    *)
(* had, and a name that is an address; a tunnel without an address.        *)
(***************************************************************************)
EXTENDS Interfaces, TLC

Link(n, m) == [name |-> n, mac |-> m, mtu |-> 1500, loop |-> n = "lo"]
Addr(n, f, a) == [name |-> n, family |-> f, ip |-> a]
Route(t, i) == [table |-> t, oif |-> i]

MCSystems == {
  [links  |-> 1 :> Link("lo", "m0") @@ 2 :> Link("eth0", "m1"),
   addrs  |-> <<Addr("lo", "inet", "a0"), Addr("eth0", "inet6", "b1"), Addr("eth0", "inet", "a1")>>,
   routes |-> <<Route("local", 1), Route("main", 2)>>],
  [links  |-> 1 :> Link("lo", "m0") @@ 2 :> Link("wlan0", "m2") @@ 3 :> Link("eth0", "m1")
                @@ 4 :> Link("::7", "m3"),
   addrs  |-> <<Addr("wlan0", "inet", "a2"), Addr("eth0", "inet", "a1"), Addr("::7", "inet", "a4")>>,
   routes |-> <<Route("main", 0), Route("main", 9), Route("local", 1), Route("main", 3), Route("main", 2)>>],
  [links  |-> 1 :> Link("lo", "m0") @@ 5 :> Link("tun0", "m5"),
   addrs  |-> <<Addr("lo", "inet", "a0"), Addr("tun0", "none", "")>>,
   routes |-> <<>>]}

MCInquiries ==
  {[kind |-> "name", name |-> n, index |-> 0] : n \in {"lo", "eth0", "wlan0", "::7"}}
    \cup {[kind |-> "number", name |-> "digits", index |-> i] : i \in {0, 2, 4}}
    \cup {[kind |-> "huge", name |-> "digits", index |-> 0], [kind |-> "none", name |-> "", index |-> 0]}
=============================================================================
