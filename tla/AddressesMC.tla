---------------------------- MODULE AddressesMC -----------------------------
(***************************************************************************)
(* Hosts for TLC: two IPv4 hosts that differ in their second half only,    *)
(* one of them with an IPv6 host whose address begins like it; the address *)
(* that is 0 in both families, and ::1, which is 0 in its upper half.      *)
(***************************************************************************)
EXTENDS Addresses, TLC

V4(a, b) == [family |-> "inet", groups |-> <<a, b>>]
V6(a, b, z) == [family |-> "inet6", groups |-> <<a, b, 0, 0, 0, 0, 0, z>>]

MCTexts ==
  "10.0.0.1" :> V4(2560, 1) @@ "10.0.0.2" :> V4(2560, 2) @@ "0.0.0.0" :> V4(0, 0)
    @@ "a00:1::9" :> V6(2560, 1, 9) @@ "::1" :> V6(0, 0, 1) @@ "::" :> V6(0, 0, 0)

MCHosts     == Range(MCTexts)
MCSomeTexts == DOMAIN MCTexts \cup {"10.0.0"}
=============================================================================
