-------------------------- MODULE DatagramService --------------------------
(***************************************************************************)
(* What the event loop promises a program that registers connections: the  *)
(* datagrams a connection's socket holds reach the callback thread one at  *)
(* a time, each once, and those of one connection in the order in which    *)
(* they arrived.  Between connections no order is promised.                *)
(***************************************************************************)
EXTENDS Sequences

CONSTANTS Connections, Data, Nothing

VARIABLES
  pending,  \* pending[c]: what arrived for c and has not been handed over
  working   \* what the callback thread is working on, or Nothing

vars == <<pending, working>>

Init ==
  /\ pending = [c \in Connections |-> <<>>]
  /\ working = Nothing

Arrive(c, d) ==
  /\ pending' = [pending EXCEPT ![c] = Append(@, d)]
  /\ UNCHANGED working

HandOver(c) ==
  /\ working = Nothing
  /\ pending[c] /= <<>>
  /\ working' = [conn |-> c, data |-> Head(pending[c])]
  /\ pending' = [pending EXCEPT ![c] = Tail(@)]

Finish ==
  /\ working /= Nothing
  /\ working' = Nothing
  /\ UNCHANGED pending

Next ==
  \/ \E c \in Connections : HandOver(c) \/ \E d \in Data : Arrive(c, d)
  \/ Finish

Spec == Init /\ [][Next]_vars
=============================================================================
