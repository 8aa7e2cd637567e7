---------------------------- MODULE SlaveProtocol ----------------------------
(***************************************************************************)
(* What a slave promises the rest of the bus, whatever its counters do: the *)
(* states of oplink_slave.c in the only order it passes through them, with  *)
(* a way back to the start at any time. Module Slave implements it; the     *)
(* slaves of module Network are built from its operators.                   *)
(***************************************************************************)
CONSTANTS Address,  \* addresses the master gives
          Nonce     \* values of rand()

VARIABLE node       \* bus_state, nonce and addr of the slave

\* slave_set_default(): a slave that starts over draws a new nonce.
Started(nonce) == [bus_state |-> "Disconnected", nonce |-> nonce, addr |-> 0]

\* check_bus_connection() and join_bus(): a slave that notices the bus may
\* signal in the same cycle.
CanSignal(s) == s.bus_state \in {"Disconnected", "Plugged_in"}
PluggedIn(s) == [s EXCEPT !.bus_state = "Plugged_in"]
Signalled(s) == [s EXCEPT !.bus_state = "Signal_sent"]

\* Mutation: the nonce is not compared.
TakesAnyFind(s, nonce) == s.bus_state = "Signal_sent"

\* route_command(): FIND is for the slave that waits for it with its nonce.
TakesFind(s, nonce) == s.bus_state = "Signal_sent" /\ s.nonce = nonce
Found(s, addr) == [bus_state |-> "Addr_set", nonce |-> s.nonce, addr |-> addr]

\* GET_UID and PING are answered in every state and move the handshake on in one.
UidAsked(s) == IF s.bus_state = "Addr_set" THEN [s EXCEPT !.bus_state = "UID_sent"] ELSE s
Pinged(s) == IF s.bus_state = "UID_sent" THEN [s EXCEPT !.bus_state = "Connected"] ELSE s
-----------------------------------------------------------------------------
Init == \E nonce \in Nonce : node = Started(nonce)

StartOver == \E nonce \in Nonce : node' = Started(nonce)
PlugIn == node.bus_state = "Disconnected" /\ node' = PluggedIn(node)
Signal == CanSignal(node) /\ node' = Signalled(node)
TakeFind == \E addr \in Address : TakesFind(node, node.nonce) /\ node' = Found(node, addr)
AskUid == node' = UidAsked(node)
Ping == node' = Pinged(node)

Next == StartOver \/ PlugIn \/ Signal \/ TakeFind \/ AskUid \/ Ping

Spec == Init /\ [][Next]_node
=============================================================================
