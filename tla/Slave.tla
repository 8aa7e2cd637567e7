-------------------------------- MODULE Slave --------------------------------
(***************************************************************************)
(* A slave's application-level state machine (OPL/Slave/oplink_slave.c): it *)
(* waits for a stable bus, signals, is given an address by FIND, its UID is *)
(* asked by GET_UID and the first PING connects it. It starts over when the *)
(* bus is gone, the handshake takes too long or pings stay away.            *)
(*                                                                         *)
(* The link layer below is seen through what it tells the slave: commands   *)
(* of the master to the slave's address, or to 0, which it always listens   *)
(* to, and whether a SIGNAL could be written. Module LinkNode details it.   *)
(***************************************************************************)
EXTENDS Naturals

CONSTANTS PLUG_IN_MAX_COUNT,     \* keep-alive cycles, 20 in the code
          DISCONNECT_MAX_COUNT,  \* 10
          NO_CONFIG_MAX_COUNT,   \* 40
          NO_PING_MAX_COUNT,     \* 1200
          Address,               \* addresses the master gives
          Nonce                  \* values of rand()

ASSUME SlaveAssumption == /\ PLUG_IN_MAX_COUNT \in Nat \ {0}
                          /\ DISCONNECT_MAX_COUNT \in Nat \ {0}
                          /\ NO_CONFIG_MAX_COUNT \in Nat \ {0}
                          /\ NO_PING_MAX_COUNT \in Nat \ {0}
                          /\ Address \subseteq 1 .. 14
                          /\ Nonce # {}

VARIABLES opl_slave,  \* bus_state, received_ping, nonce; addr is opl_node.addr
          counter,    \* plug_in, disconnect, no_config, no_ping
          seen        \* what the bus did, for the properties: see History

vars == <<opl_slave, counter, seen>>

Handshake == {"Signal_sent", "Addr_set", "UID_sent"}
BusState == {"Disconnected", "Plugged_in", "Connected"} \cup Handshake

DefaultSlave(nonce) == [bus_state |-> "Disconnected", received_ping |-> FALSE,
                        nonce |-> nonce, addr |-> 0]
DefaultCounter == [plug_in |-> 0, disconnect |-> 0, no_config |-> 0, no_ping |-> 0]

\* History of the bus: cycles in a row that found the line low; cycles since
\* the SIGNAL; cycles since the last PING, up to what matters.
Capped(n, max) == IF n < max THEN n + 1 ELSE n
NothingSeen == [low |-> 0, joining |-> 0, quiet |-> 0]

\* opl_init(), which ends in slave_set_default().
Init == /\ \E nonce \in Nonce : opl_slave = DefaultSlave(nonce)
        /\ counter = DefaultCounter
        /\ seen = NothingSeen
-----------------------------------------------------------------------------
\* A node of the slave: its struct and its counters.
Node(slave, count) == [slave |-> slave, counter |-> count]

\* Mutation: the address is kept.
DefaultKeepsAddress(nonce) ==
  Node([DefaultSlave(nonce) EXCEPT !.addr = opl_slave.addr], DefaultCounter)

\* slave_set_default()
SetDefault(nonce) == Node(DefaultSlave(nonce), DefaultCounter)

\* Mutation: a line that is high again is not noticed once connected.
HighKeepsDisconnect ==
  IF opl_slave.bus_state # "Disconnected" THEN Node(opl_slave, counter)
  ELSE IF counter.plug_in + 1 = PLUG_IN_MAX_COUNT
  THEN Node([opl_slave EXCEPT !.bus_state = "Plugged_in"], [counter EXCEPT !.plug_in = 0])
  ELSE Node(opl_slave, [counter EXCEPT !.plug_in = @ + 1])

\* check_bus_connection() with the RX line high, and with it low.
CheckHigh ==
  LET count == [counter EXCEPT !.disconnect = 0]
  IN  IF opl_slave.bus_state # "Disconnected" THEN Node(opl_slave, count)
      ELSE IF count.plug_in + 1 = PLUG_IN_MAX_COUNT
      THEN Node([opl_slave EXCEPT !.bus_state = "Plugged_in"], [count EXCEPT !.plug_in = 0])
      ELSE Node(opl_slave, [count EXCEPT !.plug_in = @ + 1])
CheckLow(nonce) ==
  LET count == [counter EXCEPT !.plug_in = 0]
  IN  IF opl_slave.bus_state = "Disconnected" THEN Node(opl_slave, count)
      ELSE IF count.disconnect + 1 = DISCONNECT_MAX_COUNT THEN SetDefault(nonce)
      ELSE Node(opl_slave, [count EXCEPT !.disconnect = @ + 1])
Checked(high, nonce) == IF high THEN CheckHigh ELSE CheckLow(nonce)

\* Mutations of check_handshake(): the count is tested before it is raised; only
\* the wait for a FIND is counted.
HandshakeTestsBefore(node, nonce) ==
  IF node.counter.no_config = NO_CONFIG_MAX_COUNT THEN SetDefault(nonce)
  ELSE Node(node.slave, [node.counter EXCEPT !.no_config = @ + 1])
HandshakeForFind(node, nonce) ==
  IF node.slave.bus_state # "Signal_sent" THEN node
  ELSE IF node.counter.no_config + 1 = NO_CONFIG_MAX_COUNT THEN SetDefault(nonce)
  ELSE Node(node.slave, [node.counter EXCEPT !.no_config = @ + 1])

\* check_handshake() and check_ping()
CheckHandshake(node, nonce) ==
  IF node.counter.no_config + 1 = NO_CONFIG_MAX_COUNT THEN SetDefault(nonce)
  ELSE Node(node.slave, [node.counter EXCEPT !.no_config = @ + 1])

\* Mutations of check_ping(): the flag stays set; cycles without are not counted.
PingFlagStays(node, nonce) ==
  IF node.slave.received_ping THEN Node(node.slave, [node.counter EXCEPT !.no_ping = 0])
  ELSE IF node.counter.no_ping + 1 = NO_PING_MAX_COUNT THEN SetDefault(nonce)
  ELSE Node(node.slave, [node.counter EXCEPT !.no_ping = @ + 1])
SilenceNotCounted(node, nonce) ==
  IF node.slave.received_ping
  THEN Node([node.slave EXCEPT !.received_ping = FALSE], [node.counter EXCEPT !.no_ping = 0])
  ELSE node

CheckPing(node, nonce) ==
  IF node.slave.received_ping
  THEN Node([node.slave EXCEPT !.received_ping = FALSE], [node.counter EXCEPT !.no_ping = 0])
  ELSE IF node.counter.no_ping + 1 = NO_PING_MAX_COUNT THEN SetDefault(nonce)
  ELSE Node(node.slave, [node.counter EXCEPT !.no_ping = @ + 1])
-----------------------------------------------------------------------------
(* opl_keep_alive(), by the state check_bus_connection() leaves. What its   *)
(* link layer does, sending queued requests included, changes nothing here. *)

\* The node a cycle leaves, and what it adds to the history.
Cycle(high, node, joining) ==
  /\ opl_slave' = node.slave /\ counter' = node.counter
  /\ seen' = [low |-> IF high THEN 0 ELSE Capped(seen.low, DISCONNECT_MAX_COUNT),
              joining |-> joining,
              quiet |-> Capped(seen.quiet, NO_PING_MAX_COUNT + 1)]

KeepAliveAlone(high, nonce) ==
  LET node == Checked(high, nonce)
  IN  /\ node.slave.bus_state = "Disconnected"
      /\ Cycle(high, node, 0)

\* join_bus(): the SIGNAL is sent if it is safe and the bus stays idle.
KeepAliveJoins(high, nonce, sent) ==
  LET node == Checked(high, nonce)
  IN  /\ node.slave.bus_state = "Plugged_in"
      /\ Cycle(high, IF sent THEN [node EXCEPT !.slave.bus_state = "Signal_sent"] ELSE node, 0)

KeepAliveShakesHands(high, nonce) ==
  LET node == Checked(high, nonce)
  IN  /\ node.slave.bus_state \in Handshake
      /\ Cycle(high, CheckHandshake(node, nonce), Capped(seen.joining, NO_CONFIG_MAX_COUNT))

KeepAliveConnected(high, nonce) ==
  LET node == Checked(high, nonce)
  IN  /\ node.slave.bus_state = "Connected"
      /\ Cycle(high, CheckPing(node, nonce), 0)

KeepAlive(high) ==
  \E nonce \in Nonce : \/ KeepAliveAlone(high, nonce)
                       \/ \E sent \in BOOLEAN : KeepAliveJoins(high, nonce, sent)
                       \/ KeepAliveShakesHands(high, nonce)
                       \/ KeepAliveConnected(high, nonce)
-----------------------------------------------------------------------------
(* route_command(); the ACKs it forces out change nothing here. *)

\* FIND goes to address 0, so that every slave gets it: it is for the one that
\* waits for it with that nonce.
ReceiveFind(nonce, addr) ==
  /\ opl_slave.bus_state = "Signal_sent"
  /\ nonce = opl_slave.nonce
  /\ opl_slave' = [opl_slave EXCEPT !.addr = addr, !.bus_state = "Addr_set"]
  /\ UNCHANGED <<counter, seen>>

ReceiveGetUid(addr) ==
  /\ addr = opl_slave.addr
  /\ opl_slave.bus_state = "Addr_set"   \* it is only answered in other states
  /\ opl_slave' = [opl_slave EXCEPT !.bus_state = "UID_sent"]
  /\ UNCHANGED <<counter, seen>>

ReceivePing(addr) ==
  /\ addr = opl_slave.addr
  /\ opl_slave' = [opl_slave EXCEPT !.bus_state = IF @ = "UID_sent" THEN "Connected" ELSE @,
                                   !.received_ping = TRUE]
  /\ seen' = [seen EXCEPT !.quiet = 0]
  /\ UNCHANGED counter

Next == \/ \E high \in BOOLEAN : KeepAlive(high)
        \/ \E addr \in Address : \/ \E nonce \in Nonce : ReceiveFind(nonce, addr)
                                 \/ ReceiveGetUid(addr) \/ ReceivePing(addr)

Spec == Init /\ [][Next]_vars

\* The main loop calls opl_keep_alive() for ever, and a slave that finds the bus
\* busy backs off and tries again until its SIGNAL is sent: its application reads
\* every reply to its end, or none is sent again (SafeWhenNothingAwaited in LinkNode).
SignalSent == \E high \in BOOLEAN, nonce \in Nonce : KeepAliveJoins(high, nonce, TRUE)
Fairness == WF_vars(\E high \in BOOLEAN : KeepAlive(high)) /\ SF_vars(SignalSent)
FairSpec == Spec /\ Fairness
-----------------------------------------------------------------------------
(* Safety *)

\* The structs hold values of their C types. The counters are compared with ==
\* (oplink_slave.c:88, 98, 113, 122), so they must never pass their limits.
TypeOK ==
  /\ opl_slave \in [bus_state : BusState, received_ping : BOOLEAN, nonce : Nonce,
                    addr : Address \cup {0}]
  /\ counter \in [plug_in : 0 .. PLUG_IN_MAX_COUNT - 1,
                  disconnect : 0 .. DISCONNECT_MAX_COUNT - 1,
                  no_config : 0 .. NO_CONFIG_MAX_COUNT - 1, no_ping : 0 .. NO_PING_MAX_COUNT - 1]
  /\ seen \in [low : 0 .. DISCONNECT_MAX_COUNT, joining : 0 .. NO_CONFIG_MAX_COUNT,
               quiet : 0 .. NO_PING_MAX_COUNT + 1]

\* The slave answers to an address exactly from its FIND until it starts over
\* (oplink_slave.c:71, 148-152): no commands to an old address reach it.
AddressedWhileConfigured ==
  opl_slave.addr # 0 <=> opl_slave.bus_state \in {"Addr_set", "UID_sent", "Connected"}

\* From the SIGNAL to the first PING no more than NO_CONFIG_MAX_COUNT cycles
\* pass, whatever part of the handshake is reached (oplink_slave.c:112-116).
HandshakeIsBounded ==
  opl_slave.bus_state \in Handshake => seen.joining < NO_CONFIG_MAX_COUNT

\* A connected slave does not outlive its master: the cycles since the last
\* PING stay bounded (oplink_slave.c:118-126).
PingsAreRecent ==
  opl_slave.bus_state = "Connected" => seen.quiet <= NO_PING_MAX_COUNT

(* Refinement *)

\* Whatever the line, the counters and the master do, the rest of the bus sees
\* the slave of SlaveProtocol: its states in their order, with the address and
\* the nonce of the handshake it is in (oplink_slave.c:69-203).
Protocol == INSTANCE SlaveProtocol WITH
  node <- [bus_state |-> opl_slave.bus_state, nonce |-> opl_slave.nonce, addr |-> opl_slave.addr]
ImplementsProtocol == Protocol!Spec

(* Action properties *)

\* A slave only starts over for one of its three reasons, and each is true of
\* the bus: the line was low for DISCONNECT_MAX_COUNT cycles in a row, the
\* handshake took NO_CONFIG_MAX_COUNT cycles, or no PING came for more than
\* NO_PING_MAX_COUNT (oplink_slave.c:84-126).
StartsOverForCause ==
  [][(opl_slave.bus_state # "Disconnected" /\ opl_slave'.bus_state = "Disconnected") =>
       \/ seen'.low = DISCONNECT_MAX_COUNT
       \/ opl_slave.bus_state \in Handshake /\ seen'.joining = NO_CONFIG_MAX_COUNT
       \/ opl_slave.bus_state = "Connected" /\ seen'.quiet > NO_PING_MAX_COUNT]_vars

(* Liveness *)

\* On a line that stays high a slave is connected or signals again and again:
\* no lost FIND, GET_UID or PING, nor a silent master, leaves it waiting.
KeepsJoining == <>[](seen.low = 0) => []<>(opl_slave.bus_state \in {"Connected", "Signal_sent"})

\* A connected slave is pinged again or starts over.
ConnectedIsPinged == opl_slave.bus_state = "Connected" ~>
                       opl_slave.received_ping \/ opl_slave.bus_state = "Disconnected"
=============================================================================
