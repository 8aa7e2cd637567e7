----------------------------- MODULE SlaveProofs -----------------------------
(***************************************************************************)
(* Safety of a slave's state machine, for every value of its time limits.   *)
(***************************************************************************)
EXTENDS Slave, TLAPS

USE SlaveAssumption

SlaveType == [bus_state : BusState, received_ping : BOOLEAN, nonce : Nonce,
              addr : Address \cup {0}]
CounterType == [plug_in : 0 .. PLUG_IN_MAX_COUNT - 1, disconnect : 0 .. DISCONNECT_MAX_COUNT - 1,
                no_config : 0 .. NO_CONFIG_MAX_COUNT - 1, no_ping : 0 .. NO_PING_MAX_COUNT - 1]
SeenType == [low : 0 .. DISCONNECT_MAX_COUNT, joining : 0 .. NO_CONFIG_MAX_COUNT,
             quiet : 0 .. NO_PING_MAX_COUNT + 1]

\* The counters count what the bus did: lows in a row, cycles of the handshake
\* and cycles without a PING. NodeInv is about the slave and its counters, as
\* they are between two functions of a cycle.
NodeInv(slave, count) ==
  /\ slave \in SlaveType /\ count \in CounterType
  /\ slave.addr # 0 <=> slave.bus_state \in {"Addr_set", "UID_sent", "Connected"}
  /\ slave.bus_state = "Disconnected" => count.disconnect = 0
  /\ slave.bus_state \in {"Disconnected", "Plugged_in"} => count.no_config = 0
Counts == /\ opl_slave.bus_state # "Disconnected" => counter.disconnect = seen.low
          /\ opl_slave.bus_state \in Handshake => counter.no_config = seen.joining
          /\ opl_slave.bus_state = "Plugged_in" => seen.joining = 0
          /\ opl_slave.bus_state = "Connected" =>
               seen.quiet = IF opl_slave.received_ping THEN 0 ELSE counter.no_ping + 1

\* What a cycle adds to the lows in a row.
Low(high) == IF high THEN 0 ELSE Capped(seen.low, DISCONNECT_MAX_COUNT)

\* The inductive invariant.
IInv == NodeInv(opl_slave, counter) /\ seen \in SeenType /\ Counts
-----------------------------------------------------------------------------
(* The functions a cycle calls *)

\* slave_set_default() leaves a disconnected slave with its counters at 0.
LEMMA SetDefaultInv ==
  ASSUME NEW nonce \in Nonce
  PROVE  /\ NodeInv(SetDefault(nonce).slave, SetDefault(nonce).counter)
         /\ SetDefault(nonce).slave.bus_state = "Disconnected"
<1>1. DefaultSlave(nonce) \in SlaveType
  BY DEF DefaultSlave, SlaveType, BusState
<1>2. DefaultCounter \in CounterType
  BY DEF DefaultCounter, CounterType
<1> QED BY <1>1, <1>2 DEF SetDefault, Node, NodeInv, DefaultSlave, DefaultCounter

\* A high line ends the count of lows and may plug the slave in.
LEMMA CheckHighInv ==
  ASSUME IInv
  PROVE  /\ NodeInv(CheckHigh.slave, CheckHigh.counter) /\ CheckHigh.counter.disconnect = 0
         /\ \/ /\ CheckHigh.slave = opl_slave
               /\ CheckHigh.counter.no_config = counter.no_config
               /\ CheckHigh.counter.no_ping = counter.no_ping
            \/ CheckHigh.slave.bus_state = "Plugged_in"
<1> DEFINE count == [counter EXCEPT !.disconnect = 0]
<1>1. /\ count \in CounterType /\ count.disconnect = 0 /\ count.plug_in = counter.plug_in
      /\ count.no_config = counter.no_config /\ count.no_ping = counter.no_ping
  BY DEF IInv, NodeInv, CounterType
<1>2. CheckHigh = IF opl_slave.bus_state # "Disconnected" THEN Node(opl_slave, count)
                  ELSE IF count.plug_in + 1 = PLUG_IN_MAX_COUNT
                  THEN Node([opl_slave EXCEPT !.bus_state = "Plugged_in"],
                            [count EXCEPT !.plug_in = 0])
                  ELSE Node(opl_slave, [count EXCEPT !.plug_in = @ + 1])
  BY DEF CheckHigh
<1> HIDE DEF count
<1>3. CASE opl_slave.bus_state # "Disconnected"
  BY <1>1, <1>2, <1>3 DEF Node, IInv, NodeInv
<1>4. CASE opl_slave.bus_state = "Disconnected" /\ count.plug_in + 1 = PLUG_IN_MAX_COUNT
  <2>1. CheckHigh = Node([opl_slave EXCEPT !.bus_state = "Plugged_in"], [count EXCEPT !.plug_in = 0])
    BY <1>2, <1>4
  <2>2. 0 \in 0 .. PLUG_IN_MAX_COUNT - 1
    OBVIOUS
  <2>3. /\ CheckHigh.counter \in CounterType /\ CheckHigh.counter.disconnect = 0
        /\ CheckHigh.counter.no_config = counter.no_config
    BY <1>1, <2>1, <2>2 DEF Node, CounterType
  <2>4. /\ CheckHigh.slave \in SlaveType /\ CheckHigh.slave.bus_state = "Plugged_in"
        /\ CheckHigh.slave.addr = opl_slave.addr
    BY <2>1 DEF Node, IInv, NodeInv, SlaveType, BusState
  <2> QED BY <1>4, <2>3, <2>4 DEF IInv, NodeInv
<1>5. CASE opl_slave.bus_state = "Disconnected" /\ count.plug_in + 1 # PLUG_IN_MAX_COUNT
  <2>1. CheckHigh = Node(opl_slave, [count EXCEPT !.plug_in = @ + 1])
    BY <1>2, <1>5
  <2>2. count.plug_in + 1 \in 0 .. PLUG_IN_MAX_COUNT - 1
    BY <1>1, <1>5 DEF CounterType
  <2>3. /\ CheckHigh.counter \in CounterType /\ CheckHigh.counter.disconnect = 0
        /\ CheckHigh.counter.no_config = counter.no_config
        /\ CheckHigh.counter.no_ping = counter.no_ping
    BY <1>1, <2>1, <2>2 DEF Node, CounterType
  <2>4. CheckHigh.slave = opl_slave
    BY <2>1 DEF Node
  <2> QED BY <2>3, <2>4 DEF IInv, NodeInv
<1> QED BY <1>3, <1>4, <1>5

\* A low line is counted, or sets the slave back at the limit.
LEMMA CheckLowInv ==
  ASSUME IInv, NEW nonce \in Nonce
  PROVE  LET node == CheckLow(nonce)
         IN  /\ NodeInv(node.slave, node.counter)
             /\ node.slave.bus_state # "Disconnected" =>
                  /\ node.slave = opl_slave /\ node.counter.disconnect = seen.low + 1
                  /\ seen.low < DISCONNECT_MAX_COUNT
                  /\ node.counter.no_config = counter.no_config
                  /\ node.counter.no_ping = counter.no_ping
             /\ node.slave.bus_state = "Disconnected" /\ opl_slave.bus_state # "Disconnected" =>
                  seen.low + 1 = DISCONNECT_MAX_COUNT
<1> DEFINE count == [counter EXCEPT !.plug_in = 0]
<1>1. 0 \in 0 .. PLUG_IN_MAX_COUNT - 1
  OBVIOUS
<1>2. /\ count \in CounterType /\ count.disconnect = counter.disconnect
      /\ count.no_config = counter.no_config /\ count.no_ping = counter.no_ping
  BY <1>1 DEF IInv, NodeInv, CounterType
<1>3. CheckLow(nonce) = IF opl_slave.bus_state = "Disconnected" THEN Node(opl_slave, count)
                        ELSE IF count.disconnect + 1 = DISCONNECT_MAX_COUNT THEN SetDefault(nonce)
                        ELSE Node(opl_slave, [count EXCEPT !.disconnect = @ + 1])
  BY DEF CheckLow
<1> HIDE DEF count
<1>4. CASE opl_slave.bus_state = "Disconnected"
  BY <1>2, <1>3, <1>4 DEF Node, IInv, NodeInv
<1>5. CASE opl_slave.bus_state # "Disconnected" /\ count.disconnect + 1 = DISCONNECT_MAX_COUNT
  <2>1. CheckLow(nonce) = SetDefault(nonce)
    BY <1>3, <1>5
  <2>2. seen.low + 1 = DISCONNECT_MAX_COUNT
    BY <1>2, <1>5 DEF IInv, Counts
  <2> QED BY <2>1, <2>2, SetDefaultInv
<1>6. CASE opl_slave.bus_state # "Disconnected" /\ count.disconnect + 1 # DISCONNECT_MAX_COUNT
  <2>1. CheckLow(nonce) = Node(opl_slave, [count EXCEPT !.disconnect = @ + 1])
    BY <1>3, <1>6
  <2>2. count.disconnect + 1 \in 0 .. DISCONNECT_MAX_COUNT - 1 /\ count.disconnect = seen.low
    BY <1>2, <1>6 DEF CounterType, IInv, Counts
  <2>3. /\ CheckLow(nonce).counter \in CounterType
        /\ CheckLow(nonce).counter.disconnect = seen.low + 1
        /\ CheckLow(nonce).counter.no_config = counter.no_config
        /\ CheckLow(nonce).counter.no_ping = counter.no_ping
    BY <1>2, <2>1, <2>2 DEF Node, CounterType
  <2>4. CheckLow(nonce).slave = opl_slave
    BY <2>1 DEF Node
  <2>5. seen.low < DISCONNECT_MAX_COUNT
    BY <2>2 DEF IInv, SeenType
  <2> QED BY <1>6, <2>3, <2>4, <2>5 DEF IInv, NodeInv
<1> QED BY <1>4, <1>5, <1>6

\* check_bus_connection(): the line's state is counted, and the slave is left
\* as it was, plugged in or set back for a line that was low long enough.
LEMMA CheckedInv ==
  ASSUME IInv, NEW high \in BOOLEAN, NEW nonce \in Nonce
  PROVE  LET node == Checked(high, nonce)
         IN  /\ NodeInv(node.slave, node.counter)
             /\ Low(high) \in 0 .. DISCONNECT_MAX_COUNT
             /\ node.slave.bus_state # "Disconnected" => node.counter.disconnect = Low(high)
             /\ node.slave.bus_state \notin {"Disconnected", "Plugged_in"} =>
                  /\ node.slave = opl_slave
                  /\ node.counter.no_config = counter.no_config
                  /\ node.counter.no_ping = counter.no_ping
             /\ node.slave.bus_state = "Disconnected" /\ opl_slave.bus_state # "Disconnected" =>
                  Low(high) = DISCONNECT_MAX_COUNT
<1>1. seen.low \in 0 .. DISCONNECT_MAX_COUNT /\ 0 \in 0 .. DISCONNECT_MAX_COUNT
  BY DEF IInv, SeenType
<1>2. CASE high
  <2>1. Checked(high, nonce) = CheckHigh /\ Low(high) = 0
    BY <1>2 DEF Checked, Low
  <2> QED BY <1>1, <2>1, CheckHighInv, Zenon
<1>3. CASE ~high
  <2>1. Checked(high, nonce) = CheckLow(nonce)
    BY <1>3 DEF Checked
  <2>2. /\ Low(high) \in 0 .. DISCONNECT_MAX_COUNT
        /\ seen.low < DISCONNECT_MAX_COUNT => Low(high) = seen.low + 1
        /\ seen.low + 1 = DISCONNECT_MAX_COUNT => Low(high) = DISCONNECT_MAX_COUNT
    BY <1>1, <1>3 DEF Low, Capped
  <2> DEFINE node == CheckLow(nonce)
  <2>3. /\ NodeInv(node.slave, node.counter)
        /\ node.slave.bus_state # "Disconnected" =>
             /\ node.slave = opl_slave /\ node.counter.disconnect = seen.low + 1
             /\ seen.low < DISCONNECT_MAX_COUNT
             /\ node.counter.no_config = counter.no_config
             /\ node.counter.no_ping = counter.no_ping
        /\ node.slave.bus_state = "Disconnected" /\ opl_slave.bus_state # "Disconnected" =>
             seen.low + 1 = DISCONNECT_MAX_COUNT
    BY CheckLowInv, Zenon
  <2>4. node.slave.bus_state # "Disconnected" => node.counter.disconnect = Low(high)
    BY <2>2, <2>3, Zenon
  <2>5. node.slave.bus_state = "Disconnected" /\ opl_slave.bus_state # "Disconnected" =>
          Low(high) = DISCONNECT_MAX_COUNT
    BY <2>2, <2>3, Zenon
  <2> QED BY <2>1, <2>2, <2>3, <2>4, <2>5, Zenon
<1> QED BY <1>2, <1>3

\* What check_bus_connection() leaves is a slave and its counters.
LEMMA CheckedIsNode ==
  ASSUME NEW high \in BOOLEAN, NEW nonce \in Nonce
  PROVE  Checked(high, nonce) = Node(Checked(high, nonce).slave, Checked(high, nonce).counter)
<1>1. \E slave, count : Checked(high, nonce) = Node(slave, count)
  BY Zenon DEF Checked, CheckHigh, CheckLow, SetDefault
<1>2. PICK slave, count : Checked(high, nonce) = Node(slave, count)
  BY <1>1
<1> QED BY <1>2 DEF Node

\* check_handshake() raises the count or sets the slave back at the limit.
LEMMA HandshakeInv ==
  ASSUME NEW slave, NEW count, NodeInv(slave, count), slave.bus_state \in Handshake,
         NEW nonce \in Nonce
  PROVE  LET node == CheckHandshake(Node(slave, count), nonce)
         IN  /\ NodeInv(node.slave, node.counter)
             /\ \/ /\ node.slave = slave /\ node.counter.disconnect = count.disconnect
                   /\ node.counter.no_config = count.no_config + 1
                   /\ count.no_config + 1 < NO_CONFIG_MAX_COUNT
                \/ /\ node.slave.bus_state = "Disconnected"
                   /\ count.no_config + 1 = NO_CONFIG_MAX_COUNT
<1>1. CheckHandshake(Node(slave, count), nonce) =
        IF count.no_config + 1 = NO_CONFIG_MAX_COUNT THEN SetDefault(nonce)
        ELSE Node(slave, [count EXCEPT !.no_config = @ + 1])
  BY DEF CheckHandshake, Node
<1>2. CASE count.no_config + 1 = NO_CONFIG_MAX_COUNT
  BY <1>1, <1>2, SetDefaultInv
<1>3. CASE count.no_config + 1 # NO_CONFIG_MAX_COUNT
  <2>1. CheckHandshake(Node(slave, count), nonce) = Node(slave, [count EXCEPT !.no_config = @ + 1])
    BY <1>1, <1>3
  <2>2. count.no_config + 1 \in 0 .. NO_CONFIG_MAX_COUNT - 1 /\ count \in CounterType
    BY <1>3 DEF NodeInv, CounterType
  <2> DEFINE counted == [count EXCEPT !.no_config = @ + 1]
  <2>3. /\ counted \in CounterType /\ counted.disconnect = count.disconnect
        /\ counted.no_config = count.no_config + 1
    BY <2>2 DEF CounterType
  <2> HIDE DEF counted
  <2>4. NodeInv(slave, counted)
    BY <2>3 DEF NodeInv, Handshake
  <2>5. count.no_config + 1 < NO_CONFIG_MAX_COUNT
    BY <2>2
  <2>6. /\ CheckHandshake(Node(slave, count), nonce).slave = slave
        /\ CheckHandshake(Node(slave, count), nonce).counter = counted
    BY <2>1 DEF Node, counted
  <2> QED BY <2>3, <2>4, <2>5, <2>6, Zenon
<1> QED BY <1>2, <1>3

\* check_ping() takes the flag, raises the count or sets the slave back.
LEMMA PingInv ==
  ASSUME NEW slave, NEW count, NodeInv(slave, count), slave.bus_state = "Connected",
         NEW nonce \in Nonce
  PROVE  LET node == CheckPing(Node(slave, count), nonce)
         IN  /\ NodeInv(node.slave, node.counter)
             /\ \/ /\ slave.received_ping /\ node.counter.no_ping = 0
                   /\ node.slave.bus_state = "Connected" /\ node.slave.received_ping = FALSE
                   /\ node.counter.disconnect = count.disconnect
                \/ /\ ~slave.received_ping /\ node.counter.no_ping = count.no_ping + 1
                   /\ node.slave.bus_state = "Connected" /\ node.slave.received_ping = FALSE
                   /\ node.counter.disconnect = count.disconnect
                   /\ count.no_ping + 1 < NO_PING_MAX_COUNT
                \/ /\ ~slave.received_ping /\ node.slave.bus_state = "Disconnected"
                   /\ count.no_ping + 1 = NO_PING_MAX_COUNT
<1>1. CheckPing(Node(slave, count), nonce) =
        IF slave.received_ping
        THEN Node([slave EXCEPT !.received_ping = FALSE], [count EXCEPT !.no_ping = 0])
        ELSE IF count.no_ping + 1 = NO_PING_MAX_COUNT THEN SetDefault(nonce)
        ELSE Node(slave, [count EXCEPT !.no_ping = @ + 1])
  BY DEF CheckPing, Node
<1>2. count \in CounterType /\ slave \in SlaveType /\ 0 \in 0 .. NO_PING_MAX_COUNT - 1
  BY DEF NodeInv
<1>3. CASE slave.received_ping
  <2> DEFINE taken == [slave EXCEPT !.received_ping = FALSE]
             counted == [count EXCEPT !.no_ping = 0]
  <2>1. /\ counted \in CounterType /\ counted.disconnect = count.disconnect
        /\ counted.no_ping = 0 /\ counted.no_config = count.no_config
    BY <1>2 DEF CounterType
  <2>2. /\ taken \in SlaveType /\ taken.bus_state = slave.bus_state /\ taken.addr = slave.addr
        /\ taken.received_ping = FALSE
    BY <1>2 DEF SlaveType
  <2>3. /\ CheckPing(Node(slave, count), nonce).slave = taken
        /\ CheckPing(Node(slave, count), nonce).counter = counted
    <3>1. CheckPing(Node(slave, count), nonce) = Node(taken, counted)
      BY <1>1, <1>3, Zenon
    <3> HIDE DEF taken, counted
    <3> QED BY <3>1 DEF Node
  <2> HIDE DEF taken, counted
  <2>4. NodeInv(taken, counted)
    BY <2>1, <2>2 DEF NodeInv
  <2> QED BY <1>3, <2>1, <2>2, <2>3, <2>4, Zenon
<1>4. CASE ~slave.received_ping /\ count.no_ping + 1 = NO_PING_MAX_COUNT
  BY <1>1, <1>4, SetDefaultInv
<1>5. CASE ~slave.received_ping /\ count.no_ping + 1 # NO_PING_MAX_COUNT
  <2> DEFINE counted == [count EXCEPT !.no_ping = @ + 1]
  <2>1. count.no_ping + 1 \in 0 .. NO_PING_MAX_COUNT - 1
    BY <1>2, <1>5 DEF CounterType
  <2>2. /\ counted \in CounterType /\ counted.disconnect = count.disconnect
        /\ counted.no_ping = count.no_ping + 1 /\ counted.no_config = count.no_config
    BY <1>2, <2>1 DEF CounterType
  <2>3. /\ CheckPing(Node(slave, count), nonce).slave = slave
        /\ CheckPing(Node(slave, count), nonce).counter = counted
    BY <1>1, <1>5 DEF Node
  <2> HIDE DEF counted
  <2>4. NodeInv(slave, counted)
    BY <2>2 DEF NodeInv
  <2>5. count.no_ping + 1 < NO_PING_MAX_COUNT
    BY <2>1
  <2>6. slave.received_ping = FALSE
    BY <1>2, <1>5 DEF SlaveType
  <2> QED BY <1>5, <2>2, <2>3, <2>4, <2>5, <2>6, Zenon
<1> QED BY <1>3, <1>4, <1>5
-----------------------------------------------------------------------------
(* Every step *)

\* The history a cycle adds stays in its bounds.
LEMMA CappedBound ==
  ASSUME NEW max \in Nat, NEW n \in 0 .. max
  PROVE  /\ Capped(n, max) \in 0 .. max
         /\ n < max => Capped(n, max) = n + 1
         /\ n + 1 = max => Capped(n, max) = max
BY DEF Capped

\* opl_init() establishes the invariant.
LEMMA Initially == Init => IInv
<1> SUFFICES ASSUME Init PROVE IInv
  OBVIOUS
<1>1. PICK nonce \in Nonce : opl_slave = DefaultSlave(nonce)
  BY DEF Init
<1>2. opl_slave = SetDefault(nonce).slave /\ counter = SetDefault(nonce).counter
  BY <1>1 DEF Init, SetDefault, Node
<1>3. NodeInv(opl_slave, counter) /\ opl_slave.bus_state = "Disconnected"
  BY <1>2, SetDefaultInv
<1>4. seen \in SeenType
  BY DEF Init, NothingSeen, SeenType
<1> QED BY <1>3, <1>4 DEF IInv, Counts, Handshake

\* A slave alone on the bus: only its counters of the line changed.
LEMMA AloneStep ==
  ASSUME IInv, NEW high \in BOOLEAN, NEW nonce \in Nonce, KeepAliveAlone(high, nonce)
  PROVE  IInv' /\ (opl_slave.bus_state # "Disconnected" => seen'.low = DISCONNECT_MAX_COUNT)
<1> DEFINE node == Checked(high, nonce)
<1>1. /\ opl_slave' = node.slave /\ counter' = node.counter
      /\ seen' = [low |-> Low(high), joining |-> 0, quiet |-> Capped(seen.quiet, NO_PING_MAX_COUNT + 1)]
      /\ node.slave.bus_state = "Disconnected"
  BY DEF KeepAliveAlone, Cycle, Low
<1>2. /\ NodeInv(node.slave, node.counter) /\ Low(high) \in 0 .. DISCONNECT_MAX_COUNT
      /\ opl_slave.bus_state # "Disconnected" => Low(high) = DISCONNECT_MAX_COUNT
  BY <1>1, CheckedInv, Zenon
<1> HIDE DEF node
<1>3. seen' \in SeenType
  BY <1>1, <1>2, CappedBound DEF IInv, SeenType
<1>4. NodeInv(opl_slave', counter')
  BY <1>1, <1>2, Zenon
<1> QED BY <1>1, <1>2, <1>3, <1>4 DEF IInv, NodeInv, Counts, Handshake

\* A cycle that joins: the handshake starts with its count at 0.
LEMMA JoinStep ==
  ASSUME IInv, NEW high \in BOOLEAN, NEW nonce \in Nonce, NEW sent \in BOOLEAN,
         KeepAliveJoins(high, nonce, sent)
  PROVE  IInv' /\ opl_slave'.bus_state # "Disconnected"
<1> DEFINE node == Checked(high, nonce)
           signalled == [node EXCEPT !.slave.bus_state = "Signal_sent"]
<1>1. /\ opl_slave' = (IF sent THEN signalled ELSE node).slave
      /\ counter' = (IF sent THEN signalled ELSE node).counter
      /\ seen' = [low |-> Low(high), joining |-> 0, quiet |-> Capped(seen.quiet, NO_PING_MAX_COUNT + 1)]
      /\ node.slave.bus_state = "Plugged_in"
  BY DEF KeepAliveJoins, Cycle, Low
<1>2. /\ NodeInv(node.slave, node.counter) /\ Low(high) \in 0 .. DISCONNECT_MAX_COUNT
      /\ node.counter.disconnect = Low(high)
  BY <1>1, CheckedInv, Zenon
<1>3. node = Node(node.slave, node.counter)
  BY CheckedIsNode
<1> HIDE DEF node
<1>4. signalled = Node([node.slave EXCEPT !.bus_state = "Signal_sent"], node.counter)
  BY <1>3 DEF Node
<1>5. /\ opl_slave' = IF sent THEN [node.slave EXCEPT !.bus_state = "Signal_sent"] ELSE node.slave
      /\ counter' = node.counter
  BY <1>1, <1>4 DEF Node
<1> HIDE DEF signalled
<1>6. seen' \in SeenType
  BY <1>1, <1>2, CappedBound DEF IInv, SeenType
<1>7. /\ opl_slave' \in SlaveType /\ opl_slave'.addr = node.slave.addr
      /\ opl_slave'.bus_state \in {"Plugged_in", "Signal_sent"}
  BY <1>1, <1>2, <1>5 DEF NodeInv, SlaveType, BusState, Handshake
<1>8. NodeInv(opl_slave', counter')
  BY <1>1, <1>2, <1>5, <1>7 DEF NodeInv
<1>9. counter'.no_config = 0 /\ counter'.disconnect = seen'.low /\ seen'.joining = 0
  BY <1>1, <1>2, <1>5 DEF NodeInv
<1> QED BY <1>6, <1>7, <1>8, <1>9 DEF IInv, Counts, Handshake

\* A cycle of the handshake: it is counted, and the limit sets the slave back.
LEMMA HandshakeStep ==
  ASSUME IInv, NEW high \in BOOLEAN, NEW nonce \in Nonce, KeepAliveShakesHands(high, nonce)
  PROVE  /\ IInv'
         /\ opl_slave.bus_state \in Handshake
         /\ opl_slave'.bus_state = "Disconnected" => seen'.joining = NO_CONFIG_MAX_COUNT
<1> DEFINE node == Checked(high, nonce)
           shaken == CheckHandshake(node, nonce)
<1>1. /\ opl_slave' = shaken.slave /\ counter' = shaken.counter
      /\ seen' = [low |-> Low(high), joining |-> Capped(seen.joining, NO_CONFIG_MAX_COUNT),
                  quiet |-> Capped(seen.quiet, NO_PING_MAX_COUNT + 1)]
      /\ node.slave.bus_state \in Handshake
  BY DEF KeepAliveShakesHands, Cycle, Low
<1>2. node.slave.bus_state \notin {"Disconnected", "Plugged_in"}
  BY <1>1 DEF Handshake
<1>3. /\ NodeInv(node.slave, node.counter) /\ Low(high) \in 0 .. DISCONNECT_MAX_COUNT
      /\ node.counter.disconnect = Low(high)
      /\ node.slave = opl_slave /\ node.counter.no_config = counter.no_config
  BY <1>2, CheckedInv, Zenon
<1>4. node = Node(node.slave, node.counter)
  BY CheckedIsNode
<1> HIDE DEF node
<1>5. /\ NodeInv(shaken.slave, shaken.counter)
      /\ \/ /\ shaken.slave = node.slave /\ shaken.counter.disconnect = node.counter.disconnect
            /\ shaken.counter.no_config = node.counter.no_config + 1
            /\ node.counter.no_config + 1 < NO_CONFIG_MAX_COUNT
         \/ /\ shaken.slave.bus_state = "Disconnected"
            /\ node.counter.no_config + 1 = NO_CONFIG_MAX_COUNT
  <2>1. shaken = CheckHandshake(Node(node.slave, node.counter), nonce)
    BY <1>4
  <2> HIDE DEF shaken
  <2> QED BY <1>1, <1>3, <2>1, HandshakeInv
<1> HIDE DEF shaken
<1>6. counter.no_config = seen.joining /\ opl_slave.bus_state \in Handshake
  BY <1>1, <1>3 DEF IInv, Counts
<1>7. seen' \in SeenType /\ seen'.low = Low(high)
  BY <1>1, <1>3, CappedBound DEF IInv, SeenType
<1>8. seen.joining \in 0 .. NO_CONFIG_MAX_COUNT /\ NO_CONFIG_MAX_COUNT \in Nat
  BY DEF IInv, SeenType
<1>9. seen'.joining = Capped(seen.joining, NO_CONFIG_MAX_COUNT)
  BY <1>1
<1>10. CASE /\ shaken.slave = node.slave /\ shaken.counter.disconnect = node.counter.disconnect
            /\ shaken.counter.no_config = node.counter.no_config + 1
            /\ node.counter.no_config + 1 < NO_CONFIG_MAX_COUNT
  <2>1. seen.joining < NO_CONFIG_MAX_COUNT
    BY <1>3, <1>6, <1>8, <1>10
  <2>2. counter'.no_config = seen'.joining /\ counter'.disconnect = seen'.low
    <3>1. seen'.joining = seen.joining + 1
      BY <1>8, <1>9, <2>1, CappedBound
    <3> QED BY <1>1, <1>3, <1>6, <1>7, <1>10, <3>1, Zenon
  <2>3. opl_slave' = opl_slave
    BY <1>1, <1>3, <1>10
  <2> QED BY <1>1, <1>5, <1>6, <1>7, <2>2, <2>3 DEF IInv, Counts, Handshake
<1>11. CASE /\ shaken.slave.bus_state = "Disconnected"
            /\ node.counter.no_config + 1 = NO_CONFIG_MAX_COUNT
  <2>1. seen'.joining = NO_CONFIG_MAX_COUNT
    BY <1>3, <1>6, <1>8, <1>9, <1>11, CappedBound
  <2> QED BY <1>1, <1>5, <1>6, <1>7, <1>11, <2>1 DEF IInv, Counts, Handshake
<1> QED BY <1>5, <1>10, <1>11

\* A connected cycle: the ping or its absence is counted.
LEMMA ConnectedStep ==
  ASSUME IInv, NEW high \in BOOLEAN, NEW nonce \in Nonce, KeepAliveConnected(high, nonce)
  PROVE  /\ IInv'
         /\ opl_slave.bus_state = "Connected"
         /\ opl_slave'.bus_state = "Disconnected" => seen'.quiet > NO_PING_MAX_COUNT
<1> DEFINE node == Checked(high, nonce)
           pinged == CheckPing(node, nonce)
<1>1. /\ opl_slave' = pinged.slave /\ counter' = pinged.counter
      /\ seen' = [low |-> Low(high), joining |-> 0,
                  quiet |-> Capped(seen.quiet, NO_PING_MAX_COUNT + 1)]
      /\ node.slave.bus_state = "Connected"
  BY DEF KeepAliveConnected, Cycle, Low
<1>2. /\ NodeInv(node.slave, node.counter) /\ Low(high) \in 0 .. DISCONNECT_MAX_COUNT
      /\ node.counter.disconnect = Low(high)
      /\ node.slave = opl_slave /\ node.counter.no_ping = counter.no_ping
  BY <1>1, CheckedInv, Zenon
<1>3. node = Node(node.slave, node.counter)
  BY CheckedIsNode
<1> HIDE DEF node
<1>4. pinged = CheckPing(Node(node.slave, node.counter), nonce)
  BY <1>3
<1> HIDE DEF pinged
<1>5. /\ NodeInv(pinged.slave, pinged.counter)
      /\ \/ /\ opl_slave.received_ping /\ pinged.counter.no_ping = 0
            /\ pinged.slave.bus_state = "Connected" /\ pinged.slave.received_ping = FALSE
            /\ pinged.counter.disconnect = node.counter.disconnect
         \/ /\ ~opl_slave.received_ping /\ pinged.counter.no_ping = counter.no_ping + 1
            /\ pinged.slave.bus_state = "Connected" /\ pinged.slave.received_ping = FALSE
            /\ pinged.counter.disconnect = node.counter.disconnect
            /\ counter.no_ping + 1 < NO_PING_MAX_COUNT
         \/ /\ ~opl_slave.received_ping /\ pinged.slave.bus_state = "Disconnected"
            /\ counter.no_ping + 1 = NO_PING_MAX_COUNT
  <2>1. node.slave.bus_state = "Connected" /\ NodeInv(node.slave, node.counter)
    BY <1>1, <1>2
  <2>2. pinged = CheckPing(Node(opl_slave, node.counter), nonce)
    BY <1>2, <1>4
  <2>3. opl_slave.bus_state = "Connected" /\ NodeInv(opl_slave, node.counter)
    BY <1>2, <2>1
  <2> DEFINE count == node.counter
             Pinged(p) == /\ NodeInv(p.slave, p.counter)
                          /\ \/ /\ opl_slave.received_ping /\ p.counter.no_ping = 0
                                /\ p.slave.bus_state = "Connected" /\ p.slave.received_ping = FALSE
                                /\ p.counter.disconnect = count.disconnect
                             \/ /\ ~opl_slave.received_ping /\ p.counter.no_ping = count.no_ping + 1
                                /\ p.slave.bus_state = "Connected" /\ p.slave.received_ping = FALSE
                                /\ p.counter.disconnect = count.disconnect
                                /\ count.no_ping + 1 < NO_PING_MAX_COUNT
                             \/ /\ ~opl_slave.received_ping /\ p.slave.bus_state = "Disconnected"
                                /\ count.no_ping + 1 = NO_PING_MAX_COUNT
  <2>4. Pinged(CheckPing(Node(opl_slave, count), nonce))
    <3> HIDE DEF count
    <3>1. opl_slave.bus_state = "Connected" /\ NodeInv(opl_slave, count)
      BY <2>3 DEF count
    <3> QED BY <3>1, PingInv
  <2>5. Pinged(pinged)
    BY <2>2, <2>4, Zenon
  <2> QED BY <1>2, <2>5, Zenon
<1>6. /\ opl_slave.received_ping => seen.quiet = 0
      /\ ~opl_slave.received_ping => seen.quiet = counter.no_ping + 1
  BY <1>1, <1>2, Zenon DEF IInv, Counts
<1>7. seen' \in SeenType /\ seen'.low = Low(high) /\ opl_slave.bus_state = "Connected"
  BY <1>1, <1>2, CappedBound DEF IInv, SeenType
<1>8. /\ seen.quiet \in 0 .. NO_PING_MAX_COUNT + 1
      /\ seen'.quiet = Capped(seen.quiet, NO_PING_MAX_COUNT + 1)
  BY <1>1 DEF IInv, SeenType
<1>9. CASE opl_slave.received_ping /\ pinged.slave.bus_state = "Connected"
  <2>1. seen'.quiet = 1
    BY <1>6, <1>8, <1>9, CappedBound
  <2> QED BY <1>1, <1>2, <1>5, <1>7, <1>9, <2>1 DEF IInv, Counts, Handshake
<1>10. CASE ~opl_slave.received_ping /\ pinged.slave.bus_state = "Connected"
  <2>1. pinged.counter.no_ping = counter.no_ping + 1 /\ counter.no_ping + 1 < NO_PING_MAX_COUNT
    BY <1>5, <1>10
  <2>2. seen'.quiet = counter'.no_ping + 1
    BY <1>1, <1>6, <1>8, <1>10, <2>1, CappedBound
  <2> QED BY <1>1, <1>2, <1>5, <1>7, <1>10, <2>2 DEF IInv, Counts, Handshake
<1>11. CASE ~opl_slave.received_ping /\ pinged.slave.bus_state = "Disconnected"
  <2>1. seen.quiet = NO_PING_MAX_COUNT
    BY <1>5, <1>6, <1>11
  <2>2. seen'.quiet > NO_PING_MAX_COUNT
    BY <1>8, <2>1, CappedBound
  <2> QED BY <1>1, <1>5, <1>7, <1>11, <2>2 DEF IInv, Counts, Handshake
<1> QED BY <1>1, <1>5, <1>7, <1>9, <1>10, <1>11

\* The commands of the master: none sets the slave back.
LEMMA ReceiveStep ==
  ASSUME IInv, NEW nonce \in Nonce, NEW addr \in Address,
         ReceiveFind(nonce, addr) \/ ReceiveGetUid(addr) \/ ReceivePing(addr)
  PROVE  IInv' /\ (opl_slave'.bus_state = "Disconnected" => opl_slave.bus_state = "Disconnected")
<1>1. addr # 0 /\ opl_slave \in SlaveType /\ seen \in SeenType
  BY DEF IInv, NodeInv
<1>2. CASE ReceiveFind(nonce, addr)
  <2>1. /\ opl_slave' \in SlaveType /\ opl_slave'.bus_state = "Addr_set" /\ opl_slave'.addr = addr
        /\ opl_slave.bus_state = "Signal_sent"
    BY <1>1, <1>2 DEF ReceiveFind, SlaveType, BusState, Handshake
  <2>2. UNCHANGED <<counter, seen>>
    BY <1>2 DEF ReceiveFind
  <2> QED BY <1>1, <2>1, <2>2 DEF IInv, NodeInv, Counts, Handshake
<1>3. CASE ReceiveGetUid(addr)
  <2>1. /\ opl_slave' \in SlaveType /\ opl_slave'.bus_state = "UID_sent"
        /\ opl_slave'.addr = opl_slave.addr /\ opl_slave.bus_state = "Addr_set"
    BY <1>1, <1>3 DEF ReceiveGetUid, SlaveType, BusState, Handshake
  <2>2. UNCHANGED <<counter, seen>>
    BY <1>3 DEF ReceiveGetUid
  <2> QED BY <1>1, <2>1, <2>2 DEF IInv, NodeInv, Counts, Handshake
<1>4. CASE ReceivePing(addr)
  <2>1. /\ opl_slave' \in SlaveType /\ opl_slave'.addr = opl_slave.addr
        /\ opl_slave'.bus_state = IF opl_slave.bus_state = "UID_sent" THEN "Connected"
                                  ELSE opl_slave.bus_state
        /\ opl_slave'.received_ping = TRUE
    BY <1>1, <1>4 DEF ReceivePing, SlaveType, BusState, Handshake
  <2>2. /\ counter' = counter /\ seen' \in SeenType /\ seen'.quiet = 0
        /\ seen'.low = seen.low /\ seen'.joining = seen.joining
    BY <1>1, <1>4 DEF ReceivePing, SeenType
  <2>3. NodeInv(opl_slave', counter')
    BY <2>1, <2>2 DEF IInv, NodeInv
  <2>4. Counts'
    BY <2>1, <2>2 DEF IInv, Counts, Handshake
  <2> QED BY <2>1, <2>2, <2>3, <2>4 DEF IInv
<1> QED BY <1>2, <1>3, <1>4
-----------------------------------------------------------------------------
(* The theorems *)

\* A step starts the slave over only for cause, whatever step it is.
Cause == (opl_slave.bus_state # "Disconnected" /\ opl_slave'.bus_state = "Disconnected") =>
           \/ seen'.low = DISCONNECT_MAX_COUNT
           \/ opl_slave.bus_state \in Handshake /\ seen'.joining = NO_CONFIG_MAX_COUNT
           \/ opl_slave.bus_state = "Connected" /\ seen'.quiet > NO_PING_MAX_COUNT

\* Every step keeps the invariant and starts the slave over only for cause.
LEMMA Step == IInv /\ [Next]_vars => IInv' /\ Cause
<1> SUFFICES ASSUME IInv, [Next]_vars PROVE IInv' /\ Cause
  OBVIOUS
<1>1. ASSUME NEW high \in BOOLEAN, KeepAlive(high) PROVE IInv' /\ Cause
  <2>1. PICK nonce \in Nonce : \/ KeepAliveAlone(high, nonce)
                               \/ \E sent \in BOOLEAN : KeepAliveJoins(high, nonce, sent)
                               \/ KeepAliveShakesHands(high, nonce)
                               \/ KeepAliveConnected(high, nonce)
    BY <1>1 DEF KeepAlive
  <2>2. CASE KeepAliveAlone(high, nonce)
    BY <2>2, AloneStep DEF Cause
  <2>3. CASE \E sent \in BOOLEAN : KeepAliveJoins(high, nonce, sent)
    BY <2>3, JoinStep DEF Cause
  <2>4. CASE KeepAliveShakesHands(high, nonce)
    BY <2>4, HandshakeStep DEF Cause
  <2>5. CASE KeepAliveConnected(high, nonce)
    BY <2>5, ConnectedStep DEF Cause
  <2> QED BY <2>1, <2>2, <2>3, <2>4, <2>5
<1>2. ASSUME NEW nonce \in Nonce, NEW addr \in Address,
             ReceiveFind(nonce, addr) \/ ReceiveGetUid(addr) \/ ReceivePing(addr)
      PROVE  IInv' /\ Cause
  BY <1>2, ReceiveStep DEF Cause
<1>3. CASE UNCHANGED vars
  BY <1>3 DEF vars, IInv, NodeInv, Counts, Cause
<1> QED BY <1>1, <1>2, <1>3, SlaveAssumption DEF Next

\* IInv holds in every state of every behaviour.
THEOREM InductiveInvariant == Spec => []IInv
BY Initially, Step, PTL DEF Spec

\* The structs hold values of their C types and no counter passes its limit.
THEOREM TypeCorrect == Spec => []TypeOK
<1>1. IInv => TypeOK
  BY DEF IInv, NodeInv, TypeOK, SlaveType, CounterType, SeenType
<1> QED BY <1>1, InductiveInvariant, PTL

\* The slave answers to an address exactly from its FIND until it starts over.
THEOREM AddressedOnlyConfigured == Spec => []AddressedWhileConfigured
<1>1. IInv => AddressedWhileConfigured
  BY DEF IInv, NodeInv, AddressedWhileConfigured
<1> QED BY <1>1, InductiveInvariant, PTL

\* A handshake is over in NO_CONFIG_MAX_COUNT cycles.
THEOREM BoundedHandshake == Spec => []HandshakeIsBounded
<1>1. IInv => HandshakeIsBounded
  <2> SUFFICES ASSUME IInv, opl_slave.bus_state \in Handshake
               PROVE  seen.joining < NO_CONFIG_MAX_COUNT
    BY DEF HandshakeIsBounded
  <2>1. counter.no_config = seen.joining
    BY DEF IInv, Counts
  <2>2. counter.no_config \in 0 .. NO_CONFIG_MAX_COUNT - 1
    BY DEF IInv, NodeInv, CounterType
  <2> QED BY <2>1, <2>2
<1> QED BY <1>1, InductiveInvariant, PTL

\* A connected slave had a PING at most NO_PING_MAX_COUNT cycles ago.
THEOREM RecentPings == Spec => []PingsAreRecent
<1>1. IInv => PingsAreRecent
  <2> SUFFICES ASSUME IInv, opl_slave.bus_state = "Connected"
               PROVE  seen.quiet <= NO_PING_MAX_COUNT
    BY DEF PingsAreRecent
  <2>1. seen.quiet = 0 \/ seen.quiet = counter.no_ping + 1
    BY DEF IInv, Counts
  <2>2. counter.no_ping \in 0 .. NO_PING_MAX_COUNT - 1
    BY DEF IInv, NodeInv, CounterType
  <2> QED BY <2>1, <2>2
<1> QED BY <1>1, InductiveInvariant, PTL

\* A slave starts over only for a line low long enough, a handshake that took
\* too long or pings that stayed away.
THEOREM StartsOver == Spec => StartsOverForCause
<1>1. IInv /\ [Next]_vars => [Cause]_vars
  BY Step
<1>2. Spec => [][Cause]_vars
  BY <1>1, InductiveInvariant, PTL DEF Spec
<1> QED BY <1>2 DEF StartsOverForCause, Cause
-----------------------------------------------------------------------------
(* The refinement *)

\* What SlaveProtocol sees of a slave.
View(slave) == [bus_state |-> slave.bus_state, nonce |-> slave.nonce, addr |-> slave.addr]

\* check_bus_connection() leaves the slave as it was, plugs it in or sets it back.
LEMMA CheckedSlave ==
  ASSUME NEW high \in BOOLEAN, NEW nonce \in Nonce
  PROVE  \/ Checked(high, nonce).slave = opl_slave
         \/ /\ opl_slave.bus_state = "Disconnected"
            /\ Checked(high, nonce).slave = [opl_slave EXCEPT !.bus_state = "Plugged_in"]
         \/ Checked(high, nonce).slave = DefaultSlave(nonce)
BY DEF Checked, CheckHigh, CheckLow, SetDefault, Node

\* The checks of the handshake and of the pings keep what SlaveProtocol sees of
\* the slave, or set it back.
LEMMA CountedSlave ==
  ASSUME NEW slave \in SlaveType, NEW count, NEW nonce \in Nonce
  PROVE  /\ CheckHandshake(Node(slave, count), nonce).slave \in {slave, DefaultSlave(nonce)}
         /\ \/ View(CheckPing(Node(slave, count), nonce).slave) = View(slave)
            \/ CheckPing(Node(slave, count), nonce).slave = DefaultSlave(nonce)
<1>1. CheckHandshake(Node(slave, count), nonce).slave \in {slave, DefaultSlave(nonce)}
  BY DEF CheckHandshake, SetDefault, Node
<1>2. \/ CheckPing(Node(slave, count), nonce).slave = slave
      \/ CheckPing(Node(slave, count), nonce).slave = [slave EXCEPT !.received_ping = FALSE]
      \/ CheckPing(Node(slave, count), nonce).slave = DefaultSlave(nonce)
  BY DEF CheckPing, SetDefault, Node
<1>3. View([slave EXCEPT !.received_ping = FALSE]) = View(slave)
  BY DEF View, SlaveType
<1> QED BY <1>1, <1>2, <1>3, Zenon

\* A slave set back is one that started over.
LEMMA ViewOfDefault ==
  ASSUME NEW nonce \in Nonce, opl_slave' = DefaultSlave(nonce)
  PROVE  Protocol!Next
BY DEF DefaultSlave, Protocol!Next, Protocol!StartOver, Protocol!Started

\* A step of the slave, as SlaveProtocol sees it.
ProtocolStep == Protocol!Next \/ View(opl_slave') = View(opl_slave)

\* Every cycle is a step of SlaveProtocol or changes nothing it sees.
LEMMA KeepAliveFollows ==
  ASSUME IInv, NEW high \in BOOLEAN, KeepAlive(high)
  PROVE  ProtocolStep
<1>1. PICK nonce \in Nonce : \/ KeepAliveAlone(high, nonce)
                             \/ \E sent \in BOOLEAN : KeepAliveJoins(high, nonce, sent)
                             \/ KeepAliveShakesHands(high, nonce)
                             \/ KeepAliveConnected(high, nonce)
  BY DEF KeepAlive
<1> DEFINE node == Checked(high, nonce)
<1>2. /\ opl_slave \in SlaveType
      /\ node = Node(node.slave, node.counter)
      /\ node.slave \in SlaveType
      /\ \/ node.slave = opl_slave
         \/ /\ opl_slave.bus_state = "Disconnected"
            /\ node.slave = [opl_slave EXCEPT !.bus_state = "Plugged_in"]
         \/ node.slave = DefaultSlave(nonce)
  <2>1. NodeInv(node.slave, node.counter)
    BY CheckedInv, Zenon
  <2> QED BY <2>1, CheckedIsNode, CheckedSlave DEF IInv, NodeInv
<1> HIDE DEF node
<1>3. ASSUME opl_slave' = DefaultSlave(nonce) PROVE ProtocolStep
  BY <1>3, ViewOfDefault DEF ProtocolStep
<1>4. CASE KeepAliveAlone(high, nonce)
  <2>1. opl_slave' = node.slave /\ node.slave.bus_state = "Disconnected"
    BY <1>4 DEF KeepAliveAlone, Cycle, node
  <2>2. node.slave = opl_slave \/ node.slave = DefaultSlave(nonce)
    BY <1>2, <2>1 DEF SlaveType
  <2> QED BY <1>3, <2>1, <2>2 DEF ProtocolStep, View
<1>5. ASSUME NEW sent \in BOOLEAN, KeepAliveJoins(high, nonce, sent) PROVE ProtocolStep
  <2>1. /\ opl_slave' = IF sent THEN [node.slave EXCEPT !.bus_state = "Signal_sent"] ELSE node.slave
        /\ node.slave.bus_state = "Plugged_in"
    <3>1. /\ opl_slave' = (IF sent THEN [node EXCEPT !.slave.bus_state = "Signal_sent"] ELSE node).slave
          /\ node.slave.bus_state = "Plugged_in"
      BY <1>5 DEF KeepAliveJoins, Cycle, node
    <3>2. [node EXCEPT !.slave.bus_state = "Signal_sent"].slave
            = [node.slave EXCEPT !.bus_state = "Signal_sent"]
      BY <1>2 DEF Node
    <3> QED BY <3>1, <3>2
  <2>2. /\ opl_slave.bus_state \in {"Disconnected", "Plugged_in"}
        /\ node.slave.nonce = opl_slave.nonce /\ node.slave.addr = opl_slave.addr
    BY <1>2, <2>1 DEF SlaveType, DefaultSlave
  <2>3. CASE sent
    <3>1. View(opl_slave') = [View(opl_slave) EXCEPT !.bus_state = "Signal_sent"]
      BY <1>2, <2>1, <2>2, <2>3 DEF View, SlaveType
    <3> QED BY <2>2, <3>1 DEF ProtocolStep, View, Protocol!Next, Protocol!Signal,
                             Protocol!CanSignal, Protocol!Signalled
  <2>4. CASE ~sent /\ opl_slave.bus_state = "Disconnected"
    <3>1. View(opl_slave') = [View(opl_slave) EXCEPT !.bus_state = "Plugged_in"]
      BY <2>1, <2>2, <2>4 DEF View
    <3> QED BY <2>4, <3>1 DEF ProtocolStep, View, Protocol!Next, Protocol!PlugIn,
                             Protocol!PluggedIn
  <2>5. CASE ~sent /\ opl_slave.bus_state = "Plugged_in"
    BY <2>1, <2>2, <2>5 DEF ProtocolStep, View
  <2> QED BY <2>2, <2>3, <2>4, <2>5
<1>6. CASE KeepAliveShakesHands(high, nonce)
  <2>1. opl_slave' = CheckHandshake(node, nonce).slave /\ node.slave.bus_state \in Handshake
    BY <1>6 DEF KeepAliveShakesHands, Cycle, node
  <2>2. opl_slave' \in {node.slave, DefaultSlave(nonce)}
    BY <1>2, <2>1, CountedSlave
  <2>3. node.slave = opl_slave
    BY <1>2, <2>1 DEF Handshake, SlaveType, DefaultSlave
  <2> QED BY <1>3, <2>2, <2>3 DEF ProtocolStep, View
<1>7. CASE KeepAliveConnected(high, nonce)
  <2>1. opl_slave' = CheckPing(node, nonce).slave /\ node.slave.bus_state = "Connected"
    BY <1>7 DEF KeepAliveConnected, Cycle, node
  <2>2. View(opl_slave') = View(node.slave) \/ opl_slave' = DefaultSlave(nonce)
    BY <1>2, <2>1, CountedSlave
  <2>3. node.slave = opl_slave
    BY <1>2, <2>1 DEF SlaveType, DefaultSlave
  <2> QED BY <1>3, <2>2, <2>3 DEF ProtocolStep
<1> QED BY <1>1, <1>4, <1>5, <1>6, <1>7

\* So is every command of the master.
LEMMA ReceiveFollows ==
  ASSUME IInv, NEW nonce \in Nonce, NEW addr \in Address,
         ReceiveFind(nonce, addr) \/ ReceiveGetUid(addr) \/ ReceivePing(addr)
  PROVE  ProtocolStep
<1>1. opl_slave \in SlaveType
  BY DEF IInv, NodeInv
<1>2. CASE ReceiveFind(nonce, addr)
  <2>1. /\ View(opl_slave') = [bus_state |-> "Addr_set", nonce |-> opl_slave.nonce, addr |-> addr]
        /\ opl_slave.bus_state = "Signal_sent"
    <3>1. /\ opl_slave'.bus_state = "Addr_set" /\ opl_slave'.addr = addr
          /\ opl_slave'.nonce = opl_slave.nonce /\ opl_slave.bus_state = "Signal_sent"
      BY <1>1, <1>2 DEF ReceiveFind, SlaveType
    <3> QED BY <3>1 DEF View
  <2> QED BY <2>1 DEF ProtocolStep, View, Protocol!Next, Protocol!TakeFind,
                      Protocol!TakesFind, Protocol!Found
<1>3. CASE ReceiveGetUid(addr)
  <2>1. /\ View(opl_slave') = [View(opl_slave) EXCEPT !.bus_state = "UID_sent"]
        /\ opl_slave.bus_state = "Addr_set"
    BY <1>1, <1>3 DEF ReceiveGetUid, View, SlaveType
  <2> QED BY <2>1 DEF ProtocolStep, View, Protocol!Next, Protocol!AskUid, Protocol!UidAsked
<1>4. CASE ReceivePing(addr)
  <2>1. View(opl_slave') = IF opl_slave.bus_state = "UID_sent"
                           THEN [View(opl_slave) EXCEPT !.bus_state = "Connected"]
                           ELSE View(opl_slave)
    BY <1>1, <1>4 DEF ReceivePing, View, SlaveType
  <2> QED BY <2>1 DEF ProtocolStep, View, Protocol!Next, Protocol!Ping, Protocol!Pinged
<1> QED BY <1>2, <1>3, <1>4

\* The slave implements SlaveProtocol: whatever the line, its counters and the
\* master do, the bus sees the states of the handshake in their order.
THEOREM Implements == Spec => ImplementsProtocol
<1>1. Init => Protocol!Init
  BY DEF Init, DefaultSlave, Protocol!Init, Protocol!Started
<1>2. IInv /\ [Next]_vars => ProtocolStep
  <2> SUFFICES ASSUME IInv, [Next]_vars PROVE ProtocolStep
    OBVIOUS
  <2>1. CASE UNCHANGED vars
    BY <2>1 DEF vars, ProtocolStep, View
  <2> QED BY <2>1, KeepAliveFollows, ReceiveFollows, SlaveAssumption DEF Next
<1>3. ProtocolStep => [Protocol!Next]_[bus_state |-> opl_slave.bus_state, nonce |-> opl_slave.nonce,
                                       addr |-> opl_slave.addr]
  BY DEF ProtocolStep, View
<1> QED BY <1>1, <1>2, <1>3, InductiveInvariant, PTL DEF Spec, ImplementsProtocol, Protocol!Spec
=============================================================================
