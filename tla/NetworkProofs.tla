---------------------------- MODULE NetworkProofs ----------------------------
(***************************************************************************)
(* The master and its slaves on one bus, for every number of slaves.        *)
(***************************************************************************)
EXTENDS Network, MasterProofs

USE SlaveListAssumption, MasterAssumption

\* A slave draws its own nonces, and has an address from FIND on.
SlavesInv ==
  \A n \in Node : /\ node[n].nonce \in Draws[n]
                  /\ node[n].addr = 0 <=>
                       node[n].bus_state \in {"Disconnected", "Plugged_in", "Signal_sent"}

\* What holds whatever goes wrong.
NetInv == IInv /\ NetTypeOK /\ SlavesInv
-----------------------------------------------------------------------------
(* Frames *)

\* What a request carries,
LEMMA RequestFrame ==
  ASSUME NEW f \in MasterFrame
  PROVE  /\ f.cmd \in Cmd /\ f \notin {NoFrame, Ignored}
         /\ f.cmd = "FIND" => f.dest = 0 /\ f.addr \in Address
         /\ f.cmd # "FIND" => f.dest \in {0} \cup Address
         /\ f.cmd \in {"GET_UID", "PING"} => f.dest \in Address
BY NetworkAssumption DEF MasterFrame, Cmd

\* and what a slave's frame does.
LEMMA ReplyFrame ==
  ASSUME NEW f \in SlaveFrame
  PROVE  /\ f \notin {NoFrame, Ignored} /\ f.src \in Source
         /\ f.type \in {"SIGNAL", "ACK", "OTHER"}
         /\ f.type = "SIGNAL" => f.src = 0 /\ f.nonce \in Nonce
         /\ f.type = "ACK" => f.re \in {"FIND", "GET_UID", "PING"} /\ f.uid \in Uid \cup {<< >>}
BY NetworkAssumption DEF SlaveFrame, Source

\* What the master writes is a frame.
LEMMA MasterWrites ==
  ASSUME NEW a \in Address
  PROVE  /\ \A nonce \in Nonce : Find(nonce, a) \in MasterFrame
         /\ GetUid(a) \in MasterFrame /\ Ping(a) \in MasterFrame
         /\ Data(a) \in MasterFrame /\ Data(0) \in MasterFrame
BY DEF MasterFrame, Find, GetUid, Ping, Data

\* What a slave writes is a frame.
LEMMA SlaveWrites ==
  ASSUME NetInv, NEW n \in Node
  PROVE  /\ Signal(n) \in SlaveFrame /\ Other(n) \in SlaveFrame
         /\ \A cmd \in {"FIND", "GET_UID", "PING"} : Ack(n, cmd) \in SlaveFrame
<1>1. node[n].nonce \in Nonce /\ node[n].addr \in Source /\ UidOf[n] \in Uid
  BY NetworkAssumption DEF NetInv, NetTypeOK, SlaveState, Source
<1>2. Signal(n) \in SlaveFrame /\ Other(n) \in SlaveFrame
  BY <1>1 DEF SlaveFrame, Signal, Other
<1>3. \A cmd \in {"FIND", "GET_UID", "PING"} : Ack(n, cmd) \in SlaveFrame
  BY <1>1 DEF SlaveFrame, Ack
<1> QED BY <1>2, <1>3

\* A frame of the master reaches slaves whose receiver is on and that it is
\* addressed to, all of them unless it may be lost.
LEMMA TransmitReaches ==
  ASSUME NEW f, Transmit(f)
  PROVE  /\ DOMAIN held' = Node
         /\ \A n \in Node : \/ held'[n] = held[n]
                            \/ held'[n] = f /\ held[n] = NoFrame /\ f.dest \in {0, node[n].addr}
         /\ "loss" \notin Faults =>
              \A n \in Node : (held[n] = NoFrame /\ f.dest \in {0, node[n].addr}) => held'[n] = f
BY DEF Transmit, Listeners

\* A slave's receiver holds requests only,
LEMMA TransmitTypeOK ==
  ASSUME NetInv, NEW f \in MasterFrame, Transmit(f)
  PROVE  held' \in [Node -> MasterFrame \cup {NoFrame, Ignored}]
<1>1. held \in [Node -> MasterFrame \cup {NoFrame, Ignored}]
  BY DEF NetInv, NetTypeOK
<1>2. \A n \in Node : held'[n] \in {held[n], f}
  BY TransmitReaches
<1>3. \E hearers : held' = [n \in Node |-> IF n \in hearers THEN f ELSE held[n]]
  BY DEF Transmit
<1> QED BY <1>1, <1>3

\* A frame of a slave fills the master's receiver unless that is off, garbled or
\* not at all only if it may be lost.
LEMMA DeliverReaches ==
  ASSUME NEW n, NEW f, Deliver(n, f)
  PROVE  /\ inbox # NoFrame => inbox' = inbox
         /\ inbox = NoFrame => inbox' \in {f, Other(n), NoFrame}
         /\ (inbox = NoFrame /\ "loss" \notin Faults) => inbox' = f
BY DEF Deliver

\* and the master's frames of slaves.
LEMMA DeliverTypeOK ==
  ASSUME NetInv, NEW n \in Node, NEW f \in SlaveFrame, Deliver(n, f)
  PROVE  inbox' \in SlaveFrame \cup {NoFrame, Ignored}
<1>1. Other(n) \in SlaveFrame /\ inbox \in SlaveFrame \cup {NoFrame, Ignored}
  BY SlaveWrites DEF NetInv, NetTypeOK
<1> QED BY <1>1, DeliverReaches
-----------------------------------------------------------------------------
(* The master's steps *)

\* No UID is a UID for slave_list_add(), which lists the digit of the address.
LEMMA EmptyUid == << >> \in Seq(1 .. 255) /\ << >> \in String
BY DEF String

\* What the master may hear.
LEMMA Inbox ==
  ASSUME NetInv, Parsing
  PROVE  /\ inbox \in SlaveFrame /\ inbox.src \in Source
         /\ inbox.type = "SIGNAL" => inbox.nonce \in Nonce
         /\ inbox.type = "ACK" => inbox.uid \in Seq(1 .. 255)
<1>1. inbox \in SlaveFrame
  BY DEF NetInv, NetTypeOK, Parsing
<1> QED BY <1>1, EmptyUid, ReplyFrame

\* They are those of module Master, so that they keep its invariant.
LEMMA MasterIdle ==
  ASSUME IInv, UNCHANGED masterVars
  PROVE  IInv'
<1>1. UNCHANGED vars
  BY DEF masterVars
<1> QED BY <1>1, NextKeepsIInv

\* A restart is the master's initial state.
LEMMA RestartKeepsIInv ==
  ASSUME MasterRestarts
  PROVE  IInv'
<1>1. Init'
  BY DEF MasterRestarts, Init
<1>2. Init' => IInv'
  BY InitIInv, PTL
<1> QED BY <1>1, <1>2

\* Every step the master makes on the bus is one of module Master, or none of its state.
LEMMA MasterKeepsIInv ==
  ASSUME NetInv, MasterNext
  PROVE  IInv'
<1> USE DEF NetInv
<1>1. CASE MasterDrops \/ MasterReleases \/ MasterIgnores
  BY <1>1, MasterIdle DEF MasterDrops, MasterReleases, MasterIgnores
<1>2. CASE MasterFinds
  <2>1. ReceiveSignal(TRUE) /\ TRUE \in BOOLEAN
    BY <1>2 DEF MasterFinds
  <2> QED BY <2>1, ReceiveSignalKeepsIInv
<1>3. CASE MasterAcknowledged
  <2>1. Parsing /\ inbox.type = "ACK"
    BY <1>3 DEF MasterAcknowledged
  <2>2. inbox.src \in Source /\ inbox.uid \in Seq(1 .. 255)
    BY <2>1, Inbox
  <2>3. \/ ReceiveFindAck(inbox.src) \/ ReceiveUidAck(inbox.src, inbox.uid, << >>)
        \/ ReceivePingAck(inbox.src)
    BY <1>3 DEF MasterAcknowledged
  <2> QED BY <2>2, <2>3, EmptyUid, ReceiveFindAckKeepsIInv, ReceiveUidAckKeepsIInv,
             ReceivePingAckKeepsIInv
<1>4. CASE MasterReads
  <2>1. Parsing /\ (ReceiveOther(inbox.src) \/ ReceiveData(inbox.src) \/ UNCHANGED masterVars)
    BY <1>4 DEF MasterReads
  <2> QED BY <2>1, Inbox, MasterIdle, ReceiveOtherKeepsIInv, ReceiveDataKeepsIInv
<1>5. CASE MasterWaits
  BY <1>5, KeepAliveWaitsKeepsIInv DEF MasterWaits
<1>6. CASE MasterPings
  <2>1. \E sent \in BOOLEAN : KeepAlivePings(sent)
    BY <1>6 DEF MasterPings
  <2> QED BY <2>1, KeepAlivePingsKeepsIInv
<1>7. CASE MasterDispatches
  BY <1>7, KeepAliveDispatchesKeepsIInv DEF MasterDispatches
<1>8. CASE MasterRestarts
  BY <1>8, RestartKeepsIInv
<1>9. CASE MasterReadsToEnd
  BY <1>9, ReadToEndKeepsIInv DEF MasterReadsToEnd
<1> QED BY <1>1, <1>2, <1>3, <1>4, <1>5, <1>6, <1>7, <1>8, <1>9 DEF MasterNext

\* It changes no slave, writes one frame at most and hears nothing new.
LEMMA MasterEffect ==
  ASSUME NetInv, MasterNext
  PROVE  /\ node' = node /\ inbox' \in {inbox, NoFrame, Ignored}
         /\ held' = held \/ \E f \in MasterFrame : Transmit(f)
<1> USE DEF NetInv
<1>1. CASE \/ MasterDrops \/ MasterReleases \/ MasterWaits \/ MasterRestarts
            \/ MasterReadsToEnd \/ MasterIgnores
  BY <1>1 DEF MasterDrops, MasterReleases, MasterWaits, MasterRestarts, MasterReadsToEnd,
     MasterIgnores
<1>2. CASE MasterFinds
  <2>1. CASE new_slave_addr' # 0
    <3>1. node' = node /\ inbox' = NoFrame /\ Transmit(Find(inbox.nonce, new_slave_addr'))
      BY <1>2, <2>1 DEF MasterFinds
    <3>2. new_slave_addr' \in Address
      BY <1>2, <2>1, MasterKeepsIInv DEF MasterNext, IInv, TypeOK
    <3>3. inbox.nonce \in Nonce
      BY <1>2, Inbox DEF MasterFinds
    <3> QED BY <3>1, <3>2, <3>3, MasterWrites
  <2>2. CASE ~(new_slave_addr' # 0)
    BY <1>2, <2>2 DEF MasterFinds, Finished
  <2> QED BY <2>1, <2>2
<1>3. CASE MasterAcknowledged
  <2>1. last_request.cmd \in {"FIND", "GET_UID"} => new_slave_addr \in Address
    BY DEF IInv, OfferedSlotStaysFree
  <2>2. CASE ReceiveFindAck(inbox.src) /\ Transmit(GetUid(new_slave_addr)) /\ inbox' = NoFrame
    BY <1>3, <2>1, <2>2, MasterWrites DEF MasterAcknowledged, ReceiveFindAck
  <2>3. CASE /\ ReceiveUidAck(inbox.src, inbox.uid, << >>)
             /\ Transmit(Ping(new_slave_addr)) /\ inbox' = NoFrame
    BY <1>3, <2>1, <2>3, MasterWrites DEF MasterAcknowledged, ReceiveUidAck
  <2>4. CASE Finished /\ UNCHANGED held
    BY <1>3, <2>4 DEF MasterAcknowledged, Finished
  <2> QED BY <1>3, <2>2, <2>3, <2>4 DEF MasterAcknowledged
<1>4. CASE MasterReads
  BY <1>4 DEF MasterReads, Finished
<1>5. CASE MasterPings
  <2>1. CASE KeepAlivePings(TRUE) /\ Transmit(Ping(last_request'.dest))
    <3>1. last_request'.cmd = "PING"
      BY <2>1 DEF KeepAlivePings, Requested
    <3>2. last_request'.dest \in Address
      BY <1>5, <3>1, MasterKeepsIInv DEF MasterNext, IInv, RequestInv
    <3> QED BY <1>5, <2>1, <3>2, MasterWrites DEF MasterPings
  <2>2. CASE UNCHANGED held
    BY <1>5, <2>2 DEF MasterPings
  <2> QED BY <1>5, <2>1, <2>2 DEF MasterPings
<1>6. CASE MasterDispatches
  <2>1. CASE last_request' = RequestAfterCycle
    <3>1. 1 \in Address
      BY SlaveListAssumption DEF Address
    <3> QED BY <1>6, <2>1, <3>1, MasterWrites DEF MasterDispatches
  <2>2. CASE last_request' # RequestAfterCycle
    <3>1. PICK dest \in Address : last_request' = Requested(dest, "EXT")
      BY <1>6, <2>2 DEF MasterDispatches, KeepAliveDispatches
    <3>2. last_request'.dest \in Address
      BY <3>1 DEF Requested
    <3> QED BY <1>6, <2>2, <3>2, MasterWrites DEF MasterDispatches
  <2> QED BY <2>1, <2>2
<1> QED BY <1>1, <1>2, <1>3, <1>4, <1>5, <1>6 DEF MasterNext

\* A step of slave n is its own: it changes itself and what it holds.
LEMMA SlaveEffect ==
  ASSUME NetInv, NEW n \in Node, SlaveNext(n)
  PROVE  /\ UNCHANGED masterVars
         /\ \A m \in Node \ {n} : node'[m] = node[m] /\ held'[m] = held[m]
         /\ held' \in [Node -> MasterFrame \cup {NoFrame, Ignored}]
         /\ held'[n] \in {held[n], NoFrame, Ignored}
         /\ node' = [node EXCEPT ![n] = node'[n]]
<1>1. /\ held \in [Node -> MasterFrame \cup {NoFrame, Ignored}]
      /\ node \in [Node -> SlaveState]
  BY DEF NetInv, NetTypeOK
<1> USE <1>1 DEF Becomes, Hold
<1>2. CASE SlaveSignals(n)
  BY <1>2 DEF SlaveSignals
<1>3. CASE SlaveSends(n)
  BY <1>3 DEF SlaveSends
<1>4. CASE SlaveFound(n)
  BY <1>4 DEF SlaveFound
<1>5. CASE SlaveAsked(n)
  BY <1>5 DEF SlaveAsked
<1>6. CASE SlavePinged(n)
  BY <1>6 DEF SlavePinged
<1>7. CASE SlaveReads(n)
  BY <1>7 DEF SlaveReads
<1>8. CASE SlaveReleases(n)
  BY <1>8 DEF SlaveReleases
<1>9. CASE SlaveLeaves(n) \/ SlaveGivesUp(n)
  BY <1>9 DEF SlaveLeaves, SlaveGivesUp, StartOver
<1> QED BY <1>2, <1>3, <1>4, <1>5, <1>6, <1>7, <1>8, <1>9 DEF SlaveNext, SlaveAnswers

\* It goes through the states of SlaveProtocol, with its own nonces.
LEMMA SlaveMoves ==
  ASSUME NetInv, NEW n \in Node, SlaveNext(n)
  PROVE  /\ node'[n] \in SlaveState
         /\ node'[n].nonce \in Draws[n]
         /\ node'[n].addr = 0 <=>
              node'[n].bus_state \in {"Disconnected", "Plugged_in", "Signal_sent"}
<1>1. /\ node[n] \in SlaveState /\ DOMAIN node = Node /\ node[n].nonce \in Draws[n]
      /\ node[n].addr = 0 <=> node[n].bus_state \in {"Disconnected", "Plugged_in", "Signal_sent"}
  BY DEF NetInv, NetTypeOK, SlavesInv
<1> USE <1>1 DEF Becomes, SlaveState
<1>2. CASE SlaveSignals(n)
  BY <1>2 DEF SlaveSignals, Protocol!CanSignal, Protocol!Signalled
<1>3. CASE UNCHANGED node
  BY <1>3
<1>4. CASE SlaveFound(n)
  <2>1. held[n] \in MasterFrame /\ held[n].cmd = "FIND"
    BY <1>4 DEF SlaveFound, Asked, NetInv, NetTypeOK
  <2>2. held[n].addr \in Address /\ 0 \notin Address
    BY <2>1, RequestFrame DEF Address
  <2> QED BY <1>3, <1>4, <2>2 DEF SlaveFound, Protocol!Found
<1>5. CASE SlaveAsked(n)
  BY <1>5 DEF SlaveAsked, Protocol!UidAsked
<1>6. CASE SlavePinged(n)
  BY <1>6 DEF SlavePinged, Protocol!Pinged
<1>7. CASE SlaveLeaves(n) \/ SlaveGivesUp(n)
  <2>1. PICK nonce \in Draws[n] : node' = [node EXCEPT ![n] = Protocol!Started(nonce)]
    BY <1>7 DEF SlaveLeaves, SlaveGivesUp, StartOver
  <2>2. nonce \in Nonce
    BY NetworkAssumption
  <2> QED BY <2>1, <2>2 DEF Protocol!Started
<1> QED BY <1>2, <1>3, <1>4, <1>5, <1>6, <1>7
        DEF SlaveNext, SlaveAnswers, SlaveSends, SlaveReads, SlaveReleases

\* What it puts on the bus is a frame.
LEMMA SlaveDelivers ==
  ASSUME NetInv, NEW n \in Node, SlaveNext(n)
  PROVE  inbox' \in SlaveFrame \cup {NoFrame, Ignored}
<1>1. inbox \in SlaveFrame \cup {NoFrame, Ignored}
  BY DEF NetInv, NetTypeOK
<1>2. \/ inbox' = inbox \/ Deliver(n, Signal(n)) \/ Deliver(n, Other(n))
      \/ \E cmd \in {"FIND", "GET_UID", "PING"} : Deliver(n, Ack(n, cmd))
  BY DEF SlaveNext, SlaveAnswers, SlaveSignals, SlaveSends, SlaveFound, SlaveAsked, SlavePinged,
         SlaveReads, SlaveReleases, SlaveLeaves, SlaveGivesUp, StartOver
<1> QED BY <1>1, <1>2, SlaveWrites, DeliverTypeOK
-----------------------------------------------------------------------------
(* Types *)

\* Nobody has an address at first.
LEMMA NetInitInv == NetInit => NetInv
<1> SUFFICES ASSUME NetInit PROVE NetInv
  OBVIOUS
<1>1. IInv
  BY InitIInv DEF NetInit
<1>2. \A n \in Node : /\ node[n].nonce \in Draws[n] /\ node[n] \in SlaveState
                      /\ node[n].bus_state = "Disconnected" /\ node[n].addr = 0
  BY DEF NetInit, Protocol!Started, SlaveState
<1>3. node \in [Node -> SlaveState] /\ held \in [Node -> MasterFrame \cup {NoFrame, Ignored}]
      /\ inbox \in SlaveFrame \cup {NoFrame, Ignored} /\ signalled \in [Node -> SUBSET Node]
  BY <1>2 DEF NetInit
<1>4. SlavesInv
  BY <1>2 DEF SlavesInv
<1> QED BY <1>1, <1>3, <1>4 DEF NetInv, NetTypeOK, IInv

\* Who has signalled are slaves.
LEMMA CountsNodes ==
  ASSUME signalled \in [Node -> SUBSET Node], Counts
  PROVE  signalled' \in [Node -> SUBSET Node]
BY DEF Counts, Signalling

\* Every step keeps the types, the master's invariant and the slaves'.
LEMMA NetNextKeepsNetInv == NetInv /\ [NetNext]_netVars => NetInv'
<1> SUFFICES ASSUME NetInv, [NetNext]_netVars PROVE NetInv'
  OBVIOUS
<1>0. Counts => signalled' \in [Node -> SUBSET Node]
  BY CountsNodes DEF NetInv, NetTypeOK
<1>1. CASE MasterNext /\ Counts
  <2>1. IInv'
    BY <1>1, MasterKeepsIInv
  <2>2. /\ node' = node /\ inbox' \in SlaveFrame \cup {NoFrame, Ignored}
        /\ held' \in [Node -> MasterFrame \cup {NoFrame, Ignored}]
    BY <1>1, MasterEffect, TransmitTypeOK DEF NetInv, NetTypeOK
  <2> QED BY <1>0, <1>1, <2>1, <2>2 DEF NetInv, NetTypeOK, IInv, SlavesInv
<1>2. ASSUME NEW n \in Node, SlaveNext(n), Counts PROVE NetInv'
  <2>1. IInv'
    BY <1>2, SlaveEffect, MasterIdle DEF NetInv
  <2>2. node' \in [Node -> SlaveState] /\ SlavesInv'
    <3>1. node \in [Node -> SlaveState] /\ SlavesInv
      BY DEF NetInv, NetTypeOK
    <3> QED BY <1>2, <3>1, SlaveEffect, SlaveMoves DEF SlavesInv
  <2>3. held' \in [Node -> MasterFrame \cup {NoFrame, Ignored}]
    BY <1>2, SlaveEffect
  <2> QED BY <1>0, <1>2, <2>1, <2>2, <2>3, SlaveDelivers DEF NetInv, NetTypeOK, IInv
<1>3. CASE UNCHANGED netVars
  <2>1. UNCHANGED <<masterVars, node, held, inbox, signalled>>
    BY <1>3 DEF netVars, busVars
  <2>2. IInv'
    BY <2>1, MasterIdle DEF NetInv
  <2> QED BY <2>1, <2>2 DEF NetInv, NetTypeOK, IInv, SlavesInv
<1> QED BY <1>1, <1>2, <1>3 DEF NetNext

\* Whatever is lost, crosses or restarts, the slaves, their addresses and the
\* frames on their way are what the code's types say.
THEOREM NetTypeCorrect == NetSpec => []NetTypeOK
<1>1. NetInv => NetTypeOK
  BY DEF NetInv
<1> QED BY <1>1, NetInitInv, NetNextKeepsNetInv, PTL DEF NetSpec
-----------------------------------------------------------------------------
(* Refinement *)

\* Every step on the bus is a step of module Master, or none.
LEMMA MasterRefines ==
  ASSUME NetInv, [NetNext]_netVars, "restart" \notin Faults, << >> \in Uid
  PROVE  [Next]_vars
<1> USE NetworkAssumption
<1>1. CASE UNCHANGED masterVars
  BY <1>1 DEF masterVars
<1>2. CASE MasterFinds
  BY <1>2 DEF MasterFinds, Next
<1>3. CASE MasterAcknowledged
  <2>1. inbox \in SlaveFrame /\ inbox.type = "ACK" /\ inbox.src \in Source
    BY <1>3, Inbox DEF MasterAcknowledged
  <2>2. inbox.uid \in Uid
    BY <2>1, ReplyFrame
  <2>3. \/ ReceiveFindAck(inbox.src) \/ ReceiveUidAck(inbox.src, inbox.uid, << >>)
        \/ ReceivePingAck(inbox.src)
    BY <1>3 DEF MasterAcknowledged
  <2>4. ReceiveAck(inbox.src)
    BY <2>2, <2>3, NetworkAssumption DEF ReceiveAck
  <2> QED BY <2>1, <2>4 DEF Next
<1>4. CASE MasterReads
  <2>1. /\ inbox.src \in Source
        /\ ReceiveOther(inbox.src) \/ ReceiveData(inbox.src) \/ UNCHANGED masterVars
    BY <1>4, Inbox DEF MasterReads
  <2> QED BY <1>1, <2>1 DEF Next
<1>5. CASE MasterReadsToEnd \/ MasterWaits \/ MasterPings \/ MasterDispatches
  BY <1>5 DEF MasterReadsToEnd, MasterWaits, MasterPings, MasterDispatches, Next, KeepAlive
<1>6. CASE MasterDrops \/ MasterReleases \/ MasterIgnores \/ UNCHANGED netVars
  BY <1>1, <1>6 DEF MasterDrops, MasterReleases, MasterIgnores, netVars, busVars
<1>7. ASSUME NEW n \in Node, SlaveNext(n) PROVE UNCHANGED masterVars
  BY <1>7, SlaveEffect
<1>8. ~MasterRestarts
  BY DEF MasterRestarts
<1> QED BY <1>1, <1>2, <1>3, <1>4, <1>5, <1>6, <1>7, <1>8 DEF NetNext, MasterNext

\* What module Master promises of a master among arbitrary frames holds on the
\* bus with its slaves, whatever is lost or crosses, while it keeps its memory.
THEOREM MasterOnTheBus ==
  ASSUME "restart" \notin Faults, << >> \in Uid
  PROVE  NetSpec => Spec
<1>1. NetInit => Init
  BY DEF NetInit
<1>2. NetInv /\ [NetNext]_netVars => [Next]_vars
  BY MasterRefines
<1> QED BY <1>1, <1>2, NetInitInv, NetNextKeepsNetInv, PTL DEF NetSpec, Spec

\* Slave n as its own machine, with the nonces it draws.
OneSlave(n) == INSTANCE SlaveProtocol WITH node <- node[n], Nonce <- Draws[n]

\* Every step of slave n on the bus is a step of SlaveProtocol, or none.
LEMMA SlaveRefines ==
  ASSUME NetInv, NEW n \in Node, [NetNext]_netVars
  PROVE  [OneSlave(n)!Next]_(node[n])
<1> DEFINE s == node[n]
<1>0. node \in [Node -> SlaveState] /\ held \in [Node -> MasterFrame \cup {NoFrame, Ignored}]
  BY DEF NetInv, NetTypeOK
<1>1. CASE node' = node
  BY <1>1
<1>2. CASE MasterNext
  BY <1>1, <1>2, MasterEffect
<1>3. ASSUME NEW m \in Node, SlaveNext(m), m # n PROVE node'[n] = node[n]
  BY <1>0, <1>3, SlaveEffect
<1>4. CASE SlaveSignals(n)
  <2>1. node'[n] = Protocol!Signalled(node[n]) /\ Protocol!CanSignal(node[n])
    BY <1>0, <1>4 DEF SlaveSignals, Becomes
  <2> QED BY <2>1 DEF OneSlave!Next, OneSlave!Signal, OneSlave!CanSignal, OneSlave!Signalled,
                     Protocol!Signalled, Protocol!CanSignal
<1>5. CASE SlaveFound(n)
  <2>1. CASE node' # node
    <3>1. /\ Protocol!TakesFind(node[n], held[n].nonce)
          /\ node'[n] = Protocol!Found(node[n], held[n].addr)
      BY <1>0, <1>5, <2>1 DEF SlaveFound, Becomes
    <3>2. held[n].addr \in Address
      BY <1>0, <1>5, RequestFrame DEF SlaveFound, Asked
    <3> QED BY <3>1, <3>2 DEF OneSlave!Next, OneSlave!TakeFind, OneSlave!TakesFind,
                           OneSlave!Found, Protocol!TakesFind, Protocol!Found
  <2> QED BY <1>1, <2>1
<1>6. CASE SlaveAsked(n)
  <2>1. node'[n] = Protocol!UidAsked(node[n])
    BY <1>0, <1>6 DEF SlaveAsked, Becomes
  <2> QED BY <2>1 DEF OneSlave!Next, OneSlave!AskUid, OneSlave!UidAsked, Protocol!UidAsked
<1>7. CASE SlavePinged(n)
  <2>1. node'[n] = Protocol!Pinged(node[n])
    BY <1>0, <1>7 DEF SlavePinged, Becomes
  <2> QED BY <2>1 DEF OneSlave!Next, OneSlave!Ping, OneSlave!Pinged, Protocol!Pinged
<1>8. CASE SlaveLeaves(n) \/ SlaveGivesUp(n)
  <2>1. \E nonce \in Draws[n] : node'[n] = Protocol!Started(nonce)
    BY <1>0, <1>8 DEF SlaveLeaves, SlaveGivesUp, StartOver, Becomes
  <2> QED BY <2>1 DEF OneSlave!Next, OneSlave!StartOver, OneSlave!Started, Protocol!Started
<1>9. CASE SlaveNext(n)
  BY <1>1, <1>4, <1>5, <1>6, <1>7, <1>8, <1>9
     DEF SlaveNext, SlaveAnswers, SlaveSends, SlaveReads, SlaveReleases
<1> QED BY <1>1, <1>2, <1>3, <1>9 DEF NetNext, netVars, busVars

\* What module SlaveProtocol promises of a slave, and module Slave implements, holds
\* of each slave on the bus, whatever is lost, crosses or restarts.
THEOREM SlavesOnTheBus ==
  ASSUME NEW n \in Node
  PROVE  NetSpec => OneSlave(n)!Spec
<1>1. NetInit => OneSlave(n)!Init
  BY DEF NetInit, OneSlave!Init, OneSlave!Started, Protocol!Started
<1>2. NetInv /\ [NetNext]_netVars => [OneSlave(n)!Next]_(node[n])
  BY SlaveRefines
<1> QED BY <1>1, <1>2, NetInitInv, NetNextKeepsNetInv, PTL DEF NetSpec, OneSlave!Spec
-----------------------------------------------------------------------------
(* Without crossing frames *)

\* The slaves send unasked only when nobody waits for an answer nor is about to
\* give one, and no two of them ever draw the same nonce.
NoCrossing == /\ "crossing" \notin Faults
              /\ \A m, n \in Node : m # n => Draws[m] \cap Draws[n] = {}

\* Slave n holds a FIND that carries a nonce of its own.
Called(n) == Asked(n) /\ held[n].cmd = "FIND" /\ held[n].nonce \in Draws[n]

\* Slave n holds a broadcast.
Told(n) == Asked(n) /\ held[n].cmd = "EXT" /\ held[n].dest = 0

\* One slave at most is called, while the master waits for it to answer,
CallInv ==
  /\ \A n \in Node : Called(n) =>
       /\ last_request.cmd = "FIND" /\ last_request.reply_state = "Pending"
       /\ inbox = NoFrame /\ held[n].addr = new_slave_addr
  /\ \A m, n \in Node : Called(m) => (Called(n) => m = n) /\ ~Told(n)

\* a request to an address is older than the last one only as the handshake and
\* the pings after it permit: none is held from one handshake into the next, and
\* a slot is not freed under a PING,
HeldInv(n) ==
  /\ held[n].cmd = "GET_UID" =>
       /\ held[n].dest = node[n].addr
       /\ last_request.cmd \in {"GET_UID", "PING", "EXT"}
       /\ last_request.cmd = "GET_UID" => held[n].dest = new_slave_addr
  /\ held[n].cmd = "PING" =>
       /\ held[n].dest = node[n].addr
       /\ slaves[held[n].dest - 1].addr = held[n].dest
  /\ (held[n].cmd \in {"PING", "EXT"} /\ held[n].dest # 0) =>
       last_request.cmd \in {"PING", "EXT"}

\* and neither is an answer, nor a SIGNAL heard while a request is held.
InboxInv ==
  /\ inbox.type = "SIGNAL" => Prompt
  /\ (inbox.type = "ACK" /\ inbox.re = "FIND") => last_request.cmd = "FIND"
  /\ (inbox.type = "ACK" /\ inbox.re = "GET_UID") =>
       /\ last_request.cmd \in {"GET_UID", "PING", "EXT"}
       /\ last_request.cmd = "GET_UID" =>
            \E n \in Node : inbox.uid = UidOf[n] /\ node[n].addr \in {0, new_slave_addr}
  /\ (inbox.type = "ACK" /\ inbox.re = "PING") => last_request.cmd \in {"PING", "EXT"}

BusInv == /\ CallInv
          /\ \A n \in Node : Asked(n) => HeldInv(n)
          /\ Parsing => InboxInv

\* A step of the master that writes nothing and neither forgets nor changes its
\* last request keeps all this, when it frees a slot or ends the wait for a reply
\* only while no slave has a request left or an answer has come.
LEMMA MasterKeepsBusInv ==
  ASSUME NetInv, BusInv, UNCHANGED <<node, held, new_slave_addr>>,
         last_request'.cmd = last_request.cmd,
         inbox' \in {inbox, NoFrame, Ignored},
         inbox' = inbox \/ inbox # NoFrame,
         Prompt \/ \A i \in Index : slaves'[i].addr = slaves[i].addr,
         \/ Prompt \/ Parsing \/ last_request.reply_state # "Pending"
         \/ last_request'.reply_state = last_request.reply_state
  PROVE  BusInv'
<1>1. CASE Prompt
  <2>1. \A n \in Node : ~Asked(n)'
    BY <1>1 DEF Prompt, Asked
  <2>2. Parsing' => inbox' = inbox /\ Parsing
    BY DEF Parsing
  <2> QED BY <2>1, <2>2 DEF BusInv, CallInv, Called, InboxInv, Prompt
<1>2. CASE ~Prompt
  <2>1. \A n \in Node : /\ (Asked(n)' <=> Asked(n)) /\ (Called(n)' <=> Called(n))
                       /\ (Told(n)' <=> Told(n))
    BY DEF Asked, Called, Told
  <2>2. CallInv'
    <3>1. \A n \in Node : Called(n) => ~Parsing /\ inbox = NoFrame
      BY DEF BusInv, CallInv, Parsing
    <3> QED BY <1>2, <2>1, <3>1 DEF BusInv, CallInv
  <2>3. ASSUME NEW n \in Node, Asked(n) PROVE HeldInv(n)'
    <3>1. held[n] \in MasterFrame
      BY <2>3 DEF NetInv, NetTypeOK, Asked
    <3>2. held[n].cmd = "PING" => held[n].dest - 1 \in Index
      BY <3>1, RequestFrame DEF Address, Index
    <3>3. HeldInv(n)
      BY <2>3 DEF BusInv
    <3> QED BY <1>2, <3>2, <3>3 DEF HeldInv
  <2>4. Parsing' => InboxInv'
    <3>1. Parsing' => inbox' = inbox /\ Parsing
      BY DEF Parsing
    <3> QED BY <2>1, <3>1 DEF BusInv, InboxInv, Prompt
  <2> QED BY <2>1, <2>2, <2>3, <2>4 DEF BusInv
<1> QED BY <1>1, <1>2

\* What a keep-alive cycle leaves alone: it frees a slot or gives up a reply only
\* while no slave has a request left.
LEMMA CycleOnBus ==
  ASSUME NetInv, MayTimeOut, Cycle
  PROVE  /\ new_slave_addr' = new_slave_addr
         /\ Prompt \/ \A i \in Index : slaves'[i].addr = slaves[i].addr
         /\ RequestAfterCycle.cmd = last_request.cmd
         /\ Prompt \/ RequestAfterCycle.reply_state = last_request.reply_state
         /\ (SafeToSend /\ ~Prompt) => last_request.reply_state # "Pending"
<1>1. TimesOut => Prompt
  BY DEF MayTimeOut
<1>2. slaves' = ListAfterCycle /\ new_slave_addr' = new_slave_addr
  BY DEF Cycle
<1>3. ~TimesOut => \A i \in Index : slaves'[i].addr = slaves[i].addr
  BY <1>2, ListAfterCycleInv DEF NetInv
<1>4. last_request \in RequestType
  BY DEF NetInv, IInv, TypeOK
<1>5. ~TimesOut => RequestAfterCycle.reply_state = last_request.reply_state
  BY <1>4 DEF RequestAfterCycle, RequestType
<1>6. RequestAfterCycle.cmd = last_request.cmd
  BY RequestAfterCycleInv DEF NetInv
<1> QED BY <1>1, <1>2, <1>3, <1>5, <1>6 DEF SafeToSend

\* Nothing is left to be wrong when no request and no answer is on its way.
LEMMA QuietBus ==
  ASSUME ~Parsing', \A n \in Node : ~Asked(n)'
  PROVE  BusInv'
BY DEF BusInv, CallInv, Called

\* What the master asks for after a cycle: by then no slave is called, and if one
\* still has a request, no slot was freed.
LEMMA CycleSends ==
  ASSUME NetInv, BusInv, MayTimeOut, Cycle, SafeToSend,
         NEW f \in MasterFrame, f.cmd \in {"PING", "EXT"}, Transmit(f),
         IF f.dest = 0 THEN last_request'.cmd = last_request.cmd ELSE last_request'.cmd = f.cmd,
         f.cmd = "PING" => slaves'[f.dest - 1].addr = f.dest,
         node' = node, inbox' = NoFrame
  PROVE  BusInv'
<1>1. ~Parsing'
  BY DEF Parsing
<1>2. \A n \in Node : held'[n] = held[n] \/ (held'[n] = f /\ f.dest \in {0, node[n].addr})
  BY TransmitReaches
<1>3. f.cmd = "PING" => f.dest # 0
  BY RequestFrame DEF Address
<1>4. \A n \in Node : ~Called(n)
  BY CycleOnBus DEF BusInv, CallInv, Called, Prompt
<1>5. \A n \in Node : ~Called(n)'
  BY <1>2, <1>4 DEF Called, Asked
<1>6. ASSUME NEW n \in Node, Asked(n)' PROVE HeldInv(n)'
  <2>1. CASE held'[n] = f
    <3>1. f.cmd = "PING" => f.dest = node[n].addr \/ held[n] = f
      BY <1>2, <1>3, <2>1
    <3>2. held[n] = f => (f.cmd = "PING" => f.dest = node[n].addr)
      BY <1>6, <2>1 DEF BusInv, HeldInv, Asked
    <3>3. f.cmd # "GET_UID" /\ (f.dest # 0 => last_request'.cmd = f.cmd)
      OBVIOUS
    <3>4. f.cmd = "PING" => f.dest = node'[n].addr /\ slaves'[f.dest - 1].addr = f.dest
      BY <1>3, <3>1, <3>2
    <3> QED BY <2>1, <3>3, <3>4 DEF HeldInv
  <2>2. CASE held'[n] = held[n]
    <3>1. Asked(n) /\ HeldInv(n)
      BY <1>6, <2>2 DEF Asked, BusInv
    <3>2. held[n] \in MasterFrame
      BY <3>1 DEF NetInv, NetTypeOK, Asked
    <3>3. held[n].cmd = "PING" => held[n].dest - 1 \in Index
      BY <3>2, RequestFrame DEF Address, Index
    <3>4. \A i \in Index : slaves'[i].addr = slaves[i].addr
      BY <3>1, CycleOnBus DEF Prompt
    <3>5. last_request'.cmd \in {"PING", "EXT"} \/ last_request'.cmd = last_request.cmd
      OBVIOUS
    <3>6. new_slave_addr' = new_slave_addr
      BY DEF Cycle
    <3>7. /\ held[n].cmd = "GET_UID" =>
               /\ held[n].dest = node[n].addr
               /\ last_request.cmd \in {"GET_UID", "PING", "EXT"}
               /\ last_request.cmd = "GET_UID" => held[n].dest = new_slave_addr
          /\ (held[n].cmd \in {"PING", "EXT"} /\ held[n].dest # 0) =>
               last_request.cmd \in {"PING", "EXT"}
      BY <3>1 DEF HeldInv
    <3>8. held[n].cmd = "PING" => /\ held[n].dest = node[n].addr
                                  /\ slaves'[held[n].dest - 1].addr = held[n].dest
      BY <3>1, <3>3, <3>4 DEF HeldInv
    <3> QED BY <2>2, <3>5, <3>6, <3>7, <3>8 DEF HeldInv
  <2> QED BY <1>2, <2>1, <2>2
<1> QED BY <1>1, <1>5, <1>6 DEF BusInv, CallInv

\* A SIGNAL finds no slave with a request: FIND calls one slave at most.
LEMMA MasterFindsOnBus ==
  ASSUME NetInv, BusInv, NoCrossing, MasterFinds
  PROVE  BusInv'
<1>1. \A n \in Node : ~Asked(n)
  BY DEF MasterFinds, BusInv, InboxInv, Prompt
<1>2. CASE new_slave_addr' = 0
  <2>1. held' = held /\ inbox' \in {NoFrame, Ignored}
    BY <1>2 DEF MasterFinds, Finished
  <2> QED BY <1>1, <2>1, QuietBus DEF Asked, Parsing
<1>3. CASE new_slave_addr' # 0
  <2> DEFINE f == Find(inbox.nonce, new_slave_addr')
  <2>1. Transmit(f) /\ inbox' = NoFrame /\ last_request' = Requested(0, "FIND")
    BY <1>3 DEF MasterFinds, ReceiveSignal
  <2>2. f.cmd = "FIND" /\ f.nonce = inbox.nonce /\ f.addr = new_slave_addr'
    BY DEF Find
  <2> HIDE DEF f
  <2>3. \A n \in Node : Asked(n)' => held'[n] = f
    BY <1>1, <2>1, TransmitReaches DEF Asked
  <2>4. last_request'.cmd = "FIND" /\ last_request'.reply_state = "Pending"
    BY <2>1 DEF Requested
  <2>5. CallInv'
    <3>1. \A n \in Node : ~Told(n)'
      BY <2>2, <2>3 DEF Told
    <3> QED BY <2>1, <2>2, <2>3, <2>4, <3>1 DEF CallInv, Called, NoCrossing
  <2>6. \A n \in Node : Asked(n)' => HeldInv(n)'
    BY <2>2, <2>3 DEF HeldInv
  <2>7. ~Parsing'
    BY <2>1 DEF Parsing
  <2> QED BY <2>5, <2>6, <2>7 DEF BusInv
<1> QED BY <1>2, <1>3

\* The next step of the handshake: what slaves still have is a FIND to another
\* slave when the ACK of FIND comes, and no PING when that of GET_UID does.
LEMMA MasterAcknowledgedOnBus ==
  ASSUME NetInv, BusInv, MasterAcknowledged
  PROVE  BusInv'
<1>1. /\ node' = node /\ Parsing /\ inbox # NoFrame /\ inbox.type = "ACK"
      /\ inbox.src \in Source /\ inbox.uid \in Seq(1 .. 255)
  BY Inbox DEF MasterAcknowledged, Parsing
<1>2. \A n \in Node : ~Called(n)
  BY <1>1 DEF BusInv, CallInv
<1>3. CASE ReceiveFindAck(inbox.src) /\ Transmit(GetUid(new_slave_addr)) /\ inbox' = NoFrame
  <2> DEFINE f == GetUid(new_slave_addr)
  <2>1. /\ last_request.cmd = "FIND" /\ new_slave_addr' = new_slave_addr
        /\ last_request'.cmd = "GET_UID" /\ Transmit(f)
    BY <1>3 DEF ReceiveFindAck, Requested
  <2>2. f.cmd = "GET_UID" /\ f.dest = new_slave_addr /\ new_slave_addr # 0
    BY <2>1 DEF GetUid, NetInv, IInv, OfferedSlotStaysFree, Address
  <2> HIDE DEF f
  <2>3. \A n \in Node : held'[n] = held[n] \/ (held'[n] = f /\ f.dest = node[n].addr)
    BY <2>1, <2>2, TransmitReaches
  <2>4. ASSUME NEW n \in Node, Asked(n)' PROVE HeldInv(n)'
    <3>1. CASE held'[n] = held[n]
      <4>1. Asked(n) /\ HeldInv(n) /\ held[n] \in MasterFrame
        BY <2>4, <3>1 DEF Asked, BusInv, NetInv, NetTypeOK
      <4>2. held[n].cmd = "PING" => held[n].dest # 0
        BY <4>1, RequestFrame DEF Address
      <4>3. held[n].cmd \notin {"GET_UID", "PING"} /\ (held[n].cmd = "EXT" => held[n].dest = 0)
        BY <2>1, <4>1, <4>2 DEF HeldInv
      <4> QED BY <3>1, <4>3 DEF HeldInv
    <3>2. CASE held'[n] = f /\ f.dest = node[n].addr
      BY <1>1, <2>1, <2>2, <3>2 DEF HeldInv
    <3> QED BY <2>3, <3>1, <3>2
  <2>5. \A n \in Node : ~Called(n)'
    BY <1>2, <2>2, <2>3 DEF Called, Asked
  <2>6. ~Parsing'
    BY <1>3 DEF Parsing
  <2> QED BY <2>4, <2>5, <2>6 DEF BusInv, CallInv
<1>4. CASE /\ ReceiveUidAck(inbox.src, inbox.uid, << >>) /\ Len(inbox.uid) <= UID_SIZE
           /\ Transmit(Ping(new_slave_addr)) /\ inbox' = NoFrame
  <2> DEFINE f == Ping(new_slave_addr)
  <2>1. /\ last_request.cmd = "GET_UID" /\ new_slave_addr' = new_slave_addr
        /\ last_request' = Requested(new_slave_addr, "PING") /\ Transmit(f)
    BY <1>4 DEF ReceiveUidAck
  <2>2. f.cmd = "PING" /\ f.dest = new_slave_addr /\ new_slave_addr # 0
    BY <2>1 DEF Ping, NetInv, IInv, OfferedSlotStaysFree, Address
  <2> HIDE DEF f
  <2>3. \A n \in Node : held'[n] = held[n] \/ (held'[n] = f /\ f.dest = node[n].addr)
    BY <2>1, <2>2, TransmitReaches
  <2>4. slaves'[f.dest - 1].addr = f.dest
    <3>1. IInv'
      BY <1>1, <1>4, EmptyUid, ReceiveUidAckKeepsIInv DEF NetInv
    <3>2. last_request'.cmd = "PING" /\ last_request'.reply_state = "Pending"
          /\ last_request'.dest = new_slave_addr
      BY <2>1 DEF Requested
    <3> QED BY <2>2, <3>1, <3>2 DEF IInv, PingBookedOnListedSlave
  <2>5. last_request'.cmd = "PING"
    BY <2>1 DEF Requested
  <2>6. ASSUME NEW n \in Node, Asked(n)' PROVE HeldInv(n)'
    <3>1. CASE held'[n] = held[n]
      <4>1. Asked(n) /\ HeldInv(n) /\ held[n] \in MasterFrame
        BY <2>6, <3>1 DEF Asked, BusInv, NetInv, NetTypeOK
      <4>2. held[n].cmd = "PING" => held[n].dest # 0
        BY <4>1, RequestFrame DEF Address
      <4>3. held[n].cmd # "PING" /\ (held[n].cmd = "EXT" => held[n].dest = 0)
        BY <2>1, <4>1, <4>2 DEF HeldInv
      <4> QED BY <1>1, <2>5, <3>1, <4>1, <4>3 DEF HeldInv
    <3>2. CASE held'[n] = f /\ f.dest = node[n].addr
      BY <1>1, <2>2, <2>4, <2>5, <3>2 DEF HeldInv
    <3> QED BY <2>3, <3>1, <3>2
  <2>7. \A n \in Node : ~Called(n)'
    BY <1>2, <2>2, <2>3 DEF Called, Asked
  <2>8. ~Parsing'
    BY <1>4 DEF Parsing
  <2> QED BY <2>6, <2>7, <2>8 DEF BusInv, CallInv
<1>5. CASE /\ ReceiveUidAck(inbox.src, inbox.uid, << >>) /\ ~(Len(inbox.uid) <= UID_SIZE)
           /\ Finished /\ UNCHANGED held
  <2>1. /\ UNCHANGED <<node, held, new_slave_addr, slaves>> /\ last_request' = Answered
        /\ inbox' \in {NoFrame, Ignored}
    BY <1>1, <1>5 DEF ReceiveUidAck, Finished
  <2> QED BY <1>1, <2>1, AnsweredInv, MasterKeepsBusInv DEF NetInv
<1>6. CASE ReceivePingAck(inbox.src) /\ Finished /\ UNCHANGED held
  <2>1. /\ UNCHANGED <<node, held, new_slave_addr>> /\ last_request' = Answered
        /\ inbox' \in {NoFrame, Ignored}
        /\ slaves' = PingAnswered(slaves, last_request.dest, PING_PERIOD)
        /\ last_request.dest \in Address
    BY <1>1, <1>6 DEF ReceivePingAck, Finished, NetInv, IInv, RequestInv
  <2>2. \A i \in Index : slaves'[i].addr = slaves[i].addr
    BY <2>1, ListOfIInv, PingAnsweredEntry DEF NetInv
  <2> QED BY <1>1, <2>1, <2>2, AnsweredInv, MasterKeepsBusInv DEF NetInv
<1> QED BY <1>3, <1>4, <1>5, <1>6 DEF MasterAcknowledged

\* Every step of the master keeps what is on the bus in order,
LEMMA MasterNextOnBus ==
  ASSUME NetInv, BusInv, NoCrossing, MasterNext
  PROVE  BusInv'
<1>1. CASE MasterDrops \/ MasterReleases \/ MasterIgnores
  BY <1>1, MasterKeepsBusInv DEF MasterDrops, MasterReleases, MasterIgnores, masterVars, vars,
     Parsing, NetInv
<1>2. CASE MasterReads
  <2>1. /\ UNCHANGED <<node, held, new_slave_addr, slaves>>
        /\ \/ last_request' \in {Answered, last_request}
           \/ last_request' = [last_request EXCEPT !.reply_state = "Received"]
        /\ inbox' \in {NoFrame, Ignored} /\ Parsing
    BY <1>2 DEF MasterReads, Finished, ReceiveOther, ReceiveData, listVars, masterVars, vars
  <2>2. last_request \in RequestType
    BY DEF NetInv, IInv, TypeOK
  <2>3. last_request'.cmd = last_request.cmd /\ inbox # NoFrame
    BY <2>1, <2>2, AnsweredInv DEF NetInv, Parsing, RequestType
  <2> QED BY <2>1, <2>3, MasterKeepsBusInv
<1>3. CASE Cycle /\ MayTimeOut /\ last_request' = RequestAfterCycle /\ UNCHANGED <<node, held, inbox>>
  BY <1>3, CycleOnBus, MasterKeepsBusInv
<1>4. CASE MasterPings
  <2>1. CASE KeepAlivePings(TRUE) /\ Transmit(Ping(last_request'.dest))
    <3> DEFINE dest == last_request'.dest
               f == Ping(dest)
    <3>1. /\ Cycle /\ MayTimeOut /\ SafeToSend /\ node' = node /\ inbox' = NoFrame
          /\ last_request'.cmd = "PING" /\ last_request'.reply_state = "Pending"
      BY <1>4, <2>1 DEF MasterPings, KeepAlivePings, Requested
    <3>2. IInv'
      BY <1>4, MasterKeepsIInv DEF MasterNext
    <3>3. dest \in Address /\ slaves'[dest - 1].addr = dest
      BY <3>1, <3>2 DEF IInv, PingBookedOnListedSlave
    <3> HIDE DEF dest
    <3>4. f \in MasterFrame /\ f.cmd = "PING" /\ f.dest = dest /\ f.dest # 0
      BY <3>3, MasterWrites DEF Ping, Address
    <3>5. Transmit(f)
      BY <2>1 DEF dest
    <3> HIDE DEF f
    <3> QED BY <3>1, <3>3, <3>4, <3>5, CycleSends
  <2>2. CASE KeepAlivePings(FALSE) /\ UNCHANGED held
    BY <1>3, <1>4, <2>2 DEF MasterPings, KeepAlivePings
  <2> QED BY <1>4, <2>1, <2>2 DEF MasterPings
<1>5. CASE MasterDispatches
  <2>1. CASE last_request' = RequestAfterCycle
    <3> DEFINE f == Data(0)
    <3>1. CASE UNCHANGED held
      BY <1>3, <1>5, <2>1, <3>1 DEF MasterDispatches, KeepAliveDispatches
    <3>2. 1 \in Address
      BY SlaveListAssumption DEF Address
    <3>3. f \in MasterFrame /\ f.cmd = "EXT" /\ f.dest = 0
      BY <3>2, MasterWrites DEF Data
    <3>4. CASE Transmit(f)
      <4>1. /\ Cycle /\ MayTimeOut /\ SafeToSend /\ node' = node /\ inbox' = NoFrame
        BY <1>5 DEF MasterDispatches, KeepAliveDispatches
      <4>2. last_request'.cmd = last_request.cmd
        BY <2>1, <4>1, CycleOnBus
      <4> HIDE DEF f
      <4> QED BY <3>3, <3>4, <4>1, <4>2, CycleSends
    <3> QED BY <1>5, <2>1, <3>1, <3>4 DEF MasterDispatches
  <2>2. CASE last_request' # RequestAfterCycle
    <3>1. PICK dest \in Address : last_request' = Requested(dest, "EXT")
      BY <1>5, <2>2 DEF MasterDispatches, KeepAliveDispatches
    <3> DEFINE f == Data(dest)
    <3>2. f \in MasterFrame /\ f.cmd = "EXT"
      BY MasterWrites DEF Data
    <3>3. last_request'.dest = dest /\ last_request'.cmd = "EXT" /\ f.dest # 0
      BY <3>1 DEF Requested, Data, Address
    <3>4. /\ Cycle /\ MayTimeOut /\ SafeToSend /\ node' = node /\ inbox' = NoFrame
          /\ Transmit(f)
      BY <1>5, <2>2, <3>3 DEF MasterDispatches, KeepAliveDispatches
    <3> HIDE DEF f
    <3> QED BY <3>2, <3>3, <3>4, CycleSends
  <2> QED BY <2>1, <2>2
<1>6. CASE MasterRestarts
  BY <1>6, QuietBus DEF MasterRestarts, Prompt, Asked, Parsing
<1>7. CASE MasterWaits
  BY <1>3, <1>7 DEF MasterWaits, KeepAliveWaits
<1>8. CASE MasterReadsToEnd
  <2>1. /\ UNCHANGED <<node, held, new_slave_addr, slaves>> /\ last_request' = Answered
        /\ inbox' = NoFrame /\ last_request.reply_state # "Pending"
    BY <1>8 DEF MasterReadsToEnd, ReadToEnd, listVars
  <2>2. last_request'.cmd = last_request.cmd
    BY <2>1, AnsweredInv DEF NetInv
  <2> QED BY <2>1, <2>2, MasterKeepsBusInv
<1> QED BY <1>1, <1>2, <1>4, <1>5, <1>6, <1>7, <1>8, MasterFindsOnBus, MasterAcknowledgedOnBus
        DEF MasterNext

\* After a step of slave n it has no request left, and it has taken an address
\* only if it was called.
LEMMA SlaveIsDone ==
  ASSUME NetInv, NEW n \in Node, SlaveNext(n)
  PROVE  ~Asked(n)' /\ (node'[n].addr \in {0, node[n].addr} \/ Called(n))
<1>1. n \in DOMAIN held /\ n \in DOMAIN node /\ node[n].nonce \in Draws[n]
  BY DEF NetInv, NetTypeOK, SlavesInv
<1> USE <1>1 DEF Becomes, Hold, Asked
<1>2. CASE SlaveSignals(n)
  <2>1. node[n] \in SlaveState
    BY DEF NetInv, NetTypeOK
  <2>2. node'[n] = [node[n] EXCEPT !.bus_state = "Signal_sent"] /\ held' = held
    BY <1>2 DEF SlaveSignals, Protocol!Signalled
  <2>3. node'[n].addr = node[n].addr
    BY <2>1, <2>2 DEF SlaveState
  <2> QED BY <1>2, <2>2, <2>3 DEF SlaveSignals
<1>3. CASE SlaveSends(n)
  BY <1>3 DEF SlaveSends
<1>4. CASE SlaveFound(n)
  BY <1>4 DEF SlaveFound, Protocol!TakesFind, Called
<1>5. CASE SlaveAsked(n)
  BY <1>5 DEF SlaveAsked, Protocol!UidAsked
<1>6. CASE SlavePinged(n)
  BY <1>6 DEF SlavePinged, Protocol!Pinged
<1>7. CASE SlaveReads(n)
  BY <1>7 DEF SlaveReads
<1>8. CASE SlaveReleases(n)
  BY <1>8 DEF SlaveReleases
<1>9. CASE SlaveLeaves(n) \/ SlaveGivesUp(n)
  BY <1>9 DEF SlaveLeaves, SlaveGivesUp, StartOver, Protocol!Started
<1> QED BY <1>2, <1>3, <1>4, <1>5, <1>6, <1>7, <1>8, <1>9 DEF SlaveNext, SlaveAnswers

\* It writes unasked only while nobody has a request, and an answer to one only
\* in the part of the handshake, or among the pings, that the request belongs to;
\* nobody else is called then.
LEMMA SlaveWritesInTurn ==
  ASSUME NetInv, BusInv, NoCrossing, NEW n \in Node, SlaveNext(n)
  PROVE  \/ inbox' = inbox
         \/ /\ inbox = NoFrame /\ \A m \in Node \ {n} : ~Called(m)
            /\ \/ inbox' = Signal(n) /\ Prompt
               \/ inbox' \in {Other(n), NoFrame}
               \/ inbox' = Ack(n, "FIND") /\ last_request.cmd = "FIND"
               \/ /\ inbox' = Ack(n, "GET_UID")
                  /\ last_request.cmd \in {"GET_UID", "PING", "EXT"}
                  /\ last_request.cmd = "GET_UID" => node[n].addr = new_slave_addr
                  /\ node'[n].addr = node[n].addr
               \/ inbox' = Ack(n, "PING") /\ last_request.cmd \in {"PING", "EXT"}
<1> SUFFICES ASSUME inbox' # inbox
             PROVE  /\ inbox = NoFrame /\ \A m \in Node \ {n} : ~Called(m)
                    /\ \/ inbox' = Signal(n) /\ Prompt
                       \/ inbox' \in {Other(n), NoFrame}
                       \/ inbox' = Ack(n, "FIND") /\ last_request.cmd = "FIND"
                       \/ /\ inbox' = Ack(n, "GET_UID")
                          /\ last_request.cmd \in {"GET_UID", "PING", "EXT"}
                          /\ last_request.cmd = "GET_UID" => node[n].addr = new_slave_addr
                          /\ node'[n].addr = node[n].addr
                       \/ inbox' = Ack(n, "PING") /\ last_request.cmd \in {"PING", "EXT"}
  OBVIOUS
<1>1. n \in DOMAIN node /\ node[n].nonce \in Draws[n]
  BY DEF NetInv, NetTypeOK, SlavesInv
<1>2. \A m \in Node : Called(m) => last_request.cmd = "FIND"
  BY DEF BusInv, CallInv
<1>3. Asked(n) => HeldInv(n)
  BY DEF BusInv
<1>4. CASE SlaveSignals(n) \/ SlaveSends(n)
  <2>1. Prompt /\ (Deliver(n, Signal(n)) \/ Deliver(n, Other(n)))
    BY <1>4 DEF SlaveSignals, SlaveSends, Quiet, NoCrossing
  <2>2. \A m \in Node : ~Called(m)
    BY <2>1 DEF Prompt, Called
  <2> QED BY <2>1, <2>2, DeliverReaches
<1>5. CASE SlaveFound(n)
  <2>1. Called(n) /\ Deliver(n, Ack(n, "FIND"))
    BY <1>1, <1>5 DEF SlaveFound, Protocol!TakesFind, Called
  <2>2. last_request.cmd = "FIND" /\ \A m \in Node \ {n} : ~Called(m)
    BY <2>1 DEF BusInv, CallInv
  <2> QED BY <2>1, <2>2, DeliverReaches
<1>6. CASE SlaveAsked(n)
  <2>1. /\ held[n].cmd = "GET_UID" /\ HeldInv(n) /\ Deliver(n, Ack(n, "GET_UID"))
        /\ node'[n].addr = node[n].addr
    BY <1>1, <1>3, <1>6 DEF SlaveAsked, Becomes, Protocol!UidAsked
  <2>2. last_request.cmd \in {"GET_UID", "PING", "EXT"}
        /\ (last_request.cmd = "GET_UID" => node[n].addr = new_slave_addr)
    BY <2>1 DEF HeldInv
  <2> QED BY <1>2, <2>1, <2>2, DeliverReaches
<1>7. CASE SlavePinged(n)
  <2>1. held[n].cmd = "PING" /\ HeldInv(n) /\ Deliver(n, Ack(n, "PING"))
    BY <1>3, <1>7 DEF SlavePinged
  <2>2. held[n].dest # 0
    BY <1>7, <2>1, RequestFrame DEF SlavePinged, Asked, NetInv, NetTypeOK, Address
  <2>3. last_request.cmd \in {"PING", "EXT"}
    BY <2>1, <2>2 DEF HeldInv
  <2> QED BY <1>2, <2>1, <2>3, DeliverReaches
<1>8. CASE SlaveReads(n)
  <2>1. Asked(n) /\ held[n].cmd = "EXT" /\ HeldInv(n) /\ Deliver(n, Other(n))
    BY <1>3, <1>8 DEF SlaveReads
  <2>2. last_request.cmd \in {"PING", "EXT"} \/ Told(n)
    BY <2>1 DEF HeldInv, Told
  <2>3. \A m \in Node : ~Called(m)
    BY <1>2, <2>2 DEF BusInv, CallInv
  <2> QED BY <2>1, <2>3, DeliverReaches
<1> QED BY <1>4, <1>5, <1>6, <1>7, <1>8
        DEF SlaveNext, SlaveAnswers, SlaveReleases, SlaveLeaves, SlaveGivesUp, StartOver

\* and so does every step of a slave.
LEMMA SlaveNextOnBus ==
  ASSUME NetInv, BusInv, NoCrossing, NEW n \in Node, SlaveNext(n)
  PROVE  BusInv'
<1>1. /\ UNCHANGED <<slaves, new_slave_addr, last_request>>
      /\ \A m \in Node \ {n} : node'[m] = node[m] /\ held'[m] = held[m]
  BY SlaveEffect DEF masterVars, vars
<1>2. ~Asked(n)'
  BY SlaveIsDone
<1>3. \A m \in Node : Asked(m)' => m # n /\ Asked(m)
  BY <1>1, <1>2 DEF Asked
<1>4. \A m \in Node : (Called(m)' => m # n /\ Called(m)) /\ (Told(m)' => Told(m))
  BY <1>1, <1>3 DEF Called, Told
<1>5. ASSUME NEW m \in Node, Called(m), m # n PROVE inbox' = inbox
  BY <1>5, SlaveWritesInTurn
<1>6. CallInv'
  BY <1>1, <1>4, <1>5 DEF BusInv, CallInv
<1>7. ASSUME NEW m \in Node, Asked(m)' PROVE HeldInv(m)'
  <2>1. HeldInv(m) /\ node'[m] = node[m] /\ held'[m] = held[m]
    BY <1>1, <1>3, <1>7 DEF BusInv
  <2> QED BY <1>1, <2>1 DEF HeldInv
<1>8. Prompt => Prompt'
  BY <1>3 DEF Prompt
<1>9. ASSUME Parsing' PROVE InboxInv'
  <2>1. CASE inbox' = inbox
    <3>1. Parsing /\ InboxInv /\ inbox # NoFrame
      BY <1>9, <2>1 DEF BusInv, Parsing
    <3>2. ~Called(n)
      BY <3>1 DEF BusInv, CallInv
    <3>3. \A m \in Node : node'[m].addr \in {0, node[m].addr}
      BY <1>1, <3>2, SlaveIsDone
    <3> QED BY <1>1, <1>8, <2>1, <3>1, <3>3 DEF InboxInv
  <2>2. CASE inbox' = Signal(n) /\ Prompt
    BY <1>8, <2>2 DEF InboxInv, Signal
  <2>3. CASE inbox' = Other(n)
    BY <2>3 DEF InboxInv, Other
  <2>4. CASE inbox' = Ack(n, "FIND") /\ last_request.cmd = "FIND"
    BY <1>1, <2>4 DEF InboxInv, Ack
  <2>5. CASE /\ inbox' = Ack(n, "GET_UID")
             /\ last_request.cmd \in {"GET_UID", "PING", "EXT"}
             /\ last_request.cmd = "GET_UID" => node[n].addr = new_slave_addr
             /\ node'[n].addr = node[n].addr
    <3>1. inbox'.type = "ACK" /\ inbox'.re = "GET_UID" /\ inbox'.uid = UidOf[n]
      BY <2>5 DEF Ack
    <3> QED BY <1>1, <2>5, <3>1 DEF InboxInv
  <2>6. CASE inbox' = Ack(n, "PING") /\ last_request.cmd \in {"PING", "EXT"}
    BY <1>1, <2>6 DEF InboxInv, Ack
  <2>7. inbox' # NoFrame
    BY <1>9 DEF Parsing
  <2> QED BY <2>1, <2>2, <2>3, <2>4, <2>5, <2>6, <2>7, SlaveWritesInTurn
<1> QED BY <1>6, <1>7, <1>9 DEF BusInv

\* Nothing is on the bus at first.
LEMMA NetInitOnBus == NetInit => BusInv
BY DEF NetInit, BusInv, CallInv, Called, Asked, Parsing

\* Whoever makes the next step.
LEMMA NetNextOnBus ==
  ASSUME NoCrossing, NetInv, BusInv, [NetNext]_netVars
  PROVE  BusInv'
<1>1. CASE UNCHANGED netVars
  <2>1. UNCHANGED <<slaves, new_slave_addr, last_request, node, held, inbox>>
    BY <1>1 DEF netVars, busVars, masterVars, vars
  <2> QED BY <2>1 DEF BusInv, CallInv, Called, Told, HeldInv, InboxInv, Asked, Parsing, Prompt
<1> QED BY <1>1, MasterNextOnBus, SlaveNextOnBus DEF NetNext

\* What is on its way belongs to the part of the handshake the master is in.
LEMMA BusInductive ==
  ASSUME NoCrossing
  PROVE  NetSpec => [](NetInv /\ BusInv)
<1>1. NetInit => NetInv /\ BusInv
  BY NetInitInv, NetInitOnBus
<1>2. (NetInv /\ BusInv) /\ [NetNext]_netVars => (NetInv /\ BusInv)'
  BY NetNextKeepsNetInv, NetNextOnBus
<1> QED BY <1>1, <1>2, PTL DEF NetSpec

\* A slave becomes connected by the PING of its own handshake.
LEMMA ConnectedByPing ==
  ASSUME NetInv, BusInv, NetNext, NEW n \in Node, ~Connected(n), Connected(n)'
  PROVE  slaves[node[n].addr - 1].addr = node[n].addr
<1>1. node \in [Node -> SlaveState]
  BY DEF NetInv, NetTypeOK
<1>2. node'[n].bus_state # node[n].bus_state /\ node'[n].bus_state = "Connected"
  BY DEF Connected
<1>3. SlaveNext(n)
  <2>1. ~MasterNext
    BY <1>2, MasterEffect
  <2>2. \A m \in Node \ {n} : ~SlaveNext(m)
    BY <1>2, SlaveEffect
  <2> QED BY <2>1, <2>2 DEF NetNext
<1>4. SlavePinged(n)
  BY <1>1, <1>2, <1>3
  DEF SlaveNext, SlaveAnswers, SlaveSignals, SlaveSends, SlaveFound, SlaveAsked, SlaveReads,
      SlaveReleases, SlaveLeaves, SlaveGivesUp, StartOver, Becomes, SlaveState,
      Protocol!Signalled, Protocol!Found, Protocol!UidAsked, Protocol!Started
<1>5. Asked(n) /\ held[n].cmd = "PING"
  BY <1>4 DEF SlavePinged
<1> QED BY <1>5 DEF BusInv, HeldInv

\* Whatever is lost and whenever the master restarts, a slave becomes connected
\* only while its address is taken in the master's list (oplink_slave.c:142-167),
\* if slaves do not send unasked while an answer is due and draw nonces of their
\* own.
THEOREM ConnectedAreListed ==
  ASSUME NoCrossing
  PROVE  NetSpec => ConnectsListed
<1> DEFINE A == \A n \in Node : (~Connected(n) /\ Connected(n)') =>
                                 slaves[node[n].addr - 1].addr = node[n].addr
<1>1. (NetInv /\ BusInv) /\ [NetNext]_netVars => [A]_netVars
  BY ConnectedByPing
<1>2. ConnectsListed <=> [][A]_netVars
  BY DEF ConnectsListed
<1> HIDE DEF A
<1> QED BY <1>1, <1>2, BusInductive, PTL DEF NetSpec
-----------------------------------------------------------------------------
(* Who is listed *)

\* Frames carry UIDs, so that what the list stores is one or the digit of an
\* address, after a restart as well.
LEMMA MasterKeepsUidInv ==
  ASSUME NetInv, UidInv, MasterNext
  PROVE  UidInv'
<1>1. CASE UNCHANGED slaves
  BY <1>1 DEF UidInv, Entries
<1>2. CASE Cycle
  BY <1>2, CycleEntries DEF UidInv, NetInv
<1>3. CASE MasterAcknowledged
  <2>1. inbox \in SlaveFrame /\ inbox.type = "ACK" /\ inbox.uid \in String
    BY <1>3, Inbox DEF MasterAcknowledged, String
  <2>2. CASE ReceiveUidAck(inbox.src, inbox.uid, << >>) /\ Len(inbox.uid) <= UID_SIZE
    <3>1. SentUid(inbox.uid) \in Listable
      BY <2>1, <2>2, ReplyFrame DEF ReceiveUidAck, NetInv, IInv, OfferedSlotStaysFree, SentUid,
         Listable
    <3> QED BY <2>1, <2>2, <3>1, EmptyUid, ListableUids, UidAckEntries DEF UidInv, NetInv
  <2>3. CASE ReceiveUidAck(inbox.src, inbox.uid, << >>) /\ ~(Len(inbox.uid) <= UID_SIZE)
    BY <1>1, <2>3 DEF ReceiveUidAck
  <2>4. CASE ReceiveFindAck(inbox.src)
    BY <1>1, <2>4 DEF ReceiveFindAck, listVars
  <2>5. CASE ReceivePingAck(inbox.src)
    BY <2>5, PingAckEntries DEF UidInv, NetInv
  <2> QED BY <1>3, <2>2, <2>3, <2>4, <2>5 DEF MasterAcknowledged
<1>4. CASE MasterRestarts
  BY <1>4 DEF MasterRestarts, UidInv, Entries, Entry, EmptyList, ClearedSlot
<1>5. CASE \/ MasterDrops \/ MasterFinds \/ MasterReads \/ MasterReleases
            \/ MasterReadsToEnd \/ MasterIgnores
  BY <1>1, <1>5 DEF MasterDrops, MasterFinds, MasterReads, MasterReleases, MasterReadsToEnd,
     MasterIgnores, masterVars, vars, ReceiveSignal, ReceiveOther, ReceiveData, ReadToEnd, listVars
<1>6. CASE MasterWaits \/ MasterPings \/ MasterDispatches
  BY <1>2, <1>6 DEF MasterWaits, MasterPings, MasterDispatches, KeepAliveWaits, KeepAlivePings,
     KeepAliveDispatches
<1> QED BY <1>3, <1>4, <1>5, <1>6 DEF MasterNext

\* The list holds UIDs on the bus as well.
LEMMA NetNextKeepsUidInv == NetInv /\ UidInv /\ [NetNext]_netVars => UidInv'
<1>1. UNCHANGED slaves => (UidInv => UidInv')
  BY DEF UidInv, Entries
<1> QED BY <1>1, MasterKeepsUidInv, SlaveEffect DEF NetNext, netVars, busVars, masterVars, vars

\* The ACK of a GET_UID takes the slot that was offered and no other.
LEMMA UidAckLists ==
  ASSUME IInv, UidInv, NEW src, NEW uid \in String, NEW junk \in String,
         ReceiveUidAck(src, uid, junk), Len(uid) <= UID_SIZE, SentUid(uid) \in Listable
  PROVE  /\ new_slave_addr \in Address
         /\ slaves'[new_slave_addr - 1].uid = Stored(SentUid(uid))
         /\ \A i \in Index : i # new_slave_addr - 1 =>
              slaves'[i] = slaves[i] \/ slaves[i].addr # 0
<1>1. Entries(slaves, Listable) /\ Listable \in SUBSET String
  BY ListableUids DEF UidInv
<1>2. /\ new_slave_addr \in Address
      /\ slaves'[new_slave_addr - 1].uid = Stored(SentUid(uid))
      /\ \A j \in Index : j # new_slave_addr - 1 =>
           \/ slaves'[j] = slaves[j]
           \/ /\ slaves'[j] = ClearedSlot /\ slaves[j].addr # 0
              /\ \A v \in Listable : (slaves[j].uid = Stored(v) /\ Len(v) <= UID_SIZE) =>
                   ~Differ(v, SentUid(uid))
  BY <1>1, UidAckEntries, Zenon
<1> QED BY <1>2

\* A slot is only taken by the answer to GET_UID, which comes from a slave that
\* was given its address or has started over since.
LEMMA TakenTruly ==
  ASSUME NetInv, BusInv, UidInv, NetNext, \A n \in Node : UidOf[n] # << >>,
         NEW i \in Index, slaves[i].addr = 0, slaves'[i].addr # 0
  PROVE  \E n \in Node : slaves'[i].uid = Stored(UidOf[n]) /\ node[n].addr \in {0, i + 1}
<1>1. slaves' # slaves
  OBVIOUS
<1>2. MasterNext
  BY <1>1, SlaveEffect DEF NetNext, masterVars, vars
<1>3. ~Cycle
  BY ListAfterCycleInv DEF Cycle, NetInv
<1>4. ~MasterRestarts
  BY DEF MasterRestarts, EmptyList, ClearedSlot
<1>5. MasterAcknowledged
  BY <1>1, <1>2, <1>3, <1>4
  DEF MasterNext, MasterDrops, MasterFinds, MasterReads, MasterReleases, MasterReadsToEnd,
      MasterIgnores, MasterWaits, MasterPings, MasterDispatches, KeepAliveWaits, KeepAlivePings,
      KeepAliveDispatches, masterVars, vars, ReceiveSignal, ReceiveOther, ReceiveData, ReadToEnd,
      listVars
<1>6. /\ Parsing /\ inbox.type = "ACK" /\ inbox \in SlaveFrame /\ inbox.uid \in String
  BY <1>5, Inbox DEF MasterAcknowledged, String
<1>7. ~ReceivePingAck(inbox.src)
  <2> SUFFICES ASSUME ReceivePingAck(inbox.src) PROVE slaves'[i].addr = slaves[i].addr
    OBVIOUS
  <2> QED BY PingAckEntries DEF UidInv, NetInv
<1>8. ReceiveUidAck(inbox.src, inbox.uid, << >>) /\ Len(inbox.uid) <= UID_SIZE
  BY <1>1, <1>5, <1>7 DEF MasterAcknowledged, ReceiveFindAck, ReceiveUidAck, listVars
<1>9. last_request.cmd = "GET_UID"
  BY <1>8 DEF ReceiveUidAck
<1>10. PICK n \in Node : inbox.uid = UidOf[n] /\ node[n].addr \in {0, new_slave_addr}
  BY <1>6, <1>9, ReplyFrame DEF BusInv, InboxInv
<1>11. SentUid(inbox.uid) = UidOf[n] /\ SentUid(inbox.uid) \in Listable
  BY <1>10, NetworkAssumption DEF SentUid, Listable
<1>12. /\ new_slave_addr \in Address
       /\ slaves'[new_slave_addr - 1].uid = Stored(SentUid(inbox.uid))
       /\ i # new_slave_addr - 1 => slaves'[i] = slaves[i]
  <2>1. IInv
    BY DEF NetInv
  <2>2. \A j \in Index : j # new_slave_addr - 1 =>
              slaves'[j] = slaves[j] \/ slaves[j].addr # 0
    BY <1>6, <1>8, <1>11, <2>1, EmptyUid, UidAckLists
  <2>3. new_slave_addr \in Address
    BY <1>6, <1>8, <1>11, <2>1, EmptyUid, UidAckLists
  <2>4. slaves'[new_slave_addr - 1].uid = Stored(SentUid(inbox.uid))
    BY <1>6, <1>8, <1>11, <2>1, EmptyUid, UidAckLists
  <2> QED BY <2>2, <2>3, <2>4
<1>13. i = new_slave_addr - 1
  BY <1>12
<1> QED BY <1>10, <1>11, <1>12, <1>13 DEF Index, Address

\* and a slot is only taken by the UID of a slave that was given its address, or
\* has started over since: UIDs and addresses of two handshakes never mix
\* (oplink_master.c:48-66).
THEOREM ListedTruly ==
  ASSUME NoCrossing, \A n \in Node : UidOf[n] # << >>
  PROVE  NetSpec => ListsTruly
<1> DEFINE A == \A i \in Index : (slaves[i].addr = 0 /\ slaves'[i].addr # 0) =>
                   \E n \in Node : slaves'[i].uid = Stored(UidOf[n]) /\ node[n].addr \in {0, i + 1}
           Inv == NetInv /\ BusInv /\ UidInv
<1>1. NetInit => UidInv
  BY InitUidInv DEF NetInit
<1>2. (NetInv /\ BusInv) /\ UidInv /\ [NetNext]_netVars => UidInv'
  BY NetNextKeepsUidInv
<1>3. (NetInv /\ BusInv) /\ UidInv /\ [NetNext]_netVars => [A]_netVars
  BY TakenTruly
<1>4. ListsTruly <=> [][A]_netVars
  BY DEF ListsTruly
<1> HIDE DEF A
<1> QED BY <1>1, <1>2, <1>3, <1>4, BusInductive, PTL DEF NetSpec
=============================================================================
