------------------------------- MODULE Network -------------------------------
(***************************************************************************)
(* A master, its slaves and the bus between them. Every step of the master  *)
(* is a step of module Master together with what it does to the bus, every  *)
(* slave takes the steps of SlaveProtocol. A frame reaches nodes whose      *)
(* receiver is on, which is then off until they have dealt with the frame   *)
(* or given it up (oplink_com.c:98-101, 163, 174-178).                      *)
(*                                                                         *)
(* The bus is as bad as Faults says:                                        *)
(*   loss      a frame may be missed or arrive garbled                      *)
(*   crossing  a slave may send unasked although an answer is due           *)
(*   restart   the master may lose its memory                               *)
(* Time enters by comparison only: a slave deals with a request before the  *)
(* master gives up the reply, see Prompt, Quiet, signalled and MayTimeOut.  *)
(***************************************************************************)
EXTENDS Master

CONSTANTS Node,      \* the slaves
          UidOf,     \* the UID of each
          Nonce,     \* the values of rand()
          Draws,     \* those each slave may draw
          Faults,    \* what may go wrong
          NoFrame, Ignored   \* see held and inbox

\* The frames on their way to the slaves and to the master.
MasterFrame == [cmd : {"FIND"}, dest : {0}, nonce : Nonce, addr : Address]
               \cup [cmd : {"GET_UID", "PING"}, dest : Address]
               \cup [cmd : {"EXT"}, dest : {0} \cup Address]
SlaveFrame == [type : {"SIGNAL"}, src : {0}, nonce : Nonce]
              \cup [type : {"ACK"}, src : Source, re : {"FIND", "GET_UID", "PING"},
                    uid : Uid \cup {<< >>}]
              \cup [type : {"OTHER"}, src : Source]

ASSUME NetworkAssumption == /\ UidOf \in [Node -> Uid]
                            /\ Draws \in [Node -> SUBSET Nonce]
                            /\ Faults \subseteq {"loss", "crossing", "restart"}
                            /\ << >> \in Junk
                            /\ NoFrame # Ignored
                            /\ {NoFrame, Ignored} \cap (MasterFrame \cup SlaveFrame) = {}

VARIABLES node,   \* each slave's bus_state, nonce and addr, see SlaveProtocol
          held,   \* the request each slave holds; Ignored when it has dealt with
                  \* one but not released it, which keeps its receiver off
          inbox,  \* the same for the master
          signalled   \* who signalled while the master repeats a ping to each slave

masterVars == vars
busVars == <<masterVars, node, held, inbox>>
netVars == <<busVars, signalled>>

Protocol == INSTANCE SlaveProtocol
-----------------------------------------------------------------------------
(* Frames *)

\* Of the master: cmd, dest and what FIND carries.
Find(nonce, addr) == [cmd |-> "FIND", dest |-> 0, nonce |-> nonce, addr |-> addr]
GetUid(addr) == [cmd |-> "GET_UID", dest |-> addr]
Ping(addr) == [cmd |-> "PING", dest |-> addr]
Data(addr) == [cmd |-> "EXT", dest |-> addr]

\* Of slave n. An ACK does not say which request it answers; re is for the
\* properties. Data and garbled frames make no difference to the master.
Signal(n) == [type |-> "SIGNAL", src |-> 0, nonce |-> node[n].nonce]
Ack(n, cmd) == [type |-> "ACK", src |-> node[n].addr, re |-> cmd,
                uid |-> IF cmd = "GET_UID" THEN UidOf[n] ELSE << >>]
Other(n) == [type |-> "OTHER", src |-> node[n].addr]

\* The master writes a frame, which those it is addressed to hear, or some.
Listeners(dest) == {n \in Node : held[n] = NoFrame /\ dest \in {0, node[n].addr}}
Transmit(f) ==
  \E hearers \in IF "loss" \in Faults THEN SUBSET Listeners(f.dest) ELSE {Listeners(f.dest)} :
    held' = [n \in Node |-> IF n \in hearers THEN f ELSE held[n]]

\* Slave n writes a frame, which the master hears, garbled or not, or misses.
Deliver(n, f) ==
  IF inbox # NoFrame THEN UNCHANGED inbox
  ELSE inbox' \in IF "loss" \in Faults THEN {f, Other(n), NoFrame} ELSE {f}

\* No slave has a request left to deal with: its main loop turns many times in
\* the 2 to 3 cycles of 50 ms that the master waits for a reply.
Asked(n) == held[n] \notin {NoFrame, Ignored}
Prompt == \A n \in Node : ~Asked(n)

\* Nobody waits for an answer nor is about to give one. A slave makes sure of
\* that by sending only on an idle bus and by backing off for a random time
\* (oplink_com.c:24, 130-132, 185-193). "crossing" is a slave that did not.
Quiet == last_request.reply_state # "Pending" /\ Prompt /\ inbox \in {NoFrame, Ignored}

\* The master repeats a ping to slave m until it is answered.
Retrying(m) == node[m].addr # 0 /\ slaves[node[m].addr - 1].ping_error > 0

\* Whose SIGNAL, sent in this step, falls into such a time. It is kept only where
\* SlaveSignals needs it.
Signalling == {n \in Node : node[n].bus_state # "Signal_sent" /\ node'[n].bus_state = "Signal_sent"}
Counts == signalled' = [m \in Node |-> IF "loss" \notin Faults /\ Retrying(m)'
                                      THEN signalled[m] \cup Signalling ELSE {}]

NetInit == /\ Init
           /\ node \in [Node -> {Protocol!Started(nonce) : nonce \in Nonce}]
           /\ \A n \in Node : node[n].nonce \in Draws[n]
           /\ held = [n \in Node |-> NoFrame]
           /\ inbox = NoFrame
           /\ signalled = [m \in Node |-> {}]
-----------------------------------------------------------------------------
(* The master's opl_parse(). A frame that was answered, awaited or dropped  *)
(* is released; any other keeps the receiver off until it times out.        *)

Parsing == inbox \notin {NoFrame, Ignored}
Finished == inbox' = IF last_request.reply_state = "None" THEN Ignored ELSE NoFrame

MasterDrops == /\ Parsing /\ last_request.reply_state = "Pending" /\ ~Heard(inbox.src)
               /\ inbox' = NoFrame
               /\ UNCHANGED <<masterVars, node, held>>

MasterFinds ==
  /\ Parsing /\ inbox.type = "SIGNAL"
  /\ ReceiveSignal(TRUE)
  /\ IF new_slave_addr' # 0
     THEN Transmit(Find(inbox.nonce, new_slave_addr')) /\ inbox' = NoFrame
     ELSE Finished /\ UNCHANGED held
  /\ UNCHANGED node

MasterAcknowledged ==
  /\ Parsing /\ inbox.type = "ACK"
  /\ \/ ReceiveFindAck(inbox.src) /\ Transmit(GetUid(new_slave_addr)) /\ inbox' = NoFrame
     \/ /\ ReceiveUidAck(inbox.src, inbox.uid, << >>)
        /\ IF Len(inbox.uid) <= UID_SIZE THEN Transmit(Ping(new_slave_addr)) /\ inbox' = NoFrame
                                         ELSE Finished /\ UNCHANGED held
     \/ ReceivePingAck(inbox.src) /\ Finished /\ UNCHANGED held
  /\ UNCHANGED node

\* Data, garbled frames, and an ACK after a request of the application, which
\* does not reply: module LinkNode does. It has the data of an awaited reply still
\* to read, which it may do late or never.
MasterReads ==
  /\ Parsing /\ Heard(inbox.src)
  /\ inbox.type = "OTHER" \/ (inbox.type = "ACK" /\ last_request.cmd \in {"EXT", NoCmd})
  /\ \/ ReceiveOther(inbox.src) /\ Finished
     \/ inbox.type = "OTHER" /\ ReceiveData(inbox.src) /\ inbox' = Ignored
     \/ last_request.reply_state = "None" /\ UNCHANGED masterVars /\ Finished
  /\ UNCHANGED <<node, held>>

MasterReadsToEnd == ReadToEnd /\ inbox' = NoFrame /\ UNCHANGED <<node, held>>

\* Until then a frame is parsed no further than its first byte.
MasterIgnores == /\ Parsing /\ last_request.reply_state = "Received"
                 /\ inbox' = Ignored
                 /\ UNCHANGED <<masterVars, node, held>>

\* A frame nobody answered is given up after SEND_REPLY_TIMEOUT.
MasterReleases == inbox = Ignored /\ inbox' = NoFrame /\ UNCHANGED <<masterVars, node, held>>
-----------------------------------------------------------------------------
(* The master's opl_keep_alive(). SEND_REPLY_TIMEOUT is shorter than the    *)
(* wait for a reply (oplink_com_private.h:22-23), so that a receiver that   *)
(* is off now is on when a PING it missed is repeated.                      *)

\* Mutation: the wait for a reply is the shorter one.
MayTimeOutEarly == TRUE

MayTimeOut == TimesOut => /\ Prompt
                          /\ \/ "loss" \in Faults
                             \/ inbox = NoFrame /\ \A n \in Node : held[n] = NoFrame

MasterWaits == MayTimeOut /\ KeepAliveWaits /\ UNCHANGED <<node, held, inbox>>

\* The cycle after that of a broadcast is 50 ms later: every slave has read it, and
\* perhaps replied, but one that did not may still hold it.
BroadcastRead == \A n \in Node : held[n] # Data(0)

MasterPings ==
  /\ MayTimeOut /\ inbox = NoFrame /\ BroadcastRead
  /\ \/ KeepAlivePings(TRUE) /\ Transmit(Ping(last_request'.dest))
     \/ KeepAlivePings(FALSE) /\ UNCHANGED held
  /\ UNCHANGED <<node, inbox>>

\* Nothing, a broadcast, which awaits no reply, or a request.
MasterDispatches ==
  /\ MayTimeOut /\ inbox = NoFrame /\ BroadcastRead
  /\ KeepAliveDispatches
  /\ IF last_request' = RequestAfterCycle THEN UNCHANGED held \/ Transmit(Data(0))
                                          ELSE Transmit(Data(last_request'.dest))
  /\ UNCHANGED <<node, inbox>>

\* opl_init() after a loss of power, which lasts longer than a reply takes.
MasterRestarts ==
  /\ "restart" \in Faults /\ Prompt
  /\ slaves' = EmptyList /\ ping_flag' = FALSE /\ last' = 0
  /\ new_slave_addr' = 0 /\ seconds' = 0
  /\ last_request' = [reply_state |-> "None", busy_time |-> RECEIVE_REPLY_TIMEOUT,
                      dest |-> 255, cmd |-> NoCmd]
  /\ inbox' = NoFrame
  /\ UNCHANGED <<node, held>>
-----------------------------------------------------------------------------
(* The slaves *)

Becomes(n, s) == node' = [node EXCEPT ![n] = s]
Hold(n, frame) == held' = [held EXCEPT ![n] = frame]

\* join_bus(). From one SIGNAL of a slave to its next it takes DISCONNECT_MAX_COUNT
\* or NO_CONFIG_MAX_COUNT cycles and PLUG_IN_MAX_COUNT, 1.5 s at least, in which
\* the master, finding the bus idle, repeats a ping (after 150 ms, or 750 ms when all
\* five slaves are silent): two SIGNALs of one slave never fall between a missed ping
\* and the next one that is heard.
\* Those of different slaves do, and each FIND they get may make that one be missed.
SlaveSignals(n) ==
  /\ Protocol!CanSignal(node[n]) /\ held[n] = NoFrame
  /\ "crossing" \in Faults \/ Quiet
  /\ "loss" \in Faults \/ \A m \in Node : Retrying(m) => n \notin signalled[m]
  /\ Becomes(n, Protocol!Signalled(node[n])) /\ Deliver(n, Signal(n))
  /\ UNCHANGED <<masterVars, held>>

\* dispatch_request(), which a slave calls in every state.
SlaveSends(n) ==
  /\ held[n] = NoFrame
  /\ "crossing" \in Faults \/ Quiet
  /\ Deliver(n, Other(n))
  /\ UNCHANGED <<masterVars, node, held>>

SlaveFound(n) ==
  /\ Asked(n) /\ held[n].cmd = "FIND"
  /\ IF Protocol!TakesFind(node[n], held[n].nonce)
     THEN /\ Becomes(n, Protocol!Found(node[n], held[n].addr))
          /\ Deliver(n, Ack(n, "FIND")) /\ Hold(n, NoFrame)
     ELSE Hold(n, Ignored) /\ UNCHANGED <<node, inbox>>
  /\ UNCHANGED masterVars

SlaveAsked(n) ==
  /\ Asked(n) /\ held[n].cmd = "GET_UID"
  /\ Becomes(n, Protocol!UidAsked(node[n]))
  /\ Deliver(n, Ack(n, "GET_UID")) /\ Hold(n, NoFrame)
  /\ UNCHANGED masterVars

SlavePinged(n) ==
  /\ Asked(n) /\ held[n].cmd = "PING"
  /\ Becomes(n, Protocol!Pinged(node[n]))
  /\ Deliver(n, Ack(n, "PING")) /\ Hold(n, NoFrame)
  /\ UNCHANGED masterVars

\* Data: the application replies or not.
SlaveReads(n) ==
  /\ Asked(n) /\ held[n].cmd = "EXT"
  /\ \/ Deliver(n, Other(n)) /\ Hold(n, NoFrame)
     \/ Hold(n, Ignored) /\ UNCHANGED inbox
  /\ UNCHANGED <<masterVars, node>>

SlaveReleases(n) == /\ held[n] = Ignored /\ Hold(n, NoFrame)
                    /\ UNCHANGED <<masterVars, node, inbox>>

\* slave_set_default() flushes what it holds. Unplugged, or not pinged:
StartOver(n) == /\ \E nonce \in Draws[n] : Becomes(n, Protocol!Started(nonce))
                /\ Hold(n, NoFrame)
                /\ UNCHANGED <<masterVars, inbox>>
SlaveLeaves(n) == node[n].bus_state # "Disconnected" /\ StartOver(n)

\* A handshake that got stuck; NO_CONFIG_MAX_COUNT cycles are longer than any
\* that goes on.
SlaveGivesUp(n) == /\ node[n].bus_state \in {"Signal_sent", "Addr_set", "UID_sent"}
                   /\ Quiet /\ inbox = NoFrame
                   /\ StartOver(n)
-----------------------------------------------------------------------------
MasterNext == \/ MasterDrops \/ MasterFinds \/ MasterAcknowledged \/ MasterReads \/ MasterReleases
              \/ MasterReadsToEnd \/ MasterIgnores
              \/ MasterWaits \/ MasterPings \/ MasterDispatches \/ MasterRestarts

SlaveAnswers(n) == SlaveFound(n) \/ SlaveAsked(n) \/ SlavePinged(n) \/ SlaveReads(n)
SlaveNext(n) == \/ SlaveSignals(n) \/ SlaveSends(n) \/ SlaveAnswers(n) \/ SlaveReleases(n)
                \/ SlaveLeaves(n) \/ SlaveGivesUp(n)

NetNext == (MasterNext \/ \E n \in Node : SlaveNext(n)) /\ Counts

NetSpec == NetInit /\ [][NetNext]_netVars
\* Frames that arrived are dealt with and cycles go on. The bus is not bad for
\* ever at the very moment it is needed: when the master has a ping to send to
\* a slave, a slave a SIGNAL, or a stuck handshake to give up; and the master's
\* application leaves the bus alone again and again. The slaves' applications read
\* the replies they asked for to the end, or these could not send for ever; the
\* master's do by the premise RepliesAreRead of AllJoin.
KeepAliveSteps == MasterWaits \/ MasterPings \/ MasterDispatches
Receives == \/ MasterDrops \/ MasterFinds \/ MasterAcknowledged \/ MasterReads
            \/ MasterReleases \/ MasterIgnores
Rests == MasterDispatches /\ last_request' = RequestAfterCycle /\ held' = held
PingsSlot(i) == MasterPings /\ PingSent(i)
Answers(n) == SlaveAnswers(n) \/ SlaveReleases(n)
JoinsOrGivesUp(n) == SlaveGivesUp(n) \/ (SlaveSignals(n) /\ inbox' # inbox)

NetFairness == /\ WF_busVars(KeepAliveSteps) /\ WF_busVars(Receives) /\ SF_busVars(Rests)
               /\ \A i \in Index : SF_busVars(PingsSlot(i))
               /\ \A n \in Node : WF_busVars(Answers(n)) /\ SF_busVars(JoinsOrGivesUp(n))

NetFairSpec == NetSpec /\ NetFairness
-----------------------------------------------------------------------------
(* Safety *)

SlaveState == [bus_state : {"Disconnected", "Plugged_in", "Signal_sent", "Addr_set",
                            "UID_sent", "Connected"},
               nonce : Nonce, addr : {0} \cup Address]

\* The slaves' states and the frames on their way are of their kinds.
NetTypeOK == /\ TypeOK
             /\ node \in [Node -> SlaveState]
             /\ held \in [Node -> MasterFrame \cup {NoFrame, Ignored}]
             /\ inbox \in SlaveFrame \cup {NoFrame, Ignored}
             /\ signalled \in [Node -> SUBSET Node]

Connected(n) == node[n].bus_state = "Connected"
Lists(n) == LET a == node[n].addr IN slaves[a - 1].addr = a /\ slaves[a - 1].uid = Stored(UidOf[n])

\* "Each of the nodes has a unique address within the network" (OpenPAYGO Link
\* Manual V0.1, page 3), from the FIND that gives the address on, although the
\* slave takes it when its ACK may be lost and the master reserves it only two
\* replies later (oplink_slave.c:147-152, oplink_master.c:48-66).
UniqueAddress ==
  \A m, n \in Node : (m # n /\ node[m].addr # 0) => node[m].addr # node[n].addr

\* A slave that believes it is connected is in the master's list under its
\* address with its UID: the two state machines agree, and a slave the master
\* dropped has noticed (oplink_slave.c:118-126, slave_list.c:50-53).
ConnectedIsListed == \A n \in Node : Connected(n) => Lists(n)

\* An ACK says neither what it acknowledges nor who for: the master takes it for
\* the answer to its last request (oplink_master.c:49-68). It is.
AckMatches == (Parsing /\ inbox.type = "ACK" /\ Heard(inbox.src)) => last_request.cmd = inbox.re

\* Two slaves that are connected have different addresses.
ConnectedUnique ==
  \A m, n \in Node : (m # n /\ Connected(m) /\ Connected(n)) => node[m].addr # node[n].addr

(* Action properties *)

\* Whatever is lost and whenever the master restarts, a slave becomes connected
\* only while its address is taken in the master's list: no left-over of an
\* earlier handshake completes it (oplink_slave.c:142-167).
ConnectsListed ==
  [][\A n \in Node : (~Connected(n) /\ Connected(n)') =>
       slaves[node[n].addr - 1].addr = node[n].addr]_netVars

\* and a slot is only taken by the UID of a slave that was given its address, or
\* has started over since: UIDs and addresses of two handshakes never mix
\* (oplink_master.c:48-66).
ListsTruly ==
  [][\A i \in Index : (slaves[i].addr = 0 /\ slaves'[i].addr # 0) =>
       \E n \in Node : slaves'[i].uid = Stored(UidOf[n]) /\ node[n].addr \in {0, i + 1}]_netVars

(* Refinement *)

\* What all those frames and timers bring about without faults is Membership: who
\* leaves may be dropped, who has an address is not, and the FIND, the listing and
\* the PING that connects come in this order whoever else joins or leaves between
\* (oplink_master.c:34-68, oplink_slave.c:137-171, slave_list.c:28-53).
AddrOf == [n \in Node |-> node[n].addr]
ConnectedNodes == {n \in Node : Connected(n)}
ListedUids == [a \in Address |-> IF slaves[a - 1].addr = 0 THEN NoUid ELSE slaves[a - 1].uid]
UidsListed == [n \in Node |-> Stored(UidOf[n])]
Members == INSTANCE Membership
           WITH UidOf <- UidsListed, Nobody <- NoUid,
                addr <- AddrOf, connected <- ConnectedNodes, listed <- ListedUids
ImplementsMembership == Members!Spec

(* Liveness *)

\* All slaves that are not unplugged again and again end up connected and
\* listed, whatever handshakes got into each other's way on the way there.
Stays(n) == <>[](Connected(n) /\ Lists(n))
AllJoin == (RepliesAreRead /\ \A n \in Node : <>[][~SlaveLeaves(n)]_netVars)
             => \A n \in Node : Stays(n)
=============================================================================
