------------------------------- MODULE Master -------------------------------
(***************************************************************************)
(* The master's application-level state machine (OPL/Master/oplink_master.c)*)
(* over the list of slaves: it answers a SIGNAL with FIND, the ACK of FIND  *)
(* with GET_UID, the ACK of GET_UID by listing the slave and a PING, and    *)
(* pings every listed slave, dropping one that misses MAX_PING_ERROR pings. *)
(*                                                                         *)
(* The link layer below it is seen through what it tells the master: frames *)
(* that pass opl_parse() while no reply is awaited (whoever sent them, late *)
(* replies included) or from the node whose reply is awaited, a timeout     *)
(* after RECEIVE_REPLY_TIMEOUT keep-alive cycles, and a bus that is or is   *)
(* not free for a frame. Module LinkNode details that layer.                *)
(***************************************************************************)
EXTENDS SlaveList

CONSTANTS CYCLES_PER_SECOND,      \* keep-alive cycles between ticks, 20
          RECEIVE_REPLY_TIMEOUT,  \* 3 cycles
          PING_PERIOD,            \* ticks between pings, 30
          Uid,                    \* UIDs slaves answer with: byte sequences
          Junk                    \* bytes that may follow a received UID

ASSUME MasterAssumption ==
  /\ CYCLES_PER_SECOND \in Nat
  /\ RECEIVE_REPLY_TIMEOUT \in Nat \ {0}
  /\ PING_PERIOD \in Nat \ {0}
  /\ Uid \subseteq Seq(1 .. 255)
  /\ Junk \subseteq Seq(1 .. 255)

VARIABLES slaves,          \* slave_list.c: slaves
          ping_flag,       \* slave_list.c: some slave may have to be pinged
          last,            \* slave_list.c: next_slave_ping()'s static index
          new_slave_addr,  \* oplink_master.c: address given in the last FIND
          seconds,         \* oplink_master.c: opl_keep_alive()'s cycle count
          last_request     \* oplink_com.c: the last request sent

listVars == <<slaves, ping_flag, last>>
vars == <<slaves, ping_flag, last, new_slave_addr, seconds, last_request>>

Cmd == {"FIND", "GET_UID", "PING", "EXT"}
NoCmd == "none"   \* the 0xFF last_request.cmd starts with

Init == /\ slaves = EmptyList
        /\ ping_flag = FALSE
        /\ last = 0
        /\ new_slave_addr = 0
        /\ seconds = 0
        /\ last_request = [reply_state |-> "None", busy_time |-> RECEIVE_REPLY_TIMEOUT,
                           dest |-> 255, cmd |-> NoCmd]

\* last_request after a frame whose reply is awaited (oplink_com.c:223-228,
\* 348-353).
Requested(dest, cmd) == [reply_state |-> "Pending", busy_time |-> RECEIVE_REPLY_TIMEOUT,
                         dest |-> dest, cmd |-> cmd]

\* opl_parse() hands over a frame while no reply is awaited, or one from the
\* node whose reply is; opl_read() of its last byte then ends the wait. Until then
\* the reply is Received, and no frame is handed over at all.
Heard(src) == \/ last_request.reply_state = "None"
              \/ last_request.reply_state = "Pending" /\ last_request.dest = src
Answered == [last_request EXCEPT !.reply_state = "None"]
-----------------------------------------------------------------------------
\* route_command(SIGNAL): handle_new_slave(). A slave that has no address
\* sends from address 0.
ReceiveSignal(known_version) ==
  /\ Heard(0)
  /\ new_slave_addr' = Available(slaves)
  /\ last_request' = IF new_slave_addr' # 0 /\ known_version
                     THEN Requested(0, "FIND") ELSE Answered
  /\ UNCHANGED <<listVars, seconds>>

\* route_command(ACK): handle_ack() after a FIND.
ReceiveFindAck(src) ==
  /\ Heard(src)
  /\ last_request.cmd = "FIND"
  /\ last_request' = Requested(new_slave_addr, "GET_UID")
  /\ UNCHANGED <<listVars, new_slave_addr, seconds>>

\* The UID listed for a slave that sends none: the digit of its address.
DefaultUid(a) == <<48 + a>>

\* Mutation: the first PING is sent without recording it as the last request.
UidAckWithoutPing(src, uid, junk) ==
  /\ Heard(src)
  /\ last_request.cmd = "GET_UID"
  /\ slaves' = Added(slaves, new_slave_addr, uid \o junk, Len(uid))
  /\ last_request' = Answered
  /\ UNCHANGED <<ping_flag, last, new_slave_addr, seconds>>

\* handle_ack() after a GET_UID; the UID is followed in memory by junk. One
\* longer than UID_SIZE ends the handshake.
ReceiveUidAck(src, uid, junk) ==
  /\ Heard(src)
  /\ last_request.cmd = "GET_UID"
  /\ IF Len(uid) <= UID_SIZE
     THEN LET sent == IF uid = << >> THEN DefaultUid(new_slave_addr) ELSE uid
          IN  /\ slaves' = Added(slaves, new_slave_addr, sent \o junk, Len(sent))
              /\ last_request' = Requested(new_slave_addr, "PING")
     ELSE /\ last_request' = Answered
          /\ UNCHANGED slaves
  /\ UNCHANGED <<ping_flag, last, new_slave_addr, seconds>>

\* handle_ack() after a PING.
ReceivePingAck(src) ==
  /\ Heard(src)
  /\ last_request.cmd = "PING"
  /\ slaves' = PingAnswered(slaves, last_request.dest, PING_PERIOD)
  /\ last_request' = Answered
  /\ UNCHANGED <<ping_flag, last, new_slave_addr, seconds>>

\* A command that only ends the wait: unknown, with a wrong CRC, or an ACK after
\* an application's request.
ReceiveOther(src) ==
  /\ last_request.reply_state = "Pending"
  /\ Heard(src)
  /\ last_request' = Answered
  /\ UNCHANGED <<listVars, new_slave_addr, seconds>>

\* Data, or a frame without any. The application reads it afterwards, in part, or
\* never, as nothing makes it read a frame of no bytes; reading it to its end it
\* may do at any time.
ReceiveData(src) ==
  /\ last_request.reply_state = "Pending"
  /\ Heard(src)
  /\ last_request' = [last_request EXCEPT !.reply_state = "Received"]
  /\ UNCHANGED <<listVars, new_slave_addr, seconds>>

ReadToEnd ==
  /\ last_request.reply_state = "Received"
  /\ last_request' = Answered
  /\ UNCHANGED <<listVars, new_slave_addr, seconds>>
-----------------------------------------------------------------------------
\* update_node_state(): the wait for a reply runs out in this cycle.
TimesOut == last_request.reply_state = "Pending" /\ last_request.busy_time = 1

RequestAfterCycle ==
  IF last_request.reply_state = "Pending"
  THEN [last_request EXCEPT !.busy_time = @ - 1,
                            !.reply_state = IF TimesOut THEN "None" ELSE @]
  ELSE last_request

\* The list after the tick and the accounting of a missed ping.
ListAfterTick == IF seconds = CYCLES_PER_SECOND THEN Ticked(slaves) ELSE slaves
\* Mutation: any request to a slave that times out counts as a missed ping.
ListAfterAnyTimeout ==
  IF TimesOut /\ last_request.cmd \in {"PING", "EXT"}
  THEN PingMissed(ListAfterTick, last_request.dest) ELSE ListAfterTick

ListAfterCycle ==
  IF TimesOut /\ last_request.cmd = "PING"
  THEN PingMissed(ListAfterTick, last_request.dest) ELSE ListAfterTick

FlagAfterTick ==
  ping_flag \/ (seconds = CYCLES_PER_SECOND /\ TickReachesZero(slaves))

\* The part of opl_keep_alive() that every cycle runs.
Cycle ==
  /\ seconds' = IF seconds = CYCLES_PER_SECOND THEN 0 ELSE seconds + 1
  /\ slaves' = ListAfterCycle
  /\ UNCHANGED new_slave_addr

\* safe_to_send() is false: a reply is awaited or not yet read, a received frame
\* is being held or the bus is busy.
KeepAliveWaits ==
  /\ Cycle
  /\ ping_flag' = FlagAfterTick
  /\ last_request' = RequestAfterCycle
  /\ UNCHANGED last

\* Mutation: a ping does not wait for the end of a reply.
SafeWhilePending == TRUE

\* safe_to_send() is true. Sent says whether opl_send_bytes() wrote the frame
\* or found that the bus had become busy.
SafeToSend == RequestAfterCycle.reply_state = "None"

KeepAlivePings(sent) ==
  LET next == NextPing(ListAfterCycle, last)
  IN  /\ SafeToSend
      /\ FlagAfterTick /\ next.addr > 0
      /\ Cycle
      /\ ping_flag' = TRUE
      /\ last' = next.last
      /\ last_request' = IF sent THEN Requested(next.addr, "PING") ELSE RequestAfterCycle

\* No slave is due: dispatch_request() sends the oldest queued request, if any,
\* to the address its UID had when it was pushed, or to all slaves.
KeepAliveDispatches ==
  LET next == NextPing(ListAfterCycle, last)
  IN  /\ SafeToSend
      /\ ~FlagAfterTick \/ next.addr = 0
      /\ Cycle
      /\ ping_flag' = FALSE
      /\ last' = IF FlagAfterTick THEN next.last ELSE last
      /\ \/ last_request' = RequestAfterCycle   \* nothing sent, or a broadcast
         \/ \E dest \in Address : last_request' = Requested(dest, "EXT")

KeepAlive == KeepAliveWaits \/ (\E sent \in BOOLEAN : KeepAlivePings(sent)) \/ KeepAliveDispatches

ReceiveAck(src) == \/ ReceiveFindAck(src)
                   \/ \E uid \in Uid, junk \in Junk : ReceiveUidAck(src, uid, junk)
                   \/ ReceivePingAck(src)

\* Sources: a slave without an address, or one that has or once had one.
Source == {0} \cup Address

Next == \/ \E known_version \in BOOLEAN : ReceiveSignal(known_version)
        \/ \E src \in Source : ReceiveAck(src) \/ ReceiveOther(src) \/ ReceiveData(src)
        \/ ReadToEnd \/ KeepAlive

\* opl_keep_alive() is called in every pass of the main loop. A slave whose turn
\* comes again and again is not met by a bus that becomes busy every time:
\* slaves send unasked only on an idle bus and back off for a random time when
\* it is busy (oplink_com.c:24, 185-193). A weaker assumption, that some ping
\* is sent again and again, does not do: a ping that could not be sent loses
\* its turn, because next_slave_ping() has moved on (slave_list.c:83-91).
PingSent(i) == KeepAlivePings(TRUE) /\ last_request'.dest = i + 1

Fairness == /\ WF_vars(KeepAlive)
            /\ \A i \in Index : SF_vars(PingSent(i))

Spec == Init /\ [][Next]_vars
FairSpec == Spec /\ Fairness
-----------------------------------------------------------------------------
(* Safety *)

Slave(i) == [addr : {0, i + 1}, uid : [1 .. UID_SIZE -> 0 .. 255],
             ping_count : Nat, ping_error : 0 .. MAX_PING_ERROR - 1]

RequestType == [reply_state : {"None", "Pending", "Received"}, busy_time : 0 .. RECEIVE_REPLY_TIMEOUT,
                dest : {0, 255} \cup Address, cmd : Cmd \cup {NoCmd}]

\* The variables hold values of their C types; the slot of address a, if
\* taken, is slot a - 1 (slave_list.c:30-41).
TypeOK ==
  /\ DOMAIN slaves = Index /\ \A i \in Index : slaves[i] \in Slave(i)
  /\ ping_flag \in BOOLEAN
  /\ last \in 0 .. MAX_SLAVES
  /\ new_slave_addr \in {0} \cup Address
  /\ seconds \in 0 .. CYCLES_PER_SECOND
  /\ last_request \in RequestType

\* next_slave_ping() skips its search while ping_flag is false
\* (slave_list.c:79), so no slot may be due then, and it pings the address of
\* whatever slot is due (slave_list.c:83-91), so a due slot holds a slave.
NoPingForgotten == \A i \in Due(slaves) : ping_flag /\ slaves[i].addr = i + 1

\* The address chosen when a SIGNAL was received is still free when the ACK of
\* GET_UID, however late, adds the slave: no ping, timeout, request or other
\* SIGNAL in between takes the slot (oplink_master.c:34-66), so
\* slave_list_add() never fails and two slaves never share a slot.
OfferedSlotStaysFree ==
  last_request.cmd \in {"FIND", "GET_UID"} =>
    /\ new_slave_addr \in Address
    /\ slaves[new_slave_addr - 1].addr = 0

\* While the reply to a PING is awaited its addressee stays listed: the miss
\* or the answer is booked on the slave that was pinged (oplink_master.c:68,
\* 114-118), not on an empty slot or on a slave listed meanwhile.
PingBookedOnListedSlave ==
  (last_request.cmd = "PING" /\ last_request.reply_state = "Pending") =>
    /\ last_request.dest \in Address
    /\ slaves[last_request.dest - 1].addr = last_request.dest

\* The bytes the list stores for a UID, and the UIDs it can store.
Stored(uid) == [k \in 1 .. UID_SIZE |-> IF k <= Len(uid) THEN uid[k] ELSE 0]
Listable == (Uid \ {<< >>}) \cup {DefaultUid(a) : a \in Address}
PrefixFree == \A u, v \in Listable : u # v => \E k \in 1 .. UID_SIZE :
                 k <= Len(u) /\ k <= Len(v) /\ u[k] # v[k]

\* The address a lookup gives is that of a slave with the UID looked up. One
\* that is listed has an address if it ends before UID_SIZE and no slot before
\* its own is empty.
LookupFindsOwner ==
  \A uid \in Listable :
    LET a == MapUidToAddr(slaves, uid)
        entries == {i \in Index : slaves[i].addr # 0 /\ slaves[i].uid = Stored(uid)}
        InFront(i) == \A j \in 0 .. i : slaves[j].addr # 0
    IN  /\ a # 0 => a - 1 \in entries
        /\ (Len(uid) < UID_SIZE /\ \E i \in entries : InFront(i)) => a # 0

\* A request pushed for a listed UID is never addressed to a slave with another
\* one (oplink_master.c:24-28, slave_list.c:110-115), whatever joined and left
\* before, as long as no UID is a prefix of another.
NeverMisdirected == PrefixFree => LookupFindsOwner

\* A program that asks for the report and sends a request to one of its entries, as
\* the example does (slave_list.c:95-115, Basic_Single_Slave/Master/main.c:47-50),
\* reaches a slave with the UID of that slot, and the entries of slots that are
\* empty are, whatever the struct held before and however far the copies of other
\* UIDs went: as long as no UID is a prefix of another, the listed slaves fill the
\* first slots and the UID of this one ends before UID_SIZE.
OplSlaveList == [n_slaves : 0 .. 255, uids : [UidsBytes -> 0 .. 255]]
EntryOf(list, i) == [k \in 1 .. EntrySize |-> list.uids[Offset(i) + k]]
Taken == {i \in Index : slaves[i].addr # 0}
Addresses(list, i) ==
  LET a == MapUidToAddr(slaves, EntryOf(list, i))
  IN  a # 0 /\ slaves[a - 1].uid = slaves[i].uid
Reports(list) ==
  \A i \in Index : /\ EntryOf(list, i)[1] # 0 <=> i \in Taken
                   /\ (i \in Taken /\ slaves[i].uid[UID_SIZE] = 0) => Addresses(list, i)
ReportsInto(ptr) == (PrefixFree /\ \A i \in Taken : 0 .. i \subseteq Taken) =>
                      Reports(SlaveListOf(slaves, ptr))

\* For a struct full of zeros or of some other byte.
FilledWith(b) == [n_slaves |-> b, uids |-> [k \in UidsBytes |-> b]]
ReportsSlavesInFront == \A b \in {0, 1} : ReportsInto(FilledWith(b))

(* Action properties *)

\* As long as no UID is a prefix of another, a slave is only dropped for
\* MAX_PING_ERROR missed pings of its own or because a slave with its very UID
\* joined (slave_list.c:31, 50-53), never on behalf of another slave.
DroppedForCause ==
  [][\A i \in Index : (PrefixFree /\ slaves[i].addr # 0 /\ slaves'[i].addr = 0) =>
       \/ /\ TimesOut /\ last_request.cmd = "PING" /\ last_request.dest = i + 1
          /\ slaves[i].ping_error = MAX_PING_ERROR - 1
       \/ /\ last_request.cmd = "GET_UID" /\ new_slave_addr # i + 1
          /\ slaves[i].uid = slaves'[new_slave_addr - 1].uid]_vars

(* Liveness *)

Pinged(i) == last_request = Requested(i + 1, "PING")

\* What the application owes the master: a reply that is left unread stops it for
\* ever, see SafeWhenNothingAwaited in LinkNode.
RepliesAreRead == []<>(last_request.reply_state # "Received")

\* The search starts after the slave pinged last and wraps (slave_list.c:71-75),
\* so no slave that is due is passed over for ever because of others.
EveryDueSlaveIsPinged ==
  RepliesAreRead =>
    \A i \in Index : slaves[i].ping_count = 0 ~> Pinged(i) \/ slaves[i].ping_count # 0

\* A slave that stays listed has frames accepted from it again and again: one
\* that falls silent misses MAX_PING_ERROR pings and its slot is freed
\* (oplink_master.c:114-118, slave_list.c:50-53).
HeardFrom(i) == /\ last_request.dest = i + 1
                /\ ReceivePingAck(i + 1) \/ ReceiveOther(i + 1) \/ ReceiveData(i + 1)
SilentSlaveIsDropped ==
  RepliesAreRead =>
    \A i \in Index : <>[](slaves[i].addr # 0) => []<><<HeardFrom(i)>>_vars

(* What the comments promise *)

\* "Remove old entry if any" (slave_list.c:31): one slot per UID.
OneEntryPerUid ==
  \A i, j \in Index : (slaves[i].addr # 0 /\ slaves[j].addr # 0 /\ i # j) =>
                        slaves[i].uid # slaves[j].uid
=============================================================================
