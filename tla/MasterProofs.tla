----------------------------- MODULE MasterProofs -----------------------------
(***************************************************************************)
(* Safety of the master's bookkeeping of its slaves, for every size of the  *)
(* list up to the 14 addresses there are, every UID, period and timeout.    *)
(***************************************************************************)
EXTENDS Master, TLAPS, WellFoundedInduction, SequenceTheorems, FiniteSetTheorems

USE SlaveListAssumption, MasterAssumption

\* A list whose due slots hold slaves: slave_list.c hands out no empty slot to
\* be pinged.
ListInv(s) == /\ DOMAIN s = Index /\ \A i \in Index : s[i] \in Slave(i)
              /\ \A i \in Due(s) : s[i].addr = i + 1

\* The addressee of a PING is an address, and a running timer is not at 0.
RequestInv == /\ last_request.cmd = "PING" => last_request.dest \in Address
              /\ last_request.reply_state = "Pending" => last_request.busy_time > 0

\* The inductive invariant.
IInv == /\ TypeOK
        /\ RequestInv
        /\ NoPingForgotten
        /\ OfferedSlotStaysFree
        /\ PingBookedOnListedSlave

\* The invariant's part on the list alone.
LEMMA ListOfIInv == IInv => ListInv(slaves)
BY DEF IInv, TypeOK, NoPingForgotten, ListInv
-----------------------------------------------------------------------------
(* The functions of slave_list.c *)

\* A set of slots has a first one: the CHOOSEs of SlaveList find it.
LEMMA SmallestIndex ==
  ASSUME NEW S \in SUBSET Index, S # {}
  PROVE  \E i \in S : \A j \in S : i <= j
<1>1. S \subseteq Nat
  BY DEF Index
<1>2. PICK i \in S : \A j \in S : <<j, i>> \notin OpToRel(<, Nat)
  BY <1>1, NatLessThanWellFounded, WFMin
<1>3. \A j \in S : ~(j < i)
  BY <1>1, <1>2 DEF OpToRel
<1> QED BY <1>1, <1>3

\* slave_list_available() gives the address of a free slot if there is one,
LEMMA AvailableSlot ==
  ASSUME NEW s, \E i \in Index : s[i].addr = 0
  PROVE  Available(s) \in Address /\ s[Available(s) - 1].addr = 0
<1> DEFINE free == {i \in Index : s[i].addr = 0}
<1>1. free # {}
  OBVIOUS
<1>2. PICK i \in free : i = CHOOSE k \in free : \A j \in free : k <= j
  <2>1. \E k \in free : \A j \in free : k <= j
    BY <1>1, SmallestIndex
  <2> HIDE DEF free
  <2> QED BY <2>1
<1>3. Available(s) = 1 + i
  BY <1>1, <1>2 DEF Available
<1>4. i \in Index /\ s[i].addr = 0
  OBVIOUS
<1>5. 1 + i \in Address /\ (1 + i) - 1 = i
  BY <1>4 DEF Index, Address
<1>6. s[(1 + i) - 1].addr = 0
  BY <1>4, <1>5, Zenon
<1> QED BY <1>3, <1>5, <1>6, Zenon

\* and 0 if there is none.
LEMMA NoneAvailable ==
  ASSUME NEW s, ~\E i \in Index : s[i].addr = 0
  PROVE  Available(s) = 0
BY DEF Available

\* next_slave_ping() gives the address of a due slot if there is one.
LEMMA NextPingDue ==
  ASSUME NEW s, NEW n \in 0 .. MAX_SLAVES
  PROVE  LET next == NextPing(s, n)
         IN  /\ next.last \in 0 .. MAX_SLAVES
             /\ next.addr = 0 => Due(s) = {}
             /\ next.addr > 0 => next.addr \in Address /\ next.addr - 1 \in Due(s)
<1> DEFINE ahead == {i \in Due(s) : i >= n}
           pool == IF ahead # {} THEN ahead ELSE Due(s)
           next == CHOOSE i \in pool : \A j \in pool : i <= j
<1>1. Due(s) \subseteq Index
  BY DEF Due
<1>2. pool \subseteq Due(s) /\ (pool = {} => Due(s) = {})
  OBVIOUS
<1>3. NextPing(s, n) = IF pool = {} THEN [addr |-> 0, last |-> n]
                                    ELSE [addr |-> next + 1, last |-> next + 1]
  BY DEF NextPing
<1>4. CASE pool = {}
  BY <1>2, <1>3, <1>4
<1>5. CASE pool # {}
  <2>1. next \in pool
    <3>1. \E i \in pool : \A j \in pool : i <= j
      BY <1>1, <1>2, <1>5, SmallestIndex
    <3> HIDE DEF pool
    <3> QED BY <3>1
  <2>2. next \in Due(s) /\ next \in Index
    BY <1>1, <1>2, <2>1
  <2>3. NextPing(s, n).addr = next + 1 /\ NextPing(s, n).last = next + 1
    BY <1>3, <1>5
  <2> HIDE DEF next
  <2>4. /\ next + 1 \in Address /\ next + 1 # 0 /\ (next + 1) - 1 = next
        /\ next + 1 \in 0 .. MAX_SLAVES
    BY <2>2 DEF Index, Address
  <2>5. (next + 1) - 1 \in Due(s)
    BY <2>2, <2>4, Zenon
  <2> QED BY <2>3, <2>4, <2>5, Zenon
<1> QED BY <1>4, <1>5

\* A cleared slot is a slot, free and not due.
LEMMA ClearedSlotInv ==
  ASSUME NEW i \in Index
  PROVE  ClearedSlot \in Slave(i) /\ ClearedSlot.ping_count # 0 /\ ClearedSlot.addr = 0
BY DEF ClearedSlot, Slave, NoUid

\* slave_list_init() leaves no slot due.
LEMMA EmptyListInv == ListInv(EmptyList) /\ Due(EmptyList) = {}
BY ClearedSlotInv DEF ListInv, EmptyList, Due

\* slave_clear_slot() makes no slot due and changes no other slot, for any index.
LEMMA ClearedInv ==
  ASSUME NEW s, ListInv(s), NEW i
  PROVE  /\ ListInv(Cleared(s, i))
         /\ Due(Cleared(s, i)) \subseteq Due(s)
         /\ \A j \in Index : Cleared(s, i)[j] \in {s[j], ClearedSlot}
         /\ \A j \in Index : j # i => Cleared(s, i)[j] = s[j]
BY ClearedSlotInv DEF Cleared, ListInv, Due

\* slave_ping_error() makes no slot due and takes no free one.
LEMMA PingMissedInv ==
  ASSUME NEW s, ListInv(s), NEW a \in Address
  PROVE  /\ ListInv(PingMissed(s, a))
         /\ Due(PingMissed(s, a)) \subseteq Due(s)
         /\ \A j \in Index : s[j].addr = 0 => PingMissed(s, a)[j].addr = 0
<1>1. a - 1 \in Index
  BY DEF Address, Index
<1>2. CASE s[a - 1].ping_error + 1 = MAX_PING_ERROR
  <2>1. PingMissed(s, a) = Cleared(s, a - 1)
    BY <1>2 DEF PingMissed
  <2>2. \A j \in Index : s[j].addr = 0 => Cleared(s, a - 1)[j].addr = 0
    BY ClearedInv, ClearedSlotInv
  <2> QED BY <2>1, <2>2, ClearedInv
<1>3. CASE s[a - 1].ping_error + 1 # MAX_PING_ERROR
  <2> DEFINE slot == [s[a - 1] EXCEPT !.ping_error = @ + 1]
  <2>1. PingMissed(s, a) = [s EXCEPT ![a - 1] = slot]
    BY <1>3 DEF PingMissed
  <2>2. s[a - 1] \in Slave(a - 1)
    BY <1>1 DEF ListInv
  <2>3. s[a - 1].ping_error + 1 \in 0 .. MAX_PING_ERROR - 1
    BY <1>3, <2>2 DEF Slave
  <2>4. /\ slot \in Slave(a - 1) /\ slot.addr = s[a - 1].addr
        /\ slot.ping_count = s[a - 1].ping_count
    BY <2>2, <2>3 DEF Slave
  <2> HIDE DEF slot
  <2> QED BY <1>1, <2>1, <2>4 DEF ListInv, Due
<1> QED BY <1>2, <1>3

\* slave_set_ping_period() makes no slot due.
LEMMA PingAnsweredInv ==
  ASSUME NEW s, ListInv(s), NEW a \in Address
  PROVE  /\ ListInv(PingAnswered(s, a, PING_PERIOD))
         /\ Due(PingAnswered(s, a, PING_PERIOD)) \subseteq Due(s)
<1> DEFINE slot == [s[a - 1] EXCEPT !.ping_count = PING_PERIOD, !.ping_error = 0]
<1>1. a - 1 \in Index /\ s[a - 1] \in Slave(a - 1)
  BY DEF Address, Index, ListInv
<1>2. PingAnswered(s, a, PING_PERIOD) = [s EXCEPT ![a - 1] = slot]
  BY <1>1 DEF PingAnswered, ListInv
<1>3. 0 \in 0 .. MAX_PING_ERROR - 1
  OBVIOUS
<1>4. slot \in Slave(a - 1) /\ slot.ping_count # 0
  BY <1>1, <1>3 DEF Slave
<1> HIDE DEF slot
<1> QED BY <1>1, <1>2, <1>4 DEF ListInv, Due

\* slave_list_ping_tick() reports every slot it makes due.
LEMMA TickedInv ==
  ASSUME NEW s, ListInv(s)
  PROVE  /\ ListInv(Ticked(s))
         /\ TickReachesZero(s) \/ Due(Ticked(s)) \subseteq Due(s)
         /\ \A i \in Index : Ticked(s)[i].addr = s[i].addr
<1>1. ASSUME NEW i \in Index
      PROVE  /\ Ticked(s)[i] \in Slave(i) /\ Ticked(s)[i].addr = s[i].addr
             /\ i \in Due(Ticked(s)) => s[i].addr = i + 1
             /\ TickReachesZero(s) \/ (i \in Due(Ticked(s)) => i \in Due(s))
  <2>1. s[i] \in Slave(i) /\ (s[i].ping_count = 0 => s[i].addr = i + 1)
    BY DEF ListInv, Due
  <2>2. CASE Ticking(s, i)
    <3> DEFINE slot == [s[i] EXCEPT !.ping_count = @ - 1]
    <3>1. Ticked(s)[i] = slot
      BY <2>2 DEF Ticked
    <3>2. s[i].ping_count - 1 \in Nat
      BY <2>1, <2>2 DEF Ticking, Slave
    <3>3. /\ slot \in Slave(i) /\ slot.addr = s[i].addr
          /\ slot.ping_count = s[i].ping_count - 1
      BY <2>1, <3>2 DEF Slave
    <3>4. s[i].addr = i + 1
      BY <2>1, <2>2 DEF Ticking, Slave
    <3>5. slot.ping_count = 0 => TickReachesZero(s)
      BY <2>1, <2>2, <3>3 DEF TickReachesZero, Slave
    <3> HIDE DEF slot
    <3> QED BY <3>1, <3>3, <3>4, <3>5 DEF Due
  <2>3. CASE ~Ticking(s, i)
    <3>1. Ticked(s)[i] = s[i]
      BY <2>3 DEF Ticked
    <3> QED BY <3>1, <2>1 DEF Due
  <2> QED BY <2>2, <2>3
<1>2. DOMAIN Ticked(s) = Index /\ Due(Ticked(s)) \subseteq Index
  BY DEF Ticked, Due
<1>3. ListInv(Ticked(s))
  BY <1>1, <1>2 DEF ListInv, Due
<1> QED BY <1>1, <1>2, <1>3

\* Adding a slave in a free slot lists it there, whichever slot is cleared for
\* an old entry.
LEMMA AddedInv ==
  ASSUME NEW s, ListInv(s), NEW a \in Address, s[a - 1].addr = 0, NEW arg, NEW len,
         \A k \in 1 .. UID_SIZE : k <= len => arg[k] \in 0 .. 255
  PROVE  /\ ListInv(Added(s, a, arg, len))
         /\ Due(Added(s, a, arg, len)) \subseteq Due(s)
         /\ Added(s, a, arg, len)[a - 1].addr = a
<1> DEFINE t == Cleared(s, OldIndex(s, arg))
           uid == [k \in 1 .. UID_SIZE |-> IF k <= len THEN arg[k] ELSE t[a - 1].uid[k]]
           slot == [t[a - 1] EXCEPT !.addr = a, !.uid = uid]
<1>1. a - 1 \in Index /\ (a - 1) + 1 = a
  BY DEF Address, Index
<1>2. ListInv(t) /\ Due(t) \subseteq Due(s)
  BY ClearedInv
<1>3. t[a - 1].addr = 0
  BY <1>1, ClearedInv, ClearedSlotInv
<1>4. t[a - 1] \in Slave(a - 1)
  BY <1>1, <1>2 DEF ListInv
<1>5. Added(s, a, arg, len) = [t EXCEPT ![a - 1] = slot]
  <2>1. Added(s, a, arg, len) = [t EXCEPT ![a - 1].addr = a, ![a - 1].uid =
          [k \in 1 .. UID_SIZE |-> IF k <= len THEN arg[k] ELSE @[k]]]
    BY <1>3 DEF Added
  <2> HIDE DEF t
  <2> QED BY <1>1, <1>2, <1>4, <2>1 DEF ListInv, Slave
<1> HIDE DEF t
<1>6. uid \in [1 .. UID_SIZE -> 0 .. 255]
  <2>1. t[a - 1].uid \in [1 .. UID_SIZE -> 0 .. 255]
    BY <1>4 DEF Slave
  <2> QED BY <2>1
<1> HIDE DEF uid
<1>7. slot \in Slave(a - 1) /\ slot.addr = a /\ slot.ping_count = t[a - 1].ping_count
  BY <1>1, <1>4, <1>6 DEF Slave
<1>8. a - 1 \notin Due(t)
  BY <1>1, <1>2, <1>3 DEF ListInv, Address
<1> HIDE DEF slot
<1> DEFINE u == [t EXCEPT ![a - 1] = slot]
<1>9. DOMAIN u = Index /\ u[a - 1] = slot /\ \A j \in Index : j # a - 1 => u[j] = t[j]
  BY <1>1, <1>2 DEF ListInv
<1> HIDE DEF u
<1>10. Due(u) = Due(t)
  BY <1>1, <1>7, <1>9 DEF Due
<1>11. ListInv(u)
  <2>1. \A i \in Index : u[i] \in Slave(i)
    BY <1>2, <1>7, <1>9 DEF ListInv
  <2>2. \A i \in Due(u) : i \in Index /\ i # a - 1
    BY <1>8, <1>10 DEF Due
  <2> QED BY <1>2, <1>9, <1>10, <2>1, <2>2 DEF ListInv
<1>12. Added(s, a, arg, len) = u
  BY <1>5 DEF u
<1> QED BY <1>2, <1>7, <1>9, <1>10, <1>11, <1>12

\* A request that was sent has the type of last_request and its timer runs.
LEMMA RequestedInv ==
  ASSUME NEW dest \in {0} \cup Address, NEW cmd \in Cmd
  PROVE  /\ Requested(dest, cmd) \in RequestType
         /\ Requested(dest, cmd).reply_state = "Pending" /\ Requested(dest, cmd).busy_time > 0
         /\ Requested(dest, cmd).dest = dest /\ Requested(dest, cmd).cmd = cmd
<1>1. RECEIVE_REPLY_TIMEOUT \in 0 .. RECEIVE_REPLY_TIMEOUT /\ RECEIVE_REPLY_TIMEOUT > 0
  OBVIOUS
<1> QED BY <1>1 DEF Requested, RequestType

\* The commands the master sends have values.
LEMMA Commands == {"FIND", "GET_UID", "PING", "EXT"} \subseteq Cmd
BY DEF Cmd
-----------------------------------------------------------------------------
(* Every step keeps the inductive invariant. *)

\* opl_init() establishes the invariant.
LEMMA InitIInv == Init => IInv
<1> SUFFICES ASSUME Init PROVE IInv
  OBVIOUS
<1>1. ListInv(slaves) /\ Due(slaves) = {}
  BY EmptyListInv DEF Init
<1>2. RECEIVE_REPLY_TIMEOUT \in 0 .. RECEIVE_REPLY_TIMEOUT
  OBVIOUS
<1>3. last_request \in RequestType
  BY <1>2 DEF Init, RequestType
<1>4. TypeOK
  <2>1. /\ ping_flag \in BOOLEAN /\ last \in 0 .. MAX_SLAVES
        /\ new_slave_addr \in {0} \cup Address /\ seconds \in 0 .. CYCLES_PER_SECOND
    <3>1. 0 \in 0 .. MAX_SLAVES /\ 0 \in 0 .. CYCLES_PER_SECOND
      OBVIOUS
    <3> QED BY <3>1, Zenon DEF Init
  <2> QED BY <1>1, <1>3, <2>1 DEF TypeOK, ListInv
<1>5. last_request.cmd = NoCmd /\ last_request.reply_state = "None"
  BY DEF Init
<1>6. RequestInv /\ OfferedSlotStaysFree /\ PingBookedOnListedSlave
  BY <1>5 DEF RequestInv, OfferedSlotStaysFree, PingBookedOnListedSlave, NoCmd
<1>7. NoPingForgotten
  BY <1>1 DEF NoPingForgotten
<1> QED BY <1>4, <1>6, <1>7 DEF IInv

\* A step after which the list is ListInv and no new slot is due without the
\* flag keeps the list's part of the invariant.
LEMMA ListStep ==
  ASSUME IInv, ListInv(slaves'), Due(slaves') \subseteq Due(slaves), UNCHANGED ping_flag
  PROVE  NoPingForgotten'
<1>1. \A i \in Due(slaves') : slaves'[i].addr = i + 1
  BY DEF ListInv
<1>2. \A i \in Due(slaves') : ping_flag'
  BY DEF IInv, NoPingForgotten
<1> QED BY <1>1, <1>2 DEF NoPingForgotten, Due

\* Ending the wait for a reply.
LEMMA AnsweredInv ==
  ASSUME IInv
  PROVE  /\ Answered \in RequestType /\ Answered.reply_state = "None"
         /\ Answered.cmd = last_request.cmd /\ Answered.dest = last_request.dest
BY DEF IInv, TypeOK, RequestType, Answered

\* A SIGNAL keeps the invariant: the address it offers is free.
LEMMA ReceiveSignalKeepsIInv ==
  ASSUME IInv, NEW known_version \in BOOLEAN, ReceiveSignal(known_version)
  PROVE  IInv'
<1> USE DEF IInv
<1> DEFINE addr == Available(slaves)
<1>1. /\ UNCHANGED <<slaves, ping_flag, last, seconds>> /\ new_slave_addr' = addr
      /\ last_request' = IF addr # 0 /\ known_version THEN Requested(0, "FIND") ELSE Answered
  BY DEF ReceiveSignal, listVars
<1>2. addr \in {0} \cup Address /\ (addr # 0 => slaves[addr - 1].addr = 0)
  BY AvailableSlot, NoneAvailable
<1>3. last_request.cmd \in {"FIND", "GET_UID"} => addr # 0
  BY AvailableSlot DEF OfferedSlotStaysFree, Address, Index
<1> HIDE DEF addr
<1>4. NoPingForgotten'
  BY <1>1 DEF NoPingForgotten, Due
<1>5. CASE addr # 0 /\ known_version
  <2>1. last_request' = Requested(0, "FIND")
    BY <1>1, <1>5
  <2>2. last_request' \in RequestType /\ last_request'.cmd = "FIND" /\ last_request'.busy_time > 0
    BY <2>1, RequestedInv, Commands
  <2>3. TypeOK'
    BY <1>1, <1>2, <2>2 DEF TypeOK
  <2> QED BY <1>1, <1>2, <1>4, <1>5, <2>2, <2>3
          DEF RequestInv, OfferedSlotStaysFree, PingBookedOnListedSlave
<1>6. CASE ~(addr # 0 /\ known_version)
  <2>1. last_request' = Answered
    BY <1>1, <1>6
  <2>2. TypeOK'
    BY <1>1, <1>2, <2>1, AnsweredInv DEF TypeOK
  <2> QED BY <1>1, <1>2, <1>3, <1>4, <2>1, <2>2, AnsweredInv
          DEF RequestInv, OfferedSlotStaysFree, PingBookedOnListedSlave
<1> QED BY <1>5, <1>6

\* The ACK of a FIND keeps the invariant.
LEMMA ReceiveFindAckKeepsIInv ==
  ASSUME IInv, NEW src \in Source, ReceiveFindAck(src)
  PROVE  IInv'
<1> USE DEF IInv
<1>1. /\ UNCHANGED <<slaves, ping_flag, last, seconds, new_slave_addr>>
      /\ last_request' = Requested(new_slave_addr, "GET_UID")
      /\ last_request.cmd = "FIND"
  BY DEF ReceiveFindAck, listVars
<1>2. new_slave_addr \in Address /\ slaves[new_slave_addr - 1].addr = 0
  BY <1>1 DEF OfferedSlotStaysFree
<1>3. last_request' \in RequestType /\ last_request'.cmd = "GET_UID" /\ last_request'.busy_time > 0
  <2>1. new_slave_addr \in {0} \cup Address /\ "GET_UID" \in Cmd
    BY <1>2, Commands
  <2> DEFINE request == Requested(new_slave_addr, "GET_UID")
  <2>2. request \in RequestType /\ request.cmd = "GET_UID" /\ request.busy_time > 0
    BY <2>1, RequestedInv
  <2> HIDE DEF request
  <2>3. last_request' = request
    BY <1>1 DEF request
  <2> QED BY <2>2, <2>3
<1>4. TypeOK'
  BY <1>1, <1>3, Zenon DEF TypeOK
<1>5. NoPingForgotten'
  BY <1>1 DEF NoPingForgotten, Due
<1> QED BY <1>1, <1>2, <1>3, <1>4, <1>5 DEF RequestInv, OfferedSlotStaysFree, PingBookedOnListedSlave

\* The bytes of a received UID are bytes, whatever follows them.
LEMMA LeadingBytes ==
  ASSUME NEW S, NEW u \in Seq(S), NEW v \in Seq(S), NEW k \in 1 .. Len(u)
  PROVE  (u \o v)[k] \in S
<1>1. u[k] \in S
  BY ElementOfSeq
<1>2. k \in 1 .. Len(u) + Len(v)
  OBVIOUS
<1>3. (u \o v)[k] = u[k]
  BY <1>2, ConcatProperties
<1> QED BY <1>1, <1>3

\* The ACK of a GET_UID keeps it: the slave it lists is the one it pings.
LEMMA ReceiveUidAckKeepsIInv ==
  ASSUME IInv, NEW src \in Source, NEW uid \in Seq(1 .. 255), NEW junk \in Seq(1 .. 255),
         ReceiveUidAck(src, uid, junk)
  PROVE  IInv'
<1> USE DEF IInv
<1> DEFINE sent == IF uid = << >> THEN DefaultUid(new_slave_addr) ELSE uid
<1>1. UNCHANGED <<ping_flag, last, new_slave_addr, seconds>> /\ last_request.cmd = "GET_UID"
  BY DEF ReceiveUidAck
<1>2. new_slave_addr \in Address /\ slaves[new_slave_addr - 1].addr = 0
  BY <1>1 DEF OfferedSlotStaysFree
<1>3. CASE Len(uid) <= UID_SIZE
  <2>1. /\ slaves' = Added(slaves, new_slave_addr, sent \o junk, Len(sent))
        /\ last_request' = Requested(new_slave_addr, "PING")
    BY <1>3 DEF ReceiveUidAck
  <2>2. sent \in Seq(0 .. 255)
    <3>1. DefaultUid(new_slave_addr) \in Seq(0 .. 255)
      <4>1. 48 + new_slave_addr \in 0 .. 255
        BY <1>2 DEF Address
      <4> QED BY <4>1 DEF DefaultUid
    <3> QED BY <3>1
  <2>3. junk \in Seq(0 .. 255)
    OBVIOUS
  <2> HIDE DEF sent
  <2> DEFINE arg == sent \o junk
             len == Len(sent)
             list == Added(slaves, new_slave_addr, arg, len)
  <2>4. \A k \in 1 .. UID_SIZE : k <= len => arg[k] \in 0 .. 255
    <3> SUFFICES ASSUME NEW k \in 1 .. UID_SIZE, k <= len PROVE arg[k] \in 0 .. 255
      OBVIOUS
    <3>1. len \in Nat /\ k \in 1 .. len
      BY <2>2
    <3>2. k \in 1 .. Len(sent)
      BY <3>1
    <3> HIDE DEF len
    <3> QED BY <2>2, <2>3, <3>2, LeadingBytes
  <2> HIDE DEF arg, len
  <2>5. /\ ListInv(list) /\ Due(list) \subseteq Due(slaves)
        /\ list[new_slave_addr - 1].addr = new_slave_addr
    <3>1. ListInv(slaves)
      BY ListOfIInv
    <3> QED BY <1>2, <2>4, <3>1, AddedInv
  <2>6. slaves' = list
    BY <2>1 DEF arg, len
  <2> HIDE DEF list
  <2>7. /\ last_request' \in RequestType /\ last_request'.cmd = "PING"
        /\ last_request'.busy_time > 0 /\ last_request'.dest = new_slave_addr
    BY <1>2, <2>1, RequestedInv, Commands
  <2>8. TypeOK'
    BY <1>1, <2>5, <2>6, <2>7, Zenon DEF TypeOK, ListInv
  <2>9. NoPingForgotten'
    BY <1>1, <2>5, <2>6, ListStep
  <2> QED BY <1>1, <1>2, <2>5, <2>6, <2>7, <2>8, <2>9
          DEF RequestInv, OfferedSlotStaysFree, PingBookedOnListedSlave
<1>4. CASE ~(Len(uid) <= UID_SIZE)
  <2>1. last_request' = Answered /\ UNCHANGED slaves
    BY <1>4 DEF ReceiveUidAck
  <2>2. TypeOK'
    BY <1>1, <2>1, AnsweredInv, Zenon DEF TypeOK
  <2>3. NoPingForgotten'
    BY <1>1, <2>1 DEF NoPingForgotten, Due
  <2> QED BY <1>1, <1>2, <2>1, <2>2, <2>3, AnsweredInv
          DEF RequestInv, OfferedSlotStaysFree, PingBookedOnListedSlave
<1> QED BY <1>3, <1>4

\* The ACK of a PING keeps the invariant, however late it is.
LEMMA ReceivePingAckKeepsIInv ==
  ASSUME IInv, NEW src \in Source, ReceivePingAck(src)
  PROVE  IInv'
<1> USE DEF IInv
<1> DEFINE list == PingAnswered(slaves, last_request.dest, PING_PERIOD)
<1>1. /\ UNCHANGED <<ping_flag, last, new_slave_addr, seconds>> /\ last_request.cmd = "PING"
      /\ slaves' = list /\ last_request' = Answered
  BY DEF ReceivePingAck
<1>2. ListInv(list) /\ Due(list) \subseteq Due(slaves)
  BY <1>1, ListOfIInv, PingAnsweredInv DEF RequestInv
<1> HIDE DEF list
<1>3. TypeOK'
  BY <1>1, <1>2, AnsweredInv, Zenon DEF TypeOK, ListInv
<1>4. NoPingForgotten'
  BY <1>1, <1>2, ListStep
<1> QED BY <1>1, <1>3, <1>4, AnsweredInv
        DEF RequestInv, OfferedSlotStaysFree, PingBookedOnListedSlave

\* Any other frame only ends the wait.
LEMMA ReceiveOtherKeepsIInv ==
  ASSUME IInv, NEW src \in Source, ReceiveOther(src)
  PROVE  IInv'
<1> USE DEF IInv
<1>1. /\ UNCHANGED <<slaves, ping_flag, last, new_slave_addr, seconds>>
      /\ last_request' = Answered
  BY DEF ReceiveOther, listVars
<1>2. TypeOK'
  BY <1>1, AnsweredInv, Zenon DEF TypeOK
<1>3. NoPingForgotten'
  BY <1>1 DEF NoPingForgotten, Due
<1> QED BY <1>1, <1>2, <1>3, AnsweredInv
        DEF RequestInv, OfferedSlotStaysFree, PingBookedOnListedSlave

\* What every keep-alive cycle does to the list: a slot that falls due raises
\* the flag, and a slot is only freed when a PING runs out.
LEMMA ListAfterCycleInv ==
  ASSUME IInv
  PROVE  /\ ListInv(ListAfterCycle)
         /\ FlagAfterTick \/ Due(ListAfterCycle) = {}
         /\ \A i \in Index : slaves[i].addr = 0 => ListAfterCycle[i].addr = 0
         /\ ~TimesOut => \A i \in Index : ListAfterCycle[i].addr = slaves[i].addr
<1> USE DEF IInv
<1>1. ListInv(slaves) /\ (ping_flag \/ Due(slaves) = {})
  BY ListOfIInv DEF NoPingForgotten
<1>2. /\ ListInv(ListAfterTick) /\ (FlagAfterTick \/ Due(ListAfterTick) = {})
      /\ \A i \in Index : ListAfterTick[i].addr = slaves[i].addr
  <2>1. CASE seconds = CYCLES_PER_SECOND
    <3>1. ListAfterTick = Ticked(slaves)
      BY <2>1 DEF ListAfterTick
    <3>2. FlagAfterTick \/ (~ping_flag /\ ~TickReachesZero(slaves))
      BY <2>1 DEF FlagAfterTick
    <3> QED BY <1>1, <3>1, <3>2, TickedInv
  <2>2. CASE seconds # CYCLES_PER_SECOND
    <3>1. ListAfterTick = slaves
      BY <2>2 DEF ListAfterTick
    <3>2. FlagAfterTick \/ ~ping_flag
      BY DEF FlagAfterTick
    <3> QED BY <1>1, <3>1, <3>2
  <2> QED BY <2>1, <2>2
<1>3. CASE TimesOut /\ last_request.cmd = "PING"
  <2>1. last_request.dest \in Address
    BY <1>3 DEF RequestInv
  <2>2. ListAfterCycle = PingMissed(ListAfterTick, last_request.dest)
    BY <1>3 DEF ListAfterCycle
  <2> HIDE DEF IInv
  <2> QED BY <1>2, <1>3, <2>1, <2>2, PingMissedInv
<1>4. CASE ~(TimesOut /\ last_request.cmd = "PING")
  <2>1. ListAfterCycle = ListAfterTick
    BY <1>4 DEF ListAfterCycle
  <2> QED BY <1>2, <2>1
<1> QED BY <1>3, <1>4

\* update_node_state() keeps the request, pending only while its timer runs.
LEMMA RequestAfterCycleInv ==
  ASSUME IInv
  PROVE  /\ RequestAfterCycle \in RequestType
         /\ RequestAfterCycle.cmd = last_request.cmd /\ RequestAfterCycle.dest = last_request.dest
         /\ RequestAfterCycle.reply_state = "Pending" =>
              /\ RequestAfterCycle.busy_time > 0
              /\ last_request.reply_state = "Pending" /\ ~TimesOut
<1> USE DEF IInv
<1>1. CASE last_request.reply_state # "Pending"
  BY <1>1 DEF RequestAfterCycle, TypeOK
<1>2. CASE last_request.reply_state = "Pending"
  <2> DEFINE left == last_request.busy_time - 1
             reply_state == IF TimesOut THEN "None" ELSE "Pending"
  <2>1. last_request \in RequestType /\ left \in 0 .. RECEIVE_REPLY_TIMEOUT
    BY <1>2 DEF TypeOK, RequestInv, RequestType
  <2>2. reply_state \in {"None", "Pending"}
    OBVIOUS
  <2>3. reply_state = "Pending" => ~TimesOut /\ left > 0
    BY <1>2, <2>1 DEF TimesOut, RequestInv, RequestType
  <2>4. RequestAfterCycle = [last_request EXCEPT !.busy_time = left, !.reply_state = reply_state]
    BY <1>2, <2>1 DEF RequestAfterCycle, RequestType
  <2> HIDE DEF left, reply_state
  <2> QED BY <1>2, <2>1, <2>2, <2>3, <2>4 DEF RequestType
<1> QED BY <1>1, <1>2

\* The cycle count keeps its range.
LEMMA CycleSeconds ==
  ASSUME IInv, Cycle
  PROVE  seconds' \in 0 .. CYCLES_PER_SECOND
BY DEF IInv, TypeOK, Cycle

\* A cycle that ends with the request it started with, or without one.
LEMMA CycleKeepsIInv ==
  ASSUME IInv, Cycle, last' \in 0 .. MAX_SLAVES, ping_flag' \in BOOLEAN,
         ping_flag' \/ Due(ListAfterCycle) = {}, last_request' = RequestAfterCycle
  PROVE  IInv'
<1> USE DEF IInv
<1>1. slaves' = ListAfterCycle /\ new_slave_addr' = new_slave_addr
  BY DEF Cycle
<1>2. TypeOK'
  <2>1. ListInv(slaves') /\ last_request' \in RequestType /\ seconds' \in 0 .. CYCLES_PER_SECOND
    BY <1>1, ListAfterCycleInv, RequestAfterCycleInv, CycleSeconds
  <2> QED BY <1>1, <2>1, Zenon DEF TypeOK, ListInv
<1>3. NoPingForgotten'
  <2>1. ListInv(slaves') /\ (ping_flag' \/ Due(slaves') = {})
    BY <1>1, ListAfterCycleInv
  <2> QED BY <2>1, Zenon DEF ListInv, NoPingForgotten, Due
<1>4. RequestInv'
  BY RequestAfterCycleInv DEF RequestInv
<1>5. OfferedSlotStaysFree'
  <2>1. \A a \in Address : a - 1 \in Index
    BY DEF Address, Index
  <2> QED BY <1>1, <2>1, ListAfterCycleInv, RequestAfterCycleInv DEF OfferedSlotStaysFree
<1>6. PingBookedOnListedSlave'
  <2>1. \A a \in Address : a - 1 \in Index
    BY DEF Address, Index
  <2> QED BY <1>1, <2>1, ListAfterCycleInv, RequestAfterCycleInv DEF PingBookedOnListedSlave
<1> QED BY <1>2, <1>3, <1>4, <1>5, <1>6

\* A cycle that may not send keeps the invariant.
LEMMA KeepAliveWaitsKeepsIInv ==
  ASSUME IInv, KeepAliveWaits
  PROVE  IInv'
<1>1. ping_flag' \in BOOLEAN /\ (ping_flag' \/ Due(ListAfterCycle) = {})
  BY ListAfterCycleInv DEF KeepAliveWaits, FlagAfterTick, IInv, TypeOK
<1>2. last' \in 0 .. MAX_SLAVES
  BY DEF KeepAliveWaits, IInv, TypeOK
<1> QED BY <1>1, <1>2, CycleKeepsIInv DEF KeepAliveWaits

\* The slave chosen after the cycle's bookkeeping is listed.
LEMMA NextPingAfterCycle ==
  ASSUME IInv
  PROVE  LET next == NextPing(ListAfterCycle, last)
         IN  /\ next.last \in 0 .. MAX_SLAVES
             /\ next.addr = 0 => Due(ListAfterCycle) = {}
             /\ next.addr > 0 => /\ next.addr \in Address
                                 /\ ListAfterCycle[next.addr - 1].addr = next.addr
<1>1. last \in 0 .. MAX_SLAVES
  BY DEF IInv, TypeOK
<1>2. ASSUME NEW a \in Address, a - 1 \in Due(ListAfterCycle)
      PROVE  ListAfterCycle[a - 1].addr = a
  <2>1. ListAfterCycle[a - 1].addr = (a - 1) + 1
    BY <1>2, ListAfterCycleInv DEF ListInv
  <2>2. (a - 1) + 1 = a
    BY DEF Address
  <2> QED BY <2>1, <2>2
<1> QED BY <1>1, <1>2, NextPingDue, Zenon

\* A cycle that pings, or finds the bus taken, keeps the invariant.
LEMMA KeepAlivePingsKeepsIInv ==
  ASSUME IInv, NEW sent \in BOOLEAN, KeepAlivePings(sent)
  PROVE  IInv'
<1> DEFINE next == NextPing(ListAfterCycle, last)
<1>1. /\ Cycle /\ ping_flag' = TRUE /\ last' = next.last /\ next.addr > 0
      /\ last_request' = IF sent THEN Requested(next.addr, "PING") ELSE RequestAfterCycle
  BY DEF KeepAlivePings
<1>2. /\ next.last \in 0 .. MAX_SLAVES
      /\ next.addr \in Address /\ ListAfterCycle[next.addr - 1].addr = next.addr
  BY <1>1, NextPingAfterCycle
<1> HIDE DEF next
<1>3. CASE ~sent
  BY <1>1, <1>2, <1>3, CycleKeepsIInv
<1>4. CASE sent
  <2>1. slaves' = ListAfterCycle /\ new_slave_addr' = new_slave_addr
    BY <1>1 DEF Cycle
  <2> DEFINE request == Requested(next.addr, "PING")
  <2>2. /\ request \in RequestType /\ request.cmd = "PING" /\ request.dest = next.addr
        /\ request.busy_time > 0
    <3>1. next.addr \in {0} \cup Address /\ "PING" \in Cmd
      BY <1>2, Commands
    <3> QED BY <3>1, RequestedInv
  <2>3. last_request' = request
    BY <1>1, <1>4
  <2> HIDE DEF request
  <2>4. TypeOK'
    <3>1. ListInv(slaves') /\ seconds' \in 0 .. CYCLES_PER_SECOND
      BY <1>1, <2>1, ListAfterCycleInv, CycleSeconds
    <3> QED BY <1>1, <1>2, <2>1, <2>2, <2>3, <3>1, Zenon DEF TypeOK, ListInv, IInv
  <2>5. NoPingForgotten'
    <3>1. ListInv(slaves')
      BY <2>1, ListAfterCycleInv
    <3> QED BY <1>1, <3>1, Zenon DEF ListInv, NoPingForgotten, Due
  <2>6. RequestInv' /\ OfferedSlotStaysFree' /\ PingBookedOnListedSlave'
    BY <1>2, <2>1, <2>2, <2>3 DEF RequestInv, OfferedSlotStaysFree, PingBookedOnListedSlave
  <2> QED BY <2>4, <2>5, <2>6 DEF IInv
<1> QED BY <1>3, <1>4

\* A cycle that clears ping_flag leaves no slot due.
LEMMA KeepAliveDispatchesKeepsIInv ==
  ASSUME IInv, KeepAliveDispatches
  PROVE  IInv'
<1> DEFINE next == NextPing(ListAfterCycle, last)
<1>1. /\ Cycle /\ ping_flag' = FALSE /\ (~FlagAfterTick \/ next.addr = 0)
      /\ last' = IF FlagAfterTick THEN next.last ELSE last
      /\ \/ last_request' = RequestAfterCycle
         \/ \E dest \in Address : last_request' = Requested(dest, "EXT")
  BY DEF KeepAliveDispatches
<1>2. Due(ListAfterCycle) = {} /\ last' \in 0 .. MAX_SLAVES
  <2>1. last \in 0 .. MAX_SLAVES
    BY DEF IInv, TypeOK
  <2> QED BY <1>1, <2>1, NextPingAfterCycle, ListAfterCycleInv
<1> HIDE DEF next
<1>3. CASE last_request' = RequestAfterCycle
  BY <1>1, <1>2, <1>3, CycleKeepsIInv
<1>4. ASSUME NEW dest \in Address, last_request' = Requested(dest, "EXT")
      PROVE  IInv'
  <2>1. slaves' = ListAfterCycle /\ new_slave_addr' = new_slave_addr
    BY <1>1 DEF Cycle
  <2>2. dest \in {0} \cup Address /\ "EXT" \in Cmd
    BY Commands
  <2>3. /\ last_request' \in RequestType /\ last_request'.cmd = "EXT"
        /\ last_request'.busy_time > 0
    BY <1>4, <2>2, RequestedInv
  <2>4. TypeOK'
    <3>1. ListInv(slaves') /\ seconds' \in 0 .. CYCLES_PER_SECOND /\ ping_flag' \in BOOLEAN
      BY <1>1, <2>1, ListAfterCycleInv, CycleSeconds
    <3> QED BY <1>2, <2>1, <2>3, <3>1, Zenon DEF TypeOK, ListInv, IInv
  <2>5. NoPingForgotten'
    BY <1>2, <2>1, Zenon DEF NoPingForgotten
  <2>6. RequestInv' /\ OfferedSlotStaysFree' /\ PingBookedOnListedSlave'
    BY <2>3 DEF RequestInv, OfferedSlotStaysFree, PingBookedOnListedSlave
  <2> QED BY <2>4, <2>5, <2>6 DEF IInv
<1> QED BY <1>1, <1>3, <1>4

LEMMA ReceiveDataKeepsIInv ==
  ASSUME IInv, NEW src \in Source, ReceiveData(src)
  PROVE  IInv'
<1> USE DEF IInv
<1>1. /\ UNCHANGED <<slaves, ping_flag, last, new_slave_addr, seconds>>
      /\ last_request' = [last_request EXCEPT !.reply_state = "Received"]
      /\ last_request \in RequestType
  BY DEF ReceiveData, listVars, TypeOK
<1>2. /\ last_request' \in RequestType
      /\ last_request'.reply_state = "Received"
      /\ last_request'.cmd = last_request.cmd /\ last_request'.dest = last_request.dest
  BY <1>1 DEF RequestType
<1>3. TypeOK'
  BY <1>1, <1>2, Zenon DEF TypeOK
<1>4. NoPingForgotten'
  BY <1>1 DEF NoPingForgotten, Due
<1> QED BY <1>1, <1>2, <1>3, <1>4 DEF RequestInv, OfferedSlotStaysFree, PingBookedOnListedSlave

LEMMA ReadToEndKeepsIInv ==
  ASSUME IInv, ReadToEnd
  PROVE  IInv'
<1> USE DEF IInv
<1>1. /\ UNCHANGED <<slaves, ping_flag, last, new_slave_addr, seconds>>
      /\ last_request' = Answered
  BY DEF ReadToEnd, listVars
<1>2. TypeOK'
  BY <1>1, AnsweredInv, Zenon DEF TypeOK
<1>3. NoPingForgotten'
  BY <1>1 DEF NoPingForgotten, Due
<1> QED BY <1>1, <1>2, <1>3, AnsweredInv
        DEF RequestInv, OfferedSlotStaysFree, PingBookedOnListedSlave

\* Every step keeps the invariant.
LEMMA NextKeepsIInv == IInv /\ [Next]_vars => IInv'
<1> SUFFICES ASSUME IInv, [Next]_vars PROVE IInv'
  OBVIOUS
<1>1. CASE UNCHANGED vars
  <2>1. UNCHANGED <<slaves, ping_flag, last, new_slave_addr, seconds, last_request>>
    BY <1>1 DEF vars
  <2> QED BY <2>1, Zenon DEF IInv, TypeOK, RequestInv, NoPingForgotten, OfferedSlotStaysFree,
                             PingBookedOnListedSlave, Due
<1>2. ASSUME NEW known_version \in BOOLEAN, ReceiveSignal(known_version) PROVE IInv'
  BY <1>2, ReceiveSignalKeepsIInv
<1>3. ASSUME NEW src \in Source, ReceiveAck(src) \/ ReceiveOther(src) \/ ReceiveData(src)
      PROVE  IInv'
  BY <1>3, MasterAssumption, ReceiveFindAckKeepsIInv, ReceiveUidAckKeepsIInv,
     ReceivePingAckKeepsIInv, ReceiveOtherKeepsIInv, ReceiveDataKeepsIInv DEF ReceiveAck
<1>4. CASE KeepAlive
  BY <1>4, KeepAliveWaitsKeepsIInv, KeepAlivePingsKeepsIInv, KeepAliveDispatchesKeepsIInv
     DEF KeepAlive
<1> QED BY <1>1, <1>2, <1>3, <1>4, ReadToEndKeepsIInv DEF Next

\* The invariant holds in every state of every behaviour.
THEOREM InductiveInvariant == Spec => []IInv
BY InitIInv, NextKeepsIInv, PTL DEF Spec

\* The master's variables keep their C types; a taken slot holds the address it
\* stands for.
THEOREM TypeCorrect == Spec => []TypeOK
<1>1. IInv => TypeOK
  BY DEF IInv
<1> QED BY <1>1, InductiveInvariant, PTL

\* A slot that is due holds a slave and is seen by the search for the next ping.
THEOREM EveryDuePingIsSeen == Spec => []NoPingForgotten
<1>1. IInv => NoPingForgotten
  BY DEF IInv
<1> QED BY <1>1, InductiveInvariant, PTL

\* The address offered to a joining slave is free until the slave is listed.
THEOREM OfferedAddressIsFree == Spec => []OfferedSlotStaysFree
<1>1. IInv => OfferedSlotStaysFree
  BY DEF IInv
<1> QED BY <1>1, InductiveInvariant, PTL

\* An awaited PING is booked on the listed slave it was sent to.
THEOREM PingsAreBooked == Spec => []PingBookedOnListedSlave
<1>1. IInv => PingBookedOnListedSlave
  BY DEF IInv
<1> QED BY <1>1, InductiveInvariant, PTL
-----------------------------------------------------------------------------
(* The UIDs of the list: whom a lookup finds, who is dropped and what the   *)
(* report names.                                                            *)

\* Strings as C has them, without a zero.
String == Seq(1 .. 255)

\* Two UIDs differ where both are compared.
Differ(u, v) == \E k \in 1 .. UID_SIZE : k <= Len(u) /\ k <= Len(v) /\ u[k] # v[k]

\* A free slot is as slave_clear_slot() left it, but for its ping_count; a taken
\* one stores a UID of U.
Entry(slot, U) == IF slot.addr = 0
                  THEN slot.uid = NoUid /\ slot.ping_error = 0
                  ELSE \E u \in U : Len(u) <= UID_SIZE /\ slot.uid = Stored(u)
Entries(s, U) == \A i \in Index : Entry(s[i], U)
-----------------------------------------------------------------------------
(* strlen() *)

\* The first bytes compared are those of the UID.
LEMMA ByteOfUid ==
  ASSUME NEW s, NEW i \in Index, NEW k \in 1 .. UID_SIZE
  PROVE  ByteFrom(s, i, k) = s[i].uid[k]
<1>1. SlotBytes \in Nat \ {0} /\ k \in Nat /\ k < SlotBytes
  BY DEF SlotBytes
<1>2. k \div SlotBytes = 0 /\ k % SlotBytes = k
  <2> HIDE DEF SlotBytes
  <2> QED BY <1>1
<1>3. i + 0 = i /\ k # 0
  BY DEF Index
<1> QED BY <1>2, <1>3 DEF ByteFrom

\* strlen() ends: at the end of the array at the latest.
LEMMA SomeZero ==
  ASSUME NEW s, NEW i \in Index
  PROVE  \E n \in 0 .. MAX_SLAVES * SlotBytes : ByteFrom(s, i, n + 1) = 0
<1> DEFINE slots == MAX_SLAVES - i
           n == slots * SlotBytes - 1
<1>1. SlotBytes \in Nat /\ SlotBytes > 0 /\ slots \in 1 .. MAX_SLAVES /\ i \in Nat
  BY DEF SlotBytes, Index
<1> HIDE DEF SlotBytes
<1>2. slots * SlotBytes \in Nat /\ slots * SlotBytes >= 1 /\ slots * SlotBytes <= MAX_SLAVES * SlotBytes
  <2> HIDE DEF slots
  <2> QED BY <1>1
<1>3. (slots * SlotBytes) \div SlotBytes = slots
  <2> HIDE DEF slots
  <2> QED BY <1>1
<1>4. i + slots \notin Index
  BY <1>1 DEF Index
<1>5. n + 1 = slots * SlotBytes /\ n \in 0 .. MAX_SLAVES * SlotBytes
  <2> HIDE DEF slots
  <2> QED BY <1>1, <1>2
<1>6. ByteFrom(s, i, slots * SlotBytes) = 0
  <2> HIDE DEF slots
  <2> QED BY <1>3, <1>4 DEF ByteFrom
<1> QED BY <1>5, <1>6

\* strlen() stops at the first zero byte.
LEMMA StrlenEnds ==
  ASSUME NEW s, NEW i \in Index
  PROVE  /\ Strlen(s, i) \in Nat
         /\ ByteFrom(s, i, Strlen(s, i) + 1) = 0
         /\ \A k \in 1 .. Strlen(s, i) : ByteFrom(s, i, k) # 0
<1> DEFINE zeros == {n \in Nat : ByteFrom(s, i, n + 1) = 0}
<1>1. PICK m \in 0 .. MAX_SLAVES * SlotBytes : ByteFrom(s, i, m + 1) = 0
  BY SomeZero
<1>2. m \in zeros
  BY <1>1 DEF SlotBytes
<1>3. PICK n \in zeros : \A j \in zeros : <<j, n>> \notin OpToRel(<, Nat)
  <2>1. zeros \subseteq Nat /\ zeros # {}
    BY <1>2
  <2> HIDE DEF zeros
  <2> QED BY <2>1, NatLessThanWellFounded, WFMin
<1>4. \A j \in zeros : ~(j < n)
  BY <1>3 DEF OpToRel
<1>5. \A k \in 1 .. n : ByteFrom(s, i, k) # 0
  <2> SUFFICES ASSUME NEW k \in 1 .. n, ByteFrom(s, i, k) = 0 PROVE FALSE
    OBVIOUS
  <2>1. n \in Nat
    OBVIOUS
  <2>2. k - 1 \in Nat /\ k - 1 < n /\ (k - 1) + 1 = k
    BY <2>1
  <2>3. k - 1 \in zeros
    BY <2>2
  <2> QED BY <1>4, <2>2, <2>3
<1>6. n \in 0 .. MAX_SLAVES * SlotBytes
  <2>1. n \in Nat /\ n <= m
    BY <1>2, <1>4
  <2> QED BY <1>1, <2>1 DEF SlotBytes
<1>7. \E l \in 0 .. MAX_SLAVES * SlotBytes : /\ ByteFrom(s, i, l + 1) = 0
                                            /\ \A k \in 1 .. l : ByteFrom(s, i, k) # 0
  BY <1>5, <1>6
<1>8. /\ Strlen(s, i) \in 0 .. MAX_SLAVES * SlotBytes
      /\ ByteFrom(s, i, Strlen(s, i) + 1) = 0
      /\ \A k \in 1 .. Strlen(s, i) : ByteFrom(s, i, k) # 0
  BY <1>7, Zenon DEF Strlen
<1>9. 0 .. MAX_SLAVES * SlotBytes \subseteq Nat
  OBVIOUS
<1> QED BY <1>8, <1>9, Zenon

\* No byte of a UID is the zero that ends it.
LEMMA NotZero == \A byte \in 1 .. 255 : byte # 0
OBVIOUS

\* A stored UID is compared up to its end, and up to there only if it is shorter
\* than the array.
LEMMA StoredStrlen ==
  ASSUME NEW s, NEW i \in Index, NEW u \in Seq(1 .. 255), Len(u) <= UID_SIZE,
         s[i].uid = Stored(u)
  PROVE  /\ Strlen(s, i) \in Nat /\ Strlen(s, i) >= Len(u)
         /\ Len(u) < UID_SIZE => Strlen(s, i) = Len(u)
         /\ \A k \in 1 .. Len(u) : ByteFrom(s, i, k) = u[k]
<1> DEFINE l == Strlen(s, i)
<1>1. /\ l \in Nat /\ ByteFrom(s, i, l + 1) = 0
      /\ \A k \in 1 .. l : ByteFrom(s, i, k) # 0
  BY StrlenEnds
<1> HIDE DEF l
<1>2. \A k \in 1 .. UID_SIZE : ByteFrom(s, i, k) = IF k <= Len(u) THEN u[k] ELSE 0
  BY ByteOfUid DEF Stored
<1>3. \A k \in 1 .. Len(u) : ByteFrom(s, i, k) = u[k] /\ u[k] # 0
  <2> SUFFICES ASSUME NEW k \in 1 .. Len(u) PROVE ByteFrom(s, i, k) = u[k] /\ u[k] # 0
    OBVIOUS
  <2>1. u[k] \in 1 .. 255
    BY ElementOfSeq
  <2>2. k \in 1 .. UID_SIZE /\ k <= Len(u)
    OBVIOUS
  <2>3. ByteFrom(s, i, k) = u[k]
    BY <1>2, <2>2, Zenon
  <2> QED BY <2>1, <2>3, NotZero, Zenon
<1>4. l >= Len(u)
  <2> SUFFICES ASSUME l < Len(u) PROVE FALSE
    BY <1>1
  <2>1. l + 1 \in 1 .. Len(u)
    BY <1>1
  <2> QED BY <1>1, <1>3, <2>1
<1>5. Len(u) < UID_SIZE => l = Len(u)
  <2> SUFFICES ASSUME Len(u) < UID_SIZE, l # Len(u) PROVE FALSE
    OBVIOUS
  <2>1. Len(u) + 1 \in 1 .. UID_SIZE /\ Len(u) + 1 \in 1 .. l
    BY <1>1, <1>4
  <2> QED BY <1>1, <1>2, <2>1
<1> QED BY <1>1, <1>3, <1>4, <1>5 DEF l

\* A slot does not match a UID that differs from its own,
LEMMA DifferentUid ==
  ASSUME NEW s, NEW i \in Index, NEW u \in Seq(1 .. 255), Len(u) <= UID_SIZE,
         s[i].uid = Stored(u), NEW arg, NEW k \in 1 .. Len(u), arg[k] # u[k]
  PROVE  ~Matches(s, i, arg)
<1>1. k \in 1 .. Strlen(s, i) /\ ByteFrom(s, i, k) = u[k]
  BY StoredStrlen
<1> QED BY <1>1 DEF Matches

\* and matches its own, if that ends before the array.
LEMMA OwnUid ==
  ASSUME NEW s, NEW i \in Index, NEW u \in Seq(1 .. 255), Len(u) < UID_SIZE,
         s[i].uid = Stored(u)
  PROVE  Matches(s, i, u)
<1>1. Strlen(s, i) = Len(u) /\ \A k \in 1 .. Len(u) : ByteFrom(s, i, k) = u[k]
  BY StoredStrlen
<1> QED BY <1>1 DEF Matches
-----------------------------------------------------------------------------
(* map_uid_to_addr() and slave_list_add() *)

\* A lookup gives the address of the first slot that matches, or 0.
LEMMA LookupFirst ==
  ASSUME NEW s, NEW arg
  PROVE  \/ MapUidToAddr(s, arg) = 0 /\ \A j \in Index : ~Matches(s, j, arg)
         \/ \E i \in Index : /\ Matches(s, i, arg) /\ MapUidToAddr(s, arg) = s[i].addr
                             /\ \A j \in Index : Matches(s, j, arg) => i <= j
<1> DEFINE hits == {i \in Index : Matches(s, i, arg)}
<1>1. CASE hits = {}
  BY <1>1 DEF MapUidToAddr
<1>2. CASE hits # {}
  <2> DEFINE first == CHOOSE i \in hits : \A j \in hits : i <= j
  <2>1. first \in hits /\ \A j \in hits : first <= j
    <3>1. \E i \in hits : \A j \in hits : i <= j
      BY <1>2, SmallestIndex
    <3> HIDE DEF hits
    <3> QED BY <3>1
  <2>2. MapUidToAddr(s, arg) = s[first].addr
    BY <1>2 DEF MapUidToAddr
  <2> HIDE DEF first
  <2> QED BY <2>1, <2>2
<1> QED BY <1>1, <1>2

\* The index of address 0 is past the list.
LEMMA NoIndex ==
  ASSUME NEW x \in Int, x + 1 = 0
  PROVE  x % 256 = 255
OBVIOUS

\* Only a slot that holds a slave and matches is cleared for the old entry.
LEMMA OldEntry ==
  ASSUME NEW s, ListInv(s), NEW arg, OldIndex(s, arg) \in Index
  PROVE  /\ Matches(s, OldIndex(s, arg), arg)
         /\ s[OldIndex(s, arg)].addr # 0
<1>1. (0 - 1) % 256 = 255 /\ 255 \notin Index
  <2>1. PICK x \in Int : x + 1 = 0 /\ x = 0 - 1
    OBVIOUS
  <2>2. x % 256 = 255
    BY <2>1, NoIndex
  <2>3. 255 \notin Index
    BY DEF Index
  <2> QED BY <2>1, <2>2, <2>3, Zenon
<1>2. MapUidToAddr(s, arg) # 0
  BY <1>1 DEF OldIndex
<1>3. PICK i \in Index : Matches(s, i, arg) /\ MapUidToAddr(s, arg) = s[i].addr
  BY <1>2, LookupFirst
<1>4. s[i].addr = i + 1
  BY <1>2, <1>3 DEF ListInv, Slave
<1>5. ((i + 1) - 1) % 256 = i
  BY DEF Index
<1>6. OldIndex(s, arg) = i
  BY <1>3, <1>4, <1>5 DEF OldIndex
<1> QED BY <1>2, <1>3, <1>6

\* slave_list_add() in a free slot stores the UID there, whatever follows it in
\* memory, and clears no slot but one that matches it.
LEMMA AddedEntry ==
  ASSUME NEW s, ListInv(s), NEW U, Entries(s, U),
         NEW a \in Address, s[a - 1].addr = 0,
         NEW u \in Seq(1 .. 255), Len(u) <= UID_SIZE, NEW junk \in Seq(1 .. 255),
         NEW list, list = Added(s, a, u \o junk, Len(u))
  PROVE  /\ list[a - 1].addr = a /\ list[a - 1].uid = Stored(u) /\ list[a - 1].ping_error = 0
         /\ \A j \in Index : j # a - 1 =>
              \/ list[j] = s[j]
              \/ list[j] = ClearedSlot /\ Matches(s, j, u \o junk) /\ s[j].addr # 0
<1> DEFINE arg == u \o junk
           t == Cleared(s, OldIndex(s, arg))
           uid == [k \in 1 .. UID_SIZE |-> IF k <= Len(u) THEN arg[k] ELSE t[a - 1].uid[k]]
<1>1. a - 1 \in Index
  BY DEF Address, Index
<1>2. /\ ListInv(t) /\ t[a - 1] \in {s[a - 1], ClearedSlot}
      /\ \A j \in Index : j # OldIndex(s, arg) => t[j] = s[j]
      /\ \A j \in Index : t[j] \in {s[j], ClearedSlot}
  BY <1>1, ClearedInv
<1>3. t[a - 1].addr = 0 /\ t[a - 1].uid = NoUid /\ t[a - 1].ping_error = 0
  BY <1>1, <1>2 DEF Entries, Entry, ClearedSlot
<1>4. \A k \in 1 .. Len(u) : arg[k] = u[k]
  BY ConcatProperties
<1>5. Added(s, a, arg, Len(u)) = [t EXCEPT ![a - 1] = [t[a - 1] EXCEPT !.addr = a, !.uid = uid]]
  <2>1. Added(s, a, arg, Len(u)) = [t EXCEPT ![a - 1].addr = a, ![a - 1].uid =
          [k \in 1 .. UID_SIZE |-> IF k <= Len(u) THEN arg[k] ELSE @[k]]]
    BY <1>3 DEF Added
  <2>2. DOMAIN t = Index /\ t[a - 1] \in Slave(a - 1)
    BY <1>1, <1>2 DEF ListInv
  <2> HIDE DEF t, arg
  <2> QED BY <1>1, <2>1, <2>2 DEF Slave
<1>6. \A j \in Index : (j # a - 1 /\ t[j] # s[j]) =>
        t[j] = ClearedSlot /\ Matches(s, j, arg) /\ s[j].addr # 0
  BY <1>2, OldEntry
<1>7. DOMAIN t = Index /\ t[a - 1] \in Slave(a - 1)
  BY <1>1, <1>2 DEF ListInv
<1> HIDE DEF t, arg
<1>8. uid = Stored(u)
  <2>1. \A k \in 1 .. UID_SIZE : uid[k] = IF k <= Len(u) THEN u[k] ELSE 0
    BY <1>3, <1>4 DEF NoUid
  <2> QED BY <2>1 DEF Stored
<1> HIDE DEF uid
<1>9. /\ Added(s, a, arg, Len(u))[a - 1].addr = a
      /\ Added(s, a, arg, Len(u))[a - 1].uid = uid
      /\ Added(s, a, arg, Len(u))[a - 1].ping_error = t[a - 1].ping_error
      /\ \A j \in Index : j # a - 1 => Added(s, a, arg, Len(u))[j] = t[j]
  BY <1>1, <1>5, <1>7 DEF Slave
<1> QED BY <1>3, <1>6, <1>8, <1>9 DEF arg

\* It keeps the entries, and the slot of a UID that differs.
LEMMA AddedEntries ==
  ASSUME NEW s, ListInv(s), NEW U \in SUBSET Seq(1 .. 255), Entries(s, U),
         NEW a \in Address, s[a - 1].addr = 0,
         NEW u \in U, Len(u) <= UID_SIZE, NEW junk \in Seq(1 .. 255),
         NEW list, list = Added(s, a, u \o junk, Len(u))
  PROVE  /\ Entries(list, U)
         /\ \A j \in Index, v \in U :
              (j # a - 1 /\ s[j].uid = Stored(v) /\ Len(v) <= UID_SIZE /\ Differ(v, u)) =>
                list[j] = s[j]
<1>1. u \in Seq(1 .. 255)
  OBVIOUS
<1>2. /\ list[a - 1].addr = a /\ list[a - 1].uid = Stored(u)
      /\ \A j \in Index : j # a - 1 =>
           \/ list[j] = s[j]
           \/ list[j] = ClearedSlot /\ Matches(s, j, u \o junk)
  BY <1>1, AddedEntry
<1>3. ASSUME NEW j \in Index
      PROVE  Entry(list[j], U)
  <2>1. CASE j = a - 1
    BY <1>2, <2>1 DEF Entry, Address
  <2>2. CASE j # a - 1
    BY <1>2, <2>2 DEF Entries, Entry, ClearedSlot
  <2> QED BY <2>1, <2>2
<1>4. ASSUME NEW j \in Index, NEW v \in U, j # a - 1, s[j].uid = Stored(v),
             Len(v) <= UID_SIZE, Differ(v, u)
      PROVE  list[j] = s[j]
  <2>1. PICK k \in 1 .. UID_SIZE : k <= Len(v) /\ k <= Len(u) /\ v[k] # u[k]
    BY <1>4 DEF Differ
  <2>2. k \in 1 .. Len(v) /\ k \in 1 .. Len(u) /\ v \in Seq(1 .. 255)
    BY <2>1
  <2>3. (u \o junk)[k] = u[k]
    BY <1>1, <2>2, ConcatProperties
  <2>4. ~Matches(s, j, u \o junk)
    <3> DEFINE arg == u \o junk
    <3>1. arg[k] # v[k]
      BY <2>1, <2>3
    <3> HIDE DEF arg
    <3>2. ~Matches(s, j, arg)
      BY <1>4, <2>2, <3>1, DifferentUid
    <3> QED BY <3>2 DEF arg
  <2> QED BY <1>2, <1>4, <2>4
<1> QED BY <1>3, <1>4 DEF Entries
-----------------------------------------------------------------------------
(* The steps of the master *)

\* slave_list_ping_tick() leaves the entries alone.
LEMMA TickedEntry ==
  ASSUME NEW s, ListInv(s), NEW i \in Index
  PROVE  /\ Ticked(s)[i].addr = s[i].addr /\ Ticked(s)[i].uid = s[i].uid
         /\ Ticked(s)[i].ping_error = s[i].ping_error
         /\ s[i].ping_count = 0 => Ticked(s)[i].ping_count = 0
<1>1. Ticked(s)[i] = IF Ticking(s, i) THEN [s[i] EXCEPT !.ping_count = @ - 1] ELSE s[i]
  BY DEF Ticked
<1>2. s[i] \in Slave(i)
  BY DEF ListInv
<1>3. s[i].ping_count = 0 => Ticked(s)[i] = s[i]
  BY <1>1 DEF Ticking
<1> QED BY <1>1, <1>2, <1>3 DEF Slave

\* slave_ping_error() counts one more miss of its slave, or clears its slot.
LEMMA PingMissedEntry ==
  ASSUME NEW s, ListInv(s), NEW a \in Address, NEW i \in Index,
         NEW slot, slot = PingMissed(s, a)[i]
  PROVE  /\ a - 1 # i => slot = s[i]
         /\ (a - 1 = i /\ s[i].ping_error = MAX_PING_ERROR - 1) => slot = ClearedSlot
         /\ (a - 1 = i /\ s[i].ping_error # MAX_PING_ERROR - 1) =>
              /\ slot.addr = s[i].addr /\ slot.uid = s[i].uid
              /\ slot.ping_error = s[i].ping_error + 1
              /\ slot.ping_count = s[i].ping_count
<1>1. /\ a - 1 \in Index /\ s[i] \in Slave(i) /\ s[a - 1] \in Slave(a - 1)
      /\ DOMAIN s = Index
  BY DEF Address, Index, ListInv
<1>2. s[a - 1].ping_error \in Int
  BY <1>1 DEF Slave
<1>3. CASE s[a - 1].ping_error + 1 = MAX_PING_ERROR
  <2>1. slot = [s EXCEPT ![a - 1] = ClearedSlot][i]
    BY <1>1, <1>3 DEF PingMissed, Cleared
  <2>2. s[a - 1].ping_error = MAX_PING_ERROR - 1
    BY <1>2, <1>3
  <2> QED BY <1>1, <2>1, <2>2
<1>4. CASE s[a - 1].ping_error + 1 # MAX_PING_ERROR
  <2>1. slot = [s EXCEPT ![a - 1] = [s[a - 1] EXCEPT !.ping_error = @ + 1]][i]
    BY <1>1, <1>4 DEF PingMissed
  <2>2. s[a - 1].ping_error # MAX_PING_ERROR - 1
    BY <1>2, <1>4
  <2> QED BY <1>1, <2>1, <2>2 DEF Slave
<1> QED BY <1>3, <1>4

\* slave_set_ping_period() forgets the misses of its slave.
LEMMA PingAnsweredEntry ==
  ASSUME NEW s, ListInv(s), NEW a \in Address, NEW i \in Index
  PROVE  LET slot == PingAnswered(s, a, PING_PERIOD)[i]
         IN  /\ slot.addr = s[i].addr /\ slot.uid = s[i].uid
             /\ slot.ping_error = IF a - 1 = i THEN 0 ELSE s[i].ping_error
             /\ a - 1 # i => slot = s[i]
<1>1. a - 1 \in Index /\ s[i] \in Slave(i) /\ DOMAIN s = Index
  BY DEF Address, Index, ListInv
<1> QED BY <1>1 DEF PingAnswered, Slave

\* What a keep-alive cycle does to an entry: the one whose PING runs out is
\* counted a miss or cleared.
Misses(i) == TimesOut /\ last_request.cmd = "PING" /\ last_request.dest = i + 1

\* Every other entry is as it was.
LEMMA CycleEntry ==
  ASSUME IInv, NEW i \in Index, NEW slot, slot = ListAfterCycle[i]
  PROVE  /\ ~Misses(i) => /\ slot.addr = slaves[i].addr /\ slot.uid = slaves[i].uid
                          /\ slot.ping_error = slaves[i].ping_error
         /\ (Misses(i) /\ slaves[i].ping_error = MAX_PING_ERROR - 1) => slot = ClearedSlot
         /\ (Misses(i) /\ slaves[i].ping_error # MAX_PING_ERROR - 1) =>
              /\ slot.addr = slaves[i].addr /\ slot.uid = slaves[i].uid
              /\ slot.ping_error = slaves[i].ping_error + 1
         /\ Misses(i) => slaves[i].addr # 0
         /\ (slot.addr # 0 /\ slaves[i].ping_count = 0) => slot.ping_count = 0
<1>1. ListInv(slaves)
  BY ListOfIInv
<1>2. /\ ListAfterTick[i].addr = slaves[i].addr /\ ListAfterTick[i].uid = slaves[i].uid
      /\ ListAfterTick[i].ping_error = slaves[i].ping_error
      /\ slaves[i].ping_count = 0 => ListAfterTick[i].ping_count = 0
  BY <1>1, TickedEntry DEF ListAfterTick
<1>3. ListInv(ListAfterTick)
  BY <1>1, TickedInv DEF ListAfterTick
<1>4. CASE TimesOut /\ last_request.cmd = "PING"
  <2>1. /\ last_request.dest \in Address
        /\ slaves[last_request.dest - 1].addr = last_request.dest
    BY <1>4 DEF IInv, RequestInv, PingBookedOnListedSlave, TimesOut
  <2>2. slot = PingMissed(ListAfterTick, last_request.dest)[i]
    BY <1>4 DEF ListAfterCycle
  <2>3. Misses(i) <=> last_request.dest - 1 = i
    BY <1>4, <2>1 DEF Misses, Address, Index
  <2>4. Misses(i) => slaves[i].addr # 0
    BY <2>1, <2>3 DEF Address
  <2>5. /\ last_request.dest - 1 # i => slot = ListAfterTick[i]
        /\ (last_request.dest - 1 = i /\ ListAfterTick[i].ping_error = MAX_PING_ERROR - 1)
             => slot = ClearedSlot
        /\ (last_request.dest - 1 = i /\ ListAfterTick[i].ping_error # MAX_PING_ERROR - 1)
             => /\ slot.addr = ListAfterTick[i].addr /\ slot.uid = ListAfterTick[i].uid
                /\ slot.ping_error = ListAfterTick[i].ping_error + 1
                /\ slot.ping_count = ListAfterTick[i].ping_count
    BY <1>3, <2>1, <2>2, PingMissedEntry
  <2>6. ClearedSlot.addr = 0
    BY DEF ClearedSlot
  <2> QED BY <1>2, <2>3, <2>4, <2>5, <2>6
<1>5. CASE ~(TimesOut /\ last_request.cmd = "PING")
  BY <1>2, <1>5 DEF ListAfterCycle, Misses
<1> QED BY <1>4, <1>5

\* Neither a cycle
LEMMA CycleEntries ==
  ASSUME IInv, NEW U, Entries(slaves, U), Cycle
  PROVE  Entries(slaves', U)
<1> SUFFICES ASSUME NEW i \in Index PROVE Entry(slaves'[i], U)
  BY DEF Entries
<1>1. slaves' = ListAfterCycle /\ Entry(slaves[i], U)
  BY DEF Cycle, Entries
<1>2. CASE Misses(i)
  BY <1>1, <1>2, CycleEntry DEF Entry, ClearedSlot
<1>3. CASE ~Misses(i)
  BY <1>1, <1>3, CycleEntry DEF Entry
<1> QED BY <1>2, <1>3

\* nor the ACK of a PING changes who is listed where.
LEMMA PingAckEntries ==
  ASSUME IInv, NEW U, Entries(slaves, U), NEW src, ReceivePingAck(src)
  PROVE  Entries(slaves', U) /\ \A i \in Index : slaves'[i].addr = slaves[i].addr
<1> SUFFICES ASSUME NEW i \in Index
             PROVE  Entry(slaves'[i], U) /\ slaves'[i].addr = slaves[i].addr
  BY DEF Entries
<1>1. /\ slaves' = PingAnswered(slaves, last_request.dest, PING_PERIOD)
      /\ last_request.dest \in Address
  BY DEF ReceivePingAck, IInv, RequestInv
<1>2. ListInv(slaves) /\ Entry(slaves[i], U)
  BY ListOfIInv DEF Entries
<1>3. /\ slaves'[i].addr = slaves[i].addr /\ slaves'[i].uid = slaves[i].uid
      /\ slaves'[i].ping_error \in {0, slaves[i].ping_error}
  BY <1>1, <1>2, PingAnsweredEntry
<1> QED BY <1>2, <1>3 DEF Entry

\* The ACK of a GET_UID lists the slave, one without a UID by its address.
SentUid(uid) == IF uid = << >> THEN DefaultUid(new_slave_addr) ELSE uid

\* Its entry is the one offered, and another of the same UID is emptied.
LEMMA UidAckEntries ==
  ASSUME IInv, NEW U \in SUBSET String, Entries(slaves, U),
         NEW src, NEW uid \in String, NEW junk \in String,
         ReceiveUidAck(src, uid, junk), Len(uid) <= UID_SIZE, SentUid(uid) \in U
  PROVE  LET a == new_slave_addr
         IN  /\ a \in Address /\ slaves[a - 1].addr = 0
             /\ Entries(slaves', U)
             /\ slaves'[a - 1].addr = a /\ slaves'[a - 1].uid = Stored(SentUid(uid))
             /\ slaves'[a - 1].ping_error = 0
             /\ \A j \in Index : j # a - 1 =>
                  \/ slaves'[j] = slaves[j]
                  \/ /\ slaves'[j] = ClearedSlot /\ slaves[j].addr # 0
                     /\ \A v \in U : (slaves[j].uid = Stored(v) /\ Len(v) <= UID_SIZE) =>
                          ~Differ(v, SentUid(uid))
<1> DEFINE a == new_slave_addr
           sent == SentUid(uid)
<1> USE DEF String
<1>1. a \in Address /\ slaves[a - 1].addr = 0
  BY DEF ReceiveUidAck, IInv, OfferedSlotStaysFree
<1>2. slaves' = Added(slaves, a, sent \o junk, Len(sent))
  BY DEF ReceiveUidAck, SentUid
<1>3. Len(sent) <= UID_SIZE
  BY DEF SentUid, DefaultUid
<1>4. ListInv(slaves) /\ sent \in Seq(1 .. 255)
  BY ListOfIInv
<1> HIDE DEF a, sent
<1>5. /\ slaves'[a - 1].addr = a /\ slaves'[a - 1].uid = Stored(sent)
      /\ slaves'[a - 1].ping_error = 0
      /\ \A j \in Index : j # a - 1 =>
           \/ slaves'[j] = slaves[j]
           \/ slaves'[j] = ClearedSlot /\ slaves[j].addr # 0
  BY <1>1, <1>2, <1>3, <1>4, AddedEntry
<1>6. /\ Entries(slaves', U)
      /\ \A j \in Index, v \in U :
           (j # a - 1 /\ slaves[j].uid = Stored(v) /\ Len(v) <= UID_SIZE /\ Differ(v, sent)) =>
             slaves'[j] = slaves[j]
  <2>1. sent \in U
    BY DEF sent
  <2> QED BY <1>1, <1>2, <1>3, <1>4, <2>1, AddedEntries
<1>7. \A j \in Index : j # a - 1 =>
        \/ slaves'[j] = slaves[j]
        \/ /\ slaves'[j] = ClearedSlot /\ slaves[j].addr # 0
           /\ \A v \in U : (slaves[j].uid = Stored(v) /\ Len(v) <= UID_SIZE) => ~Differ(v, sent)
  BY <1>5, <1>6, Zenon
<1> QED BY <1>1, <1>5, <1>6, <1>7, Zenon DEF a, sent
-----------------------------------------------------------------------------
(* The invariant: what is listed is a UID that a slave may have. *)

UidInv == Entries(slaves, Listable)

\* UIDs are sequences of bytes, the digit of an address included.
LEMMA ListableUids == Listable \in SUBSET String
<1>1. \A a \in Address : 48 + a \in 1 .. 255
  BY DEF Address
<1>2. \A a \in Address : DefaultUid(a) \in Seq(1 .. 255)
  BY <1>1 DEF DefaultUid
<1> QED BY <1>2 DEF Listable, String

\* The list is empty at first.
LEMMA InitUidInv == Init => UidInv
BY DEF Init, UidInv, Entries, Entry, EmptyList, ClearedSlot

\* Only a slave that answers GET_UID is added, with its UID or the digit of its
\* address.
LEMMA UidAckListable ==
  ASSUME IInv, NEW src, NEW uid \in Uid, NEW junk, ReceiveUidAck(src, uid, junk)
  PROVE  SentUid(uid) \in Listable
<1>1. new_slave_addr \in Address
  BY DEF ReceiveUidAck, IInv, OfferedSlotStaysFree
<1> QED BY <1>1 DEF SentUid, Listable

\* Every step of the master keeps the entries those of UIDs it has listed.
LEMMA NextKeepsUidInv == IInv /\ UidInv /\ [Next]_vars => UidInv'
<1> SUFFICES ASSUME IInv, UidInv, [Next]_vars PROVE UidInv'
  OBVIOUS
<1>1. CASE UNCHANGED slaves
  BY <1>1 DEF UidInv, Entries
<1>2. ASSUME NEW src, ReceivePingAck(src) PROVE UidInv'
  BY <1>2, PingAckEntries DEF UidInv
<1>3. ASSUME NEW src, NEW uid \in Uid, NEW junk \in Junk, ReceiveUidAck(src, uid, junk)
      PROVE  UidInv'
  <2>1. uid \in String /\ junk \in String
    BY DEF String
  <2>2. CASE Len(uid) <= UID_SIZE
    BY <1>3, <2>1, <2>2, UidAckListable, ListableUids, UidAckEntries DEF UidInv
  <2>3. CASE ~(Len(uid) <= UID_SIZE)
    BY <1>1, <1>3, <2>3 DEF ReceiveUidAck
  <2> QED BY <2>2, <2>3
<1>4. CASE KeepAlive
  <2>1. Cycle
    BY <1>4 DEF KeepAlive, KeepAliveWaits, KeepAlivePings, KeepAliveDispatches
  <2> QED BY <2>1, CycleEntries DEF UidInv
<1>5. CASE UNCHANGED vars
  BY <1>1, <1>5 DEF vars
<1>6. ASSUME NEW known_version \in BOOLEAN, ReceiveSignal(known_version) PROVE UidInv'
  BY <1>1, <1>6 DEF ReceiveSignal, listVars
<1>7. ASSUME NEW src \in Source, ReceiveAck(src) \/ ReceiveOther(src) \/ ReceiveData(src)
      PROVE  UidInv'
  <2>1. CASE ReceiveOther(src) \/ ReceiveData(src) \/ ReceiveFindAck(src)
    BY <1>1, <2>1 DEF ReceiveOther, ReceiveData, ReceiveFindAck, listVars
  <2>2. CASE ReceiveAck(src)
    BY <1>2, <1>3, <2>1, <2>2 DEF ReceiveAck
  <2> QED BY <1>7, <2>1, <2>2
<1>8. CASE ReadToEnd
  BY <1>1, <1>8 DEF ReadToEnd, listVars
<1> QED BY <1>4, <1>5, <1>6, <1>7, <1>8 DEF Next

\* So that they are in every state.
LEMMA UidInductive == Spec => [](IInv /\ UidInv)
<1>1. Init => IInv /\ UidInv
  BY InitIInv, InitUidInv
<1>2. (IInv /\ UidInv) /\ [Next]_vars => (IInv /\ UidInv)'
  BY NextKeepsIInv, NextKeepsUidInv
<1> QED BY <1>1, <1>2, PTL DEF Spec
-----------------------------------------------------------------------------
(* Lookups *)

\* A slot with a slave that matches a UID stores that UID, as long as none is a
\* prefix of another.
LEMMA MatchIsOwn ==
  ASSUME UidInv, PrefixFree, NEW uid \in Listable,
         NEW i \in Index, slaves[i].addr # 0, Matches(slaves, i, uid)
  PROVE  slaves[i].uid = Stored(uid)
<1>1. PICK u \in Listable : Len(u) <= UID_SIZE /\ slaves[i].uid = Stored(u)
  BY DEF UidInv, Entries, Entry
<1> SUFFICES ASSUME u # uid PROVE FALSE
  BY <1>1
<1>2. PICK k \in 1 .. UID_SIZE : k <= Len(u) /\ k <= Len(uid) /\ u[k] # uid[k]
  BY DEF PrefixFree
<1>3. u \in Seq(1 .. 255)
  BY ListableUids DEF String
<1>4. k \in 1 .. Len(u)
  BY <1>2, <1>3
<1> QED BY <1>1, <1>2, <1>3, <1>4, DifferentUid

\* map_uid_to_addr() finds an entry of the UID, and does not miss one that has no
\* hole in front of it.
LEMMA LookupFindsSlave ==
  ASSUME IInv, UidInv
  PROVE  NeverMisdirected
<1> SUFFICES ASSUME PrefixFree, NEW uid \in Listable
             PROVE  LET a == MapUidToAddr(slaves, uid)
                        entries == {i \in Index : slaves[i].addr # 0 /\ slaves[i].uid = Stored(uid)}
                        InFront(i) == \A j \in 0 .. i : slaves[j].addr # 0
                    IN  /\ a # 0 => a - 1 \in entries
                        /\ (Len(uid) < UID_SIZE /\ \E i \in entries : InFront(i)) => a # 0
  BY DEF NeverMisdirected, LookupFindsOwner
<1> DEFINE a == MapUidToAddr(slaves, uid)
<1>1. \A i \in Index : slaves[i].addr \in {0, i + 1}
  BY ListOfIInv DEF ListInv, Slave
<1>2. ASSUME a # 0
      PROVE  a - 1 \in Index /\ slaves[a - 1].addr # 0 /\ slaves[a - 1].uid = Stored(uid)
  <2>1. PICK i \in Index : Matches(slaves, i, uid) /\ a = slaves[i].addr
    BY <1>2, LookupFirst
  <2>2. a = i + 1 /\ (i + 1) - 1 = i
    BY <1>1, <1>2, <2>1 DEF Index
  <2> HIDE DEF a
  <2> QED BY <1>2, <2>1, <2>2, MatchIsOwn
<1>3. ASSUME Len(uid) < UID_SIZE, NEW i \in Index, slaves[i].uid = Stored(uid),
             \A j \in 0 .. i : slaves[j].addr # 0
      PROVE  a # 0
  <2>1. Matches(slaves, i, uid)
    BY <1>3, OwnUid, ListableUids DEF String
  <2>2. PICK f \in Index : a = slaves[f].addr /\ \A j \in Index : Matches(slaves, j, uid) => f <= j
    BY <2>1, LookupFirst
  <2>3. f \in 0 .. i
    BY <2>1, <2>2 DEF Index
  <2> QED BY <1>3, <2>2, <2>3
<1> QED BY <1>2, <1>3, Zenon

\* A lookup gives the address of a slave with the UID looked up, and finds one
\* that is listed in front (map_uid_to_addr()), whatever joined and left before.
THEOREM LookupsAreTrue == Spec => []NeverMisdirected
<1>1. IInv /\ UidInv => NeverMisdirected
  BY LookupFindsSlave
<1> QED BY <1>1, UidInductive, PTL
-----------------------------------------------------------------------------
(* Drops *)

\* Stored UIDs that do not differ are the same.
LEMMA SameUid ==
  ASSUME PrefixFree, NEW u \in Listable, NEW v \in Listable, ~Differ(v, u)
  PROVE  u = v
BY DEF PrefixFree, Differ

\* An entry is emptied by its last missed ping or by another of the same UID.
LEMMA DropsHaveCause ==
  ASSUME IInv, UidInv, Next, NEW i \in Index, PrefixFree,
         slaves[i].addr # 0, slaves'[i].addr = 0
  PROVE  \/ /\ TimesOut /\ last_request.cmd = "PING" /\ last_request.dest = i + 1
            /\ slaves[i].ping_error = MAX_PING_ERROR - 1
         \/ /\ last_request.cmd = "GET_UID" /\ new_slave_addr # i + 1
            /\ slaves[i].uid = slaves'[new_slave_addr - 1].uid
<1>1. slaves' # slaves
  OBVIOUS
<1>2. CASE KeepAlive
  <2>1. slaves' = ListAfterCycle
    BY <1>2 DEF KeepAlive, KeepAliveWaits, KeepAlivePings, KeepAliveDispatches, Cycle
  <2>2. Misses(i) /\ slaves[i].ping_error = MAX_PING_ERROR - 1
    BY <2>1, CycleEntry
  <2> QED BY <2>2 DEF Misses
<1>3. ASSUME NEW src, NEW uid \in Uid, NEW junk \in Junk, ReceiveUidAck(src, uid, junk)
      PROVE  /\ last_request.cmd = "GET_UID" /\ new_slave_addr # i + 1
             /\ slaves[i].uid = slaves'[new_slave_addr - 1].uid
  <2>1. uid \in String /\ junk \in String
    BY DEF String
  <2>2. Len(uid) <= UID_SIZE
    BY <1>1, <1>3 DEF ReceiveUidAck
  <2> DEFINE a == new_slave_addr
             sent == SentUid(uid)
  <2>3. sent \in Listable
    BY <1>3, UidAckListable
  <2>4. /\ a \in Address /\ slaves[a - 1].addr = 0
        /\ slaves'[a - 1].addr = a /\ slaves'[a - 1].uid = Stored(sent)
        /\ \A j \in Index : j # a - 1 =>
             \/ slaves'[j] = slaves[j]
             \/ \A v \in Listable : (slaves[j].uid = Stored(v) /\ Len(v) <= UID_SIZE) => ~Differ(v, sent)
    <3>1. Entries(slaves, Listable) /\ Listable \in SUBSET String
      BY ListableUids DEF UidInv
    <3> QED BY <1>3, <2>1, <2>2, <2>3, <3>1, UidAckEntries
  <2> HIDE DEF a, sent
  <2>5. i # a - 1 /\ slaves'[i] # slaves[i]
    BY <2>4
  <2>6. PICK v \in Listable : Len(v) <= UID_SIZE /\ slaves[i].uid = Stored(v)
    BY DEF UidInv, Entries, Entry
  <2>7. v = sent
    BY <2>3, <2>4, <2>5, <2>6, SameUid
  <2>8. a # i + 1
    BY <2>5 DEF Index
  <2> QED BY <1>3, <2>4, <2>6, <2>7, <2>8 DEF a, ReceiveUidAck
<1>4. ASSUME NEW src, ReceivePingAck(src) PROVE FALSE
  BY <1>4, PingAckEntries DEF UidInv
<1>5. ASSUME NEW known_version \in BOOLEAN, ReceiveSignal(known_version) PROVE FALSE
  BY <1>1, <1>5 DEF ReceiveSignal, listVars
<1>6. ASSUME NEW src, ReceiveOther(src) \/ ReceiveData(src) \/ ReceiveFindAck(src) PROVE FALSE
  BY <1>1, <1>6 DEF ReceiveOther, ReceiveData, ReceiveFindAck, listVars
<1>7. CASE ReadToEnd
  BY <1>1, <1>7 DEF ReadToEnd, listVars
<1> QED BY <1>2, <1>3, <1>4, <1>5, <1>6, <1>7 DEF Next, ReceiveAck

\* A slave is dropped for its own missed pings or because its UID joined again,
\* never on behalf of another slave.
THEOREM DropsAreJustified == Spec => DroppedForCause
<1> DEFINE Dropped(i) == PrefixFree /\ slaves[i].addr # 0 /\ slaves'[i].addr = 0
           Cause(i) == \/ /\ TimesOut /\ last_request.cmd = "PING" /\ last_request.dest = i + 1
                          /\ slaves[i].ping_error = MAX_PING_ERROR - 1
                       \/ /\ last_request.cmd = "GET_UID" /\ new_slave_addr # i + 1
                          /\ slaves[i].uid = slaves'[new_slave_addr - 1].uid
<1>1. (IInv /\ UidInv) /\ [Next]_vars => [\A i \in Index : Dropped(i) => Cause(i)]_vars
  BY DropsHaveCause
<1>2. DroppedForCause <=> [][\A i \in Index : Dropped(i) => Cause(i)]_vars
  BY DEF DroppedForCause
<1> HIDE DEF Dropped, Cause
<1> QED BY <1>1, <1>2, UidInductive, PTL DEF Spec
-----------------------------------------------------------------------------
(* The report *)

\* Slots that are taken from the first one on are as many as the number of the
\* first free one.
LEMMA TakenInFront ==
  ASSUME \A i \in Taken : 0 .. i \subseteq Taken
  PROVE  \E f \in 0 .. MAX_SLAVES : Taken = 0 .. f - 1 /\ Cardinality(Taken) = f
<1>1. PICK f \in 0 .. MAX_SLAVES : Taken = 0 .. f - 1
  <2>1. CASE Taken = Index
    BY <2>1 DEF Index
  <2>2. CASE Taken # Index
    <3> DEFINE free == Index \ Taken
    <3>1. free # {} /\ free \in SUBSET Index
      BY <2>2 DEF Taken
    <3>2. PICK f \in free : \A j \in free : f <= j
      BY <3>1, SmallestIndex
    <3>3. f \in 0 .. MAX_SLAVES /\ \A j \in 0 .. f - 1 : j \in Taken
      BY <3>2 DEF Index
    <3>4. ASSUME NEW i \in Taken PROVE i \in 0 .. f - 1
      <4>1. i \in Index /\ f \notin 0 .. i
        BY <3>2, <3>4 DEF Taken
      <4> QED BY <3>3, <4>1 DEF Index
    <3> QED BY <3>3, <3>4
  <2> QED BY <2>1, <2>2
<1>2. Cardinality(0 .. f - 1) = f
  <2>1. 0 \in Int /\ f - 1 \in Int
    OBVIOUS
  <2>2. Cardinality(0 .. f - 1) = IF 0 > f - 1 THEN 0 ELSE (f - 1) - 0 + 1
    BY <2>1, FS_Interval
  <2> QED BY <2>2
<1> QED BY <1>1, <1>2

\* The entries of the report lie one after the other.
LEMMA EntryOffsets ==
  ASSUME NEW i \in Index, NEW j \in Index, i < j
  PROVE  Offset(i) \in Nat /\ Offset(j) \in Nat /\ Offset(i) + EntrySize <= Offset(j)
<1>1. i \in Nat /\ j \in Nat /\ i + 1 <= j /\ EntrySize \in Nat
  BY SlaveListAssumption DEF Index, EntrySize
<1> HIDE DEF EntrySize
<1>2. i * EntrySize \in Nat /\ j * EntrySize \in Nat /\ (i + 1) * EntrySize <= j * EntrySize
  BY <1>1
<1>3. (i + 1) * EntrySize = i * EntrySize + EntrySize
  BY <1>1
<1> QED BY <1>2, <1>3 DEF Offset

LEMMA EntryBytes ==
  ASSUME NEW i \in Index, NEW k \in 1 .. EntrySize
  PROVE  /\ Offset(i) \in Nat /\ EntrySize \in Nat \ {0}
         /\ Offset(i) + k \in UidsBytes /\ (Offset(i) + k) - Offset(i) = k
<1>1. i \in Nat /\ i + 1 <= MAX_SLAVES /\ MAX_SLAVES \in Nat /\ EntrySize \in Nat \ {0}
  BY SlaveListAssumption DEF Index, EntrySize
<1> HIDE DEF EntrySize
<1>2. i * EntrySize \in Nat /\ (i + 1) * EntrySize <= MAX_SLAVES * EntrySize
      /\ MAX_SLAVES * EntrySize \in Nat
  BY <1>1
<1>3. (i + 1) * EntrySize = i * EntrySize + EntrySize
  BY <1>1
<1> HIDE DEF Index
<1> QED BY <1>1, <1>2, <1>3 DEF Offset, UidsBytes

\* However far the UIDs of other slots were copied, the bytes of a slot's own UID
\* are in its entry: those of slots in front were written before.
LEMMA OwnBytesCopied ==
  ASSUME NEW s, NEW uids, NEW i \in Index, s[i].addr # 0,
         NEW k \in 1 .. EntrySize, k <= Strlen(s, i)
  PROVE  UidsCopied(s, uids)[Offset(i) + k] = ByteFrom(s, i, k)
<1> DEFINE b == Offset(i) + k
           writers == {j \in Index : Writes(s, j, b)}
<1>1. b \in UidsBytes /\ b - Offset(i) = k /\ Offset(i) \in Nat
  BY EntryBytes
<1>2. Strlen(s, i) \in Nat
  BY StrlenEnds
<1>3. i \in writers
  <2>1. k \in 1 .. Strlen(s, i)
    BY <1>2
  <2> QED BY <1>1, <2>1 DEF Writes
<1>4. ASSUME NEW j \in writers PROVE j <= i
  <2> SUFFICES ASSUME i < j PROVE FALSE
    BY DEF Index
  <2>1. j \in Index /\ b - Offset(j) >= 1
    BY <1>4 DEF Writes
  <2>2. Offset(i) \in Nat /\ Offset(j) \in Nat /\ Offset(i) + EntrySize <= Offset(j)
    BY <2>1, EntryOffsets
  <2>3. EntrySize \in Nat /\ b = Offset(i) + k
    BY EntryBytes
  <2> HIDE DEF b
  <2> QED BY <2>1, <2>2, <2>3
<1>5. (CHOOSE w \in writers : \A j \in writers : j <= w) = i
  <2> DEFINE w == CHOOSE w \in writers : \A j \in writers : j <= w
  <2>1. w \in writers /\ \A j \in writers : j <= w
    BY <1>3, <1>4, Zenon
  <2>2. w <= i /\ i <= w /\ w \in Index
    BY <1>3, <1>4, <2>1
  <2> HIDE DEF w, writers
  <2>3. w = i
    BY <2>2 DEF Index
  <2> QED BY <2>3 DEF w
<1>6. UidsCopied(s, uids)[b] = ByteFrom(s, i, b - Offset(i))
  <2>1. writers # {}
    BY <1>3
  <2>2. UidsCopied(s, uids)[b] = IF writers = {} THEN uids[b]
          ELSE ByteFrom(s, CHOOSE w \in writers : \A j \in writers : j <= w,
                        b - Offset(CHOOSE w \in writers : \A j \in writers : j <= w))
    BY <1>1, Zenon DEF UidsCopied
  <2> QED BY <1>5, <2>1, <2>2, Zenon
<1> QED BY <1>1, <1>6

\* The entries of the taken slots, if these are the first f, keep what was
\* copied; the others become empty.
LEMMA EmptiedEntries ==
  ASSUME NEW uids, NEW f \in 0 .. MAX_SLAVES, NEW i \in Index, NEW k \in 1 .. EntrySize
  PROVE  /\ i < f => Emptied(uids, f)[Offset(i) + k] = uids[Offset(i) + k]
         /\ ~(i < f) => Emptied(uids, f)[Offset(i) + 1] = 0
<1>1. /\ Offset(i) \in Nat /\ EntrySize \in Nat \ {0}
      /\ Offset(i) + k \in UidsBytes
  BY EntryBytes
<1>2. Offset(i) + 1 \in UidsBytes
  <2>1. 1 \in 1 .. EntrySize
    BY <1>1
  <2> QED BY <2>1, EntryBytes
<1>3. ASSUME i < f, NEW j \in f .. MAX_SLAVES - 1 PROVE Offset(i) + k # Offset(j) + 1
  <2>1. j \in Index /\ i < j
    BY <1>3 DEF Index
  <2>2. Offset(j) \in Nat /\ Offset(i) + EntrySize <= Offset(j)
    BY <2>1, EntryOffsets
  <2> HIDE DEF Index
  <2> QED BY <1>1, <2>2
<1>4. ASSUME ~(i < f) PROVE i \in f .. MAX_SLAVES - 1
  BY <1>4 DEF Index
<1>5. i < f => Emptied(uids, f)[Offset(i) + k] = uids[Offset(i) + k]
  BY <1>1, <1>3 DEF Emptied
<1>6. ~(i < f) => Emptied(uids, f)[Offset(i) + 1] = 0
  BY <1>2, <1>4, Zenon DEF Emptied
<1> QED BY <1>5, <1>6

\* So the entry of a listed slave starts with the bytes of its UID.
LEMMA ReportedUid ==
  ASSUME UidInv, NEW ptr, NEW f \in 0 .. MAX_SLAVES, NEW i \in Index, i < f,
         slaves[i].addr # 0, NEW uids, uids = Emptied(UidsCopied(slaves, ptr.uids), f),
         NEW u \in Listable, Len(u) <= UID_SIZE, slaves[i].uid = Stored(u)
  PROVE  /\ Len(u) \in 1 .. EntrySize
         /\ \A k \in 1 .. Len(u) : uids[Offset(i) + k] = u[k]
<1>1. u \in Seq(1 .. 255) /\ Len(u) \in 1 .. EntrySize
  <2>1. u \in Seq(1 .. 255)
    BY ListableUids DEF String
  <2>2. Len(u) # 0
    <3>1. CASE u \in Uid \ {<< >>}
      BY <2>1, <3>1, EmptySeq
    <3>2. ASSUME NEW a \in Address, u = DefaultUid(a) PROVE Len(u) # 0
      BY <3>2 DEF DefaultUid
    <3> QED BY <3>1, <3>2 DEF Listable
  <2> QED BY <2>1, <2>2, SlaveListAssumption DEF EntrySize
<1>2. /\ Strlen(slaves, i) \in Nat /\ Strlen(slaves, i) >= Len(u)
      /\ \A k \in 1 .. Len(u) : ByteFrom(slaves, i, k) = u[k]
  BY <1>1, StoredStrlen
<1>3. ASSUME NEW k \in 1 .. Len(u) PROVE uids[Offset(i) + k] = u[k]
  <2>1. k \in 1 .. EntrySize /\ k <= Strlen(slaves, i)
    BY <1>1, <1>2, SlaveListAssumption DEF EntrySize
  <2>2. uids[Offset(i) + k] = UidsCopied(slaves, ptr.uids)[Offset(i) + k]
    BY <2>1, EmptiedEntries
  <2>3. UidsCopied(slaves, ptr.uids)[Offset(i) + k] = ByteFrom(slaves, i, k)
    BY <2>1, OwnBytesCopied
  <2> QED BY <1>2, <2>2, <2>3
<1> QED BY <1>1, <1>3

\* A lookup of bytes that start with a UID that ends before UID_SIZE finds a slave of that
\* UID, if one is listed and the slots in front of it are taken.
LEMMA LookupOfEntry ==
  ASSUME IInv, UidInv, PrefixFree, NEW i \in Index, 0 .. i \subseteq Taken,
         NEW u \in Listable, Len(u) < UID_SIZE, slaves[i].uid = Stored(u),
         NEW arg, Len(u) <= Len(arg), Len(arg) \in Nat, \A k \in 1 .. Len(u) : arg[k] = u[k]
  PROVE  LET a == MapUidToAddr(slaves, arg) IN a # 0 /\ slaves[a - 1].uid = slaves[i].uid
<1>1. u \in Seq(1 .. 255) /\ Len(u) \in Nat
  BY ListableUids DEF String
<1>2. Strlen(slaves, i) = Len(u) /\ \A k \in 1 .. Len(u) : ByteFrom(slaves, i, k) = u[k]
  BY <1>1, StoredStrlen
<1>3. Matches(slaves, i, arg)
  <2>1. \A k \in 1 .. Len(u) : k <= Len(arg) /\ arg[k] = ByteFrom(slaves, i, k)
    BY <1>1, <1>2
  <2> QED BY <1>2, <2>1 DEF Matches
<1>4. PICK j \in Index : /\ Matches(slaves, j, arg) /\ MapUidToAddr(slaves, arg) = slaves[j].addr
                         /\ \A n \in Index : Matches(slaves, n, arg) => j <= n
  BY <1>3, LookupFirst
<1>5. j \in Taken
  <2>1. j \in 0 .. i
    BY <1>3, <1>4 DEF Index
  <2> QED BY <2>1
<1>6. slaves[j].addr # 0 /\ slaves[j].addr = j + 1 /\ (j + 1) - 1 = j
  <2>1. slaves[j].addr \in {0, j + 1}
    BY ListOfIInv DEF ListInv, Slave
  <2> QED BY <1>5, <2>1 DEF Taken, Index
<1>7. PICK v \in Listable : Len(v) <= UID_SIZE /\ slaves[j].uid = Stored(v)
  BY <1>6 DEF UidInv, Entries, Entry
<1>8. v \in Seq(1 .. 255) /\ Len(v) \in Nat
  BY <1>7, ListableUids DEF String
<1>9. /\ Strlen(slaves, j) \in Nat /\ Strlen(slaves, j) >= Len(v)
      /\ \A k \in 1 .. Len(v) : ByteFrom(slaves, j, k) = v[k]
  BY <1>7, <1>8, StoredStrlen
<1>10. v = u
  <2> SUFFICES ASSUME v # u PROVE FALSE
    OBVIOUS
  <2>1. PICK k \in 1 .. UID_SIZE : k <= Len(u) /\ k <= Len(v) /\ u[k] # v[k]
    BY <1>7 DEF PrefixFree
  <2>2. k \in 1 .. Len(u) /\ k \in 1 .. Len(v) /\ k \in 1 .. Strlen(slaves, j)
    BY <1>1, <1>8, <1>9, <2>1
  <2>3. arg[k] = v[k]
    BY <1>4, <1>9, <2>2 DEF Matches
  <2> QED BY <2>1, <2>2, <2>3
<1> QED BY <1>4, <1>6, <1>7, <1>10

\* The length of a sequence given as a function.
LEMMA LengthOf ==
  ASSUME NEW n \in Nat, NEW seq, seq = [k \in 1 .. n |-> seq[k]]
  PROVE  Len(seq) = n
<1> DEFINE S == {seq[k] : k \in 1 .. n}
<1>1. seq \in [1 .. n -> S]
  OBVIOUS
<1>2. seq \in Seq(S)
  BY <1>1, SeqDef
<1>3. Len(seq) \in Nat /\ DOMAIN seq = 1 .. Len(seq)
  BY <1>2, LenProperties
<1>4. 1 .. Len(seq) = 1 .. n
  BY <1>1, <1>3
<1> HIDE DEF S
<1> QED BY <1>3, <1>4

\* opl_get_slave_list() reports the slaves, whatever struct it is given.
LEMMA ReportIsTrue ==
  ASSUME IInv, UidInv, NEW ptr \in OplSlaveList
  PROVE  ReportsInto(ptr)
<1> SUFFICES ASSUME PrefixFree, \A i \in Taken : 0 .. i \subseteq Taken
             PROVE  Reports(SlaveListOf(slaves, ptr))
  BY DEF ReportsInto
<1>1. PICK f \in 0 .. MAX_SLAVES : Taken = 0 .. f - 1 /\ Cardinality(Taken) = f
  BY TakenInFront
<1> DEFINE list == SlaveListOf(slaves, ptr)
<1>2. list.uids = Emptied(UidsCopied(slaves, ptr.uids), f)
  BY <1>1 DEF SlaveListOf, Taken
<1> HIDE DEF list
<1>3. ASSUME NEW i \in Index
      PROVE  /\ EntryOf(list, i) = [k \in 1 .. EntrySize |-> list.uids[Offset(i) + k]]
             /\ Len(EntryOf(list, i)) = EntrySize
             /\ EntrySize \in Nat /\ 1 \in 1 .. EntrySize
             /\ i \in Taken <=> i < f
  <2>1. EntrySize \in Nat /\ 1 \in 1 .. EntrySize
    BY EntryBytes, SlaveListAssumption DEF EntrySize
  <2>2. EntryOf(list, i) = [k \in 1 .. EntrySize |-> list.uids[Offset(i) + k]]
    BY DEF EntryOf
  <2>3. Len(EntryOf(list, i)) = EntrySize
    BY <2>1, <2>2, LengthOf
  <2>4. i \in Taken <=> i < f
    BY <1>1 DEF Index
  <2> QED BY <2>1, <2>2, <2>3, <2>4
<1>4. ASSUME NEW i \in Index, i \in Taken
      PROVE  /\ EntryOf(list, i)[1] # 0
             /\ slaves[i].uid[UID_SIZE] = 0 => Addresses(list, i)
  <2>1. slaves[i].addr # 0 /\ i < f
    BY <1>3, <1>4 DEF Taken
  <2>2. PICK u \in Listable : Len(u) <= UID_SIZE /\ slaves[i].uid = Stored(u)
    BY <2>1 DEF UidInv, Entries, Entry
  <2>3. u \in Seq(1 .. 255)
    BY <2>2, ListableUids DEF String
  <2>4. /\ Len(u) \in 1 .. EntrySize
        /\ \A k \in 1 .. Len(u) : list.uids[Offset(i) + k] = u[k]
    BY <1>2, <2>1, <2>2, ReportedUid
  <2>5. \A k \in 1 .. Len(u) : EntryOf(list, i)[k] = u[k]
    <3>1. 1 .. Len(u) \subseteq 1 .. EntrySize
      BY <1>3, <2>4
    <3> QED BY <1>3, <2>4, <3>1
  <2>6. EntryOf(list, i)[1] # 0
    <3>1. 1 \in 1 .. Len(u)
      BY <2>4
    <3>2. u[1] \in 1 .. 255
      BY <2>3, <3>1, ElementOfSeq
    <3> QED BY <2>5, <3>1, <3>2, NotZero, Zenon
  <2>7. ASSUME slaves[i].uid[UID_SIZE] = 0 PROVE Addresses(list, i)
    <3>1. Len(u) < UID_SIZE
      <4> SUFFICES ASSUME Len(u) = UID_SIZE PROVE FALSE
        BY <2>2, <2>4, SlaveListAssumption
      <4>1. UID_SIZE \in 1 .. UID_SIZE /\ UID_SIZE <= Len(u) /\ UID_SIZE \in 1 .. Len(u)
        BY SlaveListAssumption
      <4>2. Stored(u)[UID_SIZE] = u[UID_SIZE]
        BY <4>1 DEF Stored
      <4>3. u[UID_SIZE] \in 1 .. 255
        BY <2>3, <4>1, ElementOfSeq
      <4> QED BY <2>2, <2>7, <4>2, <4>3, NotZero, Zenon
    <3>2. 0 .. i \subseteq Taken
      BY <1>4
    <3>3. Len(u) <= Len(EntryOf(list, i)) /\ Len(EntryOf(list, i)) \in Nat
      BY <1>3, <2>4
    <3> QED BY <2>2, <2>5, <3>1, <3>2, <3>3, LookupOfEntry DEF Addresses
  <2> QED BY <2>6, <2>7
<1>5. ASSUME NEW i \in Index, i \notin Taken PROVE EntryOf(list, i)[1] = 0
  <2>1. Emptied(UidsCopied(slaves, ptr.uids), f)[Offset(i) + 1] = 0
    BY <1>3, <1>5, EmptiedEntries
  <2> QED BY <1>2, <1>3, <2>1
<1> QED BY <1>4, <1>5 DEF Reports, list

\* The report names every listed slave by bytes that address it and no other, while
\* the slaves fill the first slots: whatever the caller's struct held before
\* (get_slave_list()).
THEOREM ReportsAreTrue ==
  Spec => [](ReportsSlavesInFront /\ \A ptr \in OplSlaveList : ReportsInto(ptr))
<1>1. ASSUME NEW b \in {0, 1} PROVE FilledWith(b) \in OplSlaveList
  BY DEF FilledWith, OplSlaveList
<1>2. IInv /\ UidInv => ReportsSlavesInFront /\ \A ptr \in OplSlaveList : ReportsInto(ptr)
  BY <1>1, ReportIsTrue DEF ReportsSlavesInFront
<1> QED BY <1>2, UidInductive, PTL
=============================================================================
