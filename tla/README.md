# Verification of OpenPAYGO Link

TLA+ models of the OpenPAYGO Link firmware library (`src/OPL`), the TLC runs
that check them on small instances, and TLAPS proofs for every value of the
constants. OpenPAYGO Link lets a master (e.g. a solar home system) find, name,
poll and talk to slave devices on one shared single-wire (LIN) bus.

Line numbers are those of the repository: `oplink_com.c` is
`src/OPL/Core/oplink_com.c`, `oplink_master.c` and `slave_list.c` are in
`src/OPL/Master`, `oplink_slave.c` is in `src/OPL/Slave`, `crc16.c` and
`byte_utils.c` are in `src/OPL/Core/Helpers`, `uart.c` and `timer.c` in
`src/Examples/STM8S003/HAL`.

## 1. Inventory

| Component | State | Operations | Correct when |
|---|---|---|---|
| Request queue (`oplink_com.c:59-75, 316-363`) | ring `head`, `tail`, `count`, `elems` | `push_request`, `dispatch_request` | first in, first out; nothing lost, overwritten or sent twice; one awaited reply at a time |
| Link layer (`oplink_com.c`) | `rx_frame`, `last_request`, `opl_node.bus_busy`, `busy_count` | `uart_rx_callback`, `update_node_state`, `safe_to_send`, `opl_send_bytes`, `opl_parse`, `opl_read`, `opl_send_reply` | never deaf for ever, no held frame overwritten or dropped, no frame of others cut, every awaited reply ends |
| Slave list (`slave_list.c`) | `slaves[5]`, `ping_flag`, `last` | `slave_list_add`, `slave_ping_error`, `slave_list_ping_tick`, `next_slave_ping`, `map_uid_to_addr`, `get_slave_list` | one slot per slave, no due ping forgotten, a UID leads to its own slave |
| Master (`oplink_master.c`) | `new_slave_addr`, `seconds` | handlers of SIGNAL and ACK, `opl_keep_alive`, `opl_push_request`, `opl_push_broadcast` | an offered address stays free, pings and misses are booked on the slave pinged, silent slaves are dropped |
| Slave (`oplink_slave.c`) | `bus_state`, `received_ping`, `nonce`, address, four counters | `check_bus_connection`, `join_bus`, `check_handshake`, `check_ping`, `route_command` | limits are kept, it starts over only for cause, and always joins again |
| UART HAL (`uart.c`) | byte FIFO, `mute`, `busy`, addresses | interrupt, read, write, flush | delivers whole frames addressed to the node; `busy` tells of every frame on the bus |
| Timer HAL (`timer.c`) and the 50 ms test | `g_millis`, `old_millis` | interrupt, `millis`, the test in `opl_keep_alive` | cycles are 50 ms apart, whatever is read while the counter counts |
| Example main loops (`Basic_Single_Slave/*/main.c`) | - | parse, read, reply, keep-alive, for ever | - |
| CRC and byte order (`Helpers`) | - | `update_crc16`, `opl_hton16/32` | the CRC is the division it stands for |
| Delay, EEPROM, GPIO, PWM, adapters | registers | - | out of scope |

How they interact. The UART interrupt calls `uart_rx_callback`, which writes
`rx_frame` under the main loop's feet, and the timer interrupt counts while
`millis` reads the count: this is the concurrency inside a node. The main loop calls `opl_parse` (which routes commands to the master's or
slave's `route_command`), lets the application read and reply, and calls
`opl_keep_alive`, which every 50 ms runs timeouts, the bus sample, the state
machine and at most one transmission. A master and its slaves meet on the bus
only: frames may be lost, cut by collisions, late, or answered after the
request was given up, and there are no sequence numbers.

The handshake: SIGNAL (slave to master, from address 0, with a nonce), FIND
(to address 0, nonce and new address), ACK, GET_UID, ACK with the UID, PING,
ACK. Then a PING every 30 ticks; three missed ones free the slot.

What is hard here: a reply is matched to the last request by its source alone;
`new_slave_addr` and the addresses of queued requests are used long after they
were chosen; every wait is a counter compared with 0 or with `==`; a node that
fails to turn its receiver on again is deaf without anybody noticing.
`PROJECT.json` lists the hazards one by one with the properties for them.

## 2. Modules

    RequestService  <-implements-  RequestQueue   <- MCRequestQueue, RequestQueueProofs
    SlaveList       <-extends-     Master         <- MCMaster, MasterProofs
    OplCom          <-extends-     LinkNode       <- MCLinkNode, LinkNodeProofs
    SlaveProtocol   <-implements-  Slave          <- SlaveProofs
    Master, SlaveProtocol  <-compose-  Network    <- MCNetwork, NetworkProofs <- HandshakeProofs
    Membership      <-implements-  Network
    Crc16           <-extends-     Wire           <- MCWire, WireProofs
                                   Clock          <- ClockProofs

They are layers. Wire delivers bytes as frames, LinkNode takes a frame as one
event; LinkNode decides what reaches the handlers and when a node sends, Master
and Slave take that as given; Slave keeps the promises of SlaveProtocol, Network
builds its slaves from it. Clock says what a keep-alive cycle is worth as a
measure of time and what the sample of the bus in it can miss.

**RequestService** is the abstract service: a sequence of waiting requests and
at most one awaited reply. **RequestQueue** is the C ring; pointers are indices,
a buffer is the pair of pointer and length that the queue stores (it never
copies the bytes). All of it runs in the main loop, so each function is a step;
`DispatchSent` and `DispatchBusy` are the two outcomes of `opl_send_bytes`.

**SlaveList** has one operator per function of `slave_list.c`, from the array
before to the array after. UIDs are byte sequences and `strlen` is modelled over
the memory layout of `slave_t` (`ByteFrom`), because a UID that fills its field
has no terminating zero. The report of `get_slave_list` is the bytes of its
array in memory order: what `strlen` counts past a UID is copied as well, into
the next entry or past the struct, no terminating zero is, and what the struct
held before stays where nothing is written (`UidsCopied`, `Emptied`). The write
to `slaves[255]` by
`slave_clear_slot(0 - 1)` is modelled as having no effect, which is what
happens on the STM8S003, where that address holds no memory.
**Master** is `oplink_master.c` over it: one action per received command and
one per branch of `opl_keep_alive`. The link layer appears as what it lets
through (`Heard`: anything while no reply is awaited, otherwise frames of the
node asked), its timeout, and a nondeterministic answer to "is the bus free".
A reply with data, or one of no bytes, is `Received` until the application has
read it to its end (`ReceiveData`, `ReadToEnd`): it may do so at any time or
never, and until then the master sends nothing and hears nobody.
A request of the application may be sent to any address
(`KeepAliveDispatches`): more than the code does, where the address was that of
a listed slave when the request was pushed.

**OplCom** has one operator per function of `oplink_com.c`, on the structs of
that file. **LinkNode** is a node's main loop over it, with the UART interrupt
between any two steps where it can make a difference; the `Slave` constant
chooses the master's or the slave's `opl_keep_alive`. A frame is three events
(starts, completes, breaks off) instead of its bytes. Timing enters once: the
microseconds between sampling the bus and transmitting are shorter than any
frame (4 bytes at 19200 baud take 2 ms), so a frame that starts inside this
window does not complete inside it. It is `fresh` when it starts before the last
look at the busy flag, which sees it, and `late` after that look; a late one is cut,
by the design of the code. A frame whose address byte was sent while the
receiver was off is not a frame for this node but other traffic, heard at its next
byte. Undefined contents of a flushed
or partly overwritten buffer are a free choice (`InBuffer`).

**SlaveProtocol** is what a slave promises the rest of the bus: its states in
their order with the address and the nonce that go with them, and a way back to
the start at any time. **Slave** is `oplink_slave.c`: `opl_keep_alive` is four
actions, by the state that `check_bus_connection` leaves, and `route_command` is
three. The variable `seen` is a history of what the bus did, for the properties
only: nothing reads it. GET_UID and PING change nothing but what the actions
say; the ACKs they force out are frames of LinkNode and Network.

**Network** is a master, its slaves and the bus. Each step of the master is an
action of Master together with what it reads from and writes to the bus; the
slaves take the steps of SlaveProtocol. A node holds one frame at a time with
its receiver off (`held`, `inbox`), so that frames sent to it meanwhile are
missed; a frame that is neither answered, awaited nor dropped keeps the receiver
off until it is given up (`Ignored`). A FIND and a broadcast of the application
occupy every slave that hears them, and a broadcast may be replied to. The constant `Faults` says what the bus
may do: lose or garble any frame, let a slave send although an answer is due
(it did not hear the request), or take the master's memory. Time is not counted
but compared: a slave whose main loop turns deals with a request before the
master gives up the reply (`Prompt`), no slave sends unasked while an answer is
due (`Quiet`, the bus sample and the random back-off), a receiver that is off is on
again before the master repeats what it missed (`MayTimeOut`;
`SEND_REPLY_TIMEOUT` is the shorter one), a broadcast is read within a cycle
(`BroadcastRead`), and no slave signals twice between a ping that was missed and
the next one that is heard (`signalled`): from one SIGNAL of a slave to its next it
takes 30 cycles (`DISCONNECT_MAX_COUNT` and `PLUG_IN_MAX_COUNT`), 1.5 s, and the
master repeats a ping after 150 ms, or after 750 ms when all five slaves are silent.
That other slaves signal meanwhile, each once, is allowed.
`ping_count` and the cycles between ticks are as small as they can be, so that a
ping is due all the time.

**Membership** is what the bus is for, without its frames: which address each
slave has, which slaves believe they are connected, and whose UID the master
lists under which address. An address is taken while it is free in the list and
nobody has it (`Take`), a UID is entered in a free slot and at most one older entry
of it removed (`Enlist`), a slave connects while its UID is listed under its address
(`Connect`), leaves at any time without the master's knowledge (`Leave`), and only an
address that nobody has is dropped (`Drop`). Network maps `node[n].addr`, the
slaves in state `Connected` and the slots' UIDs to its variables (`AddrOf`,
`ConnectedNodes`, `ListedUids`); every frame that is sent, lost or missed is a
stutter of it.

**Crc16** is `update_crc16` bit by bit, a number being the set of its bits, and
next to it the long division of polynomials that the CRC stands for; the two are
proved equal (section 5). **Wire** is
the way of a frame byte by byte: `opl_send_bytes`, the line, the interrupt with
address match, mute and ring buffer, `uart_rx_callback` with its static counters,
and the reading by `opl_parse` and `opl_read` with the CRC. On the line one byte
of each transmission may be altered or lost, and any transmission may break off.
`busy`, `mute` and `is_addr` are bits of one byte, and `uart_clear_busy_flag`
may be compiled to a read, a change and a write, between which the interrupt's
change of `mute` is lost: action `Undone`. (The same write can also bring an old
`is_addr` back, which the interrupt sets again before it is read.)

**Clock** is the millisecond counter, which `millis` reads in two halves in
either order while the interrupt may count, the test of `opl_keep_alive` with
its second reading, and the busy flag that `update_node_state` reads and clears
in two steps. A poll of the counter takes less than a tick up to the storing of the
time; what comes behind it may take as long as any turn of the loop. A slave that
resets clears the flag too, before the sample or after it (`SetsDefault`,
`uart.c:50`), and backs off as long as before.

`MAX_SLAVES`, time limits, timeouts, UIDs, addresses, nonces and sizes are
CONSTANTS with named assumptions as weak as the code allows (addresses are 1 to
14, because 0 is a slave without one and 15 the master). The definitions marked
"Mutation" are broken variants of the one that follows them; they show for each
property what kind of bug it notices, and no action uses them.

## 3. What the runs check

| Run | Instance | Checks |
|---|---|---|
| `request_queue` | 5 slots as in the code, 2 destinations, with and without reply | the ring implements `RequestService` |
| `master` | 2 slots, UIDs of 2 and of 3 bytes in a field of 3 and a slave without one, bytes after the UID | `NoPingForgotten`, `OfferedSlotStaysFree`, `PingBookedOnListedSlave`, `NeverMisdirected`, `ReportsSlavesInFront`, `DroppedForCause`, `EveryDueSlaveIsPinged`, `SilentSlaveIsDropped` |
| `link_master` | the code's timeouts (2 and 3), frames of 0 to 2 bytes, half-read frames | `OneFrameAtATime`, `SendDropsNoFrame`, `PendingRequestIsKept` |
| `link_slave` | the same with back-off 1 or 2, SIGNALs and resets in any cycle | `DeafOnlyWhileHolding`, `NeverCutsFrame`, `HearsAgain`, `RequestEnds`, `SilenceLetsSend` |
| `slave` | limits 8, 5, 12, 20 cycles, 2 addresses, 2 nonces | `HandshakeIsBounded`, `PingsAreRecent`, `StartsOverForCause`, `KeepsJoining`, `ConnectedIsPinged`; the slave implements `SlaveProtocol` |
| `network` | 2 slaves, plugged in and out at any time, requests and broadcasts, no other fault | `UniqueAddress`, `ConnectedIsListed`, `AckMatches`, `AllJoin`; the bus implements `Membership` |
| `network_faults` | the same with lost and garbled frames and restarts of the master | `ConnectsListed`, `ListsTruly` |
| `wire` | a ring of 6, frames of 4 and 5 bytes to this node, to all and to others, 2 faults | `DeliversAsSent`, `IntactFrameArrives` |
| `clock` | a counter of 2 digits of base 8, a period of 2, gaps to 3, back-off 0 or 2, resets | `NeverLate`, `EarlyOnce`, `SampleSeesFrame` |

Most runs also check their module's `TypeOK`; in LinkNode and Slave it says that
no timer or counter passes its limit, which matters because they are compared
with `==` or decremented as unsigned bytes.

Which bus a property of Network is for matters. Without loss two slaves never
share an address, and whoever believes to be connected is in the list: the
handshake, the pings and the slave's own limits fit together, with slaves that
leave in the middle of it. One lost frame is enough to break `UniqueAddress`
(the ACK of a FIND is lost, the address is offered to the next one) and
`ConnectedIsListed` (three pings are lost while the slave waits for a minute):
the protocol heals these by its timeouts. What holds whatever is lost is
`ConnectsListed` and `ListsTruly`. `AckMatches` fails on a bus with loss too, where
a late ACK is taken for that of the next request. `crossing` is in none of the
runs: with it TLC finds a counterexample to each of these five, two handshakes
that run at once, so that all of them rest on the idle-bus test and the back-off.

Why the bounds are enough. The queue has its real size. Two slots give the
master everything that needs two slaves: one joining while another is pinged,
an empty slot before a full one, a wrap of the circular search; in `master` and
`network_faults` limits are
shrunk in proportion (`FIRST_PING` 2 for 255, `PING_PERIOD` 1 for 30,
`CYCLES_PER_SECOND` 1 for 20, `MAX_PING_ERROR` 2 for 3) so that a ping, a tick
and a timeout can fall in any order. Of the two UIDs in `master` one fills its
field of 3 bytes, so that `strlen` and the comparison of UIDs run on into the
counters behind it, and the report into its next entry. In LinkNode a frame of 2 bytes can be half read; 1
and 2 stand for back-offs of 1 to 20 cycles, which only differ in length. In
Slave the limits keep the code's order (`DISCONNECT` < `PLUG_IN` < `NO_CONFIG` <
`NO_PING`; 10, 20, 40, 1200 in the code). In Network a wait for a reply may end
early or late within what `MayTimeOut` allows, so `RECEIVE_REPLY_TIMEOUT` 2 shows
what 3 would. `MAX_PING_ERROR` is 3 in `network`, as in the code, and has to be:
the FIND for the other slave and a broadcast can each make a connected slave miss
a ping, and with 2 TLC finds the run that drops it. Each slave draws one nonce, its own: a FIND left over from an earlier
handshake then still matches, the worse case, and two slaves with the same nonce
at once are excluded (32 bits of `rand()`, seeds that differ by the maker's
advice in `oplink_adapters.h:97`). In Wire a ring of 6 holds the longest of its
frames and not a byte more, and two frames never start at the same place twice
in a row; two faults are enough for a frame that breaks off and a damaged one
behind it, which is the worst a reader of whole frames can meet, because the
address byte of the next frame resets the ring and the counters. In Clock the base must exceed what a poll and a
period can count; the bounds of its properties are exact (one tick less and
TLC finds a counterexample).

The runs that are expected to fail are in section 6.

## 4. Fairness

* Master: `WF(KeepAlive)`, because the main loop calls it for ever, and
  `SF(PingSent(i))`, because slaves send unasked only on an idle bus and back
  off for a random time: a bus that is busy at every turn of one slave is not a
  schedule the code produces. Weak fairness of pings as a whole would not do,
  since a ping that cannot be sent loses its turn. `EveryDueSlaveIsPinged` and
  `SilentSlaveIsDropped` hold of a master whose application reads its replies to
  the end (`RepliesAreRead`, a premise of both): with one that is left unread
  the master pings nobody and books no miss, for ever (`stuck_after_empty_reply`).
  `SilenceLetsSend` of LinkNode and `AllJoin` have the same premise.
* LinkNode: the loop goes on (`WF(MainLoop)`) and 50 ms pass again and again
  (`SF(KeepAliveCycle)`). Nothing is assumed of the UART or the traffic, except
  by `SilenceLetsSend`, whose own premise is that the bus falls silent.
* Slave: the loop goes on (`WF(KeepAlive)`) and a SIGNAL that is tried again
  and again gets out (`SF(SignalSent)`), for the random back-off. This takes for
  granted that the slave's application reads the replies it asked for to the end;
  one that does not keeps its slave from ever signalling again. Nothing is
  assumed of the master: `KeepsJoining` holds for one that never answers.
* Network: frames that arrived are dealt with (`WF(Receives)`, `WF(Answers)`)
  and cycles go on (`WF(KeepAliveSteps)`), as above. `SF(PingsSlot(i))` and
  `SF(JoinsOrGivesUp(n))` are the random back-off again: the bus is not taken at
  each slave's every attempt. The second is for slaves whose applications read
  their replies, as in Slave; the master's does by the premise of `AllJoin`. `SF(Rests)` says that the application does not
  keep the bus busy with requests for ever; the example sends one every 5 s.
  `AllJoin` asks in addition that slaves are not unplugged for ever.

## 5. What is proved

All for every value of the constants that their assumptions allow.

* **RequestQueueProofs**: `TypeCorrect`; `RingStaysConsistent` (head is always
  `count` places after tail, modulo the ring); from it `RingImplementsService`:
  initial states map to initial states and every step of the ring to a step of
  the service or a stutter, through lemmas on what a push and a dispatch do to
  the sequence of waiting requests.
* **MasterProofs**: `TypeCorrect`, `EveryDuePingIsSeen`, `OfferedAddressIsFree`,
  `PingsAreBooked`. The four properties are inductive together (`IInv`), with two
  facts added (`RequestInv`): a PING's addressee is an address, and a pending
  request's timer is not at 0. `NoPingForgotten` needs the others because a miss
  or an answer changes the count of the slot it is booked on, and
  `PingBookedOnListedSlave` needs `OfferedSlotStaysFree` because the listing of
  a slave is followed by its PING.
  `LookupsAreTrue`, `DropsAreJustified` and `ReportsAreTrue` are about UIDs:
  `NeverMisdirected`, `DroppedForCause` and the report for every set
  of UIDs. `ReportsAreTrue` is for every struct the caller may pass, whatever it
  held: an entry is empty exactly when its slot is, and one whose UID ends before
  `UID_SIZE` leads back to a slave of that UID, though the copy of an unterminated
  UID before it ran on into this entry, because its own copy comes later; what
  is left behind its UID need not be zeros, and `map_uid_to_addr` does not look
  at it. They rest on `Entries`, an invariant on top of `IInv`: a taken slot
  stores a UID that fits, and a free one is as `slave_clear_slot` left it but for
  its ping count. From it follows how far `strlen` runs (over the UID and, when
  that fills its field, into the bytes behind), so that two UIDs that differ in a
  byte both have are never taken for each other. The circular and the linear
  searches are `CHOOSE`s of least elements, which the well-founded order of the
  naturals provides; nothing is proved by induction over a UID.
* **LinkNodeProofs**: `TypeCorrect`, `NeverDeaf`, `SendsSafely`, `CutsNoFrame`,
  `PendingKept`, and `OneFrame` for nodes that do not reset. None of these is inductive
  alone: `IInv` adds that a held frame's and a pending request's timer is not
  at 0, that a back-off only runs while the bus counts as busy (so a frame
  cannot begin unnoticed during one), that nothing is awaited between the
  test of `safe_to_send()` and the transmission, and that a frame which began
  between the sample and the last look has set the busy flag (`WindowInv`).
* **SlaveProofs**: `TypeCorrect`, `AddressedOnlyConfigured`,
  `BoundedHandshake`, `RecentPings`, `StartsOver`, and `Implements`: every step
  is one of SlaveProtocol or a stutter, which is what allows Network to build its
  slaves from that module whatever the limits are. The invariant relates each
  counter to the history: `disconnect` is the number of lows in a row,
  `no_config` the cycles since the SIGNAL, `no_ping` one less than the cycles
  since the last PING was taken. It is what makes "a counter reached its limit"
  mean something about the bus.

* **ClockProofs**: `SamplesSee`, with resets and without, whose invariant says that a
  flag that is down, or about to be cleared, has missed one byte at most of what
  came since the last sample or reset; and `CyclesInTime` and
  `EarlyAtMostOnce`, for every base, period and gap of the main loop that
  `ClockAssumption` allows. `ClockInv` says of the stored `old_millis` that its age
  is the time since the last cycle or one tick less (`Fresh`), or that it was torn:
  a carry came between the two readings, so that it is a multiple of the base
  away (`Torn`), and then the cycle before was long enough. `EarlyAtCarry` adds that
  after an early cycle the low part of the counter has just wrapped, which is why
  the next reading cannot be torn again. The lemmas before it turn quotients and
  remainders into cases of linear arithmetic.
* **WireProofs**: the CRC, for all byte sequences, and the way of an intact frame.
  - `CrcIsDivision`: `update_crc16` from 0xFFFF on is the division of Crc16. While the
    bits are shifted in, what is left of the dividend is the dividend itself but in
    the 16 terms below the leading one, where it is the dividend exclusive-or the
    register (`Follows`); a bit keeps that (`BitDivides`), so eight do
    (`ByteDivides`), and at the end only those 16 terms are left, of which the
    dividend has none.
  - `CrcTestIsDivision`: `opl_read` finds a sequence good exactly if it ends in that
    remainder. The highest bit of the register shifted in only shifts it, and any
    other sets bit 0 (`BitClears`), so the only 16 bits after which it is 0 are its
    own (`OwnCrcClears`).
  - `OneByteRefused`: of two sequences that differ in one byte at most one is found
    good, because a byte takes different registers to different ones, and different
    bytes the same register to different ones (`ByteTells`).
  - `IntactArrives`, i.e. `IntactFrameArrives` for every size of the ring up to 256, all
    frames and whatever was received before. `WireInv`: while the node is in a frame
    of which it has missed nothing, its ring holds the bytes so far from `iFirst` on
    and nothing else, the callback's count is their number, and its length is that
    of the frame once the second byte came. That byte tells the length (`BodyIs`), so
    the counters agree at the last byte and at no other; the case of `len` = 255
    before it cannot be mistaken because the ring is not longer than the byte counts.
    `TakesSymbol` is the step, `PushHolds` the ring, `HeldIsRead` the reading, and the
    frame is found good by the theorems on the CRC.

  Induction over bits, bytes and steps of the division is by least exception
  (`UpTo`): the set of exceptions to what holds of 0 and passes from each number to the
  next would have a least one, by the well-founded order of the naturals. The
  recursive functions of Crc16 are thereby shown to exist (`Recursion`).
* **NetworkProofs**, for any number of slaves and any list:
  - `NetTypeCorrect`, whatever is lost, crosses or restarts;
  - `MasterOnTheBus`: every step of the bus is a step of module Master or a stutter
    as long as the master keeps its memory, so that all of MasterProofs holds on the
    bus. A restart is no step of Master; `NetTypeCorrect` and the next two are proved
    with it;
  - `SlavesOnTheBus`: for each slave, every step of the bus is a step of its own
    SlaveProtocol or a stutter, whatever is lost, crosses or restarts. Together with
    `Implements` in SlaveProofs it closes the chain from `oplink_slave.c` to the bus;
  - `ConnectedAreListed` and `ListedTruly`, whatever is lost and whenever the
    master restarts, from `NoCrossing`: slaves do not send unasked while an answer
    is due, and draw different nonces. `ListedTruly` also needs that a slave has a
    UID. `BusInv` says what a slave may hold, which request the master waits for
    meanwhile, and what a reply in the master's inbox can be.
* **HandshakeProofs**: `AddressesAreUnique`, `ListedWhileConnected` and `AcksMatch` on
  a bus without faults, for fewer slaves than `MAX_PING_ERROR` (two with the code's 3)
  that are plugged in and out at any time, and a list of any size. The assumption
  `FaultFree` is that of run `network`: no faults,
  different nonces, UIDs that differ in a byte that is compared, fit and are not
  empty, and that number. It is what the argument needs: a slave misses pings because
  its receiver is off after the FIND for another slave, each of which is sent once
  between two pings it hears, or after a broadcast, at most one. The three are
  inductive only together and with: a slave that has an address is joining, and
  then the last request, its holder or its answer in the inbox is about it
  (`Joining`), or it is listed; at most one slave holds a current request, and it is
  the last one sent (`CurrentInv`); a reply is to the last request (`ReplyInv`);
  and the pings a listed slave has missed are no more than the slaves that signalled
  meanwhile and one (`PingInv`), which is what keeps a connected slave from being
  dropped.
  - `HandshakeImplementsMembership`: under the same assumption every step of the bus
    is a step of Membership or a stutter. The argument goes by what the master
    sends and hears: a FIND is taken while the offered slot is free and no slave has
    the address (`FindTakes`); the ACK to GET_UID carries the UID of a slave that has
    this address or none (`UidAckEnlists`) and the list changes in its slot and that
    of one older entry of the same UID; the first PING finds the slave listed;
    and a slot whose pings are given up is one that nobody has, because a slave
    that has its address answers before `MAX_PING_ERROR` pings are missed
    (`CycleDrops`).
  - `LookupsReachTheOwner` (`LookupsReachOwner`): the address found for the UID of a
    slave is never that of another slave, though the list still has entries of
    slaves that left, and entries that such a slave had under other addresses. It
    says nothing of the moment the request is sent (section 7).

The assumptions are satisfied: TLC evaluates every ASSUME in the runs, whose
constants also meet `NoCrossing` (`network_faults`) and `FaultFree` (`network`), and
`IInv` with `Entries`, `NetInv` with `BusInv`, `FFInv` with `PingInv` of HandshakeProofs,
`ClockInv` and `WireInv` were checked as invariants of these instances before they
were proved.

Proving changed four definitions. `ByteFrom` had two overlapping cases for a
byte past the end of the array, of which one was meant; `NetTypeOK` now gives every
frame its own fields instead of saying that it is some record; the ring of
Wire is built by a constructor, `Fifo`, and the loops of Crc16 are functions of the
number of their turns instead of folds, both with no change of meaning.

Only model-checked: the liveness properties (`EveryDueSlaveIsPinged`,
`SilentSlaveIsDropped`, `HearsAgain`, `RequestEnds`, `SilenceLetsSend`,
`KeepsJoining`, `ConnectedIsPinged`, `AllJoin`), because liveness under fairness and
ENABLED are beyond the proof system; the first part of `DeliversAsSent`, that a good
frame is the one that was sent; and the runs of section 6. That part cannot be a
theorem: it depends on the frames. When a frame for the node breaks off and the
address byte of the next one is lost, the ring holds a piece of each, and for one
pair of frames in 65536 the CRC agrees by chance. `CrcTestIsDivision` and
`OneByteRefused` are what holds of all frames; that no such pair is among those of
run `wire` is for TLC.

## 6. Where code and comments disagree

Runs with `expect: violation`, each with a counterexample:

* `stuck_after_empty_reply`: an awaited DATA reply of length 0 (or one read in
  part) leaves `reply_state` at `Received`; nothing resets it, and
  `safe_to_send()` is false for ever (`oplink_com.c:252-279, 294-302`).
* `uid_listed_twice`: an empty slot matches any UID (zero bytes are compared),
  so the old entry of a slave that joins again is not found behind a hole. For
  the same reason a listed UID behind a hole cannot be addressed.
* `shared_address`: a master that restarts has an empty list and offers
  addresses that slaves still have, so that two are connected under one
  (`oplink_master.c:78`, `oplink_slave.c:118-126`). "Each of the nodes has a
  unique address within the network", says page 3 of the manual. The PINGs to
  the new owner reach the old one too, which keeps it connected.

Also met, without a run of their own:

* without an old entry, `slave_list_add` clears slot 255 of an array of 5
  (`slave_list.c:31`);
* a UID of 12 bytes is stored without a terminating zero and its lookup also
  compares the ping counter, so that a listed slave has no address
  (`slave_list.c:112`);
* `get_slave_list` fills entries by slot and empties them by count, so that an
  empty slot before a taken one hides a slave (`slave_list.c:95-108`);
  `ReportsSlavesInFront` excludes it by its premise. It copies no terminating
  zero, and of a UID of 12 bytes also the counters behind it, into the next entry
  or, from the last one, past the struct (`slave_list.c:99`): where a UID in the
  report ends, only a reader who knows its length can tell;
* a FIND is ignored by every connected slave and a broadcast need not be answered,
  and both keep their receivers off for 100 ms or more (`oplink_com.c:98-101, 174-178`):
  with more slaves joining at once than `MAX_PING_ERROR` forgives, a connected
  one could miss its pings and be dropped. TLC found no such run of three slaves;
  the theorems of HandshakeProofs exclude it by their assumption;
* a slave that resets forgets that the bus is busy (`uart.c:50`, from
  `oplink_slave.c:79`), and a node that turns its receiver on samples the bus in
  the same call (`oplink_com.c:175, 187`): either may then send into a frame that
  is under way, which the CRC and the repetition make up for;
* a UID that has a listed UID as a prefix gets that slave's address
  (`NeverMisdirected` and `DroppedForCause` exclude it by `PrefixFree`);
* `slave_set_default` turns the receiver on while a frame is held, so that "Only
  one frame at a time can be processed" (`oplink_com.c:99`) fails on a slave that
  resets (`OneFrameAtATime` is checked on the master and proved for nodes without
  resets); what the node then reads is a frame that was sent or fails its CRC
  (`DeliversAsSent`);
* the longest payload is 123 bytes, not 124 (`oplink_common.h:26`): the ring
  holds one byte less than its size, and the last byte of the longest frame is
  never counted (`IntactFrameArrives` is for shorter frames);
* an ACK is taken for the answer to the last request whatever it answers: the
  comment at `oplink_master.c:85-88` is right on a bus without loss (`AckMatches`);
* `RECEIVE_REPLY_TIMEOUT` is commented "Smaller than SEND_REPLY_TIMEOUT"
  (`oplink_com_private.h:23`) and is greater, and has to be: with the shorter
  wait `ConnectedIsListed` fails (its mutant);
* `seconds++ == CYCLES_PER_SECOND` makes a second of 21 cycles, and a cycle is at
  least 51 ms, because the test is `> LOOP_TIME`.

## 7. Not modelled, and the plan

Not modelled: `load_config` and the EEPROM (its failure stops the program before
anything else runs), GPIO and PWM, delays, baud rate and other registers (the
changes of `UART1_CR2`, single instructions that set or clear a bit, are taken
as atomic), the adapter macros but for what they call, hardware files and
documentation. The address of a queued request is not followed from its push to
its sending: the code resolves it when it is pushed (`oplink_master.c:25`), and
by then it may be another slave's; Master therefore lets a request go to any
address, and nothing else depends on it. In Network the slaves' counters are
replaced by the comparisons of section 2, and nonces of two slaves never collide.
In LinkNode a frame that began while the receiver was off is traffic, not a frame,
so that cutting it (section 6) is no violation of `NeverCutsFrame`.

Open:

* that Wire's frames are the three events of LinkNode (a refinement that would have
  to relate the callback's counters to a frame's beginning and end);
* of `DeliversAsSent` for every frame, how far it goes: which mixtures of two frames
  have a good CRC (section 5);
* the liveness properties, which are checked on the instances of section 3 only.
