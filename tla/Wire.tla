--------------------------------- MODULE Wire ---------------------------------
(***************************************************************************)
(* Frames byte by byte: what opl_send_bytes() writes, what becomes of it on *)
(* the line, the UART interrupt of HAL/uart.c with its ring buffer and its  *)
(* callback in oplink_com.c, and the reading of the frame with its CRC.     *)
(* Module LinkNode takes all this as one event.                             *)
(*                                                                         *)
(* A transmission is a break, SYNC_BYTE, the address byte (marked by the 9th*)
(* bit), the meta byte, the data and two bytes of CRC. Of each at most one  *)
(* byte is damaged: altered, or lost to a framing error; and any may break  *)
(* off. The node reads a frame in less than the time of a byte.             *)
(***************************************************************************)
EXTENDS Crc16

CONSTANTS UART_BUFFER_SIZE,  \* 128
          MaxFaults,         \* bound on the faults of a behaviour
          Addr,              \* the address this node is given
          Sent,              \* what others send: [src, dest, mode, data]
          Garbage            \* what an altered byte may become

ASSUME WireAssumption ==
  /\ UART_BUFFER_SIZE \in 2 .. 256 /\ MaxFaults \in Nat
  /\ Addr \in 1 .. 14
  /\ \A f \in Sent : /\ f.src \in 0 .. 15 /\ f.dest \in 0 .. 15 /\ f.mode \in {0, 1}
                     /\ f.data \in Seq(0 .. 255) /\ Len(f.data) < 128
  /\ Garbage \subseteq 0 .. 255

VARIABLES uart,   \* uart.c: mute, addr; on, the receiver is enabled
          rx,     \* uart.c: the FIFO data_buffer, iFirst, iLast
          count,  \* oplink_com.c: uart_rx_callback()'s static len and count
          state,  \* oplink_com.c: rx_frame.state
          line,   \* the transmission, and what the properties tell of it: see Silence
          faults  \* what went wrong so far: symbols lost or altered, frames broken off

node == <<uart, rx, count, state>>
vars == <<uart, rx, count, state, line, faults>>

OVERHEAD == 4
SYNC_BYTE == 85

\* opl_send_bytes(): the bytes of a frame from its address byte on.
FrameBytes(f) ==
  LET body == <<16 * f.src + f.dest, 128 * f.mode + Len(f.data)>> \o f.data
  IN  body \o CrcBytes(CrcOf(CRC_INIT, body))

\* The transmission: its frame, the next of its symbols (1 the break, 2 the sync
\* byte), and for the properties whether this node may have missed some of it
\* (damaged) and the frame whose address byte it last woke up for (woken).
Silence(woken) == [frame |-> << >>, next |-> 1, damaged |-> FALSE, woken |-> woken]
Idle == line.frame = << >>
Symbols == Len(line.frame) + 2

Fifo(data_buffer, iFirst, iLast) ==
  [data_buffer |-> data_buffer, iFirst |-> iFirst, iLast |-> iLast]

Init == /\ uart = [on |-> TRUE, mute |-> TRUE, addr |-> 0]
        /\ rx = Fifo(<< >>, 0, 0)
        /\ count = [len |-> 255, count |-> 0]
        /\ state = "Empty"
        /\ line = Silence(<< >>)
        /\ faults = 0
-----------------------------------------------------------------------------
(* The FIFO. Of data_buffer only the bytes held are kept.                   *)

NextIndex(i) == (i + 1) % UART_BUFFER_SIZE
Held(fifo) == (fifo.iLast - fifo.iFirst) % UART_BUFFER_SIZE
Content(fifo) == [k \in 1 .. Held(fifo) |-> fifo.data_buffer[(fifo.iFirst + k - 1) % UART_BUFFER_SIZE]]

\* Mutation: bytes left unread stay in front of the next frame.
FlushKeeps(fifo) == fifo

Flush(fifo) == Fifo(<< >>, fifo.iLast, fifo.iLast)
Full(fifo) == NextIndex(fifo.iLast) = fifo.iFirst
Stored(fifo, byte) == [i \in {fifo.iLast} \cup DOMAIN fifo.data_buffer |->
                         IF i = fifo.iLast THEN byte ELSE fifo.data_buffer[i]]
Push(fifo, byte) == Fifo(Stored(fifo, byte), fifo.iFirst, NextIndex(fifo.iLast))

\* uart_read_byte() n times; past the end it returns zeros.
ReadBytes(fifo, n) == [k \in 1 .. n |-> IF k <= Held(fifo) THEN Content(fifo)[k] ELSE 0]
AfterRead(fifo, n) ==
  IF n >= Held(fifo) THEN Flush(fifo)
  ELSE LET read == {(fifo.iFirst + k) % UART_BUFFER_SIZE : k \in 0 .. n - 1}
       IN  Fifo(Restrict(fifo.data_buffer, DOMAIN fifo.data_buffer \ read),
                (fifo.iFirst + n) % UART_BUFFER_SIZE, fifo.iLast)
-----------------------------------------------------------------------------
(* The interrupt *)

\* uart_rx_callback(): the counters it leaves; the frame is complete when they
\* agree, its second byte apart.
Counted(byte, is_addr) ==
  IF is_addr THEN [len |-> 255, count |-> 1]
  ELSE [count |-> (count.count + 1) % 256,
        len |-> IF count.count = 1 THEN (byte % 128) + OVERHEAD ELSE count.len]

\* uart_isr() for a byte without framing error. What it makes of mute is undone
\* when it comes while the main loop clears the busy flag, a bit of the same byte,
\* which the compiler may read, change and write back.
Matches(byte) == byte % 16 \in {uart.addr, 0}
Interrupt(byte, is_addr, undone) ==
  LET mute == IF is_addr THEN ~Matches(byte) ELSE uart.mute
      fifo == IF is_addr /\ Matches(byte) THEN Flush(rx) ELSE rx
      counted == Counted(byte, is_addr)
      complete == ~is_addr /\ counted.count # 2 /\ counted.count = counted.len
  IN  IF mute \/ Full(fifo)
      THEN /\ uart' = [uart EXCEPT !.mute = IF undone THEN @ ELSE mute]
           /\ rx' = fifo
           /\ UNCHANGED <<count, state>>
      ELSE /\ rx' = Push(fifo, byte)
           /\ count' = counted
           /\ uart' = [uart EXCEPT !.mute = IF undone THEN @ ELSE complete, !.on = ~complete]
           /\ state' = IF complete THEN "Ready" ELSE state
-----------------------------------------------------------------------------
(* The line *)

Starts(f) ==
  /\ Idle
  /\ line' = [line EXCEPT !.frame = FrameBytes(f)]
  /\ UNCHANGED <<node, faults>>

\* After the next symbol, which the node misses, partly or not, and wakes up for
\* or not.
Passes(misses, wakes) ==
  LET woken == IF wakes THEN line.frame ELSE line.woken
  IN  line' = IF line.next = Symbols THEN Silence(woken)
              ELSE [line EXCEPT !.next = @ + 1, !.damaged = @ \/ misses, !.woken = woken]

\* A symbol reaches the node as byte, if its receiver is on.
Symbol == IF line.next = 2 THEN SYNC_BYTE ELSE line.frame[line.next - 2]
Reaches(byte, undone) ==
  LET is_addr == line.next = 3
  IN  /\ ~Idle /\ line.next > 1
      /\ IF uart.on THEN Interrupt(byte, is_addr, undone) ELSE UNCHANGED node
      /\ Passes(byte # Symbol \/ ~uart.on \/ undone, uart.on /\ is_addr /\ Matches(byte))

\* The break is a framing error, which the interrupt drops.
Break == ~Idle /\ line.next = 1 /\ Passes(FALSE, FALSE) /\ UNCHANGED <<node, faults>>
Arrives == Reaches(Symbol, FALSE) /\ UNCHANGED faults

\* So is a damaged byte, or it is taken for another one; or the main loop's
\* writing undoes it.
Fails == ~line.damaged /\ faults < MaxFaults /\ faults' = faults + 1
Lost == ~Idle /\ line.next > 1 /\ Fails /\ Passes(TRUE, FALSE) /\ UNCHANGED node
Altered == Fails /\ \E byte \in Garbage : Reaches(byte, FALSE)
Undone == Fails /\ uart.on /\ Reaches(Symbol, TRUE)

\* The sender is unplugged, or this node sends and hears nothing meanwhile.
BreaksOff == /\ ~Idle /\ faults < MaxFaults /\ faults' = faults + 1
             /\ line' = Silence(line.woken)
             /\ UNCHANGED node
-----------------------------------------------------------------------------
(* The node *)

\* Mutation: the CRC does not cover the address byte.
CrcWithoutAddress(bytes) == CrcOf(CRC_INIT, Tail(bytes)) = {}

\* The CRC of all bytes of a frame, its own CRC included, is 0.
CrcOk(bytes) == CrcOf(CRC_INIT, bytes) = {}

\* The frame opl_parse() and opl_read() make of the FIFO.
Incoming(fifo) == ReadBytes(fifo, (ReadBytes(fifo, 2)[2] % 128) + OVERHEAD)

\* Bytes of the transmission that are read while it goes on are missed.
TakesBytes == line' = [line EXCEPT !.damaged = @ \/ (uart.on /\ ~Idle)]

\* A frame from another node than the awaited one is dropped at its first byte.
Drops == /\ state = "Ready"
         /\ rx' = AfterRead(rx, 1)
         /\ uart' = [uart EXCEPT !.on = TRUE] /\ state' = "Empty"
         /\ TakesBytes /\ UNCHANGED <<count, faults>>

\* A frame that is bad or an awaited reply is released at once, another may be
\* replied to; and not all of its data need be read.
Reads == /\ state = "Ready"
         /\ \/ /\ rx' = AfterRead(rx, Len(Incoming(rx)))
               /\ \/ uart' = [uart EXCEPT !.on = TRUE] /\ state' = "Empty"
                  \/ CrcOk(Incoming(rx)) /\ state' = "Processing" /\ UNCHANGED uart
            \/ rx' = AfterRead(rx, 2) /\ state' = "Processing" /\ UNCHANGED uart
         /\ TakesBytes /\ UNCHANGED <<count, faults>>

\* A reply or a timeout.
Releases == /\ state # "Empty"
            /\ uart' = [uart EXCEPT !.on = TRUE] /\ state' = "Empty"
            /\ UNCHANGED <<rx, count, line, faults>>

\* route_command(FIND) gives the node its address.
SetsAddr == /\ state = "Processing" /\ uart.addr = 0
            /\ uart' = [uart EXCEPT !.on = TRUE, !.addr = Addr] /\ state' = "Empty"
            /\ line' = [line EXCEPT !.damaged = @ \/ ~Idle]
            /\ UNCHANGED <<rx, count, faults>>

\* slave_set_default(), of a node with an address or without: uart_init() with
\* address 0; rx_frame.state stays.
SetsDefault == /\ uart' = [on |-> TRUE, mute |-> TRUE, addr |-> 0]
               /\ rx' = Flush(rx)
               /\ line' = [line EXCEPT !.damaged = @ \/ ~Idle]
               /\ UNCHANGED <<count, state, faults>>
-----------------------------------------------------------------------------
Next == \/ \E f \in Sent : Starts(f)
        \/ Break \/ Arrives \/ Lost \/ Altered \/ Undone \/ BreaksOff
        \/ Drops \/ Reads \/ Releases \/ SetsAddr \/ SetsDefault

Spec == Init /\ [][Next]_vars
-----------------------------------------------------------------------------
(* Safety *)

\* What opl_read() calls good is the very frame that was sent when the node was
\* last addressed, from its address byte to its CRC: with one byte altered or
\* lost, the length included, with a frame that broke off and the next one
\* behind it, left-overs in the ring or a reset in between
\* (uart.c:73-99, oplink_com.c:84-117, 285-305). And the test is the division
\* the CRC stands for.
DeliversAsSent ==
  LET bytes == Incoming(rx)
      n == Len(bytes) - 2
      TestDivides == CrcOk(bytes) <=> SubSeq(bytes, n + 1, n + 2) = CrcBytes(ReferenceCrc(SubSeq(bytes, 1, n)))
  IN  state = "Ready" => /\ CrcOk(bytes) => bytes = line.woken
                         /\ Len(bytes) < UART_BUFFER_SIZE => TestDivides

(* Action properties *)

\* A frame for this node of which it misses nothing is ready after its last
\* byte, in the FIFO from first to last byte and with nothing else, is read as it
\* was sent and found good, wherever the ring stands and whatever the frames before
\* it left in the ring and in the callback's static counters (uart.c:79-94,
\* oplink_com.c:84-104, 106-117, 285-305). It must be shorter than the ring, so
\* that the longest payload is OPL_PAYLOAD_MAX_LEN - 1.
IntactFrameArrives ==
  [][(~Idle /\ line.next = Symbols /\ Arrives /\ uart.on /\ ~line.damaged /\ Matches(line.frame[1]) /\ Len(line.frame) < UART_BUFFER_SIZE) =>
       /\ state' = "Ready" /\ Content(rx') = line.frame
       /\ Incoming(rx') = line.frame /\ CrcOk(line.frame)]_vars
=============================================================================
