------------------------------- MODULE LinkNode -------------------------------
(***************************************************************************)
(* One node's main loop over its link layer, interrupted by its UART. The   *)
(* loop is the one of the example programs (Basic_Single_Slave/*/main.c):   *)
(*   opl_parse, opl_read (several times), opl_send_reply, opl_keep_alive.   *)
(* A step ends wherever an interrupt could make a difference: between these *)
(* calls, and within a keep-alive cycle between sampling the bus, the last  *)
(* look at it in opl_send_bytes() and the start of the transmission.        *)
(*                                                                         *)
(* Bytes are not modelled one by one. A frame addressed to this node starts,*)
(* and later completes or breaks off. From the sample to the transmission   *)
(* there are microseconds, while a frame of 4 bytes or more lasts           *)
(* milliseconds, so one that starts inside this window (fresh, or late when *)
(* the node has looked for the last time) cannot complete inside it; and    *)
(* one already arriving at a cycle has set the busy flag since the previous *)
(* cycle, 50 ms ago.                                                        *)
(***************************************************************************)
EXTENDS OplCom

CONSTANTS Slave,         \* TRUE: oplink_slave.c drives the layer, else the master
          Resets,        \* TRUE: a slave may go back to its default state
          RequestDest,   \* nodes it sends requests to
          BusWait,       \* values of BUS_WAIT(): {0} on a master, 1..20 on a slave
          FrameLen,      \* data lengths of the frames received
          PartialReads   \* TRUE: the application may leave a frame half read

ASSUME LinkAssumption == /\ Slave \in BOOLEAN /\ Resets \in BOOLEAN
                         /\ RequestDest \subseteq Peer
                         /\ BusWait \subseteq Nat /\ BusWait # {}
                         /\ FrameLen \subseteq 0 .. MaxLen
                         /\ PartialReads \in BOOLEAN

VARIABLES rx_frame, last_request, bus, \* the state of the link layer, see OplCom
          pc,         \* where the main loop is
          receiving   \* a frame for this node: no, fresh, late or yes (arriving)

com == <<rx_frame, last_request, bus>>
vars == <<rx_frame, last_request, bus, pc, receiving>>

\* Between the sample of the bus and the end of the transmission.
Window == {"join", "joinWrite", "send", "write"}
Writing == {"joinWrite", "write"}  \* after the last look at the bus
Loop == {"parse", "read", "reply", "keep"} \cup Window

Init == /\ rx_frame = InitialRx
        /\ last_request = InitialRequest
        /\ bus = InitialBus
        /\ pc = "parse"
        /\ receiving = "no"
-----------------------------------------------------------------------------
(* The UART: nothing is heard while the receiver is off, and a frame whose  *)
(* address byte was sent then is not for this node: what is left of it when *)
(* the receiver is on again is other traffic, heard at its next byte only.  *)

FrameStarts ==
  /\ rx_frame.on /\ receiving = "no"
  /\ receiving' = IF pc \in Writing THEN "late" ELSE IF pc \in Window THEN "fresh" ELSE "yes"
  /\ bus' = [bus EXCEPT !.heard = TRUE]
  /\ UNCHANGED <<rx_frame, last_request, pc>>

\* The sender stops, is unplugged, or another address byte mutes the UART.
FrameBreaks ==
  /\ receiving # "no"
  /\ receiving' = "no"
  /\ UNCHANGED <<com, pc>>

FrameCompletes(f) ==
  /\ rx_frame.on /\ receiving = "yes"
  /\ receiving' = "no"
  /\ rx_frame' = Arrived(rx_frame, f)
  /\ bus' = [bus EXCEPT !.heard = TRUE]
  /\ UNCHANGED <<last_request, pc>>

\* Bytes of a frame for another node.
OtherTraffic ==
  /\ rx_frame.on /\ ~bus.heard
  /\ bus' = [bus EXCEPT !.heard = TRUE]
  /\ UNCHANGED <<rx_frame, last_request, pc, receiving>>
-----------------------------------------------------------------------------
(* The main loop *)

\* A frame that started in the window goes on arriving after it.
Goto(place) ==
  /\ pc' = place
  /\ receiving' = IF place = "parse" /\ receiving = "fresh" THEN "yes" ELSE receiving

\* What is in the buffer: with the receiver on (after slave_set_default()) a
\* frame that is arriving fills it.
InBuffer == IF rx_frame.on /\ receiving # "no" THEN Frame ELSE {rx_frame.frame}

ParseNothing ==
  /\ pc = "parse" /\ rx_frame.state # "Ready"
  /\ Goto("keep")
  /\ UNCHANGED com

\* opl_parse() of a frame it drops, of data, or of a frame without data.
ParseData ==
  /\ pc = "parse" /\ rx_frame.state = "Ready"
  /\ \E h \in InBuffer :
       /\ Accepts(last_request, h) => (h.mode = "DATA" \/ h.len = 0)
       /\ rx_frame' = ParsedRx(rx_frame, last_request, h)
       /\ last_request' = ParsedRequest(last_request, h)
       /\ Goto(IF Accepts(last_request, h) /\ h.len > 0 THEN "read" ELSE "keep")
  /\ UNCHANGED bus

\* opl_parse() of a command, which it reads and, if the CRC is right, routes.
\* route_command() ignores it, replies (a slave) or sends the next request of
\* the handshake (a master), without looking at the bus.
ParseCommand ==
  /\ pc = "parse" /\ rx_frame.state = "Ready"
  /\ \E h \in InBuffer :
       LET rx == ParsedRx(rx_frame, last_request, h)
           req == ParsedRequest(last_request, h)
           answered == ReadRequest(rx, req, h.len)
       IN  /\ Accepts(last_request, h) /\ h.mode = "CMD" /\ h.len > 0
           /\ \/ /\ rx_frame' = ReadRx(rx, req, h.len)
                 /\ last_request' = answered
              \/ /\ h.ok
                 /\ rx_frame' = Released(ReadRx(rx, req, h.len))
                 /\ IF Slave THEN last_request' = answered
                    ELSE \E d \in RequestDest : last_request' = Awaiting(d)
  /\ Goto("keep")
  /\ UNCHANGED bus

\* The application's opl_read(), in the loop iteration of its opl_parse().
Read ==
  /\ pc = "read"
  /\ \E n \in 1 .. rx_frame.len :
       /\ rx_frame' = ReadRx(rx_frame, last_request, n)
       /\ last_request' = ReadRequest(rx_frame, last_request, n)
       /\ \/ n < rx_frame.len /\ Goto("read")
          \/ n < rx_frame.len /\ PartialReads /\ Goto("keep")
          \/ n = rx_frame.len /\ Goto(IF rx_frame.frame.ok THEN "reply" ELSE "keep")
  /\ UNCHANGED bus

\* After an opl_read() that returned true the application may reply; a call
\* that opl_send_reply() refuses changes nothing.
Reply ==
  /\ pc = "reply"
  /\ \/ MayReply(rx_frame) /\ rx_frame' = Released(rx_frame)
     \/ UNCHANGED rx_frame
  /\ Goto("keep")
  /\ UNCHANGED <<last_request, bus>>

\* opl_keep_alive() before LOOP_TIME has passed.
KeepAliveEarly == pc = "keep" /\ Goto("parse") /\ UNCHANGED com

\* opl_keep_alive() up to the test of safe_to_send(). A slave may go back to
\* its default state before the update (bus disconnected) or after it (not
\* configured, not pinged in time).
KeepAliveCycle ==
  /\ pc = "keep"
  /\ \E early, late \in (IF Slave /\ Resets THEN BOOLEAN ELSE {FALSE}), wait \in BusWait :
       LET before == IF early THEN ResetBus(bus)
                     ELSE [bus EXCEPT !.heard = @ \/ receiving = "yes"]
           after == BusAfterCycle(before, wait)
           aged == RxAfterCycle(IF early THEN ResetRx(rx_frame) ELSE rx_frame)
       IN  /\ bus' = IF late THEN ResetBus(after) ELSE after
           /\ rx_frame' = IF late THEN ResetRx(aged) ELSE aged
           /\ receiving' = IF early \/ late THEN "no" ELSE receiving
           /\ last_request' = RequestAfterCycle(last_request)
           /\ pc' = IF ~SafeToSend(rx_frame', last_request', bus') THEN "parse"
                    ELSE IF Slave /\ ~early /\ ~late THEN "join" ELSE "send"

\* join_bus() of a slave: SIGNAL, which awaits no reply.
JoinSkip == pc = "join" /\ Goto("send") /\ UNCHANGED com
JoinBusy == /\ pc = "join" /\ bus.heard
            /\ rx_frame' = Released(rx_frame)
            /\ Goto("send")
            /\ UNCHANGED <<last_request, bus>>

\* Mutation: opl_send_bytes() does not look at the bus again.
JoinUnlooked == pc = "join" /\ Goto("joinWrite") /\ UNCHANGED com

JoinIdle == pc = "join" /\ ~bus.heard /\ Goto("joinWrite") /\ UNCHANGED com

JoinWrite == /\ pc = "joinWrite"
             /\ rx_frame' = Released(rx_frame)
             /\ pc' = "send" /\ receiving' = "no"
             /\ UNCHANGED <<last_request, bus>>

\* A ping or the oldest queued request, if there is one and it is still safe.
SendSkip == pc = "send" /\ Goto("parse") /\ UNCHANGED com
SendBusy == /\ pc = "send" /\ SafeToSend(rx_frame, last_request, bus) /\ bus.heard
            /\ rx_frame' = Released(rx_frame)
            /\ Goto("parse")
            /\ UNCHANGED <<last_request, bus>>
SendIdle == /\ pc = "send" /\ SafeToSend(rx_frame, last_request, bus) /\ ~bus.heard
            /\ Goto("write")
            /\ UNCHANGED com

\* The receiver is off while the frame is written: what was arriving is lost.
Write ==
  /\ pc = "write"
  /\ rx_frame' = Released(rx_frame)
  /\ \/ UNCHANGED last_request
     \/ \E d \in RequestDest : last_request' = Awaiting(d)
  /\ pc' = "parse" /\ receiving' = "no"
  /\ UNCHANGED bus
-----------------------------------------------------------------------------
Uart == \/ FrameStarts \/ FrameBreaks \/ OtherTraffic
        \/ \E f \in Frame : f.len \in FrameLen /\ FrameCompletes(f)

MainLoop == \/ ParseNothing \/ ParseData \/ ParseCommand \/ Read \/ Reply
            \/ KeepAliveEarly \/ KeepAliveCycle
            \/ JoinSkip \/ JoinBusy \/ JoinIdle \/ JoinWrite
            \/ SendSkip \/ SendBusy \/ SendIdle \/ Write

Next == Uart \/ MainLoop

Spec == Init /\ [][Next]_vars

\* The loop keeps running, and LOOP_TIME passes again and again.
Fairness == WF_vars(MainLoop) /\ SF_vars(KeepAliveCycle)

FairSpec == Spec /\ Fairness
-----------------------------------------------------------------------------
(* Safety *)

RxType == [on : BOOLEAN, state : {"Empty", "Ready", "Processing"},
           busy_time : 0 .. SEND_REPLY_TIMEOUT, frame : Frame, len : 0 .. MaxLen]
RequestType == [reply_state : {"None", "Pending", "Received"},
                busy_time : 0 .. RECEIVE_REPLY_TIMEOUT, dest : Peer \cup {255}]
BusType == [heard : BOOLEAN, busy : BOOLEAN, wait : Nat]

\* The structs hold values of their C types: in particular no decrement of a
\* timer goes below 0, where a uint8_t would wrap (oplink_com.c:174, 180).
TypeOK == /\ rx_frame \in RxType
          /\ last_request \in RequestType
          /\ bus \in BusType
          /\ pc \in Loop
          /\ receiving \in {"no", "fresh", "late", "yes"}

\* The receiver is only off while a frame is held whose timer runs, so that
\* update_node_state() turns it on again (oplink_com.c:99, 163, 174-178): no
\* order of interrupts, reads, replies and resets leaves a node deaf.
DeafOnlyWhileHolding == ~rx_frame.on => rx_frame.state # "Empty" /\ rx_frame.busy_time > 0

\* "Only one frame at a time can be processed" (oplink_com.c:99): while a frame
\* is held no other can arrive over it.
OneFrameAtATime == rx_frame.state # "Empty" => ~rx_frame.on /\ receiving = "no"

\* Between safe_to_send() and the end of an unforced transmission no frame
\* becomes Ready, so the reset of rx_frame.state at the end of opl_send_bytes()
\* (oplink_com.c:163-164), done even if nothing was sent, drops none.
SendDropsNoFrame == pc \in Window => rx_frame.state = "Empty"

\* An unforced transmission never cuts a frame that it could have heard: neither
\* one that was arriving when the bus was sampled, back-off included, nor one that
\* began between the sample and the last look at the busy flag
\* (oplink_com.c:130-133, 185-193). One that begins after that look is cut, and so
\* is one that began while the receiver was off if update_node_state() turns it on
\* and samples the bus before its next byte (oplink_com.c:175, 187).
NeverCutsFrame == /\ pc \in Window => receiving # "yes"
                  /\ pc \in Writing => receiving # "fresh"

(* Action properties *)

\* A request whose reply is awaited is only given up for a frame of its
\* addressee or when its time is over: no other request, frame or reset takes
\* its place or prolongs it (oplink_com.c:180-183, 198-201, 252-262).
PendingRequestIsKept ==
  [][last_request.reply_state = "Pending" =>
       \/ /\ last_request'.reply_state = "Pending"
          /\ last_request'.dest = last_request.dest
          /\ last_request'.busy_time <= last_request.busy_time
       \/ /\ pc = "parse" /\ rx_frame.state = "Ready"
          /\ rx_frame'.frame.src = last_request.dest
       \/ pc = "keep" /\ RequestTimesOut(last_request)]_vars

(* Liveness *)

\* Under any traffic the receiver is turned on again, and a request is answered
\* or given up.
HearsAgain == ~rx_frame.on ~> rx_frame.on
RequestEnds == last_request.reply_state = "Pending" ~> last_request.reply_state # "Pending"

\* Once the bus falls silent the node is ready to send again and again: no
\* frame, request, back-off or reset keeps it from sending for ever
\* (oplink_com.c:171-201), unless a reply is never read to its end, see
\* SafeWhenNothingAwaited.
Silence == <>[](receiving = "no") /\ <>[][~OtherTraffic]_vars
RepliesAreRead == []<>(last_request.reply_state # "Received")
SilenceLetsSend == Silence /\ RepliesAreRead => []<>SafeToSend(rx_frame, last_request, bus)

(* What the comments promise *)

\* "Return true if no frame needs processing, not waiting for a reply and the
\* bus is idle" (oplink_com_private.h:36).
SafeWhenNothingAwaited ==
  (rx_frame.state = "Empty" /\ last_request.reply_state # "Pending" /\ ~bus.busy) =>
    SafeToSend(rx_frame, last_request, bus)
=============================================================================
