--------------------------- MODULE LinkNodeProofs ---------------------------
(***************************************************************************)
(* Safety of the link layer of one node, for every value of the timeouts,   *)
(* every set of peers, frames and back-off times, on a master and on a      *)
(* slave.                                                                   *)
(***************************************************************************)
EXTENDS LinkNode, TLAPS

USE ComAssumption, LinkAssumption

\* What the invariants rest on: a running timer is not at 0, the receiver is
\* only off while a frame is held, and a back-off only runs while the bus
\* counts as busy.
RxInv(rx) == /\ rx \in RxType
             /\ rx.state # "Empty" => rx.busy_time > 0
             /\ ~rx.on => rx.state # "Empty"
RequestInv(req) == /\ req \in RequestType
                   /\ req.reply_state = "Pending" => req.busy_time > 0
BusInv(b) == b \in BusType /\ (b.wait > 0 => b.busy)
LoopInv == pc \in Loop /\ receiving \in {"no", "fresh", "late", "yes"}

\* In the window of an unforced transmission, as while the application reads,
\* no reply is awaited.
NothingAwaited == /\ pc \in Window => last_request.reply_state = "None"
                  /\ pc \in {"read", "reply"} => last_request.reply_state # "Pending"

\* A frame that arrives in the window began in it, and before the last look at the
\* bus only if it was heard.
WindowInv == /\ pc \in Window => receiving # "yes"
             /\ receiving = "fresh" => pc \in Window \ Writing /\ bus.heard

\* The inductive invariant.
IInv == /\ RxInv(rx_frame) /\ RequestInv(last_request) /\ BusInv(bus) /\ LoopInv
        /\ NothingAwaited
        /\ SendDropsNoFrame
        /\ WindowInv

\* The invariant contains the types and that a deaf node holds a running frame.
LEMMA IInvImplies == IInv => TypeOK /\ DeafOnlyWhileHolding
BY DEF IInv, RxInv, RequestInv, BusInv, LoopInv, TypeOK, DeafOnlyWhileHolding
-----------------------------------------------------------------------------
(* Each function of the link layer keeps the invariant of the struct it     *)
(* works on.                                                                *)

\* The timeouts are values of the timers, and not 0.
LEMMA TimeoutInRange == /\ SEND_REPLY_TIMEOUT \in 0 .. SEND_REPLY_TIMEOUT
                        /\ RECEIVE_REPLY_TIMEOUT \in 0 .. RECEIVE_REPLY_TIMEOUT
                        /\ SEND_REPLY_TIMEOUT > 0 /\ RECEIVE_REPLY_TIMEOUT > 0
OBVIOUS

\* A flushed buffer reads as a frame.
LEMMA FlushedIsFrame == Flushed \in Frame
BY DEF Flushed, Frame

\* The static initialisers satisfy the invariants of their structs.
LEMMA InitialInv == RxInv(InitialRx) /\ RequestInv(InitialRequest) /\ BusInv(InitialBus)
<1>1. RxInv(InitialRx)
  BY TimeoutInRange, FlushedIsFrame DEF RxInv, RxType, InitialRx
<1>2. RequestInv(InitialRequest)
  BY TimeoutInRange DEF RequestInv, RequestType, InitialRequest
<1>3. BusInv(InitialBus)
  BY DEF BusInv, BusType, InitialBus
<1> QED BY <1>1, <1>2, <1>3

\* A frame held after the step was held before, with the receiver as it is now.
HoldsNoNew(rx, new) == new.state # "Empty" => rx.state # "Empty" /\ new.on = rx.on

\* uart_rx_callback() starts the timer of the frame it hands over.
LEMMA ArrivedInv ==
  ASSUME NEW rx, RxInv(rx), NEW f \in Frame
  PROVE  RxInv(Arrived(rx, f))
BY TimeoutInRange DEF RxInv, RxType, Arrived

\* A released frame leaves the receiver on and nothing held.
LEMMA ReleasedInv ==
  ASSUME NEW rx \in RxType
  PROVE  RxInv(Released(rx)) /\ Released(rx).on /\ Released(rx).state = "Empty"
BY DEF RxInv, RxType, Released

\* A request that was sent has its timer running.
LEMMA AwaitingInv ==
  ASSUME NEW d \in Peer
  PROVE  RequestInv(Awaiting(d))
BY TimeoutInRange DEF RequestInv, RequestType, Awaiting

\* An answered request is no longer pending.
LEMMA AnsweredInv ==
  ASSUME NEW req \in RequestType
  PROVE  RequestInv(Answered(req)) /\ Answered(req).reply_state = "None"
BY DEF RequestInv, RequestType, Answered

\* update_node_state() releases the held frame before its timer reaches 0.
LEMMA RxAfterCycleInv ==
  ASSUME NEW rx, RxInv(rx)
  PROVE  RxInv(RxAfterCycle(rx)) /\ HoldsNoNew(rx, RxAfterCycle(rx))
<1> DEFINE aged == [rx EXCEPT !.busy_time = @ - 1]
<1>1. CASE rx.state = "Empty"
  BY <1>1 DEF RxAfterCycle, HoldsNoNew
<1>2. CASE rx.state # "Empty"
  <2>1. rx.busy_time \in 1 .. SEND_REPLY_TIMEOUT
    BY <1>2 DEF RxInv, RxType
  <2>2. aged \in RxType /\ aged.on = rx.on /\ aged.state = rx.state
    BY <2>1 DEF RxInv, RxType
  <2>3. CASE RxTimesOut(rx)
    <3>1. RxAfterCycle(rx) = Released(aged)
      BY <1>2, <2>3 DEF RxAfterCycle
    <3> QED BY <3>1, <2>2, ReleasedInv DEF HoldsNoNew
  <2>4. CASE ~RxTimesOut(rx)
    <3>1. RxAfterCycle(rx) = aged
      BY <1>2, <2>4 DEF RxAfterCycle
    <3>2. aged.busy_time > 0
      BY <1>2, <2>1, <2>4 DEF RxTimesOut, RxInv, RxType
    <3> QED BY <3>1, <3>2, <2>2, <1>2 DEF RxInv, HoldsNoNew
  <2> QED BY <2>3, <2>4
<1> QED BY <1>1, <1>2

\* update_node_state() gives up the request before its timer passes 0.
LEMMA RequestAfterCycleInv ==
  ASSUME NEW req, RequestInv(req)
  PROVE  RequestInv(RequestAfterCycle(req))
<1> DEFINE aged == [req EXCEPT !.busy_time = @ - 1]
<1>1. CASE req.reply_state # "Pending"
  BY <1>1 DEF RequestAfterCycle
<1>2. CASE req.reply_state = "Pending"
  <2>1. req.busy_time \in 1 .. RECEIVE_REPLY_TIMEOUT
    BY <1>2 DEF RequestInv, RequestType
  <2>2. aged \in RequestType
    BY <2>1 DEF RequestInv, RequestType
  <2>3. CASE RequestTimesOut(req)
    <3>1. RequestAfterCycle(req) = Answered(aged)
      BY <1>2, <2>3 DEF RequestAfterCycle
    <3> QED BY <3>1, <2>2, AnsweredInv
  <2>4. CASE ~RequestTimesOut(req)
    <3>1. RequestAfterCycle(req) = aged
      BY <1>2, <2>4 DEF RequestAfterCycle
    <3>2. aged.busy_time > 0
      BY <1>2, <2>1, <2>4 DEF RequestTimesOut, RequestInv, RequestType
    <3> QED BY <3>1, <3>2, <2>2 DEF RequestInv
  <2> QED BY <2>3, <2>4
<1> QED BY <1>1, <1>2

\* A sample that heard something, or a back-off, counts as a busy bus.
LEMMA BusAfterCycleInv ==
  ASSUME NEW b, BusInv(b), NEW wait \in BusWait
  PROVE  BusInv(BusAfterCycle(b, wait)) /\ (b.heard => BusAfterCycle(b, wait).busy)
BY DEF BusInv, BusType, BusAfterCycle

\* opl_parse() holds or drops the frame, and what it accepts ends the wait.
LEMMA ParsedInv ==
  ASSUME NEW rx, RxInv(rx), NEW req, RequestInv(req), NEW h \in Frame, rx.state = "Ready"
  PROVE  /\ RxInv(ParsedRx(rx, req, h)) /\ RequestInv(ParsedRequest(req, h))
         /\ ParsedRx(rx, req, h).frame = h
         /\ HoldsNoNew(rx, ParsedRx(rx, req, h))
         /\ Accepts(req, h) => /\ ParsedRx(rx, req, h).len = h.len
                               /\ ParsedRequest(req, h).reply_state # "Pending"
<1>1. h.len \in 0 .. MaxLen /\ rx.len \in 0 .. MaxLen
  BY DEF Frame, RxInv, RxType
<1>2. [rx EXCEPT !.frame = h] \in RxType /\ [rx EXCEPT !.frame = h].frame = h
  BY DEF RxInv, RxType
<1>3. RequestInv(ParsedRequest(req, h))
  BY DEF RequestInv, RequestType, ParsedRequest
<1>4. Accepts(req, h) => ParsedRequest(req, h).reply_state # "Pending"
  BY DEF RequestInv, RequestType, ParsedRequest, Accepts, FromOther
<1>5. CASE FromOther(req, h)
  <2>1. ParsedRx(rx, req, h) = Released([rx EXCEPT !.frame = h])
    BY <1>5 DEF ParsedRx
  <2>2. ParsedRx(rx, req, h).frame = h
    BY <2>1, <1>2 DEF Released, RxType
  <2>3. RxInv(ParsedRx(rx, req, h)) /\ HoldsNoNew(rx, ParsedRx(rx, req, h))
    BY <2>1, <1>2, ReleasedInv DEF HoldsNoNew
  <2>4. ~Accepts(req, h)
    BY <1>5 DEF Accepts
  <2> QED BY <2>2, <2>3, <2>4, <1>3
<1>6. CASE ~FromOther(req, h)
  <2> DEFINE l == IF Accepts(req, h) THEN h.len ELSE rx.len
             new == [rx EXCEPT !.frame = h, !.state = "Processing", !.len = l]
  <2>1. ParsedRx(rx, req, h) = new
    BY <1>6 DEF ParsedRx, RxInv, RxType
  <2>2. l \in 0 .. MaxLen
    BY <1>1
  <2>3. RxInv(new) /\ new.frame = h /\ new.on = rx.on /\ new.len = l
    <3> HIDE DEF l
    <3> QED BY <2>2 DEF RxInv, RxType
  <2> QED BY <2>1, <2>3, <1>3, <1>4 DEF HoldsNoNew
<1> QED BY <1>5, <1>6

\* opl_read() keeps the frame or releases it and makes no request pending.
LEMMA ReadInv ==
  ASSUME NEW rx, RxInv(rx), NEW req, RequestInv(req), NEW n \in 0 .. rx.len
  PROVE  /\ RxInv(ReadRx(rx, req, n)) /\ RequestInv(ReadRequest(rx, req, n))
         /\ HoldsNoNew(rx, ReadRx(rx, req, n))
         /\ req.reply_state # "Pending" => ReadRequest(rx, req, n).reply_state # "Pending"
<1> DEFINE read == [rx EXCEPT !.len = @ - n]
<1>1. read \in RxType /\ RxInv(read) /\ read.on = rx.on /\ read.state = rx.state
  BY DEF RxInv, RxType
<1>2. RequestInv(Answered(req)) /\ Answered(req).reply_state = "None"
  BY AnsweredInv DEF RequestInv
<1>3. RxInv(Released(read)) /\ Released(read).state = "Empty"
  BY <1>1, ReleasedInv
<1>4. ReadRx(rx, req, n) = IF Releases(rx, req, n) THEN Released(read) ELSE read
  BY DEF ReadRx
<1>5. ReadRequest(rx, req, n) = IF Releases(rx, req, n) THEN Answered(req) ELSE req
  BY DEF ReadRequest
<1> QED BY <1>1, <1>2, <1>3, <1>4, <1>5 DEF HoldsNoNew

\* slave_set_default() keeps the held frame's state and the bus sample.
LEMMA ResetInv ==
  ASSUME NEW rx, RxInv(rx), NEW b, BusInv(b)
  PROVE  /\ RxInv(ResetRx(rx)) /\ BusInv(ResetBus(b))
         /\ ResetRx(rx).state = rx.state /\ ResetBus(b).busy = b.busy
<1>1. RxInv(ResetRx(rx)) /\ ResetRx(rx).state = rx.state
  BY FlushedIsFrame DEF RxInv, RxType, ResetRx
<1>2. BusInv(ResetBus(b)) /\ ResetBus(b).busy = b.busy
  BY DEF BusInv, BusType, ResetBus
<1> QED BY <1>1, <1>2
-----------------------------------------------------------------------------
(* Every step keeps the inductive invariant. *)

\* The program starts in the invariant.
LEMMA InitIInv == Init => IInv
BY InitialInv DEF Init, IInv, LoopInv, Loop, Window, NothingAwaited, SendDropsNoFrame,
                  WindowInv, Writing, InitialRx

\* No interrupt leaves the invariant.
LEMMA UartKeepsIInv == IInv /\ Uart => IInv'
<1> SUFFICES ASSUME IInv, Uart PROVE IInv'
  OBVIOUS
<1> USE DEF IInv
<1>1. CASE FrameStarts
  <2>1. BusInv(bus') /\ UNCHANGED <<rx_frame, last_request, pc>>
    BY <1>1 DEF FrameStarts, BusInv, BusType
  <2>2. /\ receiving' \in {"no", "fresh", "late", "yes"}
        /\ pc \in Window => receiving' # "yes"
        /\ receiving' = "fresh" => pc \in Window \ Writing
        /\ receiving' = "fresh" => bus'.heard
    BY <1>1 DEF FrameStarts, BusInv, BusType
  <2> QED BY <2>1, <2>2 DEF LoopInv, NothingAwaited, SendDropsNoFrame, WindowInv
<1>2. CASE FrameBreaks
  BY <1>2 DEF FrameBreaks, com, LoopInv, NothingAwaited, SendDropsNoFrame, WindowInv
<1>3. ASSUME NEW f \in Frame, FrameCompletes(f) PROVE IInv'
  <2>1. RxInv(rx_frame') /\ UNCHANGED <<last_request, pc>> /\ receiving' = "no"
    BY <1>3, ArrivedInv DEF FrameCompletes
  <2>2. BusInv(bus')
    BY <1>3 DEF FrameCompletes, BusInv, BusType
  <2>3. pc \notin Window
    BY <1>3 DEF FrameCompletes, WindowInv, Writing
  <2> QED BY <2>1, <2>2, <2>3 DEF LoopInv, NothingAwaited, SendDropsNoFrame, WindowInv
<1>4. CASE OtherTraffic
  <2>1. BusInv(bus') /\ UNCHANGED <<rx_frame, last_request, pc, receiving>>
    BY <1>4 DEF OtherTraffic, BusInv, BusType
  <2>2. receiving # "fresh"
    BY <1>4 DEF OtherTraffic, WindowInv
  <2> QED BY <2>1, <2>2 DEF LoopInv, NothingAwaited, SendDropsNoFrame, WindowInv
<1> QED BY <1>1, <1>2, <1>3, <1>4 DEF Uart

\* opl_parse() keeps the invariant, whatever is in the buffer.
LEMMA ParseKeepsIInv == IInv /\ (ParseNothing \/ ParseData \/ ParseCommand) => IInv'
<1> SUFFICES ASSUME IInv, ParseNothing \/ ParseData \/ ParseCommand PROVE IInv'
  OBVIOUS
<1> USE DEF IInv
<1>1. InBuffer \subseteq Frame
  BY DEF InBuffer, RxInv, RxType
<1>2. CASE ParseNothing
  BY <1>2 DEF ParseNothing, Goto, com, LoopInv, Loop, Window, NothingAwaited,
              SendDropsNoFrame, WindowInv
<1>3. CASE ParseData
  <2>1. PICK h \in InBuffer :
          /\ rx_frame' = ParsedRx(rx_frame, last_request, h)
          /\ last_request' = ParsedRequest(last_request, h)
          /\ Goto(IF Accepts(last_request, h) /\ h.len > 0 THEN "read" ELSE "keep")
    BY <1>3 DEF ParseData
  <2>2. rx_frame.state = "Ready" /\ UNCHANGED bus
    BY <1>3 DEF ParseData
  <2>3. /\ RxInv(rx_frame') /\ RequestInv(last_request')
        /\ Accepts(last_request, h) => last_request'.reply_state # "Pending"
    BY <1>1, <2>1, <2>2, ParsedInv
  <2>4. /\ pc' \in {"read", "keep"} /\ receiving' = receiving
        /\ pc' = "read" => Accepts(last_request, h)
    BY <2>1 DEF Goto
  <2> QED BY <2>2, <2>3, <2>4 DEF LoopInv, Loop, Window, NothingAwaited, SendDropsNoFrame,
                                  WindowInv, Writing
<1>4. CASE ParseCommand
  <2> DEFINE rx(h) == ParsedRx(rx_frame, last_request, h)
             req(h) == ParsedRequest(last_request, h)
             answered(h) == ReadRequest(rx(h), req(h), h.len)
  <2>1. PICK h \in InBuffer :
          /\ Accepts(last_request, h)
          /\ \/ /\ rx_frame' = ReadRx(rx(h), req(h), h.len)
                /\ last_request' = answered(h)
             \/ /\ rx_frame' = Released(ReadRx(rx(h), req(h), h.len))
                /\ IF Slave THEN last_request' = answered(h)
                   ELSE \E d \in RequestDest : last_request' = Awaiting(d)
    BY <1>4 DEF ParseCommand
  <2>2. /\ rx_frame.state = "Ready" /\ UNCHANGED bus
        /\ pc' = "keep" /\ receiving' = receiving
    BY <1>4 DEF ParseCommand, Goto
  <2>3. RxInv(rx(h)) /\ RequestInv(req(h)) /\ h.len \in 0 .. rx(h).len
    <3>1. RxInv(rx(h)) /\ RequestInv(req(h)) /\ rx(h).len = h.len
      BY <1>1, <2>1, <2>2, ParsedInv
    <3>2. h.len \in 0 .. h.len
      BY <1>1 DEF Frame
    <3> QED BY <3>1, <3>2
  <2>4. RxInv(ReadRx(rx(h), req(h), h.len)) /\ RequestInv(answered(h))
    BY <2>3, ReadInv
  <2>5. RxInv(rx_frame')
    BY <2>1, <2>4, ReleasedInv DEF RxInv
  <2>6. RequestInv(last_request')
    BY <2>1, <2>4, AwaitingInv
  <2> QED BY <2>2, <2>5, <2>6 DEF LoopInv, Loop, Window, NothingAwaited, SendDropsNoFrame,
                                  WindowInv, Writing
<1> QED BY <1>2, <1>3, <1>4

\* The application's opl_read() and opl_send_reply() keep the invariant.
LEMMA ApplicationKeepsIInv == IInv /\ (Read \/ Reply) => IInv'
<1> SUFFICES ASSUME IInv, Read \/ Reply PROVE IInv'
  OBVIOUS
<1> USE DEF IInv
<1>1. CASE Read
  <2>1. PICK n \in 1 .. rx_frame.len :
          /\ rx_frame' = ReadRx(rx_frame, last_request, n)
          /\ last_request' = ReadRequest(rx_frame, last_request, n)
    BY <1>1 DEF Read
  <2>2. /\ pc = "read" /\ pc' \in {"read", "reply", "keep"}
        /\ receiving' = receiving /\ UNCHANGED bus
    BY <1>1 DEF Read, Goto
  <2>3. n \in 0 .. rx_frame.len
    BY DEF RxInv, RxType
  <2>4. /\ RxInv(rx_frame') /\ RequestInv(last_request')
        /\ last_request.reply_state # "Pending" => last_request'.reply_state # "Pending"
    BY <2>1, <2>3, ReadInv
  <2> QED BY <2>2, <2>4 DEF LoopInv, Loop, Window, NothingAwaited, SendDropsNoFrame,
                            WindowInv, Writing
<1>2. CASE Reply
  <2>1. RxInv(rx_frame')
    BY <1>2, ReleasedInv DEF Reply, RxInv
  <2>2. /\ pc = "reply" /\ pc' = "keep" /\ receiving' = receiving
        /\ UNCHANGED <<last_request, bus>>
    BY <1>2 DEF Reply, Goto
  <2> QED BY <2>1, <2>2 DEF LoopInv, Loop, Window, NothingAwaited, SendDropsNoFrame,
                            WindowInv, Writing
<1> QED BY <1>1, <1>2

\* A frame that is arriving at a cycle has set the busy flag, which is sampled
\* into bus_busy unless the node backs off, and then bus_busy is set already.
LEMMA KeepAliveKeepsIInv == IInv /\ (KeepAliveEarly \/ KeepAliveCycle) => IInv'
<1> SUFFICES ASSUME IInv, KeepAliveEarly \/ KeepAliveCycle PROVE IInv'
  OBVIOUS
<1> USE DEF IInv
<1>1. CASE KeepAliveEarly
  <2>1. /\ pc' = "parse" /\ receiving' \in {"no", "late", "yes"}
        /\ UNCHANGED <<rx_frame, last_request, bus>>
    BY <1>1 DEF KeepAliveEarly, Goto, com, LoopInv
  <2> QED BY <2>1 DEF LoopInv, Loop, Window, NothingAwaited, SendDropsNoFrame, WindowInv
<1>2. CASE KeepAliveCycle
  <2> DEFINE before(early) == IF early THEN ResetBus(bus)
                              ELSE [bus EXCEPT !.heard = @ \/ receiving = "yes"]
             after(early, wait) == BusAfterCycle(before(early), wait)
             aged(early) == RxAfterCycle(IF early THEN ResetRx(rx_frame) ELSE rx_frame)
  <2>1. PICK early \in BOOLEAN, late \in BOOLEAN, wait \in BusWait :
          /\ bus' = IF late THEN ResetBus(after(early, wait)) ELSE after(early, wait)
          /\ rx_frame' = IF late THEN ResetRx(aged(early)) ELSE aged(early)
          /\ receiving' = IF early \/ late THEN "no" ELSE receiving
    BY <1>2 DEF KeepAliveCycle
  <2>2. /\ last_request' = RequestAfterCycle(last_request)
        /\ pc' \in {"parse", "join", "send"}
        /\ pc' # "parse" => SafeToSend(rx_frame', last_request', bus')
    BY <1>2 DEF KeepAliveCycle
  <2>3. RequestInv(last_request')
    BY <2>2, RequestAfterCycleInv
  <2>4. RxInv(rx_frame')
    <3>1. RxInv(aged(early))
      BY ResetInv, RxAfterCycleInv
    <3> QED BY <2>1, <3>1, ResetInv
  <2>5. BusInv(before(early)) /\ (receiving = "yes" /\ ~early => before(early).heard)
    <3>1. CASE early
      BY <3>1, ResetInv
    <3>2. CASE ~early
      <4>1. BusInv([bus EXCEPT !.heard = @ \/ receiving = "yes"])
        BY DEF BusInv, BusType
      <4>2. receiving = "yes" => [bus EXCEPT !.heard = @ \/ receiving = "yes"].heard
        BY DEF BusInv, BusType
      <4> QED BY <3>2, <4>1, <4>2
    <3> QED BY <3>1, <3>2
  <2>6. BusInv(after(early, wait)) /\ (receiving = "yes" /\ ~early => after(early, wait).busy)
    BY <2>5, BusAfterCycleInv
  <2>7. BusInv(bus') /\ (receiving' = "yes" => bus'.busy)
    BY <2>1, <2>6, ResetInv
  <2>8. receiving' \in {"no", "late", "yes"}
    BY <1>2, <2>1 DEF KeepAliveCycle, LoopInv, WindowInv, Window
  <2>9. pc' # "parse" => /\ rx_frame'.state = "Empty" /\ last_request'.reply_state = "None"
                         /\ receiving' # "yes"
    BY <2>2, <2>7 DEF SafeToSend
  <2> QED BY <2>2, <2>3, <2>4, <2>7, <2>8, <2>9
          DEF LoopInv, Loop, Window, NothingAwaited, SendDropsNoFrame, WindowInv
<1> QED BY <1>1, <1>2

Sending == JoinSkip \/ JoinBusy \/ JoinIdle \/ JoinWrite \/ SendSkip \/ SendBusy \/ SendIdle \/ Write

\* Transmissions, and those that find the bus taken, keep the invariant.
LEMMA SendingKeepsIInv == IInv /\ Sending => IInv'
<1> SUFFICES ASSUME IInv, Sending PROVE IInv'
  OBVIOUS
<1> USE DEF IInv
<1>1. RxInv(Released(rx_frame)) /\ Released(rx_frame).state = "Empty"
  BY ReleasedInv DEF RxInv
<1>2. pc \in Window /\ (pc' \in Window \/ pc' = "parse") /\ UNCHANGED bus
  BY DEF Sending, JoinSkip, JoinBusy, JoinIdle, JoinWrite, SendSkip, SendBusy, SendIdle, Write,
         Goto, Window, com
<1>3. /\ receiving' \in {"no", "fresh", "late", "yes"}
      /\ pc' # "parse" => receiving' # "yes"
      /\ receiving' = "fresh" => pc' \in Window \ Writing /\ bus.heard
  BY <1>2 DEF Sending, JoinSkip, JoinBusy, JoinIdle, JoinWrite, SendSkip, SendBusy, SendIdle,
              Write, Goto, LoopInv, WindowInv, Window, Writing
<1>4. RxInv(rx_frame') /\ rx_frame'.state = "Empty"
  BY <1>1, <1>2 DEF Sending, JoinSkip, JoinBusy, JoinIdle, JoinWrite, SendSkip, SendBusy,
                    SendIdle, Write, SendDropsNoFrame, com
<1>5. RequestInv(last_request') /\ (pc' # "parse" => last_request' = last_request)
  BY AwaitingInv DEF Sending, JoinSkip, JoinBusy, JoinIdle, JoinWrite, SendSkip, SendBusy,
                     SendIdle, Write, com
<1>6. "parse" \notin Window /\ Window \subseteq Loop /\ "parse" \in Loop
  BY DEF Window, Loop
<1>7. Window \cap {"read", "reply"} = {}
  BY DEF Window
<1> QED BY <1>2, <1>3, <1>4, <1>5, <1>6, <1>7 DEF LoopInv, NothingAwaited, SendDropsNoFrame,
                                                  WindowInv, Writing

\* Every step keeps the invariant.
LEMMA NextKeepsIInv == IInv /\ [Next]_vars => IInv'
<1>1. IInv /\ UNCHANGED vars => IInv'
  BY DEF IInv, vars, LoopInv, NothingAwaited, SendDropsNoFrame, WindowInv
<1> QED BY <1>1, UartKeepsIInv, ParseKeepsIInv, ApplicationKeepsIInv, KeepAliveKeepsIInv,
           SendingKeepsIInv
        DEF Next, MainLoop, Sending

\* The invariant holds in every state of every behaviour.
THEOREM InductiveInvariant == Spec => []IInv
BY InitIInv, NextKeepsIInv, PTL DEF Spec

\* The structs keep their C types: no timer is decremented below 0.
THEOREM TypeCorrect == Spec => []TypeOK
BY InductiveInvariant, IInvImplies, PTL

\* A receiver that is off is held off by a frame whose timer still runs.
THEOREM NeverDeaf == Spec => []DeafOnlyWhileHolding
BY InductiveInvariant, IInvImplies, PTL

\* An unforced transmission loses no frame that was received.
THEOREM SendsSafely == Spec => []SendDropsNoFrame
<1>1. IInv => SendDropsNoFrame
  BY DEF IInv
<1> QED BY <1>1, InductiveInvariant, PTL

\* Nor does it cut a frame that began before its last look at the bus.
THEOREM CutsNoFrame == Spec => []NeverCutsFrame
<1>1. IInv => NeverCutsFrame
  BY DEF IInv, WindowInv, NeverCutsFrame
<1> QED BY <1>1, InductiveInvariant, PTL
-----------------------------------------------------------------------------
(* One frame at a time, on a node that is never set back to its defaults.   *)

\* On a node that does not reset no step lets a frame arrive over a held one.
LEMMA OneFrameStep ==
  ASSUME ~(Slave /\ Resets), IInv, OneFrameAtATime, [Next]_vars
  PROVE  OneFrameAtATime'
<1> USE DEF IInv, OneFrameAtATime
<1>1. CASE UNCHANGED vars
  BY <1>1 DEF vars
<1>2. CASE Uart
  <2>1. CASE FrameStarts
    BY <2>1 DEF FrameStarts
  <2>2. CASE FrameBreaks
    BY <2>2 DEF FrameBreaks, com
  <2>3. ASSUME NEW f \in Frame, FrameCompletes(f) PROVE OneFrameAtATime'
    <3>1. ~rx_frame'.on /\ receiving' = "no"
      BY <2>3 DEF FrameCompletes, Arrived, RxInv, RxType
    <3> QED BY <3>1
  <2>4. CASE OtherTraffic
    BY <2>4 DEF OtherTraffic
  <2> QED BY <1>2, <2>1, <2>2, <2>3, <2>4 DEF Uart
<1>3. ASSUME HoldsNoNew(rx_frame, rx_frame'), receiving' \in {receiving, "no"}
      PROVE  OneFrameAtATime'
  BY <1>3 DEF HoldsNoNew
<1>4. ASSUME rx_frame'.state = "Empty"
      PROVE  OneFrameAtATime'
  BY <1>4
<1>5. Released(rx_frame).state = "Empty"
  BY ReleasedInv DEF RxInv
<1>6. CASE ParseNothing \/ Reply \/ KeepAliveEarly
  <2>1. rx_frame' = rx_frame \/ rx_frame' = Released(rx_frame)
    BY <1>6 DEF ParseNothing, Reply, KeepAliveEarly, com
  <2>2. rx_frame.state # "Empty" => receiving' = receiving
    BY <1>6 DEF ParseNothing, Reply, KeepAliveEarly, Goto
  <2> QED BY <2>1, <2>2, <1>5
<1>7. CASE ParseData \/ ParseCommand
  <2>1. InBuffer \subseteq Frame /\ rx_frame.state = "Ready" /\ receiving' = receiving
    BY <1>7 DEF InBuffer, RxInv, RxType, ParseData, ParseCommand, Goto
  <2>2. CASE ParseData
    BY <2>1, <2>2, <1>3, ParsedInv DEF ParseData
  <2>3. CASE ParseCommand
    <3> DEFINE rx(h) == ParsedRx(rx_frame, last_request, h)
               req(h) == ParsedRequest(last_request, h)
               read(h) == ReadRx(rx(h), req(h), h.len)
    <3>1. PICK h \in Frame : Accepts(last_request, h) /\ rx_frame' \in {read(h), Released(read(h))}
      BY <2>1, <2>3 DEF ParseCommand
    <3>2. /\ RxInv(rx(h)) /\ RequestInv(req(h)) /\ HoldsNoNew(rx_frame, rx(h))
          /\ rx(h).len = h.len
      BY <2>1, <3>1, ParsedInv
    <3>3. h.len \in 0 .. rx(h).len
      <4>1. h.len \in 0 .. h.len
        BY DEF Frame
      <4> QED BY <4>1, <3>2
    <3>4. RxInv(read(h)) /\ HoldsNoNew(rx(h), read(h))
      BY <3>2, <3>3, ReadInv
    <3>5. Released(read(h)).state = "Empty"
      BY <3>4, ReleasedInv DEF RxInv
    <3> HIDE DEF rx, req, read
    <3>6. CASE rx_frame' = read(h)
      <4>1. HoldsNoNew(rx_frame, read(h))
        BY <3>2, <3>4 DEF HoldsNoNew
      <4> QED BY <4>1, <3>6, <2>1, <1>3
    <3> QED BY <3>1, <3>5, <3>6, <1>4
  <2> QED BY <1>7, <2>2, <2>3
<1>8. CASE Read
  <2>1. PICK n \in 1 .. rx_frame.len : rx_frame' = ReadRx(rx_frame, last_request, n)
    BY <1>8 DEF Read
  <2>2. n \in 0 .. rx_frame.len
    BY DEF RxInv, RxType
  <2>3. receiving' = receiving
    BY <1>8 DEF Read, Goto
  <2> QED BY <2>1, <2>2, <2>3, <1>3, ReadInv
<1>9. CASE KeepAliveCycle
  <2>1. rx_frame' = RxAfterCycle(rx_frame) /\ receiving' = receiving
    BY <1>9 DEF KeepAliveCycle
  <2> QED BY <2>1, <1>3, RxAfterCycleInv
<1>10. CASE Sending
  <2>1. rx_frame' \in {rx_frame, Released(rx_frame)} /\ pc \in Window
    BY <1>10 DEF Sending, JoinSkip, JoinBusy, JoinIdle, JoinWrite, SendSkip, SendBusy, SendIdle,
                Write, com, Window
  <2> QED BY <2>1, <1>4, <1>5 DEF SendDropsNoFrame
<1> QED BY <1>1, <1>2, <1>6, <1>7, <1>8, <1>9, <1>10 DEF Next, MainLoop, Sending

\* Only one frame at a time is received or processed, by a master and by a
\* slave that stays configured and connected.
THEOREM OneFrame == ASSUME ~(Slave /\ Resets) PROVE Spec => []OneFrameAtATime
<1>1. Init => OneFrameAtATime
  BY DEF Init, OneFrameAtATime, InitialRx
<1>2. IInv /\ OneFrameAtATime /\ [Next]_vars => OneFrameAtATime'
  BY OneFrameStep
<1> QED BY <1>1, <1>2, InductiveInvariant, PTL DEF Spec
-----------------------------------------------------------------------------
(* A request whose reply is awaited is kept. *)

KeepsPending ==
  last_request.reply_state = "Pending" =>
    \/ /\ last_request'.reply_state = "Pending"
       /\ last_request'.dest = last_request.dest
       /\ last_request'.busy_time <= last_request.busy_time
    \/ /\ pc = "parse" /\ rx_frame.state = "Ready"
       /\ rx_frame'.frame.src = last_request.dest
    \/ pc = "keep" /\ RequestTimesOut(last_request)

\* No step gives up a pending request but for the two reasons.
LEMMA KeepsPendingStep == IInv /\ [Next]_vars => [KeepsPending]_vars
<1> SUFFICES ASSUME IInv, Next, last_request.reply_state = "Pending" PROVE KeepsPending
  BY DEF KeepsPending
<1> USE DEF IInv
<1>1. ASSUME UNCHANGED last_request PROVE KeepsPending
  BY <1>1 DEF KeepsPending, RequestInv, RequestType
<1>2. CASE Uart \/ ParseNothing \/ Reply \/ KeepAliveEarly
  BY <1>1, <1>2 DEF Uart, FrameStarts, FrameBreaks, OtherTraffic, FrameCompletes, ParseNothing,
                    Reply, KeepAliveEarly, com
<1>3. CASE ParseData \/ ParseCommand
  <2>1. InBuffer \subseteq Frame /\ rx_frame.state = "Ready" /\ pc = "parse"
    BY <1>3 DEF InBuffer, RxInv, RxType, ParseData, ParseCommand
  <2>2. ASSUME NEW h \in Frame, FromOther(last_request, h),
               last_request' = ParsedRequest(last_request, h)
        PROVE  KeepsPending
    BY <2>2, <1>1 DEF ParsedRequest
  <2>3. ASSUME NEW h \in Frame, ~FromOther(last_request, h), rx_frame'.frame = h
        PROVE  KeepsPending
    BY <2>1, <2>3 DEF FromOther, KeepsPending
  <2>4. CASE ParseData
    BY <2>1, <2>2, <2>3, <2>4, ParsedInv DEF ParseData
  <2>5. CASE ParseCommand
    <3> DEFINE rx(h) == ParsedRx(rx_frame, last_request, h)
               read(h) == ReadRx(rx(h), ParsedRequest(last_request, h), h.len)
    <3>1. PICK h \in Frame : Accepts(last_request, h) /\ rx_frame' \in {read(h), Released(read(h))}
      BY <2>1, <2>5 DEF ParseCommand
    <3>2. rx(h).frame = h /\ rx(h) \in RxType
      BY <2>1, ParsedInv DEF RxInv
    <3>3. read(h).frame = h /\ Released(read(h)).frame = h
      <4> HIDE DEF rx
      <4> QED BY <3>2 DEF ReadRx, Released, RxType
    <3> HIDE DEF rx, read
    <3> QED BY <3>1, <3>3, <2>3 DEF Accepts
  <2> QED BY <1>3, <2>4, <2>5
<1>4. CASE Read
  BY <1>4 DEF Read, NothingAwaited
<1>5. CASE KeepAliveCycle
  <2>1. last_request' = RequestAfterCycle(last_request) /\ pc = "keep"
    BY <1>5 DEF KeepAliveCycle
  <2>2. CASE RequestTimesOut(last_request)
    BY <2>1, <2>2 DEF KeepsPending
  <2>3. CASE ~RequestTimesOut(last_request)
    <3>1. last_request' = [last_request EXCEPT !.busy_time = @ - 1]
      BY <2>1, <2>3 DEF RequestAfterCycle
    <3> QED BY <3>1 DEF KeepsPending, RequestInv, RequestType
  <2> QED BY <2>2, <2>3
<1>6. CASE Sending
  <2>1. pc \in Window
    BY <1>6 DEF Sending, JoinSkip, JoinBusy, JoinIdle, JoinWrite, SendSkip, SendBusy, SendIdle,
                Write, Window
  <2> QED BY <2>1 DEF NothingAwaited
<1> QED BY <1>2, <1>3, <1>4, <1>5, <1>6 DEF Next, MainLoop, Sending

\* A request is given up only for a frame of its addressee or when its time is
\* over.
THEOREM PendingKept == Spec => PendingRequestIsKept
<1>1. [KeepsPending]_vars <=>
        [last_request.reply_state = "Pending" =>
           \/ /\ last_request'.reply_state = "Pending"
              /\ last_request'.dest = last_request.dest
              /\ last_request'.busy_time <= last_request.busy_time
           \/ /\ pc = "parse" /\ rx_frame.state = "Ready"
              /\ rx_frame'.frame.src = last_request.dest
           \/ pc = "keep" /\ RequestTimesOut(last_request)]_vars
  BY DEF KeepsPending
<1> QED BY <1>1, KeepsPendingStep, InductiveInvariant, PTL DEF Spec, PendingRequestIsKept
=============================================================================
