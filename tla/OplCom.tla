-------------------------------- MODULE OplCom --------------------------------
(***************************************************************************)
(* The link layer of one node (OPL/Core/oplink_com.c): what each function   *)
(* does to the structs of that file, as operators from the struct before    *)
(* the call to the struct after it.                                         *)
(*                                                                         *)
(*   rx   rx_frame: state, busy_time, len (data bytes not read yet); frame, *)
(*        the frame in the receive buffer; on, the UART receiver is enabled *)
(*   req  last_request: reply_state, busy_time, dest                        *)
(*   bus  heard, the UART's busy flag: a byte arrived since it was cleared; *)
(*        busy, opl_node.bus_busy; wait, the static busy_count of           *)
(*        update_node_state()                                               *)
(* A frame is [src, mode, len, ok]: ok says whether its CRC will match.     *)
(***************************************************************************)
EXTENDS Integers

CONSTANTS SEND_REPLY_TIMEOUT,     \* keep-alive cycles, 2 in the code
          RECEIVE_REPLY_TIMEOUT,  \* keep-alive cycles, 3 in the code
          Peer,                   \* addresses frames come from and go to
          MaxLen                  \* longest data part of a frame

ASSUME ComAssumption == /\ SEND_REPLY_TIMEOUT \in Nat \ {0}
                        /\ RECEIVE_REPLY_TIMEOUT \in Nat \ {0}
                        /\ 0 \in Peer
                        /\ MaxLen \in Nat

Frame == [src : Peer, mode : {"DATA", "CMD"}, len : 0 .. MaxLen, ok : BOOLEAN]

\* What is read from a buffer that was flushed: uart_read_byte() returns zeros.
Flushed == [src |-> 0, mode |-> "DATA", len |-> 0, ok |-> FALSE]

\* The static initialisers; opl_init() leaves the receiver on.
InitialRx == [on |-> TRUE, state |-> "Empty", busy_time |-> SEND_REPLY_TIMEOUT,
              frame |-> Flushed, len |-> 0]
InitialRequest == [reply_state |-> "None", busy_time |-> RECEIVE_REPLY_TIMEOUT, dest |-> 255]
InitialBus == [heard |-> FALSE, busy |-> TRUE, wait |-> 0]

\* Mutation: the callback leaves the receiver on.
ArrivedKeepsRx(rx, f) ==
  [rx EXCEPT !.state = "Ready", !.busy_time = SEND_REPLY_TIMEOUT, !.frame = f]

\* uart_rx_callback() on the last byte of a frame, from the UART interrupt.
Arrived(rx, f) == [rx EXCEPT !.on = FALSE, !.state = "Ready",
                             !.busy_time = SEND_REPLY_TIMEOUT, !.frame = f]

\* OPL_UART_ENABLE_RX() and rx_frame.state = Empty, which go together in
\* update_node_state(), opl_parse(), opl_read() and at the end of
\* opl_send_bytes(), where they are reached whether or not a frame was written.
Released(rx) == [rx EXCEPT !.on = TRUE, !.state = "Empty"]

\* last_request once a frame that wants a reply was written to node d.
Awaiting(d) == [reply_state |-> "Pending", busy_time |-> RECEIVE_REPLY_TIMEOUT, dest |-> d]

Answered(req) == [req EXCEPT !.reply_state = "None"]
-----------------------------------------------------------------------------
(* update_node_state(): the held frame and the awaited reply each lose a    *)
(* cycle and are given up at 0, and the bus is sampled unless the node      *)
(* backs off. The value of BUS_WAIT() is the argument wait.                 *)

\* Mutation: a frame that was parsed no longer times out.
OnlyReadyTimesOut(rx) == rx.state = "Ready" /\ rx.busy_time = 1

RxTimesOut(rx) == rx.state # "Empty" /\ rx.busy_time = 1
RxAfterCycle(rx) ==
  LET aged == [rx EXCEPT !.busy_time = @ - 1]
  IN  IF rx.state = "Empty" THEN rx ELSE IF RxTimesOut(rx) THEN Released(aged) ELSE aged

RequestTimesOut(req) == req.reply_state = "Pending" /\ req.busy_time = 1
RequestAfterCycle(req) ==
  LET aged == [req EXCEPT !.busy_time = @ - 1]
  IN  IF req.reply_state # "Pending" THEN req
      ELSE IF RequestTimesOut(req) THEN Answered(aged) ELSE aged

\* Mutation: an idle sample does not clear bus_busy.
BusStaysBusy(bus, wait) ==
  IF bus.wait > 0 THEN [bus EXCEPT !.wait = @ - 1]
  ELSE [heard |-> FALSE, busy |-> bus.busy \/ bus.heard, wait |-> IF bus.heard THEN wait ELSE 0]

BusAfterCycle(bus, wait) ==
  IF bus.wait > 0 THEN [bus EXCEPT !.wait = @ - 1]
  ELSE [heard |-> FALSE, busy |-> bus.heard, wait |-> IF bus.heard THEN wait ELSE 0]

\* Mutation of safe_to_send(): the bus is not looked at.
SafeIgnoresBus(rx, req, bus) == rx.state = "Empty" /\ req.reply_state = "None"

\* safe_to_send()
SafeToSend(rx, req, bus) == rx.state = "Empty" /\ req.reply_state = "None" /\ ~bus.busy
-----------------------------------------------------------------------------
(* opl_parse() of a frame that is Ready, up to the test of its mode, with h *)
(* in the buffer. A frame from another node than the one whose reply is     *)
(* awaited is dropped, and while a received reply is still unread no frame  *)
(* is looked at.                                                            *)

\* Mutation: a pending request is not compared with the source.
NeverFromOther(req, h) == FALSE

FromOther(req, h) == req.reply_state = "Pending" /\ req.dest # h.src
Accepts(req, h) == ~FromOther(req, h) /\ req.reply_state # "Received"

\* Mutation: the receiver is not turned on when a frame is dropped.
DropForgetsRx(rx, req, h) ==
  [rx EXCEPT !.frame = h, !.state = IF FromOther(req, h) THEN "Empty" ELSE "Processing",
             !.len = IF Accepts(req, h) THEN h.len ELSE @]

ParsedRx(rx, req, h) ==
  IF FromOther(req, h) THEN Released([rx EXCEPT !.frame = h])
  ELSE [rx EXCEPT !.frame = h, !.state = "Processing",
                  !.len = IF Accepts(req, h) THEN h.len ELSE @]

\* Mutation: a dropped frame gives the pending request its time again.
DropProlongsRequest(req, h) ==
  IF FromOther(req, h) THEN Awaiting(req.dest)
  ELSE [req EXCEPT !.reply_state = IF @ = "Pending" THEN "Received" ELSE @]

ParsedRequest(req, h) ==
  IF req.reply_state = "Pending" /\ ~FromOther(req, h)
  THEN [req EXCEPT !.reply_state = "Received"] ELSE req
-----------------------------------------------------------------------------
(* opl_read() of n of the bytes left. Reading the last one checks the CRC;  *)
(* the frame is then released if it is wrong or was an awaited reply.       *)

Releases(rx, req, n) == n = rx.len /\ (~rx.frame.ok \/ req.reply_state = "Received")
ReadRx(rx, req, n) ==
  LET read == [rx EXCEPT !.len = @ - n]
  IN  IF Releases(rx, req, n) THEN Released(read) ELSE read
ReadRequest(rx, req, n) == IF Releases(rx, req, n) THEN Answered(req) ELSE req

\* opl_send_reply() is refused unless a data frame is being processed.
MayReply(rx) == rx.state = "Processing" /\ rx.frame.mode = "DATA"
-----------------------------------------------------------------------------
(* slave_set_default() of oplink_slave.c as far as this layer is concerned: *)
(* the UART is initialised again, which flushes its buffer and clears its   *)
(* busy flag; rx_frame, last_request and opl_node.bus_busy stay.            *)

ResetRx(rx) == [rx EXCEPT !.on = TRUE, !.frame = Flushed]
ResetBus(bus) == [bus EXCEPT !.heard = FALSE]
=============================================================================
