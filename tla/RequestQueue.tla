---------------------------- MODULE RequestQueue ----------------------------
(***************************************************************************)
(* The external request queue of a node (OPL/Core/oplink_com.c:59-75 and    *)
(* 316-363): a ring of MAX_REQUESTS slots of which one always stays free,   *)
(* written at head by the application's pushes and read at tail by the      *)
(* keep-alive routine. The C pointers head and tail are the indices         *)
(* head - elems and tail - elems.                                           *)
(*                                                                         *)
(* Everything here runs in the main loop (the UART interrupt never touches  *)
(* the queue), so each function is one step. The buffer of a request is     *)
(* the pointer the application passed: the queue does not copy the bytes.   *)
(***************************************************************************)
EXTENDS Naturals, Sequences

CONSTANTS MAX_REQUESTS,  \* slots of the ring, 5 in the code
          Dest,          \* destination addresses, 0 (broadcast) among them
          Buffer,        \* <<pointer, length>> pairs the application pushes
          NoBuffer,      \* the contents of a slot that was never written
          NoRequest,     \* the argument of a call that has none
          NoDest         \* "no reply is awaited"

Request == [dest : Dest, buf : Buffer, wait_reply : BOOLEAN]

\* Static storage is zero initialised: oplink_com.c:69-74.
ZeroRequest == [dest |-> 0, buf |-> NoBuffer, wait_reply |-> FALSE]

ASSUME QueueAssumption == /\ MAX_REQUESTS \in Nat \ {0}
                          /\ 0 \in Dest
                          /\ NoRequest \notin Request
                          /\ NoDest \notin Dest \cup {255}

VARIABLES head, tail, count, elems, \* struct request_queue
          last_request,             \* struct last_request: reply_state and dest
          outcome                   \* what the last call did

queueVars == <<head, tail, count, elems>>
vars == <<head, tail, count, elems, last_request, outcome>>

Capacity == MAX_REQUESTS - 1

\* Mutation: a pointer leaves the ring before it wraps.
AfterTooFar(p) == IF p = MAX_REQUESTS THEN 0 ELSE p + 1

\* The pointer step of push_request() and dispatch_request().
After(p) == IF p = MAX_REQUESTS - 1 THEN 0 ELSE p + 1

Outcome(call, req) == [call |-> call, req |-> req]

Init == /\ head = 0
        /\ tail = 0
        /\ count = 0
        /\ elems = [p \in 0 .. MAX_REQUESTS - 1 |-> ZeroRequest]
        /\ last_request = [reply_state |-> "None", dest |-> 255]
        /\ outcome = Outcome("none", NoRequest)

\* Mutation: all MAX_REQUESTS slots are filled.
PushFillsRing(r) ==
  IF count < MAX_REQUESTS
  THEN /\ elems' = [elems EXCEPT ![head] = r]
       /\ count' = count + 1
       /\ head' = After(head)
       /\ outcome' = Outcome("accepted", r)
       /\ UNCHANGED <<tail, last_request>>
  ELSE /\ outcome' = Outcome("refused", r)
       /\ UNCHANGED <<queueVars, last_request>>

\* push_request(): accepted while fewer than MAX_REQUESTS - 1 wait.
Push(r) ==
  IF count < MAX_REQUESTS - 1
  THEN /\ elems' = [elems EXCEPT ![head] = r]
       /\ count' = count + 1
       /\ head' = After(head)
       /\ outcome' = Outcome("accepted", r)
       /\ UNCHANGED <<tail, last_request>>
  ELSE /\ outcome' = Outcome("refused", r)
       /\ UNCHANGED <<queueVars, last_request>>

\* dispatch_request() when opl_send_bytes() wrote the frame.
DispatchSent ==
  /\ last_request.reply_state = "None"   \* the caller checked safe_to_send()
  /\ count > 0
  /\ last_request' = IF elems[tail].wait_reply
                     THEN [reply_state |-> "Pending", dest |-> elems[tail].dest]
                     ELSE last_request
  /\ count' = count - 1
  /\ tail' = After(tail)
  /\ outcome' = Outcome("sent", elems[tail])
  /\ UNCHANGED <<head, elems>>

\* dispatch_request() when opl_send_bytes() found the bus busy.
DispatchBusy ==
  /\ last_request.reply_state = "None"
  /\ count > 0
  /\ outcome' = Outcome("busy", NoRequest)
  /\ UNCHANGED <<queueVars, last_request>>

\* update_node_state() or opl_read() ends the wait for a reply.
Resolve ==
  /\ last_request.reply_state = "Pending"
  /\ last_request' = [last_request EXCEPT !.reply_state = "None"]
  /\ outcome' = Outcome("none", NoRequest)
  /\ UNCHANGED queueVars

Next == \/ \E r \in Request : Push(r)
        \/ DispatchSent
        \/ DispatchBusy
        \/ Resolve

Spec == Init /\ [][Next]_vars
-----------------------------------------------------------------------------
\* The variables hold values of their C types; 255 is the 0xFF that
\* last_request.dest starts with.
TypeOK ==
  /\ head \in 0 .. MAX_REQUESTS - 1
  /\ tail \in 0 .. MAX_REQUESTS - 1
  /\ count \in 0 .. MAX_REQUESTS - 1
  /\ elems \in [0 .. MAX_REQUESTS - 1 -> Request \cup {ZeroRequest}]
  /\ last_request \in [reply_state : {"None", "Pending"}, dest : Dest \cup {255}]
  /\ outcome \in [call : {"none", "accepted", "refused", "sent", "busy"},
                  req : Request \cup {NoRequest}]

\* The slot of the i-th oldest waiting request when the oldest is at t.
Slot(t, i) == IF t + i - 1 < MAX_REQUESTS THEN t + i - 1 ELSE t + i - 1 - MAX_REQUESTS

Waiting == [i \in 1 .. count |-> elems[Slot(tail, i)]]

Service == INSTANCE RequestService
             WITH queue <- Waiting,
                  awaiting <- IF last_request.reply_state = "Pending"
                              THEN last_request.dest ELSE NoDest

\* The ring implements the request service: accepted requests leave in order,
\* none lost, overwritten or sent twice, a failed send keeps the request at
\* the front, a push is refused only when the queue is full, and nothing is
\* dispatched while a reply is awaited (oplink_com.c:323-362).
ImplementsService == Service!Spec
=============================================================================
