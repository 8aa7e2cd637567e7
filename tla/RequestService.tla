--------------------------- MODULE RequestService ---------------------------
(***************************************************************************)
(* What the request queue of a node promises to the application             *)
(* (oplink_com_private.h, "Push a request to the queue", "Send a request if *)
(* the bus is idle. On success remove it from the list"): requests leave in *)
(* the order in which they were accepted, none is lost, duplicated or       *)
(* altered, a push is refused only when Capacity requests wait, and the     *)
(* node awaits the reply of at most one request at a time.                  *)
(***************************************************************************)
EXTENDS Naturals, Sequences

CONSTANTS Request,   \* the requests an application can push
          Capacity,  \* how many of them can wait
          NoRequest, \* not a request
          NoDest     \* not a destination

VARIABLES queue,     \* the waiting requests, oldest first
          awaiting,  \* the destination whose reply is awaited, or NoDest
          outcome    \* what the last call did: [call, req]

svars == <<queue, awaiting, outcome>>

Init == /\ queue = << >>
        /\ awaiting = NoDest
        /\ outcome = [call |-> "none", req |-> NoRequest]

Accept(r) == /\ Len(queue) < Capacity
             /\ queue' = Append(queue, r)
             /\ outcome' = [call |-> "accepted", req |-> r]
             /\ UNCHANGED awaiting

Refuse(r) == /\ Len(queue) = Capacity
             /\ outcome' = [call |-> "refused", req |-> r]
             /\ UNCHANGED <<queue, awaiting>>

Transmit == /\ queue # << >>
            /\ awaiting = NoDest
            /\ queue' = Tail(queue)
            /\ awaiting' = IF Head(queue).wait_reply THEN Head(queue).dest ELSE NoDest
            /\ outcome' = [call |-> "sent", req |-> Head(queue)]

\* The bus was taken, the request stays where it is.
Postpone == /\ queue # << >>
            /\ awaiting = NoDest
            /\ outcome' = [call |-> "busy", req |-> NoRequest]
            /\ UNCHANGED <<queue, awaiting>>

\* The awaited reply arrived or its timeout ran out.
Resolve == /\ awaiting # NoDest
           /\ awaiting' = NoDest
           /\ outcome' = [call |-> "none", req |-> NoRequest]
           /\ UNCHANGED queue

Next == \/ \E r \in Request : Accept(r) \/ Refuse(r)
        \/ Transmit \/ Postpone \/ Resolve

Spec == Init /\ [][Next]_svars
=============================================================================
