------------------------- MODULE RequestQueueProofs -------------------------
(***************************************************************************)
(* The ring of RequestQueue is well formed and implements RequestService,   *)
(* for every size of the ring and every set of requests.                    *)
(***************************************************************************)
EXTENDS RequestQueue, SequenceTheorems, TLAPS

\* head, tail and count agree: the next free slot is the one count places
\* after tail, so a push never lands on a waiting request
\* (oplink_com.c:324-334), and every waiting slot was written by a push.
RingConsistent ==
  /\ head = Slot(tail, count + 1)
  /\ \A i \in 1 .. count : elems[Slot(tail, i)] \in Request

\* Which slots hold waiting requests is only known together with the ranges of
\* the three indices, so the two invariants are proved as one.
IInv == TypeOK /\ RingConsistent

USE QueueAssumption

-----------------------------------------------------------------------------
(* The arithmetic of the ring. *)

\* The slots of the waiting requests and of the next free one are distinct
\* indices of elems.
LEMMA SlotRange ==
  ASSUME NEW t \in 0 .. MAX_REQUESTS - 1,
         NEW i \in 1 .. MAX_REQUESTS
  PROVE  /\ Slot(t, i) \in 0 .. MAX_REQUESTS - 1
         /\ \A j \in 1 .. MAX_REQUESTS : Slot(t, i) = Slot(t, j) => i = j
BY DEF Slot

\* Stepping past a slot gives the slot of the next request; so does moving the
\* oldest request one slot on.
LEMMA SlotAfter ==
  ASSUME NEW t \in 0 .. MAX_REQUESTS - 1,
         NEW i \in 1 .. MAX_REQUESTS - 1
  PROVE  /\ After(Slot(t, i)) = Slot(t, i + 1)
         /\ Slot(After(t), i) = Slot(t, i + 1)
BY DEF Slot, After

\* The oldest request is at tail.
LEMMA SlotFirst == \A t \in 0 .. MAX_REQUESTS - 1 : Slot(t, 1) = t
BY DEF Slot

\* The pointer step stays in the ring.
LEMMA AfterRange ==
  ASSUME NEW p \in 0 .. MAX_REQUESTS - 1
  PROVE  After(p) \in 0 .. MAX_REQUESTS - 1
BY DEF After
-----------------------------------------------------------------------------
(* The inductive invariant. *)

\* request_queue_init() establishes the invariant.
LEMMA InitInv == Init => IInv
<1> SUFFICES ASSUME Init PROVE IInv
  OBVIOUS
<1>1. TypeOK
  BY DEF Init, TypeOK, Outcome, ZeroRequest
<1>2. RingConsistent
  BY DEF Init, RingConsistent, Slot
<1> QED
  BY <1>1, <1>2 DEF IInv

\* push_request() keeps the invariant, accepted or refused.
LEMMA PushInv ==
  ASSUME IInv, NEW r \in Request, Push(r)
  PROVE  IInv'
<1>1. CASE count < MAX_REQUESTS - 1
  <2> USE <1>1 DEF IInv
  <2>1. TypeOK'
    <3>1. head' \in 0 .. MAX_REQUESTS - 1
      BY AfterRange DEF TypeOK, Push
    <3>2. /\ tail' = tail /\ count' = count + 1
          /\ last_request' = last_request
          /\ count + 1 \in 0 .. MAX_REQUESTS - 1
      BY DEF TypeOK, Push
    <3>3. elems' \in [0 .. MAX_REQUESTS - 1 -> Request \cup {ZeroRequest}]
      BY DEF TypeOK, Push
    <3>4. outcome' \in [call : {"none", "accepted", "refused", "sent", "busy"},
                        req : Request \cup {NoRequest}]
      BY DEF Push, Outcome
    <3> QED
      BY <3>1, <3>2, <3>3, <3>4 DEF TypeOK
  <2>2. /\ head = Slot(tail, count + 1)
        /\ tail' = tail /\ count' = count + 1
        /\ head' = After(head) /\ elems' = [elems EXCEPT ![head] = r]
        /\ count + 1 \in 1 .. MAX_REQUESTS - 1
    BY DEF TypeOK, RingConsistent, Push
  <2>3. head' = Slot(tail', count' + 1)
    BY <2>2, SlotAfter DEF TypeOK
  <2>4. ASSUME NEW i \in 1 .. count'
        PROVE  elems'[Slot(tail', i)] \in Request
    <3>1. CASE i = count + 1
      BY <2>2, <3>1 DEF TypeOK
    <3>2. CASE i # count + 1
      <4>1. i \in 1 .. count /\ i \in 1 .. MAX_REQUESTS /\ count + 1 \in 1 .. MAX_REQUESTS
        BY <2>2, <3>2 DEF TypeOK
      <4>2. Slot(tail, i) \in 0 .. MAX_REQUESTS - 1
        BY <4>1, SlotRange DEF TypeOK
      <4>3. Slot(tail, i) # Slot(tail, count + 1)
        <5>1. Slot(tail, i) = Slot(tail, count + 1) => i = count + 1
          BY <4>1, SlotRange DEF TypeOK
        <5> QED
          BY <5>1, <3>2
      <4> QED
        BY <2>2, <4>1, <4>2, <4>3 DEF TypeOK, RingConsistent
    <3> QED
      BY <3>1, <3>2
  <2> QED
    BY <2>1, <2>3, <2>4 DEF RingConsistent
<1>2. CASE ~(count < MAX_REQUESTS - 1)
  BY <1>2 DEF IInv, TypeOK, RingConsistent, Push, queueVars, Outcome
<1> QED
  BY <1>1, <1>2

\* dispatch_request() keeps the invariant.
LEMMA DispatchSentInv ==
  ASSUME IInv, DispatchSent
  PROVE  IInv'
<1> USE DEF IInv
<1>1. /\ tail' = After(tail) /\ count' = count - 1
      /\ head' = head /\ elems' = elems
      /\ count \in 1 .. MAX_REQUESTS - 1
      /\ elems[tail] \in Request
  BY SlotFirst DEF DispatchSent, TypeOK, RingConsistent
<1>2. TypeOK'
  <2>1. tail' \in 0 .. MAX_REQUESTS - 1
    BY <1>1, AfterRange DEF TypeOK
  <2>2. last_request' \in [reply_state : {"None", "Pending"}, dest : Dest \cup {255}]
    BY <1>1 DEF DispatchSent, TypeOK, Request
  <2>3. outcome' \in [call : {"none", "accepted", "refused", "sent", "busy"},
                      req : Request \cup {NoRequest}]
    BY <1>1 DEF DispatchSent, Outcome
  <2> QED
    BY <1>1, <2>1, <2>2, <2>3 DEF TypeOK
<1>3. \A i \in 1 .. MAX_REQUESTS - 1 : Slot(tail', i) = Slot(tail, i + 1)
  BY <1>1, SlotAfter DEF TypeOK
<1>4. head' = Slot(tail', count' + 1)
  BY <1>1, <1>3 DEF RingConsistent
<1>5. \A i \in 1 .. count' : elems'[Slot(tail', i)] \in Request
  BY <1>1, <1>3 DEF RingConsistent, TypeOK
<1> QED
  BY <1>2, <1>4, <1>5 DEF RingConsistent

\* Every step keeps the invariant.
LEMMA NextInv == IInv /\ [Next]_vars => IInv'
<1> SUFFICES ASSUME IInv, [Next]_vars PROVE IInv'
  OBVIOUS
<1>1. CASE \E r \in Request : Push(r)
  BY <1>1, PushInv
<1>2. CASE DispatchSent
  BY <1>2, DispatchSentInv
<1>3. CASE DispatchBusy
  BY <1>3 DEF IInv, TypeOK, RingConsistent, DispatchBusy, queueVars, Outcome
<1>4. CASE Resolve
  BY <1>4 DEF IInv, TypeOK, RingConsistent, Resolve, queueVars, Outcome
<1>5. CASE UNCHANGED vars
  BY <1>5 DEF IInv, TypeOK, RingConsistent, vars
<1> QED
  BY <1>1, <1>2, <1>3, <1>4, <1>5 DEF Next

\* The invariant holds in every state of every behaviour.
LEMMA InvHolds == Spec => []IInv
BY InitInv, NextInv, PTL DEF Spec

\* The queue's variables keep their types whatever the ring's size and the
\* order of pushes and dispatches.
THEOREM TypeCorrect == Spec => []TypeOK
BY InvHolds, PTL DEF IInv

\* head, tail and count always describe the same requests, so the space
\* between tail and head holds exactly the accepted, unsent ones.
THEOREM RingStaysConsistent == Spec => []RingConsistent
BY InvHolds, PTL DEF IInv
-----------------------------------------------------------------------------
(* The refinement. *)

\* The waiting requests form a sequence whose length is count.
WaitingSeq == /\ Waiting \in Seq(Request)
              /\ Len(Waiting) = count
              /\ \A i \in 1 .. count : Waiting[i] = elems[Slot(tail, i)]

\* The waiting requests are a sequence of count requests.
LEMMA WaitingIsSeq == IInv => WaitingSeq
<1> SUFFICES ASSUME IInv PROVE WaitingSeq
  OBVIOUS
<1>1. count \in Nat
  BY DEF IInv, TypeOK
<1>2. Waiting \in [1 .. count -> Request]
  BY DEF IInv, RingConsistent, Waiting
<1> QED
  BY <1>1, <1>2 DEF Waiting, WaitingSeq

\* The empty ring is the empty service.
LEMMA InitRefines == Init => Service!Init
<1> SUFFICES ASSUME Init PROVE Service!Init
  OBVIOUS
<1>1. count = 0 /\ last_request.reply_state = "None"
  BY DEF Init
<1>2. Waiting \in Seq(Request) /\ Len(Waiting) = 0
  BY <1>1, InitInv, WaitingIsSeq DEF WaitingSeq
<1>3. Waiting = << >>
  BY <1>2, EmptySeq
<1> QED
  BY <1>1, <1>3 DEF Init, Service!Init, Outcome

\* A push appends to the waiting requests, or is refused because they fill the
\* queue.
LEMMA PushRefines ==
  ASSUME IInv, NEW r \in Request, Push(r)
  PROVE  Service!Accept(r) \/ Service!Refuse(r)
<1>1. IInv'
  BY PushInv
<1>2. /\ Waiting \in Seq(Request) /\ Len(Waiting) = count
      /\ \A i \in 1 .. count : Waiting[i] = elems[Slot(tail, i)]
  BY WaitingIsSeq DEF WaitingSeq
<1>3. CASE count < MAX_REQUESTS - 1
  <2>1. /\ Waiting' \in Seq(Request) /\ Len(Waiting') = count'
        /\ \A i \in 1 .. count' : Waiting'[i] = elems'[Slot(tail', i)]
    <3>1. WaitingSeq'
      BY <1>1, WaitingIsSeq, PTL
    <3> QED
      BY <3>1 DEF WaitingSeq
  <2>2. /\ tail' = tail /\ count' = count + 1 /\ last_request' = last_request
        /\ elems' = [elems EXCEPT ![head] = r] /\ head = Slot(tail, count + 1)
        /\ count \in 0 .. MAX_REQUESTS - 2 /\ head \in 0 .. MAX_REQUESTS - 1
        /\ tail \in 0 .. MAX_REQUESTS - 1
    BY <1>3 DEF IInv, TypeOK, RingConsistent, Push
  <2>3. /\ Append(Waiting, r) \in Seq(Request)
        /\ Len(Append(Waiting, r)) = count + 1
        /\ \A i \in 1 .. count : Append(Waiting, r)[i] = Waiting[i]
        /\ Append(Waiting, r)[count + 1] = r
    BY <1>2, <2>2, AppendProperties
  <2>4. ASSUME NEW i \in 1 .. count + 1
        PROVE  Waiting'[i] = Append(Waiting, r)[i]
    <3>1. CASE i = count + 1
      BY <2>1, <2>2, <2>3, <3>1 DEF IInv, TypeOK
    <3>2. CASE i # count + 1
      <4>1. i \in 1 .. count /\ i \in 1 .. MAX_REQUESTS /\ count + 1 \in 1 .. MAX_REQUESTS
        BY <2>2, <3>2
      <4>2. Slot(tail, i) = Slot(tail, count + 1) => i = count + 1
        BY <2>2, <4>1, SlotRange
      <4>3. Slot(tail, i) \in 0 .. MAX_REQUESTS - 1 /\ Slot(tail, i) # head
        BY <2>2, <3>2, <4>1, <4>2, SlotRange
      <4>4. Waiting'[i] = elems[Slot(tail, i)]
        BY <2>1, <2>2, <4>1, <4>3 DEF IInv, TypeOK
      <4> QED
        BY <1>2, <2>3, <4>1, <4>4
    <3> QED
      BY <3>1, <3>2
  <2>5. Waiting' = Append(Waiting, r)
    BY <2>1, <2>2, <2>3, <2>4, SeqEqual
  <2> QED
    BY <1>2, <1>3, <2>2, <2>5 DEF Push, Outcome, Service!Accept, Capacity
<1>4. CASE ~(count < MAX_REQUESTS - 1)
  <2>1. count = MAX_REQUESTS - 1
    BY <1>4 DEF IInv, TypeOK
  <2>2. Waiting' = Waiting /\ last_request' = last_request
    BY <1>4 DEF Push, queueVars, Waiting, Slot
  <2> QED
    BY <1>2, <1>4, <2>1, <2>2 DEF Push, Outcome, Service!Refuse, Capacity
<1> QED
  BY <1>3, <1>4

\* A dispatch sends the head of the waiting requests and keeps the others.
LEMMA DispatchRefines ==
  ASSUME IInv, DispatchSent
  PROVE  Service!Transmit
<1>1. /\ Waiting \in Seq(Request) /\ Len(Waiting) = count
      /\ \A i \in 1 .. count : Waiting[i] = elems[Slot(tail, i)]
  BY WaitingIsSeq DEF WaitingSeq
<1>2. IInv'
  BY DispatchSentInv
<1>3. /\ Waiting' \in Seq(Request) /\ Len(Waiting') = count'
      /\ \A i \in 1 .. count' : Waiting'[i] = elems'[Slot(tail', i)]
  <2>1. WaitingSeq'
    BY <1>2, WaitingIsSeq, PTL
  <2> QED
    BY <2>1 DEF WaitingSeq
<1>4. /\ tail' = After(tail) /\ count' = count - 1 /\ elems' = elems
      /\ count \in 1 .. MAX_REQUESTS - 1 /\ tail \in 0 .. MAX_REQUESTS - 1
      /\ last_request.reply_state = "None"
  BY DEF IInv, TypeOK, DispatchSent
<1>5. Waiting # << >> /\ Head(Waiting) = elems[tail]
  <2>1. Waiting # << >>
    BY <1>1, <1>4, EmptySeq
  <2>2. Waiting[1] = elems[tail]
    BY <1>1, <1>4, SlotFirst
  <2> QED
    BY <1>1, <2>1, <2>2
<1>6. Waiting' = Tail(Waiting)
  <2>1. /\ Tail(Waiting) \in Seq(Request)
        /\ Len(Tail(Waiting)) = count - 1
        /\ \A i \in 1 .. count - 1 : Tail(Waiting)[i] = Waiting[i + 1]
    BY <1>1, <1>5, HeadTailProperties
  <2>2. ASSUME NEW i \in 1 .. count - 1
        PROVE  Waiting'[i] = Tail(Waiting)[i]
    <3>1. i + 1 \in 1 .. count /\ i \in 1 .. MAX_REQUESTS - 1
      BY <1>4
    <3>2. Slot(tail', i) = Slot(tail, i + 1)
      BY <1>4, <3>1, SlotAfter
    <3> QED
      BY <1>1, <1>3, <1>4, <2>1, <3>1, <3>2
  <2> QED
    BY <1>3, <1>4, <2>1, <2>2, SeqEqual
<1>7. /\ last_request' = IF elems[tail].wait_reply
                         THEN [reply_state |-> "Pending", dest |-> elems[tail].dest]
                         ELSE last_request
      /\ outcome' = [call |-> "sent", req |-> elems[tail]]
  BY DEF DispatchSent, Outcome
<1> QED
  BY <1>4, <1>5, <1>6, <1>7 DEF Service!Transmit

\* Every step of the ring is one of the service, or none.
LEMMA NextRefines == IInv /\ [Next]_vars => [Service!Next]_Service!svars
<1> SUFFICES ASSUME IInv, [Next]_vars PROVE [Service!Next]_Service!svars
  OBVIOUS
<1>1. CASE \E r \in Request : Push(r)
  BY <1>1, PushRefines DEF Service!Next
<1>2. CASE DispatchSent
  BY <1>2, DispatchRefines DEF Service!Next
<1>3. CASE DispatchBusy
  <2>1. Waiting' = Waiting
    BY <1>3 DEF DispatchBusy, queueVars, Waiting, Slot
  <2>2. Waiting # << >>
    <3>1. Len(Waiting) # 0
      BY <1>3, WaitingIsSeq DEF DispatchBusy, WaitingSeq, IInv, TypeOK
    <3> QED
      BY <3>1, EmptySeq
  <2> QED
    BY <1>3, <2>1, <2>2 DEF DispatchBusy, Outcome, Service!Next, Service!Postpone
<1>4. CASE Resolve
  <2>1. Waiting' = Waiting
    BY <1>4 DEF Resolve, queueVars, Waiting, Slot
  <2>2. last_request'.reply_state = "None" /\ last_request.dest # NoDest
    BY <1>4 DEF Resolve, IInv, TypeOK
  <2> QED
    BY <1>4, <2>1, <2>2 DEF Resolve, Outcome, Service!Next, Service!Resolve
<1>5. CASE UNCHANGED vars
  BY <1>5 DEF vars, Waiting, Slot, Service!svars
<1> QED
  BY <1>1, <1>2, <1>3, <1>4, <1>5 DEF Next

\* The ring of pointers implements the request service: for every ring size,
\* requests leave in push order, none lost, overwritten or repeated, a busy bus
\* keeps the request at the front, and none leaves while a reply is awaited.
THEOREM RingImplementsService == Spec => ImplementsService
<1>1. Spec => Service!Init /\ [][Service!Next]_Service!svars
  BY InvHolds, InitRefines, NextRefines, PTL DEF Spec
<1> QED
  BY <1>1 DEF ImplementsService, Service!Spec
=============================================================================
