---------------------------- MODULE HandshakeProofs ----------------------------
(***************************************************************************)
(* How slaves join a bus without faults, for fewer slaves than pings may be *)
(* missed and every size of the list: SIGNAL, FIND, GET_UID and PING, of any*)
(* of them at any time, and requests of the application to one or to all.   *)
(* No address is given twice, who believes it is connected is listed, the   *)
(* master takes every ACK for what it answers, and all of it implements     *)
(* Membership.                                                              *)
(***************************************************************************)
EXTENDS NetworkProofs

USE SlaveListAssumption, MasterAssumption

\* Nothing is lost, crosses or restarts, no two slaves draw the same nonce, and their
\* UIDs differ in a byte that is compared. A broadcast or a FIND may make a connected
\* slave miss its next ping, and every other slave's SIGNAL one more before the slave
\* is heard: there are fewer slaves than misses that drop one, two with the code's 3.
FaultFree ==
  /\ Faults = {}
  /\ IsFiniteSet(Node) /\ Cardinality(Node) < MAX_PING_ERROR
  /\ \A m, n \in Node : m # n => /\ Draws[m] \cap Draws[n] = {}
                                 /\ Differ(UidOf[m], UidOf[n])
  /\ \A n \in Node : UidOf[n] # << >> /\ Len(UidOf[n]) <= UID_SIZE

Pending == last_request.reply_state = "Pending"
Awaiting(n, cmd) == Pending /\ last_request.cmd = cmd /\ last_request.dest = node[n].addr
Answering == Parsing /\ inbox.type = "ACK"

\* Slave n holds a request to it: all but a broadcast and a FIND for another.
Current(n) == Asked(n) /\ ~Told(n) /\ (held[n].cmd = "FIND" => held[n].nonce \in Draws[n])

\* It is the last one the master sent, nobody else holds it, and there is no answer;
\* no broadcast is held while one is awaited.
CurrentInv ==
  /\ \A n \in Node : Current(n) =>
       /\ Pending /\ inbox = NoFrame
       /\ held[n].cmd = last_request.cmd /\ held[n].dest = last_request.dest
       /\ held[n].cmd = "FIND" => held[n].addr = new_slave_addr
       /\ held[n].cmd # "FIND" => held[n].dest = node[n].addr
  /\ \A m, n \in Node : Current(m) /\ Current(n) => m = n
  /\ \A n \in Node : Told(n) => ~Pending

\* What the master hears is a SIGNAL while it waits for nothing, the ACK it waits
\* for or what an application sends.
ReplyInv ==
  /\ Parsing /\ inbox.type = "SIGNAL" => ~Pending /\ Prompt
  /\ Answering => /\ Pending /\ last_request.cmd = inbox.re /\ last_request.dest = inbox.src
                  /\ inbox.re = "GET_UID" => \E n \in Node : inbox.uid = UidOf[n]
  /\ Parsing /\ inbox.type = "OTHER" =>
       ~Pending \/ (last_request.cmd = "EXT" /\ last_request.dest = inbox.src)
  /\ inbox = Ignored => ~Pending
  /\ Pending /\ last_request.cmd = "GET_UID" => last_request.dest = new_slave_addr

\* A slave that was given an address is about to be asked for its UID, asked for
\* it or has answered,
Joining(n) ==
  /\ Pending /\ node[n].addr = new_slave_addr /\ ~Connected(n)
  /\ \/ last_request.cmd = "FIND" /\ Answering /\ held[n] = NoFrame
     \/ last_request.cmd = "GET_UID" /\ Current(n)
     \/ last_request.cmd = "GET_UID" /\ Answering /\ held[n] = NoFrame /\ inbox.uid = UidOf[n]

\* or it is listed.
AddrInv == \A n \in Node : node[n].addr # 0 => Joining(n) \/ Lists(n)

ListedInv == Entries(slaves, {UidOf[n] : n \in Node})

FFInv == CurrentInv /\ ReplyInv /\ AddrInv /\ ListedInv /\ UniqueAddress

\* The next ping of slave n will be missed when a SIGNAL is about to be answered by
\* FIND, its receiver is off, which data it was sent turns on in time, or when it has
\* not heard the one that is awaited.
Rings == Parsing /\ inbox.type = "SIGNAL"
Off(n) == held[n] # NoFrame /\ ~(Current(n) /\ held[n].cmd # "FIND")
Resting(n) == held[n] = Ignored /\ Awaiting(n, "EXT") /\ inbox = NoFrame
Unheard(n) == Awaiting(n, "PING") /\ ~Current(n) /\ inbox = NoFrame
Deaf(n) == Rings \/ (Off(n) /\ ~Resting(n)) \/ Unheard(n)

\* After its first miss it misses one more for every slave that signalled since, and
\* is pinged without a pause, so that nobody is sent a broadcast.
Slot(n) == slaves[node[n].addr - 1]
PingOk(n) ==
  (node[n].addr # 0 /\ Lists(n)) =>
    /\ Slot(n).ping_error <= Cardinality(signalled[n]) + 1
    /\ Deaf(n) => Slot(n).ping_error <= Cardinality(signalled[n])
    /\ Slot(n).ping_error > 0 => Slot(n).ping_count = 0
    /\ Unheard(n) => Slot(n).ping_count = 0
PingInv == \A n \in Node : n \notin signalled[n] /\ PingOk(n)
-----------------------------------------------------------------------------
(* The slaves' steps *)

\* The slot that is offered is free, so that no slave is listed in it.
LEMMA OfferedToNobody ==
  ASSUME NetInv, last_request.cmd \in {"FIND", "GET_UID"}, NEW n \in Node, Lists(n)
  PROVE  new_slave_addr \in Address /\ node[n].addr # new_slave_addr
BY DEF NetInv, IInv, OfferedSlotStaysFree, Lists, Address

\* What a step of slave n leaves alone.
LEMMA SlaveLeavesAlone ==
  ASSUME NetInv, NEW n \in Node, SlaveNext(n)
  PROVE  /\ slaves' = slaves /\ new_slave_addr' = new_slave_addr /\ last_request' = last_request
         /\ ~Current(n)' /\ ~Asked(n)' /\ ~Told(n)'
         /\ \A m \in Node : m # n =>
              /\ node'[m] = node[m] /\ held'[m] = held[m]
              /\ Current(m)' <=> Current(m)
              /\ Told(m)' <=> Told(m)
         /\ Prompt => Prompt'
         /\ Pending' <=> Pending
<1>1. /\ slaves' = slaves /\ new_slave_addr' = new_slave_addr /\ last_request' = last_request
      /\ \A m \in Node : m # n => node'[m] = node[m] /\ held'[m] = held[m]
  BY SlaveEffect DEF masterVars, vars
<1>2. ~Asked(n)'
  BY SlaveIsDone
<1>3. \A m \in Node : m # n => (Current(m)' <=> Current(m)) /\ (Told(m)' <=> Told(m))
  BY <1>1 DEF Current, Asked, Told
<1>4. Prompt => Prompt'
  BY <1>1, <1>2 DEF Prompt, Asked
<1> QED BY <1>1, <1>2, <1>3, <1>4 DEF Current, Pending, Told

\* Those it keeps listed.
LEMMA SlaveKeepsLists ==
  ASSUME NEW n \in Node, slaves' = slaves, node'[n].addr = node[n].addr
  PROVE  Lists(n)' <=> Lists(n)
BY DEF Lists

\* A step by which slave n answers nothing.
LEMMA SlaveSilent ==
  ASSUME NetInv, FFInv, NEW n \in Node, SlaveNext(n), inbox' = inbox,
         node'[n].addr # 0 => node'[n].addr = node[n].addr /\ Lists(n)
  PROVE  FFInv'
<1> USE DEF FFInv
<1>1. /\ slaves' = slaves /\ new_slave_addr' = new_slave_addr /\ last_request' = last_request
      /\ ~Current(n)' /\ ~Asked(n)' /\ ~Told(n)'
      /\ \A m \in Node : m # n =>
           /\ node'[m] = node[m] /\ held'[m] = held[m]
           /\ Current(m)' <=> Current(m)
           /\ Told(m)' <=> Told(m)
      /\ Prompt => Prompt'
      /\ Pending' <=> Pending
  BY SlaveLeavesAlone
<1>2. CurrentInv'
  BY <1>1 DEF CurrentInv
<1>3. ReplyInv'
  BY <1>1 DEF ReplyInv, Parsing, Answering
<1>4. AddrInv'
  <2> SUFFICES ASSUME NEW m \in Node, node'[m].addr # 0 PROVE Joining(m)' \/ Lists(m)'
    BY DEF AddrInv
  <2>1. CASE m = n
    BY <1>1, <2>1, SlaveKeepsLists
  <2>2. CASE m # n
    BY <1>1, <2>2 DEF AddrInv, Joining, Lists, Answering, Parsing, Connected
  <2> QED BY <2>1, <2>2
<1>5. ListedInv'
  BY <1>1 DEF ListedInv, Entries
<1>6. UniqueAddress'
  BY <1>1 DEF UniqueAddress
<1> QED BY <1>2, <1>3, <1>4, <1>5, <1>6

\* A step that begins and ends while no reply is awaited and no slave has a
\* request left.
LEMMA SlaveUnasked ==
  ASSUME NetInv, FFInv, FaultFree, NEW n \in Node, SlaveSignals(n) \/ SlaveSends(n)
  PROVE  FFInv'
<1> USE DEF FFInv
<1>1. SlaveNext(n)
  BY DEF SlaveNext
<1>2. /\ slaves' = slaves /\ new_slave_addr' = new_slave_addr /\ last_request' = last_request
      /\ held' = held
  BY DEF SlaveSignals, SlaveSends, masterVars, vars
<1>3. ~Pending /\ Prompt /\ inbox \in {NoFrame, Ignored}
  BY DEF SlaveSignals, SlaveSends, Quiet, FaultFree, Pending
<1>4. ~Pending' /\ Prompt' /\ \A m \in Node : ~Current(m)' /\ ~Told(m)'
  BY <1>2, <1>3 DEF Pending, Prompt, Asked, Current, Told
<1>5. \A m \in Node : node'[m].addr = node[m].addr
  <2>1. node[n] \in SlaveState /\ DOMAIN node = Node
    BY DEF NetInv, NetTypeOK
  <2>2. node' = node \/ node' = [node EXCEPT ![n] = [node[n] EXCEPT !.bus_state = "Signal_sent"]]
    BY DEF SlaveSignals, SlaveSends, Becomes, Protocol!Signalled
  <2> QED BY <2>1, <2>2 DEF SlaveState
<1>6. \/ inbox' = inbox
      \/ inbox' = Signal(n) /\ SlaveSignals(n)
      \/ inbox' = Other(n)
  BY DeliverReaches DEF SlaveSignals, SlaveSends, FaultFree
<1>7. Signal(n).type = "SIGNAL" /\ Other(n).type = "OTHER"
  BY DEF Signal, Other
<1>8. Signal(n) # Ignored /\ Other(n) # Ignored
  BY SlaveWrites, ReplyFrame
<1>9. CurrentInv'
  BY <1>4 DEF CurrentInv
<1>10. ReplyInv'
  BY <1>3, <1>4, <1>6, <1>7, <1>8 DEF ReplyInv, Parsing, Answering
<1>11. \A m \in Node : node[m].addr # 0 => Lists(m)
  BY <1>3 DEF AddrInv, Joining
<1>12. AddrInv'
  BY <1>2, <1>5, <1>11 DEF AddrInv, Lists
<1>13. ListedInv'
  BY <1>2 DEF ListedInv, Entries
<1>14. UniqueAddress'
  BY <1>5 DEF UniqueAddress
<1> QED BY <1>9, <1>10, <1>12, <1>13, <1>14

\* A slave that takes a FIND has the address that was offered, and nobody else has.
LEMMA SlaveTakesFind ==
  ASSUME NetInv, FFInv, FaultFree, NEW n \in Node, SlaveFound(n),
         Protocol!TakesFind(node[n], held[n].nonce)
  PROVE  FFInv'
<1> USE DEF FFInv
<1>1. /\ slaves' = slaves /\ new_slave_addr' = new_slave_addr /\ last_request' = last_request
      /\ ~Current(n)' /\ ~Asked(n)' /\ ~Told(n)'
      /\ \A m \in Node : m # n =>
           /\ node'[m] = node[m] /\ held'[m] = held[m]
           /\ Current(m)' <=> Current(m)
           /\ Told(m)' <=> Told(m)
      /\ Pending' <=> Pending
  BY SlaveLeavesAlone DEF SlaveNext, SlaveAnswers
<1>2. /\ node[n] \in SlaveState /\ DOMAIN node = Node /\ DOMAIN held = Node
      /\ node[n].nonce \in Draws[n]
      /\ node[n].bus_state = "Signal_sent" => node[n].addr = 0
  BY DEF NetInv, NetTypeOK, SlavesInv
<1>3. /\ Asked(n) /\ held[n].cmd = "FIND" /\ node[n].bus_state = "Signal_sent"
      /\ node[n].nonce = held[n].nonce
  BY DEF SlaveFound, Protocol!TakesFind
<1>4. Current(n)
  BY <1>2, <1>3 DEF Current, Told
<1>5. /\ Pending /\ inbox = NoFrame /\ last_request.cmd = "FIND" /\ held[n].addr = new_slave_addr
      /\ held[n].dest = last_request.dest
      /\ \A m \in Node : m # n => ~Current(m)
  BY <1>3, <1>4 DEF CurrentInv
<1>6. last_request.dest = 0
  <2>1. held[n] \in MasterFrame
    BY <1>3 DEF Asked, NetInv, NetTypeOK
  <2> QED BY <1>3, <1>5, <2>1, RequestFrame
<1>7. inbox' = Ack(n, "FIND") /\ held'[n] = NoFrame
      /\ node'[n] = [bus_state |-> "Addr_set", nonce |-> node[n].nonce, addr |-> new_slave_addr]
  BY <1>2, <1>5, DeliverReaches DEF SlaveFound, Becomes, Hold, Protocol!Found, FaultFree
<1>8. /\ inbox'.type = "ACK" /\ inbox'.re = "FIND" /\ inbox'.src = 0
      /\ inbox' \notin {NoFrame, Ignored}
  BY <1>2, <1>3, <1>7, SlaveWrites, ReplyFrame DEF Ack
<1>9. new_slave_addr \in Address /\ slaves[new_slave_addr - 1].addr = 0
  BY <1>5 DEF NetInv, IInv, OfferedSlotStaysFree
<1>10. \A m \in Node : (m # n /\ node[m].addr # 0) => Lists(m) /\ node[m].addr # new_slave_addr
  <2>1. \A m \in Node : ~Joining(m)
    BY <1>5 DEF Joining, Answering, Parsing
  <2> QED BY <1>5, <2>1, OfferedToNobody DEF AddrInv
<1>11. CurrentInv'
  BY <1>1, <1>5 DEF CurrentInv
<1>12. ReplyInv'
  BY <1>1, <1>5, <1>6, <1>8 DEF ReplyInv, Answering
<1>13. AddrInv'
  <2>1. Joining(n)'
    BY <1>1, <1>5, <1>7, <1>8 DEF Joining, Answering, Parsing, Connected
  <2> QED BY <1>1, <1>10, <2>1 DEF AddrInv, Lists
<1>14. ListedInv'
  BY <1>1 DEF ListedInv, Entries
<1>15. UniqueAddress'
  BY <1>1, <1>7, <1>10 DEF UniqueAddress
<1> QED BY <1>11, <1>12, <1>13, <1>14, <1>15

\* A slave that answers the request it holds: the answer is the one awaited.
LEMMA SlaveAnswersCurrent ==
  ASSUME NetInv, BusInv, FFInv, FaultFree, NEW n \in Node,
         \/ SlaveAsked(n) \/ SlavePinged(n)
         \/ SlaveReads(n) /\ ~Told(n) /\ Deliver(n, Other(n)) /\ Hold(n, NoFrame)
  PROVE  FFInv'
<1> USE DEF FFInv
<1>1. /\ slaves' = slaves /\ new_slave_addr' = new_slave_addr /\ last_request' = last_request
      /\ ~Current(n)' /\ ~Asked(n)' /\ ~Told(n)'
      /\ \A m \in Node : m # n =>
           /\ node'[m] = node[m] /\ held'[m] = held[m]
           /\ Current(m)' <=> Current(m)
           /\ Told(m)' <=> Told(m)
      /\ Pending' <=> Pending
  BY SlaveLeavesAlone DEF SlaveNext, SlaveAnswers
<1>2. node[n] \in SlaveState /\ DOMAIN node = Node /\ DOMAIN held = Node
  BY DEF NetInv, NetTypeOK
<1>3. /\ Asked(n) /\ held[n].cmd \in {"GET_UID", "PING", "EXT"}
      /\ held[n].cmd = "GET_UID" => SlaveAsked(n)
      /\ ~Told(n)
  BY DEF SlaveAsked, SlavePinged, SlaveReads, Told
<1>4. Current(n)
  BY <1>3 DEF Current
<1>5. /\ Pending /\ inbox = NoFrame /\ last_request.cmd = held[n].cmd
      /\ last_request.dest = node[n].addr
      /\ \A m \in Node : m # n => ~Current(m)
  BY <1>3, <1>4 DEF CurrentInv
<1>6. held[n] \in MasterFrame /\ node[n].addr \in Address
  <2>1. held[n] \in MasterFrame
    BY <1>3 DEF Asked, NetInv, NetTypeOK
  <2>2. held[n].dest # 0
    BY <1>3, <2>1, RequestFrame DEF Told, Address
  <2>3. held[n].dest = node[n].addr
    BY <1>3, <1>4 DEF CurrentInv
  <2> QED BY <1>3, <2>1, <2>2, <2>3, RequestFrame
<1>7. /\ held'[n] = NoFrame /\ node'[n].addr = node[n].addr
      /\ \/ inbox' = Ack(n, last_request.cmd) /\ last_request.cmd \in {"GET_UID", "PING"}
         \/ inbox' = Other(n) /\ last_request.cmd = "EXT"
      /\ last_request.cmd = "GET_UID" => (Connected(n)' => Connected(n))
  <2>1. CASE SlaveAsked(n)
    BY <1>2, <1>5, <2>1, DeliverReaches
    DEF SlaveAsked, Becomes, Hold, Protocol!UidAsked, FaultFree, SlaveState, Connected
  <2>2. CASE SlavePinged(n)
    BY <1>2, <1>5, <2>2, DeliverReaches
    DEF SlavePinged, Becomes, Hold, Protocol!Pinged, FaultFree, SlaveState
  <2>3. CASE SlaveReads(n) /\ Deliver(n, Other(n)) /\ Hold(n, NoFrame)
    BY <1>2, <1>5, <2>3, DeliverReaches DEF SlaveReads, Hold, FaultFree
  <2> QED BY <2>1, <2>2, <2>3
<1>8. /\ inbox' \notin {NoFrame, Ignored} /\ inbox'.src = node[n].addr
      /\ inbox'.type \in {"ACK", "OTHER"}
      /\ inbox'.type = "ACK" => inbox'.re = last_request.cmd
      /\ inbox'.type = "OTHER" => last_request.cmd = "EXT"
      /\ last_request.cmd = "GET_UID" => inbox'.type = "ACK" /\ inbox'.uid = UidOf[n]
  <2>1. inbox' \in SlaveFrame
    BY <1>7, SlaveWrites
  <2>2. inbox' \notin {NoFrame, Ignored}
    BY <2>1, ReplyFrame
  <2> QED BY <1>7, <2>2 DEF Ack, Other
<1>9. CurrentInv'
  BY <1>1, <1>5 DEF CurrentInv
<1>10. ReplyInv'
  <2>1. \E m \in Node : last_request.cmd = "GET_UID" => inbox'.uid = UidOf[m]
    BY <1>8
  <2> QED BY <1>1, <1>5, <1>8, <2>1 DEF ReplyInv, Answering
<1>11. AddrInv'
  <2>1. CASE last_request.cmd = "GET_UID"
    <3>1. node[n].addr = new_slave_addr /\ ~Lists(n)
      BY <1>5, <2>1, OfferedToNobody DEF ReplyInv
    <3>2. Joining(n)
      BY <1>6, <3>1 DEF AddrInv, Address
    <3>3. Joining(n)'
      BY <1>1, <1>5, <1>7, <1>8, <2>1, <3>1, <3>2 DEF Joining, Answering, Parsing
    <3>4. \A m \in Node : m # n => ~Joining(m)
      BY <1>6, <3>1 DEF Joining, UniqueAddress, Address
    <3> QED BY <1>1, <3>3, <3>4 DEF AddrInv, Lists
  <2>2. CASE last_request.cmd # "GET_UID"
    <3>1. \A m \in Node : ~Joining(m)
      BY <1>5, <1>3, <2>2 DEF Joining
    <3> QED BY <1>1, <1>7, <3>1 DEF AddrInv, Lists
  <2> QED BY <2>1, <2>2
<1>12. ListedInv'
  BY <1>1 DEF ListedInv, Entries
<1>13. UniqueAddress'
  BY <1>1, <1>7 DEF UniqueAddress
<1> QED BY <1>9, <1>10, <1>11, <1>12, <1>13

\* A slave that replies to a broadcast, while nothing is awaited.
LEMMA SlaveAnswersTold ==
  ASSUME NetInv, FFInv, FaultFree, NEW n \in Node, Told(n),
         SlaveReads(n), Deliver(n, Other(n)), Hold(n, NoFrame)
  PROVE  FFInv'
<1> USE DEF FFInv
<1>1. /\ slaves' = slaves /\ new_slave_addr' = new_slave_addr /\ last_request' = last_request
      /\ ~Current(n)' /\ ~Asked(n)' /\ ~Told(n)'
      /\ \A m \in Node : m # n => Current(m)' <=> Current(m)
      /\ Pending' <=> Pending
  BY SlaveLeavesAlone DEF SlaveNext, SlaveAnswers
<1>2. ~Pending /\ ~Pending' /\ node' = node /\ ~Prompt
  BY <1>1 DEF CurrentInv, SlaveReads, Prompt, Told
<1>3. \A m \in Node : ~Current(m) /\ ~Current(m)' /\ ~Joining(m)
  BY <1>1, <1>2 DEF CurrentInv, Joining
<1>4. CurrentInv'
  BY <1>2, <1>3 DEF CurrentInv
<1>5. inbox' = inbox \/ inbox' = Other(n)
  BY DeliverReaches DEF FaultFree
<1>6. Other(n).type = "OTHER"
  BY DEF Other
<1>7. ReplyInv'
  BY <1>1, <1>2, <1>5, <1>6 DEF ReplyInv, Parsing, Answering
<1>8. AddrInv' /\ ListedInv' /\ UniqueAddress'
  BY <1>1, <1>2, <1>3 DEF AddrInv, Lists, ListedInv, Entries, UniqueAddress
<1> QED BY <1>4, <1>7, <1>8

\* A FIND that is not taken, data without a reply, and the end of what was held.
LEMMA SlaveHolds ==
  ASSUME NetInv, FFInv, NEW n \in Node,
         \/ SlaveFound(n) /\ ~Protocol!TakesFind(node[n], held[n].nonce)
         \/ SlaveReads(n) /\ Hold(n, Ignored) /\ UNCHANGED inbox
         \/ SlaveReleases(n)
  PROVE  FFInv'
<1> USE DEF FFInv
<1>1. /\ slaves' = slaves /\ new_slave_addr' = new_slave_addr /\ last_request' = last_request
      /\ Pending' <=> Pending
  BY SlaveLeavesAlone DEF SlaveNext, SlaveAnswers
<1>2. /\ node' = node /\ inbox' = inbox /\ n \in DOMAIN held
      /\ held'[n] \in {NoFrame, Ignored} /\ held[n] # NoFrame
  BY NetworkAssumption
  DEF SlaveFound, SlaveReads, SlaveReleases, Hold, Asked, NetInv, NetTypeOK
<1>3. /\ held'[n] = Ignored => Asked(n) /\ held[n].cmd \in {"FIND", "EXT"}
      /\ (held'[n] = Ignored /\ held[n].cmd = "EXT") => Current(n) \/ Told(n)
      /\ held'[n] # Ignored => held[n] = Ignored
  BY <1>2, NetworkAssumption DEF SlaveFound, SlaveReads, SlaveReleases, Hold, Current
<1>4. held[n].cmd \in {"FIND", "EXT"} \/ held[n] = Ignored
  BY <1>2, <1>3
<1>5. ~Joining(n)
  BY <1>2, <1>3, <1>4 DEF Joining, CurrentInv, Current, Asked
<1>6. node[n].addr # 0 => Lists(n)
  BY <1>5 DEF AddrInv
<1> QED BY <1>2, <1>6, SlaveSilent DEF SlaveNext, SlaveAnswers

\* Every step of a slave keeps the invariant,
LEMMA SlaveNextFF ==
  ASSUME NetInv, BusInv, FFInv, FaultFree, NEW n \in Node, SlaveNext(n)
  PROVE  FFInv'
<1>1. CASE SlaveSignals(n) \/ SlaveSends(n)
  BY <1>1, SlaveUnasked
<1>2. CASE SlaveFound(n)
  BY <1>2, SlaveTakesFind, SlaveHolds
<1>3. CASE SlaveAsked(n) \/ SlavePinged(n)
  BY <1>3, SlaveAnswersCurrent
<1>4. CASE SlaveReads(n)
  BY <1>4, SlaveAnswersCurrent, SlaveAnswersTold, SlaveHolds DEF SlaveReads
<1>5. CASE SlaveReleases(n)
  BY <1>5, SlaveHolds
<1>6. CASE SlaveLeaves(n) \/ SlaveGivesUp(n)
  <2>1. inbox' = inbox /\ node'[n].addr = 0
    BY <1>6 DEF SlaveLeaves, SlaveGivesUp, StartOver, Becomes, Protocol!Started, NetInv, NetTypeOK
  <2> QED BY <2>1, SlaveSilent
<1> QED BY <1>1, <1>2, <1>3, <1>4, <1>5, <1>6 DEF SlaveNext, SlaveAnswers
-----------------------------------------------------------------------------
(* The master's steps: its cycle *)

\* Who may have signalled is one slave less than all.
LEMMA SignalledFew ==
  ASSUME NetInv, FaultFree, PingInv, NEW n \in Node
  PROVE  Cardinality(signalled[n]) \in Nat /\ Cardinality(signalled[n]) + 2 <= MAX_PING_ERROR
<1>1. IsFiniteSet(Node) /\ Cardinality(Node) < MAX_PING_ERROR
  BY DEF FaultFree
<1>2. signalled[n] \subseteq Node \ {n}
  BY DEF NetInv, NetTypeOK, PingInv
<1>3. Cardinality(Node) \in Nat
  BY <1>1, FS_CardinalityType
<1>4. /\ IsFiniteSet(Node \ {n})
      /\ Cardinality(Node \ {n}) = Cardinality(Node) - 1
  BY <1>1, FS_RemoveElement
<1>5. IsFiniteSet(signalled[n]) /\ Cardinality(signalled[n]) <= Cardinality(Node \ {n})
  BY <1>2, <1>4, FS_Subset
<1>6. Cardinality(signalled[n]) \in Nat
  BY <1>5, FS_CardinalityType
<1> QED BY <1>1, <1>3, <1>4, <1>5, <1>6

\* A keep-alive cycle drops nobody who is there: a slave that missed a ping is heard
\* before it has missed too many.
LEMMA CycleKeepsListed ==
  ASSUME NetInv, FFInv, PingInv, FaultFree, MayTimeOut, Cycle, node' = node
  PROVE  /\ ListedInv' /\ new_slave_addr' = new_slave_addr
         /\ \A n \in Node : (node[n].addr # 0 /\ Lists(n)) => Lists(n)'
         /\ TimesOut => inbox = NoFrame /\ \A n \in Node : held[n] = NoFrame
         /\ ~TimesOut => \A i \in Index : /\ slaves'[i].ping_error = slaves[i].ping_error
                                         /\ slaves'[i].addr = slaves[i].addr
                                         /\ slaves'[i].uid = slaves[i].uid
<1>1. TimesOut => inbox = NoFrame /\ \A n \in Node : held[n] = NoFrame
  BY DEF MayTimeOut, FaultFree
<1>2. slaves' = ListAfterCycle /\ new_slave_addr' = new_slave_addr
  BY DEF Cycle
<1>3. ListedInv'
  BY CycleEntries DEF ListedInv, FFInv, NetInv
<1>4. \A i \in Index : ~Misses(i) => /\ slaves'[i].ping_error = slaves[i].ping_error
                                     /\ slaves'[i].addr = slaves[i].addr
                                     /\ slaves'[i].uid = slaves[i].uid
  BY <1>2, CycleEntry DEF NetInv
<1>5. ASSUME NEW n \in Node, node[n].addr # 0, Lists(n) PROVE Lists(n)'
  <2> DEFINE i == node[n].addr - 1
  <2>1. i \in Index /\ i + 1 = node[n].addr
    BY <1>5 DEF NetInv, NetTypeOK, SlaveState, Address, Index
  <2>2. CASE ~Misses(i)
    BY <1>4, <1>5, <2>1, <2>2 DEF Lists
  <2>3. CASE Misses(i)
    <3>1. TimesOut /\ Awaiting(n, "PING")
      BY <2>1, <2>3 DEF Misses, Awaiting, TimesOut, Pending
    <3>2. ~Current(n) /\ inbox = NoFrame
      BY <1>1, <3>1 DEF Current, Asked
    <3>3. slaves[i].ping_error <= Cardinality(signalled[n])
      BY <1>5, <3>1, <3>2 DEF PingInv, PingOk, Slot, Deaf, Unheard
    <3>4. slaves[i].ping_error # MAX_PING_ERROR - 1
      <4>1. slaves[i].ping_error \in Nat
        BY <2>1 DEF NetInv, IInv, TypeOK, Slave
      <4> QED BY <3>3, <4>1, SignalledFew
    <3>5. slaves'[i].addr = slaves[i].addr /\ slaves'[i].uid = slaves[i].uid
      BY <1>2, <2>1, <2>3, <3>4, CycleEntry DEF NetInv
    <3> QED BY <1>5, <3>5 DEF Lists
  <2> QED BY <2>2, <2>3
<1>6. ~TimesOut => \A i \in Index : ~Misses(i)
  BY DEF Misses
<1> QED BY <1>1, <1>2, <1>3, <1>4, <1>5, <1>6

\* What is left of the last request.
LEMMA RequestLeft ==
  ASSUME NetInv
  PROVE  /\ RequestAfterCycle.cmd = last_request.cmd /\ RequestAfterCycle.dest = last_request.dest
         /\ TimesOut => RequestAfterCycle.reply_state # "Pending"
         /\ ~TimesOut => RequestAfterCycle.reply_state = last_request.reply_state
<1>1. last_request \in RequestType
  BY DEF NetInv, IInv, TypeOK
<1>2. RequestAfterCycle.cmd = last_request.cmd /\ RequestAfterCycle.dest = last_request.dest
  BY RequestAfterCycleInv DEF NetInv
<1>3. /\ TimesOut => RequestAfterCycle.reply_state = "None"
      /\ ~TimesOut => RequestAfterCycle.reply_state = last_request.reply_state
  BY <1>1 DEF RequestAfterCycle, RequestType, TimesOut
<1> QED BY <1>2, <1>3

\* A cycle without a frame.
LEMMA CycleKeepsFF ==
  ASSUME NetInv, FFInv, PingInv, FaultFree, MayTimeOut, Cycle, last_request' = RequestAfterCycle,
         UNCHANGED <<node, held, inbox>>
  PROVE  FFInv'
<1> USE DEF FFInv
<1>1. /\ ListedInv' /\ new_slave_addr' = new_slave_addr
      /\ \A n \in Node : (node[n].addr # 0 /\ Lists(n)) => Lists(n)'
      /\ TimesOut => inbox = NoFrame /\ \A n \in Node : held[n] = NoFrame
      /\ ~TimesOut => \A i \in Index : /\ slaves'[i].ping_error = slaves[i].ping_error
                                      /\ slaves'[i].addr = slaves[i].addr
                                      /\ slaves'[i].uid = slaves[i].uid
  BY CycleKeepsListed
<1>2. /\ last_request'.cmd = last_request.cmd /\ last_request'.dest = last_request.dest
      /\ TimesOut => ~Pending'
      /\ ~TimesOut => (Pending' <=> Pending)
  BY RequestLeft DEF Pending
<1>3. \A n \in Node : /\ Current(n)' <=> Current(n)
                      /\ Told(n)' <=> Told(n)
                      /\ node[n].addr # 0 => node[n].addr - 1 \in Index
  BY DEF Current, Told, Asked, NetInv, NetTypeOK, SlaveState, Address, Index
<1>4. \A n \in Node : Current(n) => ~TimesOut
  BY <1>1 DEF Current, Asked
<1>5. CurrentInv'
  BY <1>1, <1>2, <1>3, <1>4 DEF CurrentInv
<1>6. ReplyInv'
  BY <1>1, <1>2, NetworkAssumption DEF ReplyInv, Answering, Parsing, Prompt, Asked
<1>7. AddrInv'
  <2> SUFFICES ASSUME NEW n \in Node, node[n].addr # 0 PROVE Joining(n)' \/ Lists(n)'
    BY DEF AddrInv
  <2>1. CASE Joining(n)
    <3>1. ~TimesOut
      BY <1>1, <1>4, <2>1 DEF Joining, Answering, Parsing
    <3> QED BY <1>1, <1>2, <1>3, <2>1, <3>1 DEF Joining, Answering, Parsing, Connected
  <2>2. CASE Lists(n)
    BY <1>1, <2>2
  <2> QED BY <2>1, <2>2 DEF AddrInv
<1>8. UniqueAddress'
  BY DEF UniqueAddress
<1> QED BY <1>1, <1>5, <1>6, <1>7, <1>8

\* The request that a slave with this address holds from now on.
LEMMA TransmitTo ==
  ASSUME NetInv, FaultFree, NEW f \in MasterFrame, f.cmd # "FIND", f.dest # 0, Transmit(f),
         node' = node
  PROVE  \A n \in Node : /\ Told(n)' => Told(n)
                         /\ Current(n)' => Current(n) \/ (held'[n] = f /\ f.dest = node[n].addr)
                         /\ (held[n] = NoFrame /\ f.dest = node[n].addr) => held'[n] = f
                         /\ held'[n] = f => Current(n)'
                         /\ held'[n] # f => held'[n] = held[n]
<1>1. f.dest \in Address /\ f \notin {NoFrame, Ignored} /\ f.dest # 0
  BY RequestFrame DEF Address
<1>2. \A n \in Node : /\ held'[n] = held[n] \/ (held'[n] = f /\ f.dest = node[n].addr)
                      /\ (held[n] = NoFrame /\ f.dest = node[n].addr) => held'[n] = f
  BY <1>1, TransmitReaches DEF FaultFree
<1> QED BY <1>1, <1>2 DEF Current, Told, Asked

\* By the time the master may send, nobody has a request of a handshake or a ping.
LEMMA CycleCallsNobody ==
  ASSUME NetInv, FFInv, FaultFree, MayTimeOut, SafeToSend, inbox = NoFrame
  PROVE  \A n \in Node : ~Current(n) /\ ~Joining(n)
<1>1. TimesOut => \A n \in Node : held[n] = NoFrame
  BY DEF MayTimeOut, FaultFree
<1>2. ~TimesOut => ~Pending
  BY RequestLeft DEF SafeToSend, Pending
<1>3. \A n \in Node : ~Current(n)
  BY <1>1, <1>2 DEF FFInv, CurrentInv, Current, Asked
<1> QED BY <1>3 DEF Joining, Answering, Parsing

\* A cycle that ends with a request to a slave.
LEMMA CycleSendsFF ==
  ASSUME NetInv, FFInv, PingInv, FaultFree, MayTimeOut, Cycle, SafeToSend, inbox = NoFrame,
         \A n \in Node : ~Told(n), NEW f \in MasterFrame, f.cmd \in {"PING", "EXT"},
         f.dest # 0, Transmit(f),
         last_request' = Requested(f.dest, f.cmd), UNCHANGED <<node, inbox>>
  PROVE  FFInv'
<1> USE DEF FFInv
<1>1. /\ ListedInv' /\ new_slave_addr' = new_slave_addr
      /\ \A n \in Node : (node[n].addr # 0 /\ Lists(n)) => Lists(n)'
  BY CycleKeepsListed
<1>2. last_request'.cmd = f.cmd /\ last_request'.dest = f.dest /\ Pending'
  BY DEF Requested, Pending
<1>3. \A n \in Node : ~Current(n) /\ ~Joining(n)
  BY CycleCallsNobody
<1>4. \A n \in Node : /\ Current(n)' => held'[n] = f /\ f.dest = node[n].addr
                      /\ ~Told(n)'
  BY <1>3, TransmitTo
<1>5. CurrentInv'
  BY <1>2, <1>4 DEF CurrentInv, UniqueAddress
<1>6. ReplyInv'
  BY <1>2, NetworkAssumption DEF ReplyInv, Answering, Parsing
<1>7. AddrInv'
  BY <1>1, <1>3 DEF AddrInv
<1>8. UniqueAddress'
  BY DEF UniqueAddress
<1> QED BY <1>1, <1>5, <1>6, <1>7, <1>8

\* A cycle that ends with a broadcast.
LEMMA CycleTellsFF ==
  ASSUME NetInv, FFInv, PingInv, FaultFree, MayTimeOut, Cycle, SafeToSend, inbox = NoFrame,
         NEW f \in MasterFrame, f.cmd = "EXT", f.dest = 0, Transmit(f),
         last_request' = RequestAfterCycle, UNCHANGED <<node, inbox>>
  PROVE  FFInv'
<1> USE DEF FFInv
<1>1. /\ ListedInv' /\ new_slave_addr' = new_slave_addr
      /\ \A n \in Node : (node[n].addr # 0 /\ Lists(n)) => Lists(n)'
  BY CycleKeepsListed
<1>2. ~Pending'
  BY DEF SafeToSend, Pending
<1>3. \A n \in Node : ~Current(n) /\ ~Joining(n)
  BY CycleCallsNobody
<1>4. \A n \in Node : ~Current(n)'
  BY <1>3, TransmitReaches DEF Current, Told, Asked
<1>5. CurrentInv'
  BY <1>2, <1>4 DEF CurrentInv
<1>6. ReplyInv'
  BY <1>2, NetworkAssumption DEF ReplyInv, Answering, Parsing
<1>7. AddrInv'
  BY <1>1, <1>3 DEF AddrInv
<1>8. UniqueAddress'
  BY DEF UniqueAddress
<1> QED BY <1>1, <1>5, <1>6, <1>7, <1>8
-----------------------------------------------------------------------------
(* and its answers *)

\* A SIGNAL comes while no reply is awaited and no slave has a request left.
LEMMA MasterFindsFF ==
  ASSUME NetInv, FFInv, FaultFree, MasterFinds
  PROVE  FFInv'
<1> USE DEF FFInv
<1>1. /\ node' = node /\ slaves' = slaves /\ ~Pending /\ Prompt
      /\ Parsing /\ inbox.type = "SIGNAL"
  BY DEF MasterFinds, ReceiveSignal, listVars, ReplyInv
<1>2. \A n \in Node : ~Asked(n) /\ ~Current(n) /\ ~Joining(n) /\ ~Told(n)
  BY <1>1 DEF Prompt, Joining, Current, Told
<1>3. AddrInv' /\ ListedInv' /\ UniqueAddress'
  BY <1>1, <1>2 DEF AddrInv, Lists, ListedInv, Entries, UniqueAddress
<1>4. CASE new_slave_addr' = 0
  <2>1. held' = held /\ inbox' = Ignored /\ last_request' = Answered
    BY <1>1, <1>4 DEF MasterFinds, ReceiveSignal, Heard, Finished, Pending
  <2>2. ~Pending'
    BY <2>1, AnsweredInv DEF Pending, NetInv
  <2>3. \A n \in Node : ~Current(n)' /\ ~Told(n)'
    BY <1>2, <2>1 DEF Current, Asked, Told
  <2>4. CurrentInv' /\ ReplyInv'
    BY <2>1, <2>2, <2>3, NetworkAssumption DEF CurrentInv, ReplyInv, Answering, Parsing
  <2> QED BY <1>3, <2>4
<1>5. CASE new_slave_addr' # 0
  <2> DEFINE f == Find(inbox.nonce, new_slave_addr')
  <2>1. /\ Transmit(f) /\ inbox' = NoFrame /\ last_request' = Requested(0, "FIND")
    BY <1>5 DEF MasterFinds, ReceiveSignal
  <2>2. f.cmd = "FIND" /\ f.dest = 0 /\ f.addr = new_slave_addr' /\ f.nonce = inbox.nonce
    BY DEF Find
  <2> HIDE DEF f
  <2>3. \A n \in Node : ~Told(n)' /\ (Current(n)' => held'[n] = f /\ f.nonce \in Draws[n])
    BY <1>2, <2>1, <2>2, TransmitReaches DEF Current, Asked, Told
  <2>4. Pending' /\ last_request'.cmd = "FIND" /\ last_request'.dest = 0
    BY <2>1 DEF Requested, Pending
  <2>5. CurrentInv'
    BY <2>1, <2>2, <2>3, <2>4 DEF CurrentInv, FaultFree
  <2>6. ReplyInv'
    BY <2>1, <2>4, NetworkAssumption DEF ReplyInv, Answering, Parsing
  <2> QED BY <1>3, <2>5, <2>6
<1> QED BY <1>4, <1>5

\* The slave that took FIND is asked for its UID.
LEMMA FindAckFF ==
  ASSUME NetInv, FFInv, FaultFree, Answering, ReceiveFindAck(inbox.src),
         Transmit(GetUid(new_slave_addr)), inbox' = NoFrame, node' = node
  PROVE  /\ FFInv' /\ slaves' = slaves /\ last_request'.cmd = "GET_UID"
         /\ \A n \in Node : /\ ~Current(n)
                            /\ held'[n] = held[n] \/ (Current(n)' /\ held'[n].cmd # "FIND")
<1> USE DEF FFInv
<1> DEFINE f == GetUid(new_slave_addr)
<1>1. /\ slaves' = slaves /\ new_slave_addr' = new_slave_addr /\ last_request.cmd = "FIND"
      /\ last_request' = Requested(new_slave_addr, "GET_UID")
  BY DEF ReceiveFindAck, listVars
<1>2. new_slave_addr \in Address /\ slaves[new_slave_addr - 1].addr = 0
  BY <1>1 DEF NetInv, IInv, OfferedSlotStaysFree
<1>3. f \in MasterFrame /\ f.cmd = "GET_UID" /\ f.dest = new_slave_addr /\ f.dest # 0
  BY <1>2, MasterWrites DEF GetUid, Address
<1>4. Transmit(f)
  OBVIOUS
<1> HIDE DEF f
<1>5. \A n \in Node : ~Current(n) /\ ~Told(n)
  BY NetworkAssumption DEF CurrentInv, ReplyInv, Answering, Parsing
<1>6. \A n \in Node : /\ ~Told(n)'
                      /\ Current(n)' => held'[n] = f /\ f.dest = node[n].addr
                      /\ (held[n] = NoFrame /\ f.dest = node[n].addr) => held'[n] = f
                      /\ held'[n] = f => Current(n)'
                      /\ held'[n] # f => held'[n] = held[n]
  BY <1>3, <1>4, <1>5, TransmitTo
<1>7. Pending' /\ last_request'.cmd = "GET_UID" /\ last_request'.dest = new_slave_addr
  BY <1>1 DEF Requested, Pending
<1>8. CurrentInv'
  BY <1>2, <1>3, <1>6, <1>7 DEF CurrentInv, UniqueAddress, Address
<1>9. ReplyInv'
  BY <1>1, <1>7, NetworkAssumption DEF ReplyInv, Answering, Parsing
<1>10. AddrInv'
  <2> SUFFICES ASSUME NEW n \in Node, node[n].addr # 0 PROVE Joining(n)' \/ Lists(n)'
    BY DEF AddrInv
  <2>1. CASE Joining(n)
    <3>1. held[n] = NoFrame /\ node[n].addr = new_slave_addr /\ ~Connected(n)
      BY <1>1, <2>1 DEF Joining
    <3>2. Current(n)'
      BY <1>3, <1>6, <3>1
    <3> QED BY <1>1, <1>7, <3>1, <3>2 DEF Joining, Connected
  <2>2. CASE Lists(n)
    BY <1>1, <2>2 DEF Lists
  <2> QED BY <2>1, <2>2 DEF AddrInv
<1>11. ListedInv' /\ UniqueAddress'
  BY <1>1 DEF ListedInv, Entries, UniqueAddress
<1> QED BY <1>1, <1>3, <1>5, <1>6, <1>7, <1>8, <1>9, <1>10, <1>11

\* The ACK of a GET_UID lists the UID it carries.
LEMMA UidAckListsOne ==
  ASSUME IInv, NEW U \in SUBSET String, Entries(slaves, U), NEW uid \in U, uid # << >>,
         Len(uid) <= UID_SIZE, NEW src, NEW junk \in String, ReceiveUidAck(src, uid, junk)
  PROVE  /\ Entries(slaves', U)
         /\ slaves'[new_slave_addr - 1].addr = new_slave_addr
         /\ slaves'[new_slave_addr - 1].uid = Stored(uid)
         /\ slaves'[new_slave_addr - 1].ping_error = 0
         /\ \A j \in Index : j # new_slave_addr - 1 =>
              \/ slaves'[j] = slaves[j]
              \/ /\ slaves'[j] = ClearedSlot
                 /\ \A v \in U : (slaves[j].uid = Stored(v) /\ Len(v) <= UID_SIZE) => ~Differ(v, uid)
<1>1. SentUid(uid) = uid /\ SentUid(uid) \in U /\ uid \in String
  BY DEF SentUid
<1>2. LET a == new_slave_addr
      IN  /\ a \in Address /\ slaves[a - 1].addr = 0
          /\ Entries(slaves', U)
          /\ slaves'[a - 1].addr = a /\ slaves'[a - 1].uid = Stored(SentUid(uid))
          /\ slaves'[a - 1].ping_error = 0
          /\ \A j \in Index : j # a - 1 =>
               \/ slaves'[j] = slaves[j]
               \/ /\ slaves'[j] = ClearedSlot /\ slaves[j].addr # 0
                  /\ \A v \in U : (slaves[j].uid = Stored(v) /\ Len(v) <= UID_SIZE) =>
                       ~Differ(v, SentUid(uid))
  BY <1>1, UidAckEntries, Zenon
<1> QED BY <1>1, <1>2

\* The slave that told its UID is listed and pinged; nobody else loses a slot to it.
LEMMA UidAckFF ==
  ASSUME NetInv, BusInv, FFInv, FaultFree, Answering, node' = node,
         ReceiveUidAck(inbox.src, inbox.uid, << >>),
         IF Len(inbox.uid) <= UID_SIZE THEN Transmit(Ping(new_slave_addr)) /\ inbox' = NoFrame
                                       ELSE Finished /\ UNCHANGED held
  PROVE  /\ FFInv' /\ inbox' = NoFrame
         /\ last_request'.cmd = "PING" /\ last_request'.dest = new_slave_addr
         /\ slaves'[new_slave_addr - 1].ping_error = 0
         /\ \A n \in Node :
              /\ ~Current(n)
              /\ held'[n] = held[n] \/ (Current(n)' /\ held'[n].cmd # "FIND")
              /\ node[n].addr # 0 =>
                   \/ node[n].addr = new_slave_addr /\ Current(n)'
                   \/ /\ node[n].addr # new_slave_addr
                      /\ slaves'[node[n].addr - 1] = slaves[node[n].addr - 1]
<1> USE DEF FFInv
<1> DEFINE f == Ping(new_slave_addr)
           a == new_slave_addr
<1>1. last_request.cmd = "GET_UID" /\ inbox.re = "GET_UID" /\ Parsing /\ inbox.type = "ACK"
  BY DEF ReceiveUidAck, ReplyInv, Answering
<1>2. PICK k \in Node : inbox.uid = UidOf[k] /\ node[k].addr \in {0, a}
  BY <1>1 DEF BusInv, InboxInv
<1>3. Len(inbox.uid) <= UID_SIZE /\ inbox.uid # << >>
  BY <1>2 DEF FaultFree
<1>4. Transmit(f) /\ inbox' = NoFrame
  BY <1>3
<1>5. /\ a \in Address /\ slaves[a - 1].addr = 0 /\ new_slave_addr' = a
      /\ last_request' = Requested(a, "PING")
  BY <1>1, <1>3 DEF ReceiveUidAck, NetInv, IInv, OfferedSlotStaysFree
<1>6. SentUid(inbox.uid) = UidOf[k]
  BY <1>2, <1>3 DEF SentUid
<1>7. /\ ListedInv'
      /\ slaves'[a - 1].addr = a /\ slaves'[a - 1].uid = Stored(UidOf[k])
      /\ slaves'[a - 1].ping_error = 0
      /\ \A j \in Index : j # a - 1 =>
           \/ slaves'[j] = slaves[j]
           \/ /\ slaves'[j] = ClearedSlot
              /\ \A v \in {UidOf[n] : n \in Node} :
                   (slaves[j].uid = Stored(v) /\ Len(v) <= UID_SIZE) => ~Differ(v, UidOf[k])
  <2> DEFINE U == {UidOf[n] : n \in Node}
             uid == UidOf[k]
  <2>1. U \in SUBSET String /\ uid \in U /\ IInv /\ Entries(slaves, U)
    BY NetworkAssumption DEF NetInv, ListedInv, String
  <2>2. ReceiveUidAck(inbox.src, uid, << >>) /\ Len(uid) <= UID_SIZE /\ uid # << >>
    BY <1>2, <1>3
  <2> HIDE DEF U, uid
  <2>3. /\ Entries(slaves', U)
        /\ slaves'[a - 1].addr = a /\ slaves'[a - 1].uid = Stored(uid)
        /\ slaves'[a - 1].ping_error = 0
        /\ \A j \in Index : j # a - 1 =>
             \/ slaves'[j] = slaves[j]
             \/ /\ slaves'[j] = ClearedSlot
                /\ \A v \in U : (slaves[j].uid = Stored(v) /\ Len(v) <= UID_SIZE) => ~Differ(v, uid)
    BY <2>1, <2>2, EmptyUid, UidAckListsOne, Zenon
  <2> QED BY <2>3 DEF U, uid, ListedInv
<1>8. f \in MasterFrame /\ f.cmd = "PING" /\ f.dest = a /\ f.dest # 0
  BY <1>5, MasterWrites DEF Ping, Address
<1> HIDE DEF f
<1>9. \A n \in Node : ~Current(n) /\ ~Told(n)
  BY NetworkAssumption DEF CurrentInv, ReplyInv, Answering, Parsing
<1>10. \A n \in Node : /\ ~Told(n)'
                       /\ Current(n)' => held'[n] = f /\ f.dest = node[n].addr
                       /\ (held[n] = NoFrame /\ f.dest = node[n].addr) => held'[n] = f
                       /\ held'[n] = f => Current(n)'
                       /\ held'[n] # f => held'[n] = held[n]
  BY <1>4, <1>8, <1>9, TransmitTo
<1>11. Pending' /\ last_request'.cmd = "PING" /\ last_request'.dest = a
  BY <1>5 DEF Requested, Pending
<1>12. CurrentInv'
  BY <1>4, <1>5, <1>8, <1>10, <1>11 DEF CurrentInv, UniqueAddress, Address
<1>13. ReplyInv'
  BY <1>4, <1>11, NetworkAssumption DEF ReplyInv, Answering, Parsing
<1>14. ASSUME NEW n \in Node, node[n].addr # 0, Lists(n)
       PROVE  node[n].addr # a /\ slaves'[node[n].addr - 1] = slaves[node[n].addr - 1]
  <2> DEFINE j == node[n].addr - 1
  <2>1. node[n].addr # a /\ j \in Index /\ j # a - 1
    <3>1. node[n].addr \in Address
      BY <1>14 DEF NetInv, NetTypeOK, SlaveState
    <3>2. node[n].addr # a
      BY <1>1, <1>14, OfferedToNobody
    <3>3. \A x, y \in Address : x # y => x - 1 \in Index /\ x - 1 # y - 1
      BY DEF Address, Index
    <3> QED BY <1>5, <3>1, <3>2, <3>3
  <2>2. n # k
    BY <1>2, <1>14, <2>1
  <2>3. slaves[j].uid = Stored(UidOf[n]) /\ Len(UidOf[n]) <= UID_SIZE /\ Differ(UidOf[n], UidOf[k])
    BY <1>14, <2>2 DEF Lists, FaultFree
  <2> HIDE DEF j
  <2>4. slaves'[j] = slaves[j]
    BY <1>7, <2>1, <2>3
  <2> QED BY <2>1, <2>4 DEF j
<1>15. AddrInv'
  <2> SUFFICES ASSUME NEW n \in Node, node[n].addr # 0 PROVE Lists(n)'
    BY DEF AddrInv
  <2>1. CASE Joining(n)
    <3>1. node[n].addr = a /\ inbox.uid = UidOf[n]
      BY <1>1, <1>9, <2>1 DEF Joining
    <3> QED BY <1>2, <1>7, <3>1 DEF Lists
  <2>2. CASE Lists(n)
    BY <1>14, <2>2 DEF Lists
  <2> QED BY <2>1, <2>2 DEF AddrInv
<1>16. UniqueAddress'
  BY DEF UniqueAddress
<1>17. ASSUME NEW n \in Node, node[n].addr # 0
       PROVE  \/ node[n].addr = a /\ Current(n)'
              \/ /\ node[n].addr # a
                 /\ slaves'[node[n].addr - 1] = slaves[node[n].addr - 1]
  <2>1. CASE Joining(n)
    <3>1. node[n].addr = a /\ held[n] = NoFrame
      BY <1>1, <1>9, <2>1 DEF Joining
    <3> QED BY <1>8, <1>10, <3>1
  <2>2. CASE Lists(n)
    BY <1>14, <1>17, <2>2
  <2> QED BY <1>17, <2>1, <2>2 DEF AddrInv
<1>18. \A n \in Node : held'[n] = held[n] \/ (Current(n)' /\ held'[n].cmd # "FIND")
  BY <1>8, <1>10
<1> QED BY <1>4, <1>7, <1>9, <1>11, <1>12, <1>13, <1>15, <1>16, <1>17, <1>18

\* A step after which no reply is awaited and that changes no entry of the list.
LEMMA MasterEndsFF ==
  ASSUME NetInv, FFInv, UNCHANGED <<node, held, new_slave_addr>>,
         \A n \in Node : ~Current(n) /\ ~Joining(n),
         inbox' \in {NoFrame, Ignored}, ~Pending', ListedInv',
         \A i \in Index : slaves'[i].addr = slaves[i].addr /\ slaves'[i].uid = slaves[i].uid
  PROVE  FFInv'
<1> USE DEF FFInv
<1>1. \A n \in Node : ~Current(n)'
  BY DEF Current, Told, Asked
<1>2. CurrentInv' /\ ReplyInv' /\ UniqueAddress'
  BY <1>1, NetworkAssumption DEF CurrentInv, ReplyInv, Answering, Parsing, UniqueAddress
<1>3. \A n \in Node : node[n].addr # 0 => node[n].addr - 1 \in Index
  BY DEF NetInv, NetTypeOK, SlaveState, Address, Index
<1>4. \A n \in Node : node[n].addr # 0 => (Lists(n)' <=> Lists(n))
  BY <1>3 DEF Lists
<1>5. AddrInv'
  BY <1>4 DEF AddrInv
<1> QED BY <1>2, <1>5

\* The frame of a broadcast.
LEMMA ToldHolds ==
  ASSUME NetInv, NEW n \in Node, Told(n)
  PROVE  held[n] = Data(0)
<1>1. held[n] \in MasterFrame /\ held[n].cmd = "EXT" /\ held[n].dest = 0
  BY DEF Told, Asked, NetInv, NetTypeOK
<1> QED BY <1>1 DEF MasterFrame, Data

\* and so does every step of the master: what it hears is what it awaits,
LEMMA MasterDropsNothing ==
  ASSUME NetInv, FFInv
  PROVE  ~MasterDrops
<1> SUFFICES ASSUME MasterDrops PROVE FALSE
  OBVIOUS
<1>1. /\ Parsing /\ Pending /\ last_request.dest # inbox.src
      /\ inbox.type \in {"SIGNAL", "ACK", "OTHER"}
  BY Inbox, ReplyFrame DEF MasterDrops, Heard, Pending
<1> QED BY <1>1 DEF FFInv, ReplyInv, Answering

\* it may end a wait,
LEMMA PingAckFF ==
  ASSUME NetInv, FFInv, Answering, ReceivePingAck(inbox.src), Finished, UNCHANGED <<node, held>>
  PROVE  /\ FFInv' /\ ~Pending' /\ inbox' \in {NoFrame, Ignored}
         /\ \A i \in Index : slaves'[i] = slaves[i] \/ slaves'[i].ping_error = 0
         /\ \A n \in Node : ~Current(n)
<1>1. /\ last_request.cmd = "PING" /\ last_request' = Answered /\ new_slave_addr' = new_slave_addr
      /\ inbox' \in {NoFrame, Ignored}
      /\ slaves' = PingAnswered(slaves, last_request.dest, PING_PERIOD)
  BY DEF ReceivePingAck, Finished
<1>2. ListedInv'
  BY PingAckEntries DEF FFInv, ListedInv, NetInv
<1>3. \A i \in Index : /\ slaves'[i].addr = slaves[i].addr /\ slaves'[i].uid = slaves[i].uid
                       /\ slaves'[i] = slaves[i] \/ slaves'[i].ping_error = 0
  BY <1>1, ListOfIInv, PingAnsweredEntry DEF NetInv, IInv, RequestInv
<1>4. ~Pending'
  BY <1>1, AnsweredInv DEF NetInv, Pending
<1>5. \A n \in Node : ~Current(n) /\ ~Joining(n)
  BY <1>1 DEF Joining, FFInv, CurrentInv, Answering, Parsing
<1> QED BY <1>1, <1>2, <1>3, <1>4, <1>5, MasterEndsFF

LEMMA MasterEndsWaits ==
  ASSUME NetInv, FFInv, MasterReads \/ MasterReadsToEnd \/ MasterIgnores \/ MasterReleases
  PROVE  /\ UNCHANGED <<node, held, new_slave_addr, slaves>>
         /\ inbox' \in {NoFrame, Ignored} /\ ~Pending' /\ (~Pending \/ inbox # NoFrame)
         /\ \A n \in Node : ~Current(n) /\ ~Joining(n)
<1> USE DEF FFInv
<1>1. last_request \in RequestType
  BY DEF NetInv, IInv, TypeOK
<1>2. CASE MasterReads
  <2>1. /\ UNCHANGED <<node, held, new_slave_addr, slaves>> /\ inbox' \in {NoFrame, Ignored}
        /\ Parsing
        /\ \/ last_request' = Answered
           \/ last_request' = [last_request EXCEPT !.reply_state = "Received"]
           \/ last_request.reply_state = "None" /\ last_request' = last_request
    BY <1>2 DEF MasterReads, Finished, ReceiveOther, ReceiveData, listVars, masterVars, vars
  <2>2. ~Pending'
    BY <1>1, <2>1, AnsweredInv DEF NetInv, Pending, RequestType
  <2>3. ~Answering
    <3> SUFFICES ASSUME Answering PROVE FALSE
      OBVIOUS
    <3>1. last_request.cmd = inbox.re /\ inbox \in SlaveFrame /\ inbox.type = "ACK"
      BY <2>1, Inbox DEF ReplyInv, Answering
    <3>2. inbox.re \in {"FIND", "GET_UID", "PING"}
      BY <3>1, ReplyFrame
    <3> QED BY <1>2, <3>1, <3>2 DEF MasterReads, NoCmd
  <2>4. \A n \in Node : ~Current(n)
    BY <2>1 DEF Parsing, CurrentInv
  <2> QED BY <2>1, <2>2, <2>3, <2>4 DEF Joining, Parsing
<1>3. CASE MasterReadsToEnd
  <2>1. /\ UNCHANGED <<node, held, new_slave_addr, slaves>> /\ inbox' = NoFrame
        /\ last_request' = Answered /\ ~Pending
    BY <1>3 DEF MasterReadsToEnd, ReadToEnd, listVars, Pending
  <2>2. ~Pending'
    BY <2>1, AnsweredInv DEF NetInv, Pending
  <2> QED BY <2>1, <2>2 DEF CurrentInv, Joining
<1>4. CASE MasterIgnores \/ MasterReleases
  <2>1. /\ UNCHANGED <<node, held, new_slave_addr, slaves, last_request>>
        /\ inbox' \in {NoFrame, Ignored}
        /\ last_request.reply_state = "Received" \/ inbox = Ignored
    BY <1>4 DEF MasterIgnores, MasterReleases, masterVars, vars
  <2>2. ~Pending
    BY <2>1 DEF Pending, ReplyInv
  <2> QED BY <2>1, <2>2 DEF Pending, CurrentInv, Joining
<1> QED BY <1>2, <1>3, <1>4

\* and it sends a ping to a slave or data to one or all of them.
LEMMA MasterPingsTo ==
  ASSUME NetInv, FFInv, MasterPings, KeepAlivePings(TRUE), Transmit(Ping(last_request'.dest))
  PROVE  \E f \in MasterFrame :
           /\ f.cmd = "PING" /\ f.dest \in Address /\ Transmit(f) /\ \A n \in Node : ~Told(n)
           /\ Cycle /\ MayTimeOut /\ SafeToSend /\ UNCHANGED <<node, inbox>> /\ inbox = NoFrame
           /\ last_request' = Requested(f.dest, f.cmd)
<1> DEFINE dest == last_request'.dest
           f == Ping(dest)
<1>1. /\ Cycle /\ MayTimeOut /\ SafeToSend /\ UNCHANGED <<node, inbox>> /\ inbox = NoFrame
      /\ last_request'.cmd = "PING" /\ last_request'.reply_state = "Pending"
  BY DEF MasterPings, KeepAlivePings, Requested
<1>2. last_request' = Requested(dest, "PING")
  BY DEF KeepAlivePings, Requested
<1>3. dest \in Address
  <2>1. IInv'
    BY MasterKeepsIInv DEF MasterNext
  <2> QED BY <1>1, <2>1 DEF IInv, PingBookedOnListedSlave
<1>4. \A n \in Node : ~Told(n)
  BY ToldHolds DEF MasterPings, BroadcastRead
<1> HIDE DEF dest
<1>5. f \in MasterFrame /\ f.cmd = "PING" /\ f.dest = dest
  BY <1>3, MasterWrites DEF Ping
<1>6. Transmit(f)
  BY DEF dest
<1> HIDE DEF f
<1> QED BY <1>1, <1>2, <1>3, <1>4, <1>5, <1>6

LEMMA MasterDispatchesTo ==
  ASSUME NetInv, FFInv, MasterDispatches
  PROVE  /\ Cycle /\ MayTimeOut /\ SafeToSend /\ UNCHANGED <<node, inbox>> /\ inbox = NoFrame
         /\ \A n \in Node : ~Told(n)
         /\ ping_flag' = FALSE
         /\ \/ last_request' = RequestAfterCycle /\ UNCHANGED held
            \/ \E f \in MasterFrame :
                 /\ f.cmd = "EXT" /\ Transmit(f)
                 /\ \/ f.dest = 0 /\ last_request' = RequestAfterCycle
                    \/ f.dest \in Address /\ last_request' = Requested(f.dest, f.cmd)
<1>1. /\ Cycle /\ MayTimeOut /\ SafeToSend /\ UNCHANGED <<node, inbox>> /\ inbox = NoFrame
      /\ ping_flag' = FALSE
  BY DEF MasterDispatches, KeepAliveDispatches
<1>2. \A n \in Node : ~Told(n)
  BY ToldHolds DEF MasterDispatches, BroadcastRead
<1>3. CASE last_request' = RequestAfterCycle
  <2>1. Data(0) \in MasterFrame /\ Data(0).cmd = "EXT" /\ Data(0).dest = 0
    BY SlaveListAssumption DEF MasterFrame, Data
  <2>2. UNCHANGED held \/ Transmit(Data(0))
    BY <1>3 DEF MasterDispatches
  <2> QED BY <1>1, <1>2, <1>3, <2>1, <2>2
<1>4. CASE last_request' # RequestAfterCycle
  <2>1. PICK dest \in Address : last_request' = Requested(dest, "EXT")
    BY <1>4 DEF MasterDispatches, KeepAliveDispatches
  <2>2. last_request'.dest = dest
    BY <2>1 DEF Requested
  <2>3. Transmit(Data(dest))
    BY <1>4, <2>2 DEF MasterDispatches
  <2>4. Data(dest) \in MasterFrame /\ Data(dest).cmd = "EXT" /\ Data(dest).dest = dest
    BY MasterWrites DEF Data
  <2> QED BY <1>1, <1>2, <2>1, <2>3, <2>4
<1> QED BY <1>3, <1>4

LEMMA MasterNextFF ==
  ASSUME NetInv, BusInv, FFInv, PingInv, FaultFree, MasterNext
  PROVE  FFInv'
<1>1. CASE MasterReads \/ MasterReadsToEnd \/ MasterIgnores \/ MasterReleases
  <2>1. ListedInv'
    BY <1>1, MasterEndsWaits DEF FFInv, ListedInv, Entries
  <2> QED BY <1>1, <2>1, MasterEndsWaits, MasterEndsFF
<1>2. CASE MasterAcknowledged
  <2>1. Answering /\ node' = node
    BY <1>2 DEF MasterAcknowledged, Answering
  <2>2. CASE ReceiveFindAck(inbox.src) /\ Transmit(GetUid(new_slave_addr)) /\ inbox' = NoFrame
    BY <2>1, <2>2, FindAckFF
  <2>3. CASE /\ ReceiveUidAck(inbox.src, inbox.uid, << >>)
             /\ IF Len(inbox.uid) <= UID_SIZE THEN Transmit(Ping(new_slave_addr)) /\ inbox' = NoFrame
                                               ELSE Finished /\ UNCHANGED held
    BY <2>1, <2>3, UidAckFF
  <2>4. CASE ReceivePingAck(inbox.src) /\ Finished /\ UNCHANGED held
    BY <2>1, <2>4, PingAckFF
  <2> QED BY <1>2, <2>2, <2>3, <2>4 DEF MasterAcknowledged
<1>3. CASE Cycle /\ MayTimeOut /\ last_request' = RequestAfterCycle /\ UNCHANGED <<node, held, inbox>>
  BY <1>3, CycleKeepsFF
<1>4. CASE MasterPings
  <2>1. CASE KeepAlivePings(TRUE) /\ Transmit(Ping(last_request'.dest))
    <3>1. PICK f \in MasterFrame :
            /\ f.cmd = "PING" /\ f.dest \in Address /\ Transmit(f) /\ \A n \in Node : ~Told(n)
            /\ Cycle /\ MayTimeOut /\ SafeToSend /\ UNCHANGED <<node, inbox>> /\ inbox = NoFrame
            /\ last_request' = Requested(f.dest, f.cmd)
      BY <1>4, <2>1, MasterPingsTo
    <3> QED BY <3>1, CycleSendsFF DEF Address
  <2>2. CASE KeepAlivePings(FALSE) /\ UNCHANGED held
    BY <1>3, <1>4, <2>2 DEF MasterPings, KeepAlivePings
  <2> QED BY <1>4, <2>1, <2>2 DEF MasterPings
<1>5. CASE MasterDispatches
  <2>1. /\ Cycle /\ MayTimeOut /\ SafeToSend /\ UNCHANGED <<node, inbox>> /\ inbox = NoFrame
        /\ \A n \in Node : ~Told(n)
        /\ \/ last_request' = RequestAfterCycle /\ UNCHANGED held
           \/ \E f \in MasterFrame :
                /\ f.cmd = "EXT" /\ Transmit(f)
                /\ \/ f.dest = 0 /\ last_request' = RequestAfterCycle
                   \/ f.dest \in Address /\ last_request' = Requested(f.dest, f.cmd)
    BY <1>5, MasterDispatchesTo
  <2>2. CASE last_request' = RequestAfterCycle /\ UNCHANGED held
    BY <1>3, <2>1, <2>2
  <2>3. ASSUME NEW f \in MasterFrame, f.cmd = "EXT", Transmit(f),
               f.dest = 0, last_request' = RequestAfterCycle
        PROVE  FFInv'
    BY <2>1, <2>3, CycleTellsFF
  <2>4. ASSUME NEW f \in MasterFrame, f.cmd = "EXT", Transmit(f),
               f.dest \in Address, last_request' = Requested(f.dest, f.cmd)
        PROVE  FFInv'
    BY <2>1, <2>4, CycleSendsFF DEF Address
  <2> QED BY <2>1, <2>2, <2>3, <2>4
<1>6. CASE MasterWaits
  BY <1>3, <1>6 DEF MasterWaits, KeepAliveWaits
<1>7. ~MasterRestarts
  BY DEF MasterRestarts, FaultFree
<1> QED BY <1>1, <1>2, <1>4, <1>5, <1>6, <1>7, MasterDropsNothing, MasterFindsFF DEF MasterNext
-----------------------------------------------------------------------------
(* Missed pings *)

\* A step by which slave n has no new miss and is no less ready for the next ping.
PingKept(n) ==
  (node'[n].addr # 0 /\ Lists(n)') =>
    /\ Unheard(n)' => Slot(n)'.ping_count = 0
    /\ Slot(n)'.ping_error # 0 =>
         /\ node[n].addr # 0 /\ Lists(n) /\ Slot(n)'.ping_error = Slot(n).ping_error
         /\ Slot(n).ping_count = 0 => Slot(n)'.ping_count = 0
         /\ Deaf(n)' => Deaf(n)

\* The numbers in the slot of a slave that has an address.
LEMMA SlotNumbers ==
  ASSUME NetInv, NEW n \in Node, node[n].addr # 0
  PROVE  node[n].addr - 1 \in Index /\ Slot(n).ping_error \in Nat /\ Slot(n).ping_count \in Nat
<1>1. node[n].addr - 1 \in Index
  BY DEF NetInv, NetTypeOK, SlaveState, Address, Index
<1>2. Slot(n) \in Slave(node[n].addr - 1)
  BY <1>1 DEF Slot, NetInv, IInv, TypeOK
<1> QED BY <1>1, <1>2 DEF Slave

\* While a ping is repeated nobody is forgotten, and the slave itself is not counted.
LEMMA SignalledGrows ==
  ASSUME NetInv, NetInv', PingInv, FaultFree, Counts, NEW n \in Node
  PROVE  /\ n \notin signalled'[n]
         /\ Cardinality(signalled'[n]) \in Nat
         /\ Retrying(n)' => Cardinality(signalled[n]) <= Cardinality(signalled'[n])
         /\ \A m \in Signalling : (Retrying(n)' /\ m \notin signalled[n]) =>
              Cardinality(signalled[n]) + 1 <= Cardinality(signalled'[n])
<1>1. signalled'[n] = IF Retrying(n)' THEN signalled[n] \cup Signalling ELSE {}
  BY DEF Counts, FaultFree
<1>2. n \notin signalled[n]
  BY DEF PingInv
<1>3. n \in Signalling => ~Retrying(n)'
  BY DEF NetInv, SlavesInv, Signalling, Retrying
<1>4. /\ IsFiniteSet(Node) /\ signalled[n] \subseteq Node /\ signalled'[n] \subseteq Node
  BY DEF FaultFree, NetInv, NetTypeOK
<1>5. /\ IsFiniteSet(signalled[n]) /\ IsFiniteSet(signalled'[n])
      /\ Cardinality(signalled[n]) \in Nat /\ Cardinality(signalled'[n]) \in Nat
  BY <1>4, FS_Subset, FS_CardinalityType
<1>6. Retrying(n)' => Cardinality(signalled[n]) <= Cardinality(signalled'[n])
  <2>1. Retrying(n)' => signalled[n] \subseteq signalled'[n]
    BY <1>1
  <2> QED BY <1>5, <2>1, FS_Subset
<1>7. ASSUME NEW m \in Signalling, Retrying(n)', m \notin signalled[n]
      PROVE  Cardinality(signalled[n]) + 1 <= Cardinality(signalled'[n])
  <2>1. signalled[n] \cup {m} \subseteq signalled'[n]
    BY <1>1, <1>7
  <2>2. Cardinality(signalled[n] \cup {m}) = Cardinality(signalled[n]) + 1
    BY <1>5, <1>7, FS_AddElement
  <2>3. Cardinality(signalled[n] \cup {m}) <= Cardinality(signalled'[n])
    BY <1>5, <2>1, FS_Subset
  <2> QED BY <2>2, <2>3
<1> QED BY <1>1, <1>2, <1>3, <1>5, <1>6, <1>7

\* So that its misses stay within its bound.
LEMMA PingStays ==
  ASSUME NetInv, NetInv', PingInv, FaultFree, Counts, NEW n \in Node, PingKept(n)
  PROVE  PingOk(n)'
<1> SUFFICES ASSUME node'[n].addr # 0, Lists(n)'
             PROVE  /\ Slot(n)'.ping_error <= Cardinality(signalled'[n]) + 1
                    /\ Deaf(n)' => Slot(n)'.ping_error <= Cardinality(signalled'[n])
                    /\ Slot(n)'.ping_error > 0 => Slot(n)'.ping_count = 0
                    /\ Unheard(n)' => Slot(n)'.ping_count = 0
  BY DEF PingOk
<1>1. Slot(n)'.ping_error \in Nat
  <2>1. node'[n].addr - 1 \in Index
    BY DEF NetInv, NetTypeOK, SlaveState, Address, Index
  <2>2. Slot(n)' \in Slave(node'[n].addr - 1)
    BY <2>1 DEF Slot, NetInv, IInv, TypeOK
  <2> QED BY <2>2 DEF Slave
<1>2. Cardinality(signalled'[n]) \in Nat /\ Cardinality(signalled[n]) \in Nat
  BY SignalledGrows, SignalledFew
<1>3. Unheard(n)' => Slot(n)'.ping_count = 0
  BY DEF PingKept
<1>4. CASE Slot(n)'.ping_error = 0
  BY <1>1, <1>2, <1>3, <1>4
<1>5. CASE Slot(n)'.ping_error # 0
  <2>1. Retrying(n)'
    BY <1>1, <1>5 DEF Retrying, Slot
  <2>2. Cardinality(signalled[n]) <= Cardinality(signalled'[n])
    BY <2>1, SignalledGrows
  <2>3. /\ node[n].addr # 0 /\ Lists(n) /\ Slot(n)'.ping_error = Slot(n).ping_error
        /\ Slot(n).ping_count = 0 => Slot(n)'.ping_count = 0
        /\ Deaf(n)' => Deaf(n)
    BY <1>5 DEF PingKept
  <2>4. /\ Slot(n).ping_error <= Cardinality(signalled[n]) + 1
        /\ Deaf(n) => Slot(n).ping_error <= Cardinality(signalled[n])
        /\ Slot(n).ping_error > 0 => Slot(n).ping_count = 0
    BY <2>3 DEF PingInv, PingOk
  <2> QED BY <1>1, <1>2, <1>3, <1>5, <2>2, <2>3, <2>4
<1> QED BY <1>4, <1>5

\* Such is every step that leaves its slot alone and its ears as they were.
LEMMA PingUndisturbed ==
  ASSUME PingInv, NEW n \in Node, node'[n].addr = node[n].addr,
         (node[n].addr # 0 /\ Lists(n)') =>
           /\ slaves'[node[n].addr - 1] = slaves[node[n].addr - 1]
           /\ Unheard(n)' => Unheard(n)
           /\ Deaf(n)' => Deaf(n)
  PROVE  PingKept(n)
<1> SUFFICES ASSUME node[n].addr # 0, Lists(n)'
             PROVE  /\ Unheard(n)' => Slot(n)'.ping_count = 0
                    /\ Lists(n) /\ Slot(n)' = Slot(n) /\ (Deaf(n)' => Deaf(n))
  BY DEF PingKept
<1>1. Slot(n)' = Slot(n) /\ Lists(n)
  BY DEF Slot, Lists
<1> QED BY <1>1 DEF PingInv, PingOk

\* A step of slave m that is not a SIGNAL, for another slave.
LEMMA SlaveElsewhere ==
  ASSUME NetInv, FFInv, PingInv, NEW m \in Node, SlaveNext(m), NEW n \in Node, n # m,
         inbox' = inbox \/ (/\ inbox' \notin {NoFrame, Ignored} /\ inbox'.type # "SIGNAL"
                            /\ Pending => Current(m))
  PROVE  PingKept(n)
<1>1. /\ slaves' = slaves /\ last_request' = last_request
      /\ node'[n] = node[n] /\ held'[n] = held[n]
      /\ Current(n)' <=> Current(n)
  BY SlaveLeavesAlone
<1>2. Rings' => Rings
  BY DEF Rings, Parsing
<1>3. Unheard(n)' => Unheard(n)
  BY <1>1 DEF Unheard, Awaiting, Pending
<1>4. Off(n)' <=> Off(n)
  BY <1>1 DEF Off
<1>5. ASSUME node[n].addr # 0, Resting(n), inbox' # inbox PROVE FALSE
  <2>1. Pending /\ last_request.cmd = "EXT" /\ last_request.dest = node[n].addr
    BY <1>5 DEF Resting, Awaiting
  <2>2. Current(m)
    BY <1>5, <2>1
  <2>3. held[m].cmd = "EXT" /\ held[m].dest = node[m].addr /\ held[m].dest = node[n].addr
    BY <2>1, <2>2 DEF FFInv, CurrentInv
  <2> QED BY <1>5, <2>3 DEF FFInv, UniqueAddress
<1>6. (node[n].addr # 0 /\ Resting(n)) => Resting(n)'
  BY <1>1, <1>5 DEF Resting, Awaiting, Pending
<1>7. node[n].addr # 0 => (Deaf(n)' => Deaf(n))
  BY <1>2, <1>3, <1>4, <1>6 DEF Deaf
<1> QED BY <1>1, <1>3, <1>7, PingUndisturbed

\* An answer to the master turns the slave's receiver on.
LEMMA SlaveAnswersPings ==
  ASSUME NetInv, FFInv, PingInv, FaultFree, NEW m \in Node,
         \/ SlaveFound(m) /\ Protocol!TakesFind(node[m], held[m].nonce)
         \/ SlaveAsked(m) \/ SlavePinged(m)
         \/ SlaveReads(m) /\ ~Told(m) /\ Deliver(m, Other(m)) /\ Hold(m, NoFrame),
         NEW n \in Node
  PROVE  PingKept(n)
<1> USE DEF FFInv
<1>1. /\ slaves' = slaves /\ new_slave_addr' = new_slave_addr /\ last_request' = last_request
      /\ SlaveNext(m)
  BY SlaveLeavesAlone DEF SlaveNext, SlaveAnswers
<1>2. node[m] \in SlaveState /\ DOMAIN node = Node /\ DOMAIN held = Node /\ node[m].nonce \in Draws[m]
  BY DEF NetInv, NetTypeOK, SlavesInv
<1>3. Current(m) /\ (SlaveFound(m) => held[m].cmd = "FIND")
  BY <1>2 DEF Current, Told, Asked, SlaveFound, SlaveAsked, SlavePinged, SlaveReads, Protocol!TakesFind
<1>4. /\ Pending /\ inbox = NoFrame
      /\ SlaveFound(m) => last_request.cmd = "FIND" /\ held[m].addr = new_slave_addr
  BY <1>3 DEF CurrentInv
<1>5. \/ inbox' \in {Ack(m, "FIND"), Ack(m, "GET_UID"), Ack(m, "PING")}
      \/ inbox' = Other(m)
  BY <1>4, DeliverReaches DEF FaultFree, SlaveFound, SlaveAsked, SlavePinged, SlaveReads
<1>6. inbox' \notin {NoFrame, Ignored}
  BY <1>5, SlaveWrites, ReplyFrame
<1>7. inbox'.type # "SIGNAL"
  BY <1>5 DEF Ack, Other
<1>8. CASE n # m
  BY <1>1, <1>3, <1>6, <1>7, <1>8, SlaveElsewhere
<1>9. CASE n = m
  <2>1. held'[n] = NoFrame
    BY <1>2, <1>9 DEF SlaveFound, SlaveAsked, SlavePinged, SlaveReads, Hold
  <2>2. ~Deaf(n)' /\ ~Unheard(n)'
    BY <1>6, <1>7, <2>1 DEF Deaf, Rings, Off, Unheard
  <2>3. CASE SlaveFound(m)
    <3>1. node'[n].addr = new_slave_addr
      BY <1>2, <1>4, <1>9, <2>3 DEF SlaveFound, SlaveAsked, SlavePinged, SlaveReads, Becomes, Protocol!Found
    <3>2. new_slave_addr \in Address /\ slaves[new_slave_addr - 1].addr = 0
      BY <1>4, <2>3 DEF NetInv, IInv, OfferedSlotStaysFree
    <3>3. ~Lists(n)'
      BY <1>1, <3>1, <3>2 DEF Lists, Address
    <3> QED BY <3>3 DEF PingKept
  <2>4. CASE ~SlaveFound(m)
    <3>1. node'[n].addr = node[n].addr
      BY <1>2, <1>9, <2>4
      DEF SlaveAsked, SlavePinged, SlaveReads, Becomes, Protocol!UidAsked, Protocol!Pinged, SlaveState
    <3> QED BY <1>1, <2>2, <3>1, PingUndisturbed
  <2> QED BY <2>3, <2>4
<1> QED BY <1>8, <1>9

\* Data without a reply keeps it off no longer than the master waits for one; what
\* else keeps it off did so before.
LEMMA SlaveHoldsPings ==
  ASSUME NetInv, FFInv, PingInv, NEW m \in Node,
         \/ SlaveFound(m) /\ ~Protocol!TakesFind(node[m], held[m].nonce)
         \/ SlaveReads(m) /\ Hold(m, Ignored) /\ UNCHANGED inbox
         \/ SlaveReleases(m),
         NEW n \in Node
  PROVE  PingKept(n)
<1> USE DEF FFInv
<1>1. /\ slaves' = slaves /\ last_request' = last_request /\ SlaveNext(m) /\ ~Current(m)'
  BY SlaveLeavesAlone DEF SlaveNext, SlaveAnswers
<1>2. node' = node /\ inbox' = inbox /\ DOMAIN held = Node
  BY DEF SlaveFound, SlaveReads, SlaveReleases, NetInv, NetTypeOK
<1>3. CASE n # m
  BY <1>1, <1>2, <1>3, SlaveElsewhere
<1>4. CASE n = m
  <2>1. Rings' <=> Rings
    BY <1>2 DEF Rings, Parsing
  <2>2. \/ held[n] = Ignored /\ held'[n] = NoFrame
        \/ Asked(n) /\ held[n].cmd \in {"FIND", "EXT"} /\ held'[n] = Ignored
    BY <1>2, <1>4 DEF SlaveFound, SlaveReads, SlaveReleases, Hold
  <2>3. Current(n) => Pending /\ inbox = NoFrame /\ last_request.cmd = held[n].cmd
                      /\ (held[n].cmd # "FIND" => last_request.dest = node[n].addr)
    BY DEF CurrentInv
  <2>4. Unheard(n)' => Unheard(n)
    <3>1. Unheard(n)' => Awaiting(n, "PING") /\ inbox = NoFrame
      BY <1>1, <1>2 DEF Unheard, Awaiting, Pending
    <3>2. Awaiting(n, "PING") => ~Current(n)
      BY <2>2, <2>3 DEF Awaiting, Current, Asked
    <3> QED BY <3>1, <3>2 DEF Unheard
  <2>5. CASE Current(n) /\ held[n].cmd = "EXT"
    <3>1. Resting(n)'
      BY <1>1, <1>2, <2>2, <2>3, <2>5 DEF Resting, Awaiting, Pending, Current, Asked
    <3>2. ~Rings /\ ~Unheard(n)
      BY <2>3, <2>5 DEF Rings, Parsing, Unheard
    <3> QED BY <1>1, <1>2, <2>1, <2>4, <3>1, <3>2, PingUndisturbed DEF Deaf
  <2>6. CASE ~(Current(n) /\ held[n].cmd = "EXT")
    <3>1. CASE held'[n] = NoFrame
      BY <1>1, <1>2, <2>1, <2>4, <3>1, PingUndisturbed DEF Deaf, Off
    <3>2. CASE held'[n] # NoFrame
      <4>1. Off(n) /\ ~Resting(n)
        BY <2>2, <2>6, <3>2 DEF Off, Resting, Asked
      <4> QED BY <1>1, <1>2, <2>4, <4>1, PingUndisturbed DEF Deaf
    <3> QED BY <3>1, <3>2
  <2> QED BY <2>5, <2>6
<1> QED BY <1>3, <1>4

\* The other steps of a slave but SIGNAL: a reply to a broadcast, what it sends
\* unasked, and its leaving.
LEMMA SlaveSpeaksPings ==
  ASSUME NetInv, FFInv, PingInv, FaultFree, NEW m \in Node,
         \/ SlaveReads(m) /\ Told(m) /\ Deliver(m, Other(m)) /\ Hold(m, NoFrame)
         \/ SlaveSends(m),
         NEW n \in Node
  PROVE  PingKept(n)
<1>1. /\ slaves' = slaves /\ last_request' = last_request /\ SlaveNext(m) /\ ~Current(m)'
      /\ Pending' <=> Pending
  BY SlaveLeavesAlone DEF SlaveNext, SlaveAnswers
<1>2. ~Pending /\ node' = node /\ (held'[m] = NoFrame \/ held' = held)
  BY DEF SlaveReads, SlaveSends, Quiet, FaultFree, Pending, FFInv, CurrentInv, Hold, NetInv, NetTypeOK
<1>3. inbox' = inbox \/ inbox' = Other(m)
  BY DeliverReaches DEF FaultFree, SlaveReads, SlaveSends
<1>4. Other(m) \notin {NoFrame, Ignored} /\ Other(m).type # "SIGNAL"
  BY SlaveWrites, ReplyFrame DEF Other
<1>5. CASE n # m
  BY <1>1, <1>2, <1>3, <1>4, <1>5, SlaveElsewhere
<1>6. CASE n = m
  <2>1. Rings' => Rings
    BY <1>3, <1>4 DEF Rings, Parsing
  <2>2. ~Unheard(n)' /\ ~Resting(n)
    BY <1>1, <1>2 DEF Unheard, Resting, Awaiting
  <2>3. Off(n)' => Off(n)
    <3>1. ~Current(n)
      BY <1>2 DEF FFInv, CurrentInv
    <3> QED BY <1>2, <1>6, <3>1 DEF Off
  <2> QED BY <1>1, <1>2, <2>1, <2>2, <2>3, PingUndisturbed DEF Deaf
<1> QED BY <1>5, <1>6

LEMMA SlaveLeavesPings ==
  ASSUME NetInv, FFInv, PingInv, NEW m \in Node, SlaveLeaves(m) \/ SlaveGivesUp(m), NEW n \in Node
  PROVE  PingKept(n)
<1>1. inbox' = inbox /\ SlaveNext(m) /\ node'[m].addr = 0
  BY DEF SlaveLeaves, SlaveGivesUp, StartOver, Becomes, Protocol!Started, NetInv, NetTypeOK, SlaveNext
<1>2. n # m => PingKept(n)
  BY <1>1, SlaveElsewhere
<1> QED BY <1>1, <1>2 DEF PingKept

\* A SIGNAL is counted by everybody whose ping is being repeated, and it is the first
\* of its slave since then.
LEMMA SlaveSignalsPings ==
  ASSUME NetInv, NetInv', FFInv, PingInv, FaultFree, Counts, NEW m \in Node, SlaveSignals(m),
         NEW n \in Node
  PROVE  PingOk(n)'
<1>1. /\ slaves' = slaves /\ last_request' = last_request /\ ~Pending
      /\ Protocol!CanSignal(node[m]) /\ node' = [node EXCEPT ![m] = Protocol!Signalled(node[m])]
      /\ Retrying(n) => m \notin signalled[n]
  BY DEF SlaveSignals, Becomes, Quiet, Pending, FaultFree, masterVars, vars
<1>2. /\ node[m] \in SlaveState /\ DOMAIN node = Node
      /\ node[m].bus_state \in {"Disconnected", "Plugged_in"} /\ node[m].addr = 0
  BY <1>1 DEF NetInv, NetTypeOK, SlavesInv, Protocol!CanSignal
<1>3. /\ node'[m].addr = 0 /\ m \in Signalling
      /\ n # m => node'[n] = node[n]
  BY <1>1, <1>2 DEF Protocol!Signalled, SlaveState, Signalling
<1>4. CASE n = m
  BY <1>3, <1>4 DEF PingOk
<1>5. CASE n # m
  <2> SUFFICES ASSUME node[n].addr # 0, Lists(n)'
               PROVE  /\ Slot(n).ping_error <= Cardinality(signalled'[n])
                      /\ Slot(n).ping_error > 0 => Slot(n).ping_count = 0
                      /\ ~Unheard(n)'
    <3>1. Slot(n)' = Slot(n) /\ node'[n].addr = node[n].addr
      BY <1>1, <1>3, <1>5 DEF Slot
    <3>2. node[n].addr # 0 => Slot(n).ping_error \in Nat
      BY SlotNumbers
    <3>3. Cardinality(signalled'[n]) \in Nat
      BY SignalledGrows
    <3> QED BY <3>1, <3>2, <3>3 DEF PingOk
  <2>1. ~Unheard(n)'
    BY <1>1 DEF Unheard, Awaiting, Pending
  <2>2. Lists(n)
    BY <1>1, <1>3, <1>5 DEF Lists
  <2>3. /\ Slot(n).ping_error <= Cardinality(signalled[n]) + 1
        /\ Slot(n).ping_error > 0 => Slot(n).ping_count = 0
    BY <2>2 DEF PingInv, PingOk
  <2>4. Slot(n).ping_error \in Nat /\ Cardinality(signalled[n]) \in Nat
        /\ Cardinality(signalled'[n]) \in Nat
    BY SlotNumbers, SignalledFew, SignalledGrows
  <2>5. CASE Slot(n).ping_error = 0
    BY <2>1, <2>3, <2>4, <2>5
  <2>6. CASE Slot(n).ping_error # 0
    <3>1. Retrying(n) /\ Retrying(n)'
      BY <1>1, <1>3, <1>5, <2>4, <2>6 DEF Retrying, Slot
    <3>2. Cardinality(signalled[n]) + 1 <= Cardinality(signalled'[n])
      BY <1>1, <1>3, <3>1, SignalledGrows
    <3> QED BY <2>1, <2>3, <2>4, <3>2
  <2> QED BY <2>5, <2>6
<1> QED BY <1>4, <1>5

LEMMA SlavePings ==
  ASSUME NetInv, NetInv', FFInv, PingInv, FaultFree, Counts, NEW m \in Node, SlaveNext(m),
         NEW n \in Node
  PROVE  PingOk(n)'
<1>1. CASE SlaveSignals(m)
  BY <1>1, SlaveSignalsPings
<1>2. CASE SlaveFound(m)
  BY <1>2, SlaveAnswersPings, SlaveHoldsPings, PingStays
<1>3. CASE SlaveAsked(m) \/ SlavePinged(m)
  BY <1>3, SlaveAnswersPings, PingStays
<1>4. CASE SlaveReads(m)
  <2>1. CASE Hold(m, Ignored) /\ UNCHANGED inbox
    BY <1>4, <2>1, SlaveHoldsPings, PingStays
  <2>2. CASE Deliver(m, Other(m)) /\ Hold(m, NoFrame) /\ Told(m)
    BY <1>4, <2>2, SlaveSpeaksPings, PingStays
  <2>3. CASE Deliver(m, Other(m)) /\ Hold(m, NoFrame) /\ ~Told(m)
    BY <1>4, <2>3, SlaveAnswersPings, PingStays
  <2> QED BY <1>4, <2>1, <2>2, <2>3 DEF SlaveReads
<1>5. CASE SlaveReleases(m)
  BY <1>5, SlaveHoldsPings, PingStays
<1>6. CASE SlaveSends(m)
  BY <1>6, SlaveSpeaksPings, PingStays
<1>7. CASE SlaveLeaves(m) \/ SlaveGivesUp(m)
  BY <1>7, SlaveLeavesPings, PingStays
<1> QED BY <1>1, <1>2, <1>3, <1>4, <1>5, <1>6, <1>7 DEF SlaveNext, SlaveAnswers
-----------------------------------------------------------------------------
(* counted by the master *)

\* The end of a wait, or of a frame that nobody awaited.
LEMMA MasterEndsPings ==
  ASSUME NetInv, PingInv, UNCHANGED <<node, held>>, inbox' \in {NoFrame, Ignored}, ~Pending',
         ~Pending \/ inbox # NoFrame, \A m \in Node : ~Current(m), NEW n \in Node,
         node[n].addr # 0 => \/ slaves'[node[n].addr - 1] = slaves[node[n].addr - 1]
                             \/ slaves'[node[n].addr - 1].ping_error = 0
  PROVE  PingKept(n)
<1>1. ~Unheard(n)' /\ ~Rings'
  BY DEF Unheard, Awaiting, Rings, Parsing
<1>2. Off(n)' => Off(n) /\ ~Resting(n)
  BY DEF Off, Resting, Awaiting
<1>3. Deaf(n)' => Deaf(n)
  BY <1>1, <1>2 DEF Deaf
<1>4. CASE node[n].addr # 0 /\ slaves'[node[n].addr - 1] # slaves[node[n].addr - 1]
  <2>1. Slot(n)'.ping_error = 0
    BY <1>4 DEF Slot
  <2> QED BY <1>1, <2>1 DEF PingKept
<1> QED BY <1>1, <1>3, <1>4, PingUndisturbed

\* A SIGNAL that is answered or not is over, whoever misses a ping because of it.
LEMMA MasterFindsPings ==
  ASSUME NetInv, PingInv, MasterFinds, NEW n \in Node
  PROVE  PingKept(n)
<1>1. /\ node' = node /\ slaves' = slaves /\ Rings
  BY DEF MasterFinds, ReceiveSignal, listVars, Rings
<1>2. last_request' = Requested(0, "FIND") \/ last_request' = Answered
  BY DEF MasterFinds, ReceiveSignal
<1>3. ~Unheard(n)'
  BY <1>2, AnsweredInv DEF Unheard, Awaiting, Pending, Requested, NetInv
<1> QED BY <1>1, <1>3, PingUndisturbed DEF Deaf

\* The master asks who took FIND: the others' ears are as they were.
LEMMA FindAckPings ==
  ASSUME NetInv, BusInv, FFInv, PingInv, FaultFree, Answering, ReceiveFindAck(inbox.src),
         Transmit(GetUid(new_slave_addr)), inbox' = NoFrame, node' = node, NEW n \in Node
  PROVE  PingKept(n)
<1>1. /\ slaves' = slaves /\ last_request'.cmd = "GET_UID"
      /\ \A m \in Node : /\ ~Current(m)
                         /\ held'[m] = held[m] \/ (Current(m)' /\ held'[m].cmd # "FIND")
  BY FindAckFF, Zenon
<1>2. ~Unheard(n)' /\ ~Rings' /\ ~Resting(n)
  BY <1>1 DEF Unheard, Awaiting, Rings, Parsing, Resting, Answering
<1>3. Off(n)' => Off(n)
  BY <1>1 DEF Off
<1> QED BY <1>1, <1>2, <1>3, PingUndisturbed DEF Deaf

\* and pings who told its UID, which hears it.
LEMMA UidAckPings ==
  ASSUME NetInv, BusInv, FFInv, PingInv, FaultFree, Answering, node' = node,
         ReceiveUidAck(inbox.src, inbox.uid, << >>),
         IF Len(inbox.uid) <= UID_SIZE THEN Transmit(Ping(new_slave_addr)) /\ inbox' = NoFrame
                                       ELSE Finished /\ UNCHANGED held,
         NEW n \in Node
  PROVE  PingKept(n)
<1>1. /\ inbox' = NoFrame
      /\ last_request'.cmd = "PING" /\ last_request'.dest = new_slave_addr
      /\ slaves'[new_slave_addr - 1].ping_error = 0
      /\ ~Current(n)
      /\ held'[n] = held[n] \/ (Current(n)' /\ held'[n].cmd # "FIND")
      /\ node[n].addr # 0 =>
           \/ node[n].addr = new_slave_addr /\ Current(n)'
           \/ /\ node[n].addr # new_slave_addr
              /\ slaves'[node[n].addr - 1] = slaves[node[n].addr - 1]
  BY UidAckFF
<1>2. CASE node[n].addr = new_slave_addr /\ Current(n)'
  BY <1>1, <1>2 DEF PingKept, Unheard, Slot
<1>3. CASE node[n].addr # new_slave_addr \/ node[n].addr = 0
  <2>1. node[n].addr # 0 => ~Unheard(n)'
    BY <1>1, <1>3 DEF Unheard, Awaiting
  <2>2. ~Rings' /\ ~Resting(n)
    BY <1>1 DEF Rings, Parsing, Resting, Answering
  <2>3. Off(n)' => Off(n)
    BY <1>1 DEF Off
  <2> QED BY <1>1, <1>3, <2>1, <2>2, <2>3, PingUndisturbed DEF Deaf
<1> QED BY <1>1, <1>2, <1>3

\* A cycle counts a miss of a slave that did not hear its ping, and goes on pinging it.
LEMMA CycleMisses ==
  ASSUME NetInv, FFInv, PingInv, FaultFree, MayTimeOut, Cycle, node' = node, NEW n \in Node,
         node[n].addr # 0, Lists(n)'
  PROVE  /\ Lists(n)
         /\ Slot(n)'.ping_error \in Nat /\ Slot(n)'.ping_error <= Cardinality(signalled[n]) + 1
         /\ Slot(n)'.ping_error > 0 => Slot(n)'.ping_count = 0
         /\ Slot(n).ping_count = 0 => Slot(n)'.ping_count = 0
         /\ ~TimesOut => Slot(n)'.ping_error = Slot(n).ping_error
<1> DEFINE i == node[n].addr - 1
           slot == slaves'[i]
<1>1. i \in Index /\ i + 1 = node[n].addr /\ Slot(n).ping_error \in Nat /\ slot = Slot(n)'
  BY SlotNumbers DEF Slot, NetInv, NetTypeOK, SlaveState, Address
<1>2. slot = ListAfterCycle[i] /\ slot.addr = node[n].addr /\ slot.addr # 0
      /\ slot.uid = Stored(UidOf[n])
  BY DEF Cycle, Lists
<1> HIDE DEF slot
<1>3. /\ ~Misses(i) => /\ slot.addr = slaves[i].addr /\ slot.uid = slaves[i].uid
                       /\ slot.ping_error = slaves[i].ping_error
      /\ (Misses(i) /\ slaves[i].ping_error = MAX_PING_ERROR - 1) => slot = ClearedSlot
      /\ (Misses(i) /\ slaves[i].ping_error # MAX_PING_ERROR - 1) =>
           /\ slot.addr = slaves[i].addr /\ slot.uid = slaves[i].uid
           /\ slot.ping_error = slaves[i].ping_error + 1
      /\ slaves[i].ping_count = 0 => slot.ping_count = 0
  BY <1>1, <1>2, CycleEntry DEF NetInv
<1>4. slot.addr = slaves[i].addr /\ slot.uid = slaves[i].uid
  BY <1>2, <1>3 DEF ClearedSlot
<1>5. Lists(n)
  BY <1>2, <1>4 DEF Lists
<1>6. /\ Slot(n).ping_error <= Cardinality(signalled[n]) + 1
      /\ Deaf(n) => Slot(n).ping_error <= Cardinality(signalled[n])
      /\ Slot(n).ping_error > 0 => Slot(n).ping_count = 0
      /\ Unheard(n) => Slot(n).ping_count = 0
  BY <1>5 DEF PingInv, PingOk
<1>7. Slot(n) = slaves[i] /\ Cardinality(signalled[n]) \in Nat
  BY SignalledFew DEF Slot
<1>8. CASE Misses(i)
  <2>1. TimesOut /\ Awaiting(n, "PING") /\ inbox = NoFrame /\ held[n] = NoFrame
    BY <1>1, <1>8 DEF Misses, TimesOut, Awaiting, Pending, MayTimeOut, FaultFree
  <2>2. Unheard(n) /\ Deaf(n)
    BY <2>1 DEF Unheard, Deaf, Current, Asked
  <2>3. slot # ClearedSlot
    BY <1>2 DEF ClearedSlot
  <2> QED BY <1>1, <1>3, <1>5, <1>6, <1>7, <1>8, <2>1, <2>2, <2>3
<1>9. CASE ~Misses(i)
  BY <1>1, <1>3, <1>5, <1>6, <1>7, <1>9
<1> QED BY <1>8, <1>9

\* Its bound is kept by a cycle after which it is no deafer, or that found it
\* hearing,
LEMMA CyclePings ==
  ASSUME NetInv, NetInv', FFInv, PingInv, FaultFree, MayTimeOut, Cycle, node' = node, Counts,
         NEW n \in Node,
         node[n].addr # 0 => /\ Deaf(n)' => ~TimesOut /\ Deaf(n)
                             /\ Unheard(n)' => \/ slaves'[node[n].addr - 1].ping_count = 0
                                               \/ Unheard(n)
  PROVE  PingOk(n)'
<1> SUFFICES ASSUME node[n].addr # 0, Lists(n)'
             PROVE  /\ Slot(n)'.ping_error <= Cardinality(signalled'[n]) + 1
                    /\ Deaf(n)' => Slot(n)'.ping_error <= Cardinality(signalled'[n])
                    /\ Slot(n)'.ping_error > 0 => Slot(n)'.ping_count = 0
                    /\ Unheard(n)' => Slot(n)'.ping_count = 0
  BY DEF PingOk
<1>1. /\ Lists(n)
      /\ Slot(n)'.ping_error \in Nat /\ Slot(n)'.ping_error <= Cardinality(signalled[n]) + 1
      /\ Slot(n)'.ping_error > 0 => Slot(n)'.ping_count = 0
      /\ Slot(n).ping_count = 0 => Slot(n)'.ping_count = 0
      /\ ~TimesOut => Slot(n)'.ping_error = Slot(n).ping_error
  BY CycleMisses
<1>2. /\ Cardinality(signalled'[n]) \in Nat /\ Cardinality(signalled[n]) \in Nat
      /\ Retrying(n)' => Cardinality(signalled[n]) <= Cardinality(signalled'[n])
  BY SignalledGrows, SignalledFew
<1>3. /\ Deaf(n) => Slot(n).ping_error <= Cardinality(signalled[n])
      /\ Unheard(n) => Slot(n).ping_count = 0
  BY <1>1 DEF PingInv, PingOk
<1>4. Retrying(n)' <=> Slot(n)'.ping_error > 0
  BY DEF Retrying, Slot
<1>5. Unheard(n)' => Slot(n)'.ping_count = 0
  BY <1>1, <1>3 DEF Slot
<1> QED BY <1>1, <1>2, <1>3, <1>4, <1>5

\* as by one without a frame,
LEMMA CycleKeepsPings ==
  ASSUME NetInv, NetInv', FFInv, PingInv, FaultFree, MayTimeOut, Cycle, Counts,
         last_request' = RequestAfterCycle, UNCHANGED <<node, held, inbox>>, NEW n \in Node
  PROVE  PingOk(n)'
<1>1. /\ last_request'.cmd = last_request.cmd /\ last_request'.dest = last_request.dest
      /\ TimesOut => ~Pending'
      /\ ~TimesOut => (Pending' <=> Pending)
  BY RequestLeft DEF Pending
<1>2. Current(n)' <=> Current(n)
  BY DEF Current, Told, Asked
<1>3. CASE TimesOut
  <2>1. inbox = NoFrame /\ held[n] = NoFrame
    BY <1>3 DEF MayTimeOut, FaultFree
  <2>2. ~Deaf(n)' /\ ~Unheard(n)'
    BY <1>1, <1>3, <2>1 DEF Deaf, Rings, Parsing, Off, Unheard, Awaiting
  <2> QED BY <2>2, CyclePings
<1>4. CASE ~TimesOut
  <2>1. /\ (Rings' <=> Rings) /\ (Off(n)' <=> Off(n))
        /\ (Unheard(n)' <=> Unheard(n)) /\ (Resting(n)' <=> Resting(n))
    BY <1>1, <1>2, <1>4 DEF Rings, Parsing, Off, Unheard, Resting, Awaiting
  <2> QED BY <1>4, <2>1, CyclePings DEF Deaf
<1> QED BY <1>3, <1>4

\* by one that ends with a request, a PING to a slave that is due,
LEMMA CycleSendsPings ==
  ASSUME NetInv, NetInv', FFInv, PingInv, FaultFree, MayTimeOut, Cycle, Counts, SafeToSend,
         inbox = NoFrame, \A m \in Node : ~Told(m), NEW f \in MasterFrame,
         f.cmd \in {"PING", "EXT"}, f.dest # 0, Transmit(f),
         last_request' = Requested(f.dest, f.cmd), UNCHANGED <<node, inbox>>,
         f.cmd = "PING" => slaves'[f.dest - 1].ping_count = 0,
         NEW n \in Node
  PROVE  PingOk(n)'
<1>1. last_request'.cmd = f.cmd /\ last_request'.dest = f.dest
  BY DEF Requested
<1>2. ~Current(n)
  BY CycleCallsNobody
<1>3. /\ (held[n] = NoFrame /\ f.dest = node[n].addr) => held'[n] = f
      /\ held'[n] = f => Current(n)'
      /\ held'[n] # f => held'[n] = held[n]
  BY TransmitTo
<1>4. ~Rings' /\ (Off(n)' => held[n] # NoFrame)
  BY <1>3 DEF Rings, Parsing, Off
<1>5. Unheard(n)' => held[n] # NoFrame /\ f.cmd = "PING" /\ f.dest = node[n].addr
  BY <1>1, <1>3 DEF Unheard, Awaiting
<1>6. held[n] # NoFrame => ~TimesOut /\ Off(n) /\ ~Resting(n)
  <2>1. TimesOut => held[n] = NoFrame
    BY DEF MayTimeOut, FaultFree
  <2>2. ~TimesOut => ~Pending
    BY RequestLeft DEF SafeToSend, Pending
  <2> QED BY <1>2, <2>1, <2>2 DEF Off, Resting, Awaiting
<1>7. Deaf(n)' => ~TimesOut /\ Deaf(n)
  BY <1>4, <1>5, <1>6 DEF Deaf
<1> QED BY <1>5, <1>7, CyclePings

\* and by a broadcast, before which nobody is due.
LEMMA CycleTellsPings ==
  ASSUME NetInv, NetInv', FFInv, PingInv, FaultFree, MayTimeOut, Cycle, SafeToSend, Counts,
         last_request' = RequestAfterCycle, ping_flag' = FALSE, node' = node, NEW n \in Node
  PROVE  PingOk(n)'
<1> SUFFICES ASSUME node[n].addr # 0, Lists(n)'
             PROVE  /\ Slot(n)'.ping_error <= Cardinality(signalled'[n])
                    /\ Slot(n)'.ping_error > 0 => Slot(n)'.ping_count = 0
                    /\ ~Unheard(n)' /\ Cardinality(signalled'[n]) \in Nat
                    /\ Slot(n)'.ping_error \in Nat
  BY DEF PingOk
<1>1. Slot(n)'.ping_error \in Nat /\ (Slot(n)'.ping_error > 0 => Slot(n)'.ping_count = 0)
  BY CycleMisses
<1>2. node[n].addr - 1 \in Index
  BY SlotNumbers
<1>3. Slot(n)'.ping_count # 0
  BY <1>2 DEF NetInv, IInv, NoPingForgotten, Due, Slot
<1>4. ~Unheard(n)'
  BY DEF SafeToSend, Unheard, Awaiting, Pending
<1> QED BY <1>1, <1>3, <1>4, SignalledGrows

LEMMA MasterCounts ==
  ASSUME NetInv, NetInv', BusInv, FFInv, PingInv, FaultFree, Counts, MasterNext, NEW n \in Node
  PROVE  PingOk(n)'
<1>1. node[n].addr # 0 => node[n].addr - 1 \in Index
  BY SlotNumbers
<1>2. CASE MasterReads \/ MasterReadsToEnd \/ MasterIgnores \/ MasterReleases
  BY <1>2, MasterEndsWaits, MasterEndsPings, PingStays
<1>3. CASE MasterFinds
  BY <1>3, MasterFindsPings, PingStays
<1>4. CASE MasterAcknowledged
  <2>1. Answering /\ node' = node /\ inbox # NoFrame
    BY <1>4 DEF MasterAcknowledged, Answering, Parsing
  <2>2. CASE ReceiveFindAck(inbox.src) /\ Transmit(GetUid(new_slave_addr)) /\ inbox' = NoFrame
    BY <2>1, <2>2, FindAckPings, PingStays
  <2>3. CASE /\ ReceiveUidAck(inbox.src, inbox.uid, << >>)
             /\ IF Len(inbox.uid) <= UID_SIZE THEN Transmit(Ping(new_slave_addr)) /\ inbox' = NoFrame
                                               ELSE Finished /\ UNCHANGED held
    BY <2>1, <2>3, UidAckPings, PingStays
  <2>4. CASE ReceivePingAck(inbox.src) /\ Finished /\ UNCHANGED held
    <3>1. /\ ~Pending' /\ inbox' \in {NoFrame, Ignored} /\ \A m \in Node : ~Current(m)
          /\ \A i \in Index : slaves'[i] = slaves[i] \/ slaves'[i].ping_error = 0
      BY <2>1, <2>4, PingAckFF
    <3> QED BY <1>1, <2>1, <2>4, <3>1, MasterEndsPings, PingStays
  <2> QED BY <1>4, <2>2, <2>3, <2>4 DEF MasterAcknowledged
<1>5. CASE Cycle /\ MayTimeOut /\ last_request' = RequestAfterCycle /\ UNCHANGED <<node, held, inbox>>
  BY <1>5, CycleKeepsPings
<1>6. CASE MasterPings
  <2>1. CASE KeepAlivePings(TRUE) /\ Transmit(Ping(last_request'.dest))
    <3>1. PICK f \in MasterFrame :
            /\ f.cmd = "PING" /\ f.dest \in Address /\ Transmit(f) /\ \A m \in Node : ~Told(m)
            /\ Cycle /\ MayTimeOut /\ SafeToSend /\ UNCHANGED <<node, inbox>> /\ inbox = NoFrame
            /\ last_request' = Requested(f.dest, f.cmd)
      BY <1>6, <2>1, MasterPingsTo
    <3>2. slaves'[f.dest - 1].ping_count = 0
      <4> DEFINE next == NextPing(ListAfterCycle, last)
      <4>1. next.addr > 0 /\ last_request' = Requested(next.addr, "PING")
        BY <2>1 DEF KeepAlivePings
      <4>2. last \in 0 .. MAX_SLAVES
        BY DEF NetInv, IInv, TypeOK
      <4>3. next.addr - 1 \in Due(ListAfterCycle)
        BY <4>1, <4>2, NextPingDue
      <4> HIDE DEF next
      <4>4. f.dest = next.addr
        BY <3>1, <4>1 DEF Requested
      <4> QED BY <3>1, <4>3, <4>4 DEF Due, Cycle
    <3> QED BY <3>1, <3>2, CycleSendsPings DEF Address
  <2>2. CASE KeepAlivePings(FALSE) /\ UNCHANGED held
    BY <1>5, <1>6, <2>2 DEF MasterPings, KeepAlivePings
  <2> QED BY <1>6, <2>1, <2>2 DEF MasterPings
<1>7. CASE MasterDispatches
  <2>1. /\ Cycle /\ MayTimeOut /\ SafeToSend /\ UNCHANGED <<node, inbox>> /\ inbox = NoFrame
        /\ \A m \in Node : ~Told(m)
        /\ ping_flag' = FALSE
        /\ \/ last_request' = RequestAfterCycle /\ UNCHANGED held
           \/ \E f \in MasterFrame :
                /\ f.cmd = "EXT" /\ Transmit(f)
                /\ \/ f.dest = 0 /\ last_request' = RequestAfterCycle
                   \/ f.dest \in Address /\ last_request' = Requested(f.dest, f.cmd)
    BY <1>7, MasterDispatchesTo
  <2>2. CASE last_request' = RequestAfterCycle
    BY <2>1, <2>2, CycleTellsPings
  <2>3. ASSUME NEW f \in MasterFrame, f.cmd = "EXT", Transmit(f),
               f.dest \in Address, last_request' = Requested(f.dest, f.cmd)
        PROVE  PingOk(n)'
    BY <2>1, <2>3, CycleSendsPings DEF Address
  <2> QED BY <2>1, <2>2, <2>3
<1>8. CASE MasterWaits
  BY <1>5, <1>8 DEF MasterWaits, KeepAliveWaits
<1>9. ~MasterRestarts
  BY DEF MasterRestarts, FaultFree
<1> QED BY <1>2, <1>3, <1>4, <1>6, <1>7, <1>8, <1>9, MasterDropsNothing DEF MasterNext

\* Whoever makes the next step.
LEMMA NetNextPings ==
  ASSUME FaultFree, NetInv, NetInv', BusInv, FFInv, PingInv, [NetNext]_netVars
  PROVE  PingInv'
<1>1. CASE UNCHANGED netVars
  <2>1. UNCHANGED <<slaves, new_slave_addr, last_request, node, held, inbox, signalled>>
    BY <1>1 DEF netVars, busVars, masterVars, vars
  <2>2. \A n \in Node : (Current(n)' <=> Current(n)) /\ (Rings' <=> Rings)
    BY <2>1 DEF Current, Asked, Told, Rings, Parsing
  <2>3. \A n \in Node : (Off(n)' <=> Off(n)) /\ (Resting(n)' <=> Resting(n))
                        /\ (Unheard(n)' <=> Unheard(n))
    BY <2>1, <2>2 DEF Off, Resting, Unheard, Awaiting, Pending
  <2>4. \A n \in Node : (Deaf(n)' <=> Deaf(n)) /\ (Lists(n)' <=> Lists(n)) /\ Slot(n)' = Slot(n)
    BY <2>1, <2>2, <2>3 DEF Deaf, Lists, Slot
  <2> QED BY <2>1, <2>3, <2>4 DEF PingInv, PingOk
<1>2. CASE NetNext
  <2>1. Counts
    BY <1>2 DEF NetNext
  <2>2. \A n \in Node : n \notin signalled'[n]
    BY <2>1, SignalledGrows
  <2>3. \A n \in Node : PingOk(n)'
    BY <1>2, <2>1, MasterCounts, SlavePings DEF NetNext
  <2> QED BY <2>2, <2>3 DEF PingInv
<1> QED BY <1>1, <1>2
-----------------------------------------------------------------------------
(* Every reachable state *)

\* Nobody has joined at first.
LEMMA NetInitFF == NetInit => FFInv /\ PingInv
<1> SUFFICES ASSUME NetInit PROVE FFInv /\ PingInv
  OBVIOUS
<1>1. \A n \in Node : /\ node[n].addr = 0 /\ held[n] = NoFrame /\ ~Current(n) /\ ~Told(n)
                      /\ signalled[n] = {}
  BY DEF NetInit, Protocol!Started, Current, Told, Asked
<1>2. /\ last_request.reply_state = "None" /\ inbox = NoFrame
      /\ \A i \in Index : slaves[i] = ClearedSlot
  BY DEF NetInit, Init, EmptyList
<1>3. ListedInv
  BY <1>2 DEF ListedInv, Entries, Entry, ClearedSlot
<1>4. CurrentInv /\ ReplyInv
  BY <1>1, <1>2, NetworkAssumption DEF CurrentInv, ReplyInv, Answering, Parsing, Pending
<1>5. AddrInv /\ PingInv /\ UniqueAddress
  BY <1>1 DEF AddrInv, PingInv, PingOk, UniqueAddress
<1> QED BY <1>3, <1>4, <1>5 DEF FFInv

\* Whoever makes the next step.
LEMMA NetNextFF ==
  ASSUME FaultFree, NetInv, BusInv, FFInv, PingInv, [NetNext]_netVars
  PROVE  FFInv'
<1>1. CASE UNCHANGED netVars
  <2>1. UNCHANGED <<slaves, new_slave_addr, last_request, node, held, inbox>>
    BY <1>1 DEF netVars, busVars, masterVars, vars
  <2>2. \A n \in Node : (Current(n)' <=> Current(n)) /\ (Asked(n)' <=> Asked(n)) /\ (Told(n)' <=> Told(n))
    BY <2>1 DEF Current, Asked, Told
  <2>3. CurrentInv' /\ ReplyInv' /\ ListedInv' /\ UniqueAddress'
    BY <2>1, <2>2 DEF FFInv, CurrentInv, ReplyInv, ListedInv, Entries, UniqueAddress, Pending,
       Answering, Parsing, Prompt
  <2>4. AddrInv'
    BY <2>1, <2>2 DEF FFInv, AddrInv, Joining, Lists, Pending, Answering, Parsing, Connected
  <2> QED BY <2>3, <2>4 DEF FFInv
<1> QED BY <1>1, MasterNextFF, SlaveNextFF DEF NetNext

\* The invariant holds in every state of a bus without faults.
LEMMA FaultFreeInductive ==
  ASSUME FaultFree
  PROVE  NetSpec => [](NetInv /\ FFInv /\ PingInv)
<1>1. NoCrossing
  BY DEF FaultFree, NoCrossing
<1>2. NetInit => FFInv /\ PingInv
  BY NetInitFF
<1>3. (NetInv /\ BusInv) /\ FFInv /\ PingInv /\ [NetNext]_netVars => FFInv' /\ PingInv'
  BY NetNextFF, NetNextPings, NetNextKeepsNetInv
<1>4. NetSpec => [](NetInv /\ BusInv)
  BY <1>1, BusInductive
<1> QED BY <1>2, <1>3, <1>4, PTL DEF NetSpec

\* On a bus that loses nothing no two slaves ever have the same address, from the
\* FIND that gives it on, whoever joins, leaves and signals when.
THEOREM AddressesAreUnique ==
  ASSUME FaultFree
  PROVE  NetSpec => []UniqueAddress
<1>1. NetInv /\ FFInv => UniqueAddress
  BY DEF FFInv
<1> QED BY <1>1, FaultFreeInductive, PTL

\* A slave that believes it is connected is in the master's list with its UID: with
\* fewer slaves than MAX_PING_ERROR a broadcast and the FINDs of all others together
\* make it miss too few pings to be dropped, two slaves with the code's 3.
THEOREM ListedWhileConnected ==
  ASSUME FaultFree
  PROVE  NetSpec => []ConnectedIsListed
<1>1. NetInv /\ FFInv => ConnectedIsListed
  BY DEF NetInv, SlavesInv, FFInv, AddrInv, Joining, ConnectedIsListed, Connected
<1> QED BY <1>1, FaultFreeInductive, PTL

\* The master takes every ACK for the answer to the request it answers.
THEOREM AcksMatch ==
  ASSUME FaultFree
  PROVE  NetSpec => []AckMatches
<1>1. NetInv /\ FFInv => AckMatches
  BY DEF FFInv, ReplyInv, Answering, AckMatches
<1> QED BY <1>1, FaultFreeInductive, PTL
-----------------------------------------------------------------------------
(* Lookups *)

\* A UID leads to nobody else: the address that a request for slave n is given when
\* it is pushed is that of no other slave (oplink_master.c:24-28), although entries
\* of slaves that left are still listed.
LookupsReachOwner ==
  \A m, n \in Node : LET a == MapUidToAddr(slaves, UidOf[n])
                     IN  (a # 0 /\ node[m].addr = a) => m = n

\* The slot of a slave's address is free or stores its UID.
LEMMA SlotOfHolder ==
  ASSUME NetInv, FFInv, NEW n \in Node, node[n].addr # 0, slaves[node[n].addr - 1].addr # 0
  PROVE  slaves[node[n].addr - 1].uid = Stored(UidOf[n])
<1>1. CASE Joining(n)
  BY <1>1 DEF Joining, NetInv, IInv, OfferedSlotStaysFree
<1>2. CASE Lists(n)
  BY <1>2 DEF Lists
<1> QED BY <1>1, <1>2 DEF FFInv, AddrInv

\* A taken slot that a lookup stops at is the owner's.
LEMMA LookupReachesOwner ==
  ASSUME NetInv, FFInv, FaultFree, NEW m \in Node, NEW n \in Node,
         MapUidToAddr(slaves, UidOf[n]) # 0, node[m].addr = MapUidToAddr(slaves, UidOf[n])
  PROVE  m = n
<1> SUFFICES ASSUME m # n PROVE FALSE
  OBVIOUS
<1>1. \A i \in Index : slaves[i].addr \in {0, i + 1}
  BY ListOfIInv DEF NetInv, ListInv, Slave
<1>2. PICK i \in Index : Matches(slaves, i, UidOf[n]) /\ node[m].addr = slaves[i].addr
  BY LookupFirst
<1>3. slaves[i].addr = i + 1 /\ (i + 1) - 1 = i
  BY <1>1, <1>2 DEF Index
<1>4. slaves[i].uid = Stored(UidOf[m])
  BY <1>2, <1>3, SlotOfHolder
<1>5. Differ(UidOf[m], UidOf[n]) /\ Len(UidOf[m]) <= UID_SIZE
  BY DEF FaultFree
<1>6. UidOf[m] \in Seq(1 .. 255) /\ UidOf[n] \in Seq(1 .. 255)
  BY NetworkAssumption, MasterAssumption
<1> QED BY <1>2, <1>4, <1>5, <1>6, DifferentUid DEF Differ

\* On a bus without faults the address that the master finds for a UID is never
\* another slave's, whoever joined and left before.
THEOREM LookupsReachTheOwner ==
  ASSUME FaultFree
  PROVE  NetSpec => []LookupsReachOwner
<1>1. NetInv /\ FFInv => LookupsReachOwner
  BY LookupReachesOwner DEF LookupsReachOwner
<1> QED BY <1>1, FaultFreeInductive, PTL
------------------------------------------------------------------------------
(* Refinement *)

\* Slots by address.
LEMMA SlotOf ==
  ASSUME NEW a \in Address
  PROVE  a - 1 \in Index /\ (a - 1) + 1 = a
BY DEF Address, Index

\* A UID is not the empty slot's.
LEMMA StoredIsUid ==
  ASSUME NEW uid \in String, uid # << >>
  PROVE  Stored(uid) # NoUid
<1>1. PICK N : N = Len(uid)
  OBVIOUS
<1>2. uid \in Seq(1 .. 255)
  BY DEF String
<1>3. N \in Nat /\ N >= 1
  BY <1>1, <1>2, SMT
<1>4. uid[1] \in 1 .. 255
  BY <1>1, <1>2, <1>3, SMT
<1>5. 1 \in 1 .. UID_SIZE
  OBVIOUS
<1>6. Stored(uid)[1] = uid[1]
  <2>1. Stored(uid)[1] = IF 1 <= N THEN uid[1] ELSE 0
    BY <1>1, <1>5, Zenon DEF Stored
  <2> QED BY <1>3, <2>1
<1>7. NoUid[1] = 0
  BY <1>5 DEF NoUid
<1>8. Stored(uid)[1] # NoUid[1]
  <2>1. \A x \in 1 .. 255 : x # 0
    OBVIOUS
  <2> QED BY <2>1, <1>4, <1>6, <1>7, Zenon
<1> QED BY <1>8

\* A step by which nobody joins, is listed, connects, leaves or is dropped.
LEMMA MembersStutter ==
  ASSUME \A n \in Node : node'[n].addr = node[n].addr /\ (Connected(n)' <=> Connected(n)),
         \A i \in Index : slaves'[i].addr = slaves[i].addr /\ slaves'[i].uid = slaves[i].uid
  PROVE  UNCHANGED Members!mvars
<1>1. AddrOf' = AddrOf
  BY DEF AddrOf
<1>2. ConnectedNodes' = ConnectedNodes
  BY DEF ConnectedNodes
<1>3. ListedUids' = ListedUids
  BY SlotOf DEF ListedUids
<1> QED BY <1>1, <1>2, <1>3 DEF Members!mvars

\* The list is as it was.
LEMMA SameList ==
  ASSUME slaves' = slaves
  PROVE  ListedUids' = ListedUids
BY DEF ListedUids

\* What changes when one slave does.
LEMMA OneMoves ==
  ASSUME NetInv, NEW n \in Node, NEW s, node' = [node EXCEPT ![n] = s]
  PROVE  /\ AddrOf' = [AddrOf EXCEPT ![n] = s.addr]
         /\ s.bus_state = "Connected" => ConnectedNodes' = ConnectedNodes \cup {n}
         /\ s.bus_state # "Connected" => ConnectedNodes' = ConnectedNodes \ {n}
<1>1. \A m \in Node : node'[m] = IF m = n THEN s ELSE node[m]
  BY DEF NetInv, NetTypeOK
<1>2. AddrOf' = [AddrOf EXCEPT ![n] = s.addr]
  <2>1. \A m \in Node : node'[m].addr = IF m = n THEN s.addr ELSE node[m].addr
    BY <1>1
  <2>2. AddrOf' = [m \in Node |-> IF m = n THEN s.addr ELSE node[m].addr]
    BY <2>1 DEF AddrOf
  <2> QED BY <2>2 DEF AddrOf
<1>3. \A m \in Node : m \in ConnectedNodes' <=> IF m = n THEN s.bus_state = "Connected"
                                                         ELSE m \in ConnectedNodes
  BY <1>1 DEF ConnectedNodes, Connected
<1>4. ConnectedNodes \subseteq Node /\ ConnectedNodes' \subseteq Node
  BY DEF ConnectedNodes
<1> QED BY <1>2, <1>3, <1>4

\* FIND gives an address that is free in the list and that nobody else has.
LEMMA FindTakes ==
  ASSUME NetInv, FFInv, FaultFree, NEW n \in Node, SlaveFound(n),
         Protocol!TakesFind(node[n], held[n].nonce)
  PROVE  \E a \in Address : Members!Take(n, a)
<1> USE DEF FFInv
<1>1. /\ Asked(n) /\ held[n].cmd = "FIND" /\ node[n].bus_state = "Signal_sent"
      /\ node[n].nonce = held[n].nonce
      /\ node' = [node EXCEPT ![n] = Protocol!Found(node[n], held[n].addr)]
      /\ slaves' = slaves
  BY DEF SlaveFound, Protocol!TakesFind, Becomes, masterVars, vars
<1>2. node[n].nonce \in Draws[n] /\ node[n].addr = 0
  BY <1>1 DEF NetInv, SlavesInv
<1>3. /\ Pending /\ inbox = NoFrame /\ last_request.cmd = "FIND"
      /\ held[n].addr = new_slave_addr
  BY <1>1, <1>2 DEF CurrentInv, Current, Told
<1> DEFINE a == new_slave_addr
<1>4. a \in Address /\ slaves[a - 1].addr = 0
  BY <1>3 DEF NetInv, IInv, OfferedSlotStaysFree
<1>5. \A m \in Node : node[m].addr # a
  <2>1. \A m \in Node : ~Joining(m)
    BY <1>3 DEF Joining, Answering, Parsing
  <2> QED BY <1>3, <1>4, <2>1, OfferedToNobody DEF AddrInv, Address
<1>6. /\ AddrOf' = [AddrOf EXCEPT ![n] = a]
      /\ ConnectedNodes' = ConnectedNodes \ {n}
  <2>1. /\ Protocol!Found(node[n], held[n].addr).addr = a
        /\ Protocol!Found(node[n], held[n].addr).bus_state # "Connected"
    BY <1>3 DEF Protocol!Found
  <2> QED BY <1>1, <2>1, OneMoves
<1>7. n \notin ConnectedNodes
  BY <1>1 DEF ConnectedNodes, Connected
<1>8. AddrOf[n] = 0 /\ Members!Holders(a) = {} /\ ListedUids[a] = NoUid
  BY <1>2, <1>4, <1>5 DEF AddrOf, Members!Holders, ListedUids
<1>9. ListedUids' = ListedUids
  BY <1>1, SameList
<1>10. Members!Take(n, a)
  BY <1>6, <1>7, <1>8, <1>9 DEF Members!Take
<1> QED BY <1>4, <1>10

\* The PING that connects a slave finds it listed.
LEMMA PingConnects ==
  ASSUME NetInv, FFInv, NEW n \in Node, SlavePinged(n)
  PROVE  Members!Connect(n) \/ UNCHANGED Members!mvars
<1> USE DEF FFInv
<1>1. /\ Asked(n) /\ held[n].cmd = "PING" /\ slaves' = slaves
      /\ node' = [node EXCEPT ![n] = Protocol!Pinged(node[n])]
  BY DEF SlavePinged, Becomes, masterVars, vars
<1>2. node \in [Node -> SlaveState] /\ node[n] \in SlaveState
  BY DEF NetInv, NetTypeOK
<1>3. CASE node[n].bus_state = "UID_sent"
  <2>1. Current(n) /\ last_request.cmd = "PING"
    BY <1>1 DEF Current, CurrentInv, Told
  <2>2. node[n].addr # 0
    BY <1>3 DEF NetInv, SlavesInv
  <2>3. Lists(n)
    BY <2>1, <2>2 DEF AddrInv, Joining
  <2>4. Protocol!Pinged(node[n]).addr = node[n].addr /\ Protocol!Pinged(node[n]).bus_state = "Connected"
    BY <1>2, <1>3 DEF Protocol!Pinged, SlaveState
  <2>5. /\ AddrOf' = [AddrOf EXCEPT ![n] = node[n].addr]
        /\ ConnectedNodes' = ConnectedNodes \cup {n}
    <3>1. PICK s : s = Protocol!Pinged(node[n])
      OBVIOUS
    <3>2. node' = [node EXCEPT ![n] = s] /\ s.addr = node[n].addr /\ s.bus_state = "Connected"
      BY <1>1, <2>4, <3>1
    <3>3. AddrOf' = [AddrOf EXCEPT ![n] = s.addr] /\ ConnectedNodes' = ConnectedNodes \cup {n}
      BY <3>2, OneMoves
    <3> QED BY <3>2, <3>3
  <2>6. AddrOf[n] = node[n].addr /\ [AddrOf EXCEPT ![n] = AddrOf[n]] = AddrOf
    BY DEF AddrOf
  <2>7. node[n].addr \in Address
    BY <1>2, <2>2 DEF SlaveState
  <2>8. AddrOf[n] # 0 /\ ListedUids[AddrOf[n]] = UidsListed[n]
    BY <2>2, <2>3, <2>7 DEF AddrOf, ListedUids, UidsListed, Lists
  <2>9. ListedUids' = ListedUids
    BY <1>1, SameList
  <2> QED BY <2>5, <2>6, <2>8, <2>9 DEF Members!Connect
<1>4. CASE node[n].bus_state # "UID_sent"
  <2>1. node' = node
    BY <1>1, <1>2, <1>4 DEF Protocol!Pinged
  <2> QED BY <1>1, <2>1, MembersStutter DEF Connected
<1> QED BY <1>3, <1>4

\* A slave that starts over has no address.
LEMMA StartOverLeaves ==
  ASSUME NetInv, NEW n \in Node, StartOver(n)
  PROVE  Members!Leave(n)
<1>1. slaves' = slaves /\ \E nonce : node' = [node EXCEPT ![n] = Protocol!Started(nonce)]
  BY DEF StartOver, Becomes, masterVars, vars
<1>2. PICK nonce : node' = [node EXCEPT ![n] = Protocol!Started(nonce)]
  BY <1>1
<1>3. Protocol!Started(nonce).addr = 0 /\ Protocol!Started(nonce).bus_state # "Connected"
  BY DEF Protocol!Started
<1>4. AddrOf' = [AddrOf EXCEPT ![n] = 0] /\ ConnectedNodes' = ConnectedNodes \ {n}
  BY <1>2, <1>3, OneMoves
<1> QED BY <1>1, <1>4, SameList DEF Members!Leave

\* Every step of a slave is one of Membership, or none.
LEMMA SlaveMembers ==
  ASSUME NetInv, FFInv, FaultFree, NEW n \in Node, SlaveNext(n)
  PROVE  [Members!Next]_Members!mvars
<1>1. slaves' = slaves /\ DOMAIN node = Node /\ node[n] \in SlaveState
  BY SlaveLeavesAlone DEF NetInv, NetTypeOK
<1>2. CASE node' = node
  BY <1>1, <1>2, MembersStutter DEF Connected
<1>3. CASE SlaveSignals(n)
  <2>1. /\ node' = [node EXCEPT ![n] = Protocol!Signalled(node[n])]
        /\ node[n].bus_state \in {"Disconnected", "Plugged_in"}
    BY <1>3 DEF SlaveSignals, Becomes, Protocol!CanSignal
  <2>2. \A m \in Node : node'[m].addr = node[m].addr /\ (Connected(m)' <=> Connected(m))
    BY <1>1, <2>1 DEF Protocol!Signalled, SlaveState, Connected
  <2> QED BY <1>1, <2>2, MembersStutter
<1>4. CASE SlaveFound(n)
  BY <1>2, <1>4, FindTakes DEF SlaveFound, Members!Next
<1>5. CASE SlaveAsked(n)
  <2>1. node' = [node EXCEPT ![n] = Protocol!UidAsked(node[n])]
    BY <1>5 DEF SlaveAsked, Becomes
  <2>2. \A m \in Node : node'[m].addr = node[m].addr /\ (Connected(m)' <=> Connected(m))
    BY <1>1, <2>1 DEF Protocol!UidAsked, SlaveState, Connected
  <2> QED BY <1>1, <2>2, MembersStutter
<1>6. CASE SlavePinged(n)
  BY <1>6, PingConnects DEF Members!Next
<1>7. CASE SlaveLeaves(n) \/ SlaveGivesUp(n)
  BY <1>7, StartOverLeaves DEF SlaveLeaves, SlaveGivesUp, Members!Next
<1> QED BY <1>2, <1>3, <1>4, <1>5, <1>6, <1>7
        DEF SlaveNext, SlaveAnswers, SlaveSends, SlaveReads, SlaveReleases

\* slave_list_add() changes the slot of the new address and one older entry at most.
LEMMA UidAckClearsOne ==
  ASSUME IInv, NEW src, NEW uid, uid # << >>, Len(uid) <= UID_SIZE, NEW junk,
         ReceiveUidAck(src, uid, junk)
  PROVE  \E o : \A j \in Index : j \notin {new_slave_addr - 1, o} => slaves'[j] = slaves[j]
<1> DEFINE arg == uid \o junk
           o == OldIndex(slaves, arg)
<1>1. slaves' = Added(slaves, new_slave_addr, arg, Len(uid)) /\ DOMAIN slaves = Index
  BY DEF ReceiveUidAck, IInv, TypeOK
<1> HIDE DEF arg, o
<1>2. \A j \in Index : j # o => Cleared(slaves, o)[j] = slaves[j]
  BY <1>1 DEF Cleared
<1>3. DOMAIN Cleared(slaves, o) = Index
  BY <1>1 DEF Cleared
<1>4. \A j \in Index : j \notin {new_slave_addr - 1, o} => slaves'[j] = slaves[j]
  BY <1>1, <1>2, <1>3 DEF Added, o
<1> QED BY <1>4

\* The UID of the address that is free is listed, and one older entry of it is
\* removed at most.
LEMMA UidAckEnlists ==
  ASSUME NetInv, BusInv, FFInv, FaultFree, Answering, node' = node,
         ReceiveUidAck(inbox.src, inbox.uid, << >>)
  PROVE  \E n \in Node, a \in Address : Members!Enlist(n, a)
<1> USE DEF FFInv
<1> DEFINE a == new_slave_addr
<1>1. last_request.cmd = "GET_UID" /\ inbox.re = "GET_UID" /\ Parsing /\ inbox.type = "ACK"
  BY DEF ReceiveUidAck, ReplyInv, Answering
<1>2. PICK k \in Node : inbox.uid = UidOf[k] /\ node[k].addr \in {0, a}
  BY <1>1 DEF BusInv, InboxInv
<1>3. a \in Address /\ slaves[a - 1].addr = 0 /\ a - 1 \in Index
  BY <1>1, SlotOf DEF NetInv, IInv, OfferedSlotStaysFree
<1>4. UidOf[k] # << >> /\ Len(UidOf[k]) <= UID_SIZE
  BY DEF FaultFree
<1>5. /\ slaves'[a - 1].addr = a /\ slaves'[a - 1].uid = Stored(UidOf[k])
      /\ \A j \in Index : j # a - 1 =>
           \/ slaves'[j] = slaves[j]
           \/ /\ slaves'[j] = ClearedSlot
              /\ \A v \in {UidOf[n] : n \in Node} :
                   (slaves[j].uid = Stored(v) /\ Len(v) <= UID_SIZE) => ~Differ(v, UidOf[k])
  <2> DEFINE U == {UidOf[n] : n \in Node}
             uid == UidOf[k]
  <2>1. U \in SUBSET String /\ uid \in U /\ IInv /\ Entries(slaves, U)
    BY NetworkAssumption DEF NetInv, ListedInv, String
  <2>2. ReceiveUidAck(inbox.src, uid, << >>) /\ Len(uid) <= UID_SIZE /\ uid # << >>
    BY <1>2, <1>4
  <2> HIDE DEF U, uid
  <2>3. /\ slaves'[a - 1].addr = a /\ slaves'[a - 1].uid = Stored(uid)
        /\ \A j \in Index : j # a - 1 =>
             \/ slaves'[j] = slaves[j]
             \/ /\ slaves'[j] = ClearedSlot
                /\ \A v \in U : (slaves[j].uid = Stored(v) /\ Len(v) <= UID_SIZE) => ~Differ(v, uid)
    BY <2>1, <2>2, EmptyUid, UidAckListsOne, Zenon
  <2> QED BY <2>3 DEF U, uid
<1>6. PICK o : \A j \in Index : j \notin {a - 1, o} => slaves'[j] = slaves[j]
  BY <1>2, <1>3, <1>4, UidAckClearsOne DEF NetInv
<1>7. \A n \in Node : node[n].addr = a => n = k
  <2> SUFFICES ASSUME NEW n \in Node, node[n].addr = a PROVE n = k
    OBVIOUS
  <2>1. node[n].addr # 0 /\ ~Lists(n)
    BY <1>1, <1>3, OfferedToNobody DEF Address
  <2>2. Joining(n)
    BY <2>1 DEF AddrInv
  <2>3. inbox.uid = UidOf[n]
    BY <1>1, <2>2 DEF Joining, CurrentInv, Parsing
  <2>4. n # k => Differ(UidOf[n], UidOf[k])
    BY DEF FaultFree
  <2> QED BY <1>2, <2>3, <2>4 DEF Differ
<1>8. ASSUME NEW j \in Index, j # a - 1, slaves'[j] # slaves[j], slaves[j].addr # 0
      PROVE  slaves[j].uid = UidsListed[k] /\ slaves'[j].addr = 0
  <2>1. slaves'[j] = ClearedSlot
    BY <1>5, <1>8
  <2>2. PICK n \in Node : slaves[j].uid = Stored(UidOf[n]) /\ Len(UidOf[n]) <= UID_SIZE
    BY <1>8 DEF ListedInv, Entries, Entry
  <2>3. ~Differ(UidOf[n], UidOf[k])
    BY <1>5, <1>8, <2>2
  <2>4. n = k
    BY <2>3 DEF FaultFree
  <2> QED BY <2>1, <2>2, <2>4 DEF UidsListed, ClearedSlot
<1>9. PICK old \in Address :
        /\ old = a \/ ListedUids[old] = UidsListed[k]
        /\ old # a => slaves'[old - 1].addr = 0
        /\ \A b \in Address : b \notin {a, old} => ListedUids'[b] = ListedUids[b]
  <2>1. CASE o \in Index /\ o # a - 1 /\ slaves'[o] # slaves[o] /\ slaves[o].addr # 0
    <3>1. o + 1 \in Address /\ (o + 1) - 1 = o
      BY <2>1 DEF Index, Address
    <3>2. ListedUids[o + 1] = UidsListed[k] /\ slaves'[(o + 1) - 1].addr = 0
      BY <1>8, <2>1, <3>1 DEF ListedUids
    <3>3. \A b \in Address : b \notin {a, o + 1} => ListedUids'[b] = ListedUids[b]
      <4> SUFFICES ASSUME NEW b \in Address, b \notin {a, o + 1} PROVE ListedUids'[b] = ListedUids[b]
        OBVIOUS
      <4>1. b - 1 \in Index /\ b - 1 \notin {a - 1, o}
        BY <1>3 DEF Address, Index
      <4> QED BY <1>6, <4>1 DEF ListedUids
    <3> QED BY <3>1, <3>2, <3>3
  <2>2. CASE ~(o \in Index /\ o # a - 1 /\ slaves'[o] # slaves[o] /\ slaves[o].addr # 0)
    <3>1. ASSUME NEW b \in Address, b # a PROVE ListedUids'[b] = ListedUids[b]
      <4>1. b - 1 \in Index /\ b - 1 # a - 1
        BY <1>3, <3>1 DEF Address, Index
      <4>2. CASE slaves'[b - 1] = slaves[b - 1]
        BY <4>2 DEF ListedUids
      <4>3. CASE slaves'[b - 1] # slaves[b - 1]
        <5>1. slaves[b - 1].addr = 0
          BY <1>6, <2>2, <4>1, <4>3
        <5>2. slaves'[b - 1].addr = 0
          BY <1>5, <4>1, <4>3 DEF ClearedSlot
        <5> QED BY <5>1, <5>2 DEF ListedUids
      <4> QED BY <4>2, <4>3
    <3> QED BY <1>3, <3>1
  <2> QED BY <2>1, <2>2
<1>10. ListedUids' = [ListedUids EXCEPT ![old] = NoUid, ![a] = UidsListed[k]]
  <2>1. \A b \in Address : ListedUids'[b] = IF b = a THEN UidsListed[k]
                                            ELSE IF b = old THEN NoUid ELSE ListedUids[b]
    <3>1. ListedUids'[a] = UidsListed[k]
      BY <1>3, <1>5 DEF ListedUids, UidsListed, Address
    <3>2. old # a => ListedUids'[old] = NoUid
      BY <1>9 DEF ListedUids
    <3> QED BY <1>9, <3>1, <3>2
  <2>2. ListedUids' = [b \in Address |-> ListedUids'[b]]
        /\ ListedUids = [b \in Address |-> ListedUids[b]]
    BY DEF ListedUids
  <2> QED BY <1>3, <2>1, <2>2
<1>11. AddrOf' = AddrOf /\ ConnectedNodes' = ConnectedNodes
  BY DEF AddrOf, ConnectedNodes, Connected
<1>12. ListedUids[a] = NoUid /\ AddrOf[k] \in {0, a} /\ Members!Holders(a) \subseteq {k}
  BY <1>2, <1>3, <1>7 DEF ListedUids, AddrOf, Members!Holders
<1>13. Members!Enlist(k, a)
  BY <1>9, <1>10, <1>11, <1>12 DEF Members!Enlist
<1> QED BY <1>3, <1>13

\* A keep-alive cycle drops nobody who has an address.
LEMMA CycleDrops ==
  ASSUME NetInv, FFInv, PingInv, FaultFree, MayTimeOut, Cycle, node' = node
  PROVE  (\E a \in Address : Members!Drop(a)) \/ UNCHANGED Members!mvars
<1> USE DEF FFInv
<1>1. /\ slaves' = ListAfterCycle
      /\ \A n \in Node : (node[n].addr # 0 /\ Lists(n)) => Lists(n)'
  BY CycleKeepsListed DEF Cycle
<1>2. \A i \in Index : ~Misses(i) => slaves'[i].addr = slaves[i].addr /\ slaves'[i].uid = slaves[i].uid
  BY <1>1, CycleEntry DEF NetInv
<1>3. AddrOf' = AddrOf /\ ConnectedNodes' = ConnectedNodes
  BY DEF AddrOf, ConnectedNodes, Connected
<1>4. CASE \E i \in Index : slaves'[i].addr # slaves[i].addr \/ slaves'[i].uid # slaves[i].uid
  <2>1. PICK i \in Index : slaves'[i].addr # slaves[i].addr \/ slaves'[i].uid # slaves[i].uid
    BY <1>4
  <2> DEFINE a == i + 1
  <2>2. Misses(i) /\ a \in Address /\ a - 1 = i
    BY <1>2, <2>1 DEF Index, Address
  <2>3. slaves'[i] = ClearedSlot /\ slaves[i].addr # 0
    BY <1>1, <2>1, <2>2, CycleEntry DEF NetInv
  <2>4. \A b \in Address : b # a => ListedUids'[b] = ListedUids[b]
    <3> SUFFICES ASSUME NEW b \in Address, b # a PROVE ListedUids'[b] = ListedUids[b]
      OBVIOUS
    <3>1. b - 1 \in Index /\ b - 1 # i
      BY <2>2 DEF Address, Index
    <3>2. ~Misses(b - 1)
      BY <2>2, <3>1 DEF Misses, Index
    <3> QED BY <1>2, <3>1, <3>2 DEF ListedUids
  <2>5. ListedUids'[a] = NoUid
    BY <2>2, <2>3 DEF ListedUids, ClearedSlot
  <2>6. ListedUids' = [ListedUids EXCEPT ![a] = NoUid]
    <3>1. ListedUids' = [b \in Address |-> ListedUids'[b]]
          /\ ListedUids = [b \in Address |-> ListedUids[b]]
      BY DEF ListedUids
    <3> QED BY <2>2, <2>4, <2>5, <3>1
  <2>7. ListedUids[a] # NoUid
    <3>1. PICK n \in Node : slaves[i].uid = Stored(UidOf[n]) /\ Len(UidOf[n]) <= UID_SIZE
      BY <2>3 DEF ListedInv, Entries, Entry
    <3>2. ListedUids[a] = Stored(UidOf[n])
      BY <2>2, <2>3, <3>1 DEF ListedUids
    <3>3. UidOf[n] \in String
      BY NetworkAssumption, MasterAssumption DEF String
    <3>4. UidOf[n] # << >>
      BY DEF FaultFree
    <3> QED BY <3>2, <3>3, <3>4, StoredIsUid
  <2>8. Members!Holders(a) = {}
    <3> SUFFICES ASSUME NEW n \in Node, node[n].addr = a PROVE FALSE
      BY DEF Members!Holders, AddrOf
    <3>1. a # 0 /\ ~Lists(n)'
      BY <2>2, <2>3 DEF Lists, ClearedSlot, Address
    <3>2. Joining(n)
      BY <1>1, <3>1 DEF AddrInv
    <3>3. last_request.cmd \in {"FIND", "GET_UID"}
      BY <3>2 DEF Joining
    <3> QED BY <2>2, <3>3 DEF Misses
  <2> QED BY <1>3, <2>2, <2>6, <2>7, <2>8 DEF Members!Drop
<1>5. CASE ~\E i \in Index : slaves'[i].addr # slaves[i].addr \/ slaves'[i].uid # slaves[i].uid
  <2>1. \A n \in Node : node'[n].addr = node[n].addr /\ (Connected(n)' <=> Connected(n))
    BY DEF Connected
  <2> QED BY <1>5, <2>1, MembersStutter
<1> QED BY <1>4, <1>5

\* Every step of the master is one of Membership, or none.
LEMMA MasterMembers ==
  ASSUME NetInv, BusInv, FFInv, PingInv, FaultFree, MasterNext
  PROVE  [Members!Next]_Members!mvars
<1>1. node' = node
  BY MasterEffect
<1>2. \A n \in Node : node'[n].addr = node[n].addr /\ (Connected(n)' <=> Connected(n))
  BY <1>1 DEF Connected
<1>3. CASE slaves' = slaves
  BY <1>2, <1>3, MembersStutter
<1>4. CASE MasterAcknowledged
  <2>1. Answering
    BY <1>4 DEF MasterAcknowledged, Answering
  <2>2. CASE ReceiveFindAck(inbox.src)
    BY <1>3, <2>2 DEF ReceiveFindAck, listVars
  <2>3. CASE ReceiveUidAck(inbox.src, inbox.uid, << >>)
    BY <1>1, <2>1, <2>3, UidAckEnlists DEF Members!Next
  <2>4. CASE ReceivePingAck(inbox.src)
    <3>1. /\ slaves' = PingAnswered(slaves, last_request.dest, PING_PERIOD)
          /\ last_request.cmd = "PING"
      BY <2>4 DEF ReceivePingAck
    <3>2. \A i \in Index : slaves'[i].addr = slaves[i].addr /\ slaves'[i].uid = slaves[i].uid
      BY <3>1, ListOfIInv, PingAnsweredEntry DEF NetInv, IInv, RequestInv
    <3> QED BY <1>2, <3>2, MembersStutter
  <2> QED BY <1>4, <2>2, <2>3, <2>4 DEF MasterAcknowledged
<1>5. CASE MasterWaits \/ MasterPings \/ MasterDispatches
  <2>1. MayTimeOut /\ Cycle
    BY <1>5 DEF MasterWaits, MasterPings, MasterDispatches, KeepAliveWaits, KeepAlivePings,
       KeepAliveDispatches
  <2> QED BY <1>1, <2>1, CycleDrops DEF Members!Next
<1>6. CASE MasterReads \/ MasterReadsToEnd \/ MasterIgnores \/ MasterReleases
  BY <1>3, <1>6, MasterEndsWaits
<1>8. CASE MasterFinds
  BY <1>3, <1>8 DEF MasterFinds, ReceiveSignal, listVars
<1>7. ~MasterRestarts
  BY DEF MasterRestarts, FaultFree
<1> QED BY <1>4, <1>5, <1>6, <1>7, <1>8, MasterDropsNothing DEF MasterNext

\* Nobody is on the bus at first.
LEMMA InitMembers == NetInit => Members!Init
<1> SUFFICES ASSUME NetInit PROVE Members!Init
  OBVIOUS
<1>1. \A n \in Node : node[n].addr = 0 /\ ~Connected(n)
  BY DEF NetInit, Protocol!Started, Connected
<1>2. \A a \in Address : slaves[a - 1].addr = 0
  BY SlotOf DEF NetInit, Init, EmptyList, ClearedSlot
<1>3. AddrOf = [n \in Node |-> 0] /\ ConnectedNodes = {}
  BY <1>1 DEF AddrOf, ConnectedNodes
<1>4. ListedUids = [a \in Address |-> NoUid]
  BY <1>2 DEF ListedUids
<1> QED BY <1>3, <1>4 DEF Members!Init

\* Whoever makes the next step.
LEMMA NextMembers ==
  ASSUME FaultFree, NetInv, BusInv, FFInv, PingInv, [NetNext]_netVars
  PROVE  [Members!Next]_Members!mvars
<1>1. CASE UNCHANGED netVars
  <2>1. node' = node /\ slaves' = slaves
    BY <1>1 DEF netVars, busVars, masterVars, vars
  <2> QED BY <2>1, MembersStutter DEF Connected
<1> QED BY <1>1, MasterMembers, SlaveMembers DEF NetNext

\* A bus without faults is Membership: no address is given twice, a slave connects
\* only under the address it is listed with, and the master drops only addresses
\* that nobody has, while fewer slaves than MAX_PING_ERROR come and go as they like.
THEOREM HandshakeImplementsMembership ==
  ASSUME FaultFree
  PROVE  NetSpec => ImplementsMembership
<1>1. NoCrossing
  BY DEF FaultFree, NoCrossing
<1>2. (NetInv /\ BusInv) /\ (NetInv /\ FFInv /\ PingInv) /\ [NetNext]_netVars
        => [Members!Next]_Members!mvars
  BY NextMembers
<1>3. NetSpec => [](NetInv /\ BusInv)
  BY <1>1, BusInductive
<1>4. NetSpec => [](NetInv /\ FFInv /\ PingInv)
  BY FaultFreeInductive
<1>5. NetSpec => Members!Init /\ [][Members!Next]_Members!mvars
  BY <1>2, <1>3, <1>4, InitMembers, PTL DEF NetSpec
<1> QED BY <1>5 DEF ImplementsMembership, Members!Spec
=============================================================================
