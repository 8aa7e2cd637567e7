------------------------------- MODULE Membership ------------------------------
(***************************************************************************)
(* What the handshake and the pings promise on a bus without faults: who    *)
(* has which address, who is connected and whom the master lists. An        *)
(* address is given to one slave at a time, a slave is connected only       *)
(* while it is listed under its address, and none that has its address is   *)
(* dropped from the list. The frames that bring this about are left out.    *)
(***************************************************************************)
CONSTANTS Node,     \* the slaves
          Address,  \* what the master gives
          UidOf,    \* the UID each slave is listed with
          Nobody    \* in the place of a UID: the address is free

VARIABLES addr,       \* the address each slave has, 0 for none
          connected,  \* the slaves that believe they are connected
          listed      \* the UID the master lists for each address, or Nobody

mvars == <<addr, connected, listed>>

Holders(a) == {n \in Node : addr[n] = a}

Init == /\ addr = [n \in Node |-> 0]
        /\ connected = {}
        /\ listed = [a \in Address |-> Nobody]

\* FIND: the address is free in the list and nobody else has it.
Take(n, a) == /\ addr[n] = 0 /\ Holders(a) = {} /\ listed[a] = Nobody
              /\ addr' = [addr EXCEPT ![n] = a]
              /\ UNCHANGED <<connected, listed>>

\* The UID arrives: one older entry of it may be removed, that of an address the
\* slave had before. By then the slave may have left.
Enlist(n, a) == /\ listed[a] = Nobody /\ addr[n] \in {0, a} /\ Holders(a) \subseteq {n}
                /\ \E old \in {b \in Address : b = a \/ listed[b] = UidOf[n]} :
                     listed' = [listed EXCEPT ![old] = Nobody, ![a] = UidOf[n]]
                /\ UNCHANGED <<addr, connected>>

\* The first PING.
Connect(n) == /\ addr[n] # 0 /\ listed[addr[n]] = UidOf[n]
              /\ connected' = connected \cup {n}
              /\ UNCHANGED <<addr, listed>>

\* A slave is unplugged or starts over, the master does not know.
Leave(n) == /\ addr' = [addr EXCEPT ![n] = 0]
            /\ connected' = connected \ {n}
            /\ UNCHANGED listed

\* The pings to an address are no longer answered: the slave is gone.
Drop(a) == /\ listed[a] # Nobody /\ Holders(a) = {}
           /\ listed' = [listed EXCEPT ![a] = Nobody]
           /\ UNCHANGED <<addr, connected>>

Next == \/ \E n \in Node, a \in Address : Take(n, a) \/ Enlist(n, a)
        \/ \E n \in Node : Connect(n) \/ Leave(n)
        \/ \E a \in Address : Drop(a)

Spec == Init /\ [][Next]_mvars
=============================================================================
