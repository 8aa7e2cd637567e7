------------------------------ MODULE SlaveList ------------------------------
(***************************************************************************)
(* The functions of OPL/Master/slave_list.c on the array of slaves, each as *)
(* an operator from the array before the call to the array after it.        *)
(*                                                                         *)
(* A slot is the C struct slave_t. A UID is the byte array it stores, zero  *)
(* filled; the functions that compare UIDs use strlen() on that array, so   *)
(* they see the bytes of the struct and of the slots that follow it when    *)
(* the array holds no zero byte. Slots are numbered from 0, addresses from  *)
(* 1: the slave of slot i has address i + 1.                                *)
(***************************************************************************)
EXTENDS Integers, Sequences, FiniteSets

CONSTANTS MAX_SLAVES,      \* slots of the list, 5 in the code
          UID_SIZE,        \* bytes of a stored UID, 12 in the code
          MAX_PING_ERROR,  \* missed pings that free a slot, 3 in the code
          FIRST_PING       \* ping_count of a cleared slot, 0xFF in the code

\* Addresses have 4 bits; 0 is a slave without one, 15 the master.
ASSUME SlaveListAssumption == /\ MAX_SLAVES \in 1 .. 14
                              /\ UID_SIZE \in Nat \ {0}
                              /\ MAX_PING_ERROR \in Nat \ {0}
                              /\ FIRST_PING \in Nat \ {0}

Index == 0 .. MAX_SLAVES - 1
Address == 1 .. MAX_SLAVES

NoUid == [k \in 1 .. UID_SIZE |-> 0]

ClearedSlot == [addr |-> 0, uid |-> NoUid, ping_count |-> FIRST_PING, ping_error |-> 0]

\* slave_list_init()
EmptyList == [i \in Index |-> ClearedSlot]

\* Mutation: the search ends one slot too late.
AvailablePastEnd(s) ==
  LET free == {i \in Index : s[i].addr = 0}
  IN  1 + (IF free = {} THEN MAX_SLAVES ELSE CHOOSE i \in free : \A j \in free : i <= j)

\* slave_list_available(): the first free address, 0 when there is none.
Available(s) ==
  LET free == {i \in Index : s[i].addr = 0}
  IN  IF free = {} THEN 0 ELSE 1 + (CHOOSE i \in free : \A j \in free : i <= j)

\* slave_clear_slot(). An index past the array leaves the list as it is: the
\* write lands outside it (on the STM8S003 beyond the end of the RAM).
Cleared(s, i) == IF i \in Index THEN [s EXCEPT ![i] = ClearedSlot] ELSE s

\* Mutations: the slot is never freed; the count starts again instead.
MissedForEver(s, a) == [s EXCEPT ![a - 1].ping_error = @ + 1]
MissesForgiven(s, a) ==
  [s EXCEPT ![a - 1].ping_error = IF @ + 1 = MAX_PING_ERROR THEN 0 ELSE @ + 1]

\* slave_ping_error()
PingMissed(s, a) ==
  IF s[a - 1].ping_error + 1 = MAX_PING_ERROR
  THEN Cleared(s, a - 1)
  ELSE [s EXCEPT ![a - 1].ping_error = @ + 1]

\* slave_set_ping_period()
PingAnswered(s, a, ticks) ==
  [s EXCEPT ![a - 1].ping_count = ticks, ![a - 1].ping_error = 0]

\* slave_list_ping_tick(): the list after it, and whether a count reached 0.
Ticking(s, i) == s[i].addr # 0 /\ s[i].ping_count > 0
Ticked(s) == [i \in Index |-> IF Ticking(s, i)
                              THEN [s[i] EXCEPT !.ping_count = @ - 1] ELSE s[i]]
TickReachesZero(s) == \E i \in Index : Ticking(s, i) /\ s[i].ping_count = 1

\* next_slave_ping() past its early return: the first slot due at or after
\* last, else the first one before it. The address is 0 when no slot is due.
Due(s) == {i \in Index : s[i].ping_count = 0}
\* Mutations: the search does not wrap; it starts from slot 0 every time.
NextPingNoWrap(s, last) ==
  LET ahead == {i \in Due(s) : i >= last}
      next == CHOOSE i \in ahead : \A j \in ahead : i <= j
  IN  IF ahead = {} THEN [addr |-> 0, last |-> last]
                    ELSE [addr |-> next + 1, last |-> next + 1]
NextPingFromZero(s, last) ==
  LET next == CHOOSE i \in Due(s) : \A j \in Due(s) : i <= j
  IN  IF Due(s) = {} THEN [addr |-> 0, last |-> last]
                     ELSE [addr |-> next + 1, last |-> next + 1]

NextPing(s, last) ==
  LET ahead == {i \in Due(s) : i >= last}
      pool == IF ahead # {} THEN ahead ELSE Due(s)
      next == CHOOSE i \in pool : \A j \in pool : i <= j
  IN  IF pool = {} THEN [addr |-> 0, last |-> last]
                   ELSE [addr |-> next + 1, last |-> next + 1]
-----------------------------------------------------------------------------
(* Comparing UIDs *)

\* The k-th byte from the start of the UID of slot i: the fields of a slot are
\* addr, uid, ping_count and ping_error, and the slots are contiguous. Past
\* the end of the array there is a zero.
SlotBytes == UID_SIZE + 3
ByteFrom(s, i, k) ==
  LET j == i + (k \div SlotBytes)
      field == k % SlotBytes
  IN  IF j \notin Index THEN 0
      ELSE CASE field = 0 -> s[j].addr
             [] field \in 1 .. UID_SIZE -> s[j].uid[field]
             [] field = UID_SIZE + 1 -> s[j].ping_count
             [] field = UID_SIZE + 2 -> s[j].ping_error

\* strlen(slaves[i].uid)
Strlen(s, i) == CHOOSE n \in 0 .. MAX_SLAVES * SlotBytes :
                  /\ ByteFrom(s, i, n + 1) = 0
                  /\ \A k \in 1 .. n : ByteFrom(s, i, k) # 0

\* Mutation: one byte too few is compared.
MatchesAlmost(s, i, arg) ==
  \A k \in 1 .. Strlen(s, i) - 1 : k <= Len(arg) /\ arg[k] = ByteFrom(s, i, k)

\* memcmp(uid, slaves[i].uid, strlen(slaves[i].uid)) == 0, where the argument
\* is followed by a zero byte.
Matches(s, i, arg) ==
  \A k \in 1 .. Strlen(s, i) : k <= Len(arg) /\ arg[k] = ByteFrom(s, i, k)

\* map_uid_to_addr(): the address of the first slot that matches.
MapUidToAddr(s, arg) ==
  LET hits == {i \in Index : Matches(s, i, arg)}
  IN  IF hits = {} THEN 0 ELSE s[CHOOSE i \in hits : \A j \in hits : i <= j].addr

\* The index slave_list_add() passes to slave_clear_slot(), a uint8_t.
OldIndex(s, arg) == (MapUidToAddr(s, arg) - 1) % 256

\* Mutation: the old entry is looked for after the new one was written.
AddedThenCleared(s, new_addr, arg, len) ==
  LET i == new_addr - 1
      t == [s EXCEPT ![i].addr = new_addr,
                     ![i].uid = [k \in 1 .. UID_SIZE |-> IF k <= len THEN arg[k] ELSE @[k]]]
  IN  Cleared(t, OldIndex(t, arg))

\* slave_list_add(): the slot that matches the UID is cleared, then the slot of
\* the new address is filled if it is free. The UID is the first len bytes of
\* the argument.
Added(s, new_addr, arg, len) ==
  LET t == Cleared(s, OldIndex(s, arg))
      i == new_addr - 1
  IN  IF t[i].addr = 0
      THEN [t EXCEPT ![i].addr = new_addr,
                     ![i].uid = [k \in 1 .. UID_SIZE |-> IF k <= len THEN arg[k] ELSE @[k]]]
      ELSE t

(* The report. Of the C struct opl_slave_list_t, uids is its bytes in their *)
(* order in memory, EntrySize of them for each slot.                        *)

EntrySize == UID_SIZE + 1
Offset(i) == i * EntrySize
UidsBytes == 1 .. MAX_SLAVES * EntrySize

\* memcpy() for slot i, strlen() bytes long, writes byte b of uids. A UID that
\* fills its field is followed by the slot's ping_count and ping_error, which are
\* copied as well, into the next entry or past the struct.
Writes(s, i, b) == /\ s[i].addr # 0
                   /\ b - Offset(i) \in 1 .. Strlen(s, i)

\* The slots are copied one after the other, without a terminating zero: a byte is
\* what the last one wrote, if any did.
UidsCopied(s, uids) ==
  [b \in UidsBytes |->
     LET writers == {i \in Index : Writes(s, i, b)}
         writer == CHOOSE i \in writers : \A j \in writers : j <= i
     IN  IF writers = {} THEN uids[b] ELSE ByteFrom(s, writer, b - Offset(writer))]

\* From entry number count on the first byte becomes 0.
Emptied(uids, count) == [b \in UidsBytes |-> IF \E i \in count .. MAX_SLAVES - 1 : b = Offset(i) + 1
                                             THEN 0 ELSE uids[b]]

\* Mutation: the entries are emptied before the UIDs are copied.
ListEmptiedFirst(s, ptr) ==
  LET count == Cardinality({i \in Index : s[i].addr # 0})
  IN  [n_slaves |-> count, uids |-> UidsCopied(s, Emptied(ptr.uids, count))]

\* get_slave_list() on the caller's struct ptr.
SlaveListOf(s, ptr) ==
  LET count == Cardinality({i \in Index : s[i].addr # 0})
  IN  [n_slaves |-> count, uids |-> Emptied(UidsCopied(s, ptr.uids), count)]
=============================================================================
