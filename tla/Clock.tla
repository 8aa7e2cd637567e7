--------------------------------- MODULE Clock ---------------------------------
(***************************************************************************)
(* When the cycle of opl_keep_alive() runs: the millisecond counter of      *)
(* HAL/timer.c, which its interrupt counts up while millis() reads it in    *)
(* parts, and the test of opl_keep_alive() on it. And what a cycle samples: *)
(* the busy flag of HAL/uart.c, which update_node_state() reads and clears  *)
(* in two steps while the UART interrupt sets it. Modules LinkNode, Master  *)
(* and Slave take the cycle and the sample as one event.                    *)
(*                                                                         *)
(* The counter is read in two parts, in either order (the STM8 loads 16 bit *)
(* at once, of 32). A poll, one evaluation of the test with the cycle that  *)
(* may follow, takes less than a tick of the timer up to the storing of the *)
(* time, and less than a byte on the line from the reading of the flag to   *)
(* its clearing. A slave that resets clears the flag as well, unread.       *)
(***************************************************************************)
EXTENDS Naturals

CONSTANTS Base,       \* of the two parts of the counter: 2^16
          LOOP_TIME,  \* 50
          MaxGap,     \* bound on the ticks from one poll of the main loop to the next
          BusWait,    \* values of BUS_WAIT(): {0} on a master, 1..20 on a slave
          CanReset    \* TRUE on a slave: it calls slave_set_default()

ASSUME ClockAssumption ==
  /\ LOOP_TIME \in Nat /\ MaxGap \in Nat \ {0}
  /\ Base \in Nat /\ Base > LOOP_TIME + MaxGap + 2
  /\ BusWait \subseteq Nat /\ BusWait # {}
  /\ CanReset \in BOOLEAN

Wrap == Base * Base
Parts == {"high", "low"}

VARIABLES g_millis,    \* timer.c: the counter
          old_millis,  \* opl_keep_alive(): static, when the last cycle began
          step,        \* what of the poll is next: see Steps
          read,        \* the part of the counter read first, and its value
          busy,        \* uart.c: the busy flag
          busy_count,  \* update_node_state(): static, cycles until the next sample
          gap,         \* ticks since the poll began
          since,       \* for the properties: ticks since the last cycle began,
          last,        \* the ticks between the last two,
          unseen       \* and the bytes received, two at most, since the busy flag
                       \* was last read or a reset forgot it

vars == <<g_millis, old_millis, step, read, busy, busy_count, gap, since, last, unseen>>

\* After the sample comes the rest of the cycle, before its test the rest of the
\* main loop.
Steps == {"elsewhere", "test", "store", "restore", "sample", "clear", "rest"}

\* TIM4_init() and the variables' initial values. The first sample is as late as
\* any other, and no cycle has been too early.
Init == /\ g_millis = 0 /\ old_millis = 0
        /\ step = "elsewhere" /\ read = << >>
        /\ busy = FALSE /\ busy_count = 0
        /\ gap = 0 /\ since = 0 /\ last = LOOP_TIME + 1 /\ unseen = 0
-----------------------------------------------------------------------------
(* The counter *)

Part(part) == IF part = "high" THEN g_millis \div Base ELSE g_millis % Base

\* What millis() returns when it reads part now, and read the other before.
Millis(part) == IF part = "high" THEN Part(part) * Base + read[2] ELSE read[2] * Base + Part(part)

\* Mutation: the difference is not taken modulo the counter's range.
PastDeadline(millis) == millis > (old_millis + LOOP_TIME) % Wrap

\* OPL_MILLIS() - old_millis > LOOP_TIME, in unsigned arithmetic.
TimeIsUp(millis) == (Wrap + millis - old_millis) % Wrap > LOOP_TIME

\* Mutation: the next cycle is due one period after this one was.
CatchesUp(millis) == (old_millis + LOOP_TIME + 1) % Wrap

\* old_millis = OPL_MILLIS(), a second reading.
Stored(millis) == millis
-----------------------------------------------------------------------------
(* Interrupts *)

\* timer_isr(), every millisecond: the main loop comes back in time, and a poll
\* stores the time within a tick.
Tick == /\ gap < (IF step \in {"test", "store", "restore"} THEN 1 ELSE MaxGap)
        /\ g_millis' = (g_millis + 1) % Wrap
        /\ gap' = gap + 1 /\ since' = since + 1
        /\ UNCHANGED <<old_millis, step, read, busy, busy_count, last, unseen>>

\* uart_isr(): whatever it receives sets the flag.
Byte == /\ step = "clear" => unseen = 0
        /\ busy' = TRUE
        /\ unseen' = IF unseen = 2 THEN 2 ELSE unseen + 1
        /\ UNCHANGED <<g_millis, old_millis, step, read, busy_count, gap, since, last>>
-----------------------------------------------------------------------------
(* The main loop *)

\* The first part of a reading of the counter, which the step then completes.
ReadsFirst(part) == read' = <<part, Part(part)>>

Polls(part) ==
  /\ step \in {"elsewhere", "rest"}
  /\ ReadsFirst(part)
  /\ step' = "test" /\ gap' = 0
  /\ UNCHANGED <<g_millis, old_millis, busy, busy_count, since, last, unseen>>

\* if(OPL_MILLIS() - old_millis > LOOP_TIME)
Tests(part) ==
  /\ step = "test" /\ part # read[1]
  /\ IF TimeIsUp(Millis(part))
     THEN step' = "store" /\ since' = 0 /\ last' = since
     ELSE step' = "elsewhere" /\ UNCHANGED <<since, last>>
  /\ read' = << >>
  /\ UNCHANGED <<g_millis, old_millis, busy, busy_count, gap, unseen>>

\* old_millis = OPL_MILLIS()
BeginsStore(part) ==
  /\ step = "store"
  /\ ReadsFirst(part)
  /\ step' = "restore"
  /\ UNCHANGED <<g_millis, old_millis, busy, busy_count, gap, since, last, unseen>>

Stores(part) ==
  /\ step = "restore" /\ part # read[1]
  /\ old_millis' = Stored(Millis(part))
  /\ read' = << >>
  /\ step' = "sample"
  /\ UNCHANGED <<g_millis, busy, busy_count, gap, since, last, unseen>>

\* Mutation: the flag is cleared in every cycle.
WaitClearsFlag == FALSE

\* update_node_state(): while the node backs off it leaves the flag alone.
WaitLeavesFlag == busy

Waits == /\ step = "sample" /\ busy_count > 0
         /\ busy_count' = busy_count - 1
         /\ busy' = WaitLeavesFlag
         /\ step' = "rest"
         /\ UNCHANGED <<g_millis, old_millis, read, gap, since, last, unseen>>

\* The flag read is the new bus_busy.
Samples == /\ step = "sample" /\ busy_count = 0
           /\ step' = IF busy THEN "clear" ELSE "rest"
           /\ unseen' = 0
           /\ UNCHANGED <<g_millis, old_millis, read, busy, busy_count, gap, since, last>>

Clears == /\ step = "clear"
          /\ busy' = FALSE
          /\ busy_count' \in BusWait
          /\ step' = "rest"
          /\ UNCHANGED <<g_millis, old_millis, read, gap, since, last, unseen>>

\* slave_set_default(), from check_bus_connection() before the sample, or from
\* check_handshake() or check_ping() after it: uart_init() clears the flag, and
\* the node backs off as long as before.
SetsDefault == /\ CanReset /\ step \in {"sample", "rest"}
               /\ busy' = FALSE /\ unseen' = 0
               /\ UNCHANGED <<g_millis, old_millis, step, read, busy_count, gap, since, last>>
-----------------------------------------------------------------------------
Next == \/ Tick \/ Byte
        \/ \E part \in Parts : Polls(part) \/ Tests(part) \/ BeginsStore(part) \/ Stores(part)
        \/ Waits \/ Samples \/ Clears \/ SetsDefault

Spec == Init /\ [][Next]_vars
-----------------------------------------------------------------------------
(* Safety *)

\* No reading of the counter, torn by its interrupt or not, nor its overflow
\* puts a cycle off: it runs at the first poll that begins when more than
\* LOOP_TIME ticks have passed, but for the tick that may come between the test
\* and the storing (timer.c:17-19, 39-41, oplink_master.c:106-107).
NeverLate == since <= LOOP_TIME + MaxGap + 2

(* Action properties *)

\* A torn reading makes at most one cycle early: two periods in a row are longer
\* than LOOP_TIME, so that a timeout of two cycles or more is no less than one
\* period (oplink_master.c:106-107, oplink_com_private.h:21-23).
EarlyOnce == [][step = "test" /\ step' = "store" => last + since > LOOP_TIME]_vars

\* A sample that finds the bus idle has missed one byte at most of all that was
\* received since the sample before it or, on a slave, the reset after that: the
\* one that came between the reading of the busy flag and its clearing. So it
\* misses no frame, over a back-off of any length, unless the slave has reset and
\* forgotten it (oplink_com.c:186-193, uart.c:50, 101-107).
SampleSeesFrame == [][Samples /\ ~busy => unseen <= 1]_vars
=============================================================================
