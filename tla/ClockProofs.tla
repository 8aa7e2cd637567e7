------------------------------ MODULE ClockProofs ------------------------------
(***************************************************************************)
(* When cycles run and what a sample of the busy flag may miss, whatever    *)
(* the period, the gaps of the main loop and the time a slave backs off.    *)
(***************************************************************************)
EXTENDS Clock, TLAPS

USE ClockAssumption
-----------------------------------------------------------------------------
(* The busy flag *)

\* A flag that is down has missed one byte at most, and so has one that is about
\* to be cleared.
FlagInv == /\ step \in Steps /\ busy \in BOOLEAN /\ unseen \in 0 .. 2
           /\ (~busy \/ step = "clear") => unseen <= 1

\* Nothing has been received at first.
LEMMA Initially == Init => FlagInv
<1> SUFFICES ASSUME Init PROVE FlagInv
  OBVIOUS
<1>1. unseen \in 0 .. 2 /\ unseen <= 1
  BY DEF Init
<1> QED BY <1>1, Zenon DEF Init, FlagInv, Steps

\* Every step keeps the invariant: a byte raises the flag, which is cleared only
\* when it has been read, or the first byte since, or forgotten with all before.
LEMMA Step == FlagInv /\ [Next]_vars => FlagInv'
<1> SUFFICES ASSUME FlagInv, [Next]_vars PROVE FlagInv'
  OBVIOUS
<1>1. CASE Tick
  BY <1>1 DEF Tick, FlagInv
<1>2. CASE Byte
  <2>1. /\ step' = step /\ busy' = TRUE /\ unseen' = IF unseen = 2 THEN 2 ELSE unseen + 1
        /\ step = "clear" => unseen = 0
    BY <1>2 DEF Byte
  <2> QED BY <2>1 DEF FlagInv
<1>3. ASSUME NEW part \in Parts, Polls(part) \/ Tests(part) \/ BeginsStore(part) \/ Stores(part)
      PROVE  FlagInv'
  <2>1. busy' = busy /\ unseen' = unseen /\ step' \in Steps \ {"clear"}
    BY <1>3 DEF Polls, Tests, BeginsStore, Stores, Steps
  <2> QED BY <2>1 DEF FlagInv
<1>4. CASE Waits
  BY <1>4 DEF Waits, WaitLeavesFlag, FlagInv, Steps
<1>5. CASE Samples
  BY <1>5 DEF Samples, FlagInv, Steps
<1>6. CASE Clears
  BY <1>6 DEF Clears, FlagInv, Steps
<1>7. CASE SetsDefault
  <2>1. step' = step /\ busy' = FALSE /\ unseen' = 0
    BY <1>7 DEF SetsDefault
  <2>2. unseen' \in 0 .. 2 /\ unseen' <= 1
    BY <2>1
  <2> QED BY <2>1, <2>2, Zenon DEF FlagInv
<1>8. CASE UNCHANGED vars
  BY <1>8 DEF vars, FlagInv
<1> QED BY <1>1, <1>2, <1>3, <1>4, <1>5, <1>6, <1>7, <1>8 DEF Next

\* A sample that finds the bus idle has missed one byte at most since the one before
\* or the slave's last reset.
THEOREM SamplesSee == Spec => SampleSeesFrame
<1>1. Spec => []FlagInv
  BY Initially, Step, PTL DEF Spec
<1>2. FlagInv => (Samples /\ ~busy => unseen <= 1)
  BY DEF FlagInv
<1> QED BY <1>1, <1>2, PTL DEF SampleSeesFrame
-----------------------------------------------------------------------------
(* The period *)

\* What is left of a - b in the counter's range.
Diff(a, b) == (Wrap + a - b) % Wrap

\* What the cycle that is next sees of the one that was.
Age == Diff(g_millis, old_millis)
Low == g_millis % Base

\* The part of the counter that was read is what it was before the last tick, if
\* one has come in this poll, or what it is.
Before == (g_millis + Wrap - 1) % Wrap
PartOf(part, millis) == IF part = "high" THEN millis \div Base ELSE millis % Base
Ticked == gap = 1 /\ since >= 1 /\ read[2] = PartOf(read[1], Before)
ReadInv == /\ read[1] \in Parts /\ read = <<read[1], read[2]>>
           /\ read[2] = PartOf(read[1], g_millis) \/ Ticked

\* The time of the last cycle was stored as it was, or one tick late,
Fresh == /\ Age <= since /\ since <= Age + 1
         /\ IF step = "test" THEN gap <= Age /\ Age <= LOOP_TIME + MaxGap + gap
                             ELSE Age <= LOOP_TIME + gap

\* or as the counter went from one high part to the next, in this poll.
Torn == /\ last + since > LOOP_TIME
        /\ Age = Base + since - 1 \/ Age = Wrap - Base + since
        /\ Low = since - 1
        /\ IF step = "test" THEN gap < since /\ since <= MaxGap + gap
                            ELSE since = gap /\ since >= 1

\* A cycle that was early began as the high part changed.
EarlyAtCarry == last + since > LOOP_TIME \/ (since <= Low /\ Low <= since + MaxGap)

ClockTypes == /\ g_millis \in 0 .. Wrap - 1 /\ old_millis \in 0 .. Wrap - 1
              /\ step \in Steps
              /\ gap \in Nat /\ since \in Nat /\ last \in Nat
ClockInv == /\ ClockTypes
            /\ gap <= IF step \in {"test", "store", "restore"} THEN 1 ELSE MaxGap
            /\ step \in {"test", "restore"} => ReadInv
            /\ step = "test" => gap <= since
            /\ IF step \in {"store", "restore"} THEN since <= gap ELSE Fresh \/ Torn
            /\ EarlyAtCarry
-----------------------------------------------------------------------------
(* Arithmetic of the counter *)

\* Quotient and remainder of a number that is given by them.
LEMMA Divided ==
  ASSUME NEW d \in Nat \ {0}, NEW q \in Nat, NEW r \in 0 .. d - 1
  PROVE  (q * d + r) \div d = q /\ (q * d + r) % d = r
OBVIOUS

\* What the proofs use of the constants.
LEMMA Ranges == /\ Base \in Nat /\ Base >= 4 /\ Base > LOOP_TIME + MaxGap + 2
                /\ Wrap \in Nat /\ Wrap >= 4 * Base /\ LOOP_TIME \in Nat /\ MaxGap \in Nat
                /\ MaxGap >= 1
<1>1. /\ Base \in Nat /\ Base >= 4 /\ Base > LOOP_TIME + MaxGap + 2 /\ LOOP_TIME \in Nat
      /\ MaxGap \in Nat /\ MaxGap >= 1
  OBVIOUS
<1>2. ASSUME NEW b \in Nat, b >= 4 PROVE b * b \in Nat /\ b * b >= 4 * b
  <2>1. ASSUME NEW c \in Nat, NEW d \in Nat PROVE c * d \in Nat
    OBVIOUS
  <2>2. (b - 4) * b \in Nat /\ b * b \in Nat
    BY <1>2, <2>1
  <2>3. (b - 4) * b = b * b - 4 * b
    OBVIOUS
  <2> QED BY <2>2, <2>3
<1> QED BY <1>1, <1>2 DEF Wrap

\* The remainder of a number below twice the divisor,
LEMMA Modulo ==
  ASSUME NEW w \in Nat \ {0}, NEW n \in 0 .. 2 * w - 1
  PROVE  n % w = IF n < w THEN n ELSE n - w
<1>1. CASE n < w
  BY <1>1, Divided, 0 * w + n = n
<1>2. CASE n >= w
  <2>1. n = 1 * w + (n - w) /\ n - w \in 0 .. w - 1
    BY <1>2
  <2>2. (1 * w + (n - w)) % w = n - w
    BY <2>1, Divided
  <2> QED BY <1>2, <2>1, <2>2
<1> QED BY <1>1, <1>2

\* so that differences and steps of the counter are cases of linear arithmetic.
LEMMA DiffIs ==
  ASSUME NEW a \in 0 .. Wrap - 1, NEW b \in 0 .. Wrap - 1
  PROVE  Diff(a, b) = IF b <= a THEN a - b ELSE Wrap + a - b
<1>1. /\ Wrap \in Nat \ {0} /\ Wrap + a - b \in 0 .. 2 * Wrap - 1
  BY Ranges
<1>2. (Wrap + a - b) % Wrap = IF Wrap + a - b < Wrap THEN Wrap + a - b ELSE Wrap + a - b - Wrap
  <2> SUFFICES ASSUME NEW n \in 0 .. 2 * Wrap - 1 PROVE n % Wrap = IF n < Wrap THEN n ELSE n - Wrap
    BY <1>1
  <2> QED BY <1>1, Modulo
<1> QED BY <1>1, <1>2, Ranges DEF Diff

\* The counter after a tick and before one.
LEMMA NextIs ==
  ASSUME NEW a \in 0 .. Wrap - 1
  PROVE  /\ (a + 1) % Wrap = IF a = Wrap - 1 THEN 0 ELSE a + 1
         /\ (a + Wrap - 1) % Wrap = IF a = 0 THEN Wrap - 1 ELSE a - 1
<1>1. /\ Wrap \in Nat \ {0} /\ a + 1 \in 0 .. 2 * Wrap - 1 /\ a + Wrap - 1 \in 0 .. 2 * Wrap - 1
  BY Ranges
<1>2. (a + 1) % Wrap = IF a + 1 < Wrap THEN a + 1 ELSE a + 1 - Wrap
  <2> SUFFICES ASSUME NEW n \in 0 .. 2 * Wrap - 1 PROVE n % Wrap = IF n < Wrap THEN n ELSE n - Wrap
    BY <1>1
  <2> QED BY <1>1, Modulo
<1>3. (a + Wrap - 1) % Wrap = IF a + Wrap - 1 < Wrap THEN a + Wrap - 1 ELSE a + Wrap - 1 - Wrap
  <2> SUFFICES ASSUME NEW n \in 0 .. 2 * Wrap - 1 PROVE n % Wrap = IF n < Wrap THEN n ELSE n - Wrap
    BY <1>1
  <2> QED BY <1>1, Modulo
<1> QED BY <1>1, <1>2, <1>3, Ranges

\* The two parts of a value of the counter.
LEMMA PartsIs ==
  ASSUME NEW a \in 0 .. Wrap - 1
  PROVE  \E h, l \in 0 .. Base - 1 : /\ a = h * Base + l
                                     /\ PartOf("high", a) = h /\ PartOf("low", a) = l
                                     /\ a % Base = l
<1>1. Base \in Nat \ {0}
  BY Ranges
<1>2. a \div Base \in 0 .. Base - 1 /\ a % Base \in 0 .. Base - 1 /\ a = (a \div Base) * Base + (a % Base)
  <2>1. ASSUME NEW b \in Nat \ {0}, NEW x \in 0 .. b * b - 1
        PROVE  x \div b \in 0 .. b - 1 /\ x % b \in 0 .. b - 1 /\ x = (x \div b) * b + (x % b)
    <3>1. x \div b \in Nat /\ x % b \in 0 .. b - 1 /\ x = (x \div b) * b + (x % b)
      BY <2>1
    <3>2. ASSUME NEW q \in Nat, q >= b PROVE q * b >= b * b
      BY <3>2
    <3> QED BY <3>1, <3>2
  <2> QED BY <1>1, <2>1 DEF Wrap
<1>3. PartOf("high", a) = a \div Base /\ PartOf("low", a) = a % Base
  BY DEF PartOf
<1> QED BY <1>2, <1>3

\* How the parts go on.
LEMMA Carries ==
  ASSUME NEW a \in 0 .. Wrap - 1, NEW h \in 0 .. Base - 1, NEW l \in 0 .. Base - 1, a = h * Base + l
  PROVE  /\ a % Base = l /\ a \div Base = h
         /\ (a = Wrap - 1) <=> (h = Base - 1 /\ l = Base - 1)
<1>1. Base \in Nat \ {0}
  BY Ranges
<1>2. a % Base = l /\ a \div Base = h
  BY <1>1, Divided
<1>3. ASSUME NEW b \in Nat \ {0}, NEW q \in 0 .. b - 1, NEW r \in 0 .. b - 1
      PROVE  (q * b + r = b * b - 1) <=> (q = b - 1 /\ r = b - 1)
  <2>1. CASE q = b - 1
    BY <2>1
  <2>2. CASE q # b - 1
    <3>1. b - 1 - q >= 1 /\ (b - 1 - q) * b >= b
      BY <2>2
    <3>2. (b - 1 - q) * b = b * b - b - q * b
      OBVIOUS
    <3> QED BY <2>2, <3>1, <3>2
  <2> QED BY <2>1, <2>2
<1> QED BY <1>1, <1>2, <1>3 DEF Wrap

\* What a reading of the counter returns: its value, the one before the last tick
\* or, as the high part changes, one of the high part's length off.
LEMMA Reading ==
  ASSUME ClockTypes, ReadInv, NEW part \in Parts, part # read[1]
  PROVE  /\ Millis(part) \in 0 .. Wrap - 1
         /\ \/ Diff(g_millis, Millis(part)) = 0
            \/ Ticked /\ Diff(g_millis, Millis(part)) = 1
            \/ /\ Ticked /\ Low = 0
               /\ Diff(g_millis, Millis(part)) \in {Base, Wrap - Base + 1}
<1> SUFFICES ASSUME NEW m, m = Millis(part)
             PROVE  /\ m \in 0 .. Wrap - 1
                    /\ \/ Diff(g_millis, m) = 0
                       \/ Ticked /\ Diff(g_millis, m) = 1
                       \/ Ticked /\ Low = 0 /\ Diff(g_millis, m) \in {Base, Wrap - Base + 1}
  OBVIOUS
<1>1. g_millis \in 0 .. Wrap - 1
  BY DEF ClockTypes
<1>2. PICK h, l \in 0 .. Base - 1 : /\ g_millis = h * Base + l
                                  /\ PartOf("high", g_millis) = h /\ PartOf("low", g_millis) = l
                                  /\ Low = l
  BY <1>1, PartsIs DEF Low
<1>3. \/ part = "high" /\ read[1] = "low" /\ m = h * Base + read[2]
      \/ part = "low" /\ read[1] = "high" /\ m = read[2] * Base + l
  BY <1>2 DEF Millis, Part, PartOf, ReadInv, Parts
<1>4. CASE read[2] = PartOf(read[1], g_millis)
  <2>1. m = g_millis
    BY <1>2, <1>3, <1>4
  <2> QED BY <1>1, <2>1, DiffIs
<1>5. CASE Ticked
  <2>1. Before \in 0 .. Wrap - 1 /\ g_millis = IF Before = Wrap - 1 THEN 0 ELSE Before + 1
    BY <1>1, NextIs, Ranges DEF Before
  <2>2. PICK b, c \in 0 .. Base - 1 : /\ Before = b * Base + c
                                    /\ PartOf("high", Before) = b /\ PartOf("low", Before) = c
    BY <2>1, PartsIs
  <2>3. \/ m = h * Base + c
        \/ m = b * Base + l
    BY <1>3, <1>5, <2>2 DEF Ticked
  <2>4. CASE c # Base - 1
    <3>1. g_millis = b * Base + (c + 1) /\ c + 1 \in 0 .. Base - 1
      BY <2>1, <2>2, <2>4, Carries, Ranges
    <3>2. h = b /\ l = c + 1
      <4>1. g_millis % Base = c + 1 /\ g_millis \div Base = b
        BY <1>1, <3>1, Carries, Zenon
      <4> QED BY <1>2, <4>1 DEF PartOf, Low
    <3>3. m = g_millis \/ m = g_millis - 1
      BY <2>3, <3>1, <3>2
    <3>4. g_millis >= 1
      BY <2>1, <2>2, <2>4, Carries
    <3>5. m \in 0 .. Wrap - 1
      BY <1>1, <3>3, <3>4, Ranges
    <3>6. Diff(g_millis, m) = IF m <= g_millis THEN g_millis - m ELSE Wrap + g_millis - m
      BY <1>1, <3>5, DiffIs
    <3> QED BY <1>1, <1>2, <1>5, <3>2, <3>3, <3>4, <3>5, <3>6, Ranges
  <2>5. CASE c = Base - 1 /\ b # Base - 1
    <3>1. g_millis = (b + 1) * Base + 0 /\ b + 1 \in 0 .. Base - 1 /\ 0 \in 0 .. Base - 1
      BY <2>1, <2>2, <2>5, Carries, Ranges
    <3>2. h = b + 1 /\ l = 0
      <4>1. g_millis % Base = 0 /\ g_millis \div Base = b + 1
        BY <1>1, <3>1, Carries, Zenon
      <4> QED BY <1>2, <4>1 DEF PartOf, Low
    <3>3. m = g_millis + Base - 1 \/ m = g_millis - Base
      BY <1>2, <2>3, <2>5, <3>2, Ranges
    <3>4. g_millis >= Base /\ g_millis <= Wrap - Base
      <4>1. ASSUME NEW q \in 0 .. Base - 1, q >= 1
            PROVE  q * Base >= Base /\ q * Base <= Base * Base - Base
        <5>1. (q - 1) * Base \in Nat /\ (Base - 1 - q) * Base \in Nat
          <6>1. ASSUME NEW x \in Nat, NEW y \in Nat PROVE x * y \in Nat
            OBVIOUS
          <6> QED BY <4>1, <6>1, Ranges
        <5>2. (q - 1) * Base = q * Base - Base /\ (Base - 1 - q) * Base = Base * Base - Base - q * Base
          BY Ranges
        <5> QED BY <5>1, <5>2, Ranges
      <4> QED BY <3>1, <4>1 DEF Wrap
    <3>5. m \in 0 .. Wrap - 1
      BY <1>1, <3>3, <3>4, Ranges
    <3>6. Diff(g_millis, m) = IF m <= g_millis THEN g_millis - m ELSE Wrap + g_millis - m
      BY <1>1, <3>5, DiffIs
    <3> QED BY <1>1, <1>2, <1>5, <3>2, <3>3, <3>4, <3>5, <3>6, Ranges
  <2>6. CASE c = Base - 1 /\ b = Base - 1
    <3>1. g_millis = 0
      BY <2>1, <2>2, <2>6, Carries
    <3>2. g_millis = 0 * Base + 0 /\ 0 \in 0 .. Base - 1
      BY <3>1, Ranges
    <3>3. h = 0 /\ l = 0
      <4>1. g_millis % Base = 0 /\ g_millis \div Base = 0
        BY <1>1, <3>2, Carries, Zenon
      <4> QED BY <1>2, <4>1 DEF PartOf, Low
    <3>4. m = Base - 1 \/ m = Wrap - Base
      BY <2>3, <2>6, <3>3, Ranges DEF Wrap
    <3>5. m \in 0 .. Wrap - 1
      BY <1>1, <3>1, <3>3, <3>4, Ranges
    <3>6. Diff(g_millis, m) = IF m <= g_millis THEN g_millis - m ELSE Wrap + g_millis - m
      BY <1>1, <3>5, DiffIs
    <3> QED BY <1>1, <1>2, <1>5, <3>1, <3>3, <3>3, <3>4, <3>5, <3>6, Ranges
  <2> QED BY <2>4, <2>5, <2>6
<1> QED BY <1>4, <1>5 DEF ReadInv

\* What the test sees of the last cycle's age.
LEMMA SeenAge ==
  ASSUME ClockTypes, NEW m \in 0 .. Wrap - 1, NEW back, back = Diff(g_millis, m)
  PROVE  TimeIsUp(m) <=> (IF back <= Age THEN Age - back ELSE Wrap + Age - back) > LOOP_TIME
<1>1. /\ g_millis \in 0 .. Wrap - 1 /\ old_millis \in 0 .. Wrap - 1
  BY DEF ClockTypes
<1>2. TimeIsUp(m) <=> Diff(m, old_millis) > LOOP_TIME
  BY DEF TimeIsUp, Diff
<1> QED BY <1>1, <1>2, DiffIs, Ranges DEF Age
-----------------------------------------------------------------------------
(* Steps *)

\* The first cycle is a period after power is on.
LEMMA InitClock == Init => ClockInv
<1> SUFFICES ASSUME Init PROVE ClockInv
  OBVIOUS
<1>1. /\ g_millis = 0 /\ old_millis = 0 /\ step = "elsewhere" /\ gap = 0 /\ since = 0
      /\ last = LOOP_TIME + 1
  BY DEF Init
<1>2. ClockTypes
  BY <1>1, Ranges DEF ClockTypes, Steps
<1>3. Age = 0
  BY <1>1, DiffIs, Ranges DEF Age
<1> QED BY <1>1, <1>2, <1>3, Ranges DEF ClockInv, Fresh, EarlyAtCarry

\* The age in the types.
LEMMA AgeIs ==
  ASSUME ClockTypes
  PROVE  /\ Age \in 0 .. Wrap - 1 /\ Low \in 0 .. Base - 1
         /\ Age = IF old_millis <= g_millis THEN g_millis - old_millis
                                           ELSE Wrap + g_millis - old_millis
<1>1. g_millis \in 0 .. Wrap - 1 /\ old_millis \in 0 .. Wrap - 1
  BY DEF ClockTypes
<1>2. Low \in 0 .. Base - 1
  BY <1>1, PartsIs DEF Low
<1>3. Age = IF old_millis <= g_millis THEN g_millis - old_millis ELSE Wrap + g_millis - old_millis
  BY <1>1, DiffIs DEF Age
<1> QED BY <1>1, <1>2, <1>3, Ranges

\* A tick ages the last cycle by one and moves the counter within its high part,
\* unless that is full.
LEMMA TickIs ==
  ASSUME ClockTypes, Tick
  PROVE  /\ g_millis' \in 0 .. Wrap - 1
         /\ Age < Wrap - 1 => Age' = Age + 1
         /\ Low # Base - 1 => Low' = Low + 1
         /\ Low = Base - 1 => Low' = 0
         /\ Before' = g_millis
<1>1. /\ g_millis \in 0 .. Wrap - 1 /\ old_millis \in 0 .. Wrap - 1 /\ old_millis' = old_millis
      /\ g_millis' = (g_millis + 1) % Wrap
  BY DEF ClockTypes, Tick
<1>2. g_millis' = IF g_millis = Wrap - 1 THEN 0 ELSE g_millis + 1
  BY <1>1, NextIs
<1>3. g_millis' \in 0 .. Wrap - 1
  BY <1>1, <1>2, Ranges
<1>4. Age' = IF old_millis <= g_millis' THEN g_millis' - old_millis
                                        ELSE Wrap + g_millis' - old_millis
  BY <1>1, <1>3, DiffIs DEF Age
<1>5. Age < Wrap - 1 => Age' = Age + 1
  BY <1>1, <1>2, <1>4, AgeIs, Ranges
<1>6. Before' = IF g_millis' = 0 THEN Wrap - 1 ELSE g_millis' - 1
  BY <1>3, NextIs DEF Before
<1>7. PICK h, l \in 0 .. Base - 1 : g_millis = h * Base + l /\ Low = l
  BY <1>1, PartsIs DEF Low
<1>8. CASE l # Base - 1
  <2>1. g_millis' = h * Base + (l + 1) /\ l + 1 \in 0 .. Base - 1
    <3>1. g_millis # Wrap - 1
      BY <1>1, <1>7, <1>8, Carries, Zenon
    <3> QED BY <1>1, <1>2, <1>7, <1>8, <3>1, Ranges
  <2>2. g_millis' % Base = l + 1
    BY <1>3, <2>1, Carries, Zenon
  <2> QED BY <1>1, <1>2, <1>3, <1>5, <1>6, <1>7, <1>8, <2>2 DEF Low
<1>9. CASE l = Base - 1
  <2>1. PICK q \in 0 .. Base - 1 : g_millis' = q * Base + 0
    <3>1. CASE h = Base - 1
      <4>1. g_millis = Wrap - 1
        BY <1>1, <1>7, <1>9, <3>1, Carries
      <4>2. g_millis' = 0 * Base + 0 /\ 0 \in 0 .. Base - 1
        BY <1>2, <4>1, Ranges
      <4> QED BY <4>2
    <3>2. CASE h # Base - 1
      <4>1. g_millis # Wrap - 1
        BY <1>1, <1>7, <3>2, Carries
      <4>2. g_millis' = (h + 1) * Base + 0 /\ h + 1 \in 0 .. Base - 1
        BY <1>2, <1>7, <1>9, <3>2, <4>1, Ranges
      <4> QED BY <4>2
    <3> QED BY <3>1, <3>2
  <2>2. g_millis' % Base = 0
    <3>1. 0 \in 0 .. Base - 1
      BY Ranges
    <3> QED BY <1>3, <2>1, <3>1, Carries, Zenon
  <2> QED BY <1>1, <1>2, <1>3, <1>5, <1>6, <1>7, <1>9, <2>2 DEF Low
<1> QED BY <1>8, <1>9

\* Every tick keeps the invariant.
LEMMA TickKeeps ==
  ASSUME ClockInv, Tick
  PROVE  ClockInv'
<1> USE Ranges
<1>1. ClockTypes /\ EarlyAtCarry
  BY DEF ClockInv
<1>2. /\ gap' = gap + 1 /\ since' = since + 1 /\ UNCHANGED <<old_millis, step, read, last>>
      /\ gap < (IF step \in {"test", "store", "restore"} THEN 1 ELSE MaxGap)
      /\ gap \in Nat /\ since \in Nat /\ last \in Nat
  BY <1>1 DEF Tick, ClockTypes
<1>3. Age \in 0 .. Wrap - 1 /\ Low \in 0 .. Base - 1
  BY <1>1, AgeIs
<1>4. ASSUME step \notin {"store", "restore"}
      PROVE  (Fresh \/ Torn)'
  <2>1. CASE Fresh
    <3>1. Age < Wrap - 1
      BY <1>2, <1>3, <2>1 DEF Fresh
    <3>2. Age' = Age + 1
      BY <1>1, <3>1, TickIs
    <3> QED BY <1>2, <1>3, <2>1, <3>1, <3>2 DEF Fresh
  <2>2. CASE Torn
    <3>1. Age < Wrap - 1 /\ Low # Base - 1
      BY <1>2, <1>3, <2>2 DEF Torn
    <3>2. Age' = Age + 1 /\ Low' = Low + 1
      BY <1>1, <3>1, TickIs
    <3> QED BY <1>2, <1>3, <2>2, <3>1, <3>2 DEF Torn
  <2> QED BY <1>4, <2>1, <2>2 DEF ClockInv
<1>5. EarlyAtCarry'
  <2>1. CASE last + since' > LOOP_TIME
    BY <1>2, <2>1 DEF EarlyAtCarry
  <2>2. CASE ~(last + since' > LOOP_TIME)
    <3>1. since <= Low /\ Low <= since + MaxGap /\ Low # Base - 1
      BY <1>1, <1>2, <1>3, <2>2 DEF EarlyAtCarry
    <3>2. Low' = Low + 1
      BY <1>1, <3>1, TickIs
    <3> QED BY <1>2, <1>3, <3>1, <3>2 DEF EarlyAtCarry
  <2> QED BY <2>1, <2>2
<1>6. step \in {"test", "restore"} => ReadInv'
  <2> SUFFICES ASSUME step \in {"test", "restore"} PROVE ReadInv'
    OBVIOUS
  <2>1. ReadInv /\ gap = 0
    BY <1>2 DEF ClockInv
  <2>2. read[2] = PartOf(read[1], g_millis)
    BY <2>1 DEF ReadInv, Ticked
  <2>3. Before' = g_millis
    BY <1>1, TickIs
  <2> QED BY <1>2, <2>1, <2>2, <2>3 DEF ReadInv, Ticked
<1>7. ClockTypes'
  <2>1. g_millis' \in 0 .. Wrap - 1
    BY <1>1, TickIs
  <2> QED BY <1>1, <1>2, <2>1 DEF ClockTypes
<1> QED BY <1>2, <1>4, <1>5, <1>6, <1>7 DEF ClockInv

\* The steps of the sample, and a byte's, leave the period alone.
LEMMA SampleKeeps ==
  ASSUME ClockInv, UNCHANGED <<g_millis, old_millis, gap, since, last, read>>,
         step' = step \/ (step \in {"sample", "clear"} /\ step' \in {"clear", "rest"})
  PROVE  ClockInv'
<1>1. Age' = Age /\ Low' = Low /\ Before' = Before
  BY DEF Age, Low, Before
<1>2. ClockTypes' /\ EarlyAtCarry' /\ (ReadInv => ReadInv')
  BY <1>1 DEF ClockInv, ClockTypes, EarlyAtCarry, ReadInv, Ticked, Steps
<1>3. /\ (step' \in {"store", "restore"}) <=> (step \in {"store", "restore"})
      /\ step' = "test" <=> step = "test"
      /\ step' = "restore" <=> step = "restore"
  OBVIOUS
<1>4. (Fresh => Fresh') /\ (Torn => Torn')
  BY <1>1, <1>3 DEF Fresh, Torn
<1>5. gap' <= IF step' \in {"test", "store", "restore"} THEN 1 ELSE MaxGap
  BY <1>3, Ranges DEF ClockInv, ClockTypes
<1> QED BY <1>2, <1>3, <1>4, <1>5 DEF ClockInv

\* A poll begins.
LEMMA PollKeeps ==
  ASSUME ClockInv, NEW part \in Parts, Polls(part)
  PROVE  ClockInv'
<1>1. /\ step \in {"elsewhere", "rest"} /\ step' = "test" /\ gap' = 0 /\ gap \in Nat /\ since \in Nat
      /\ UNCHANGED <<g_millis, old_millis, since, last>> /\ read' = <<part, PartOf(part, g_millis)>>
  BY DEF Polls, ReadsFirst, ClockInv, ClockTypes, Part, PartOf
<1>2. Age' = Age /\ Low' = Low /\ Age \in 0 .. Wrap - 1
  BY <1>1, AgeIs DEF Age, Low, ClockInv
<1>3. ReadInv'
  BY <1>1 DEF ReadInv
<1>4. (Fresh => Fresh') /\ (Torn => Torn')
  BY <1>1, <1>2, Ranges DEF Fresh, Torn, ClockInv
<1>5. ClockTypes' /\ EarlyAtCarry'
  BY <1>1, <1>2 DEF ClockInv, ClockTypes, EarlyAtCarry, Steps
<1> QED BY <1>1, <1>3, <1>4, <1>5 DEF ClockInv

\* The test is passed as soon as more than a period is over. Passed before, it has
\* read the counter, or the last cycle stored it, as the high part changed.
LEMMA TestTells ==
  ASSUME ClockInv, step = "test", NEW part \in Parts, part # read[1]
  PROVE  /\ ~TimeIsUp(Millis(part)) => Fresh /\ Age <= LOOP_TIME + gap
         /\ TimeIsUp(Millis(part)) =>
              /\ last + since > LOOP_TIME
              /\ since <= LOOP_TIME => Low <= MaxGap
<1> USE Ranges
<1>1. ClockTypes /\ ReadInv /\ EarlyAtCarry /\ (Fresh \/ Torn) /\ gap <= 1 /\ gap <= since
  BY DEF ClockInv
<1>2. gap \in Nat /\ since \in Nat /\ last \in Nat /\ Age \in 0 .. Wrap - 1 /\ Low \in 0 .. Base - 1
  BY <1>1, AgeIs DEF ClockTypes
<1>3. PICK back : back = Diff(g_millis, Millis(part))
  OBVIOUS
<1>4. \/ back = 0
      \/ gap = 1 /\ since >= 1 /\ back = 1
      \/ gap = 1 /\ since >= 1 /\ Low = 0 /\ (back = Base \/ back = Wrap - Base + 1)
  BY <1>1, <1>3, Reading DEF Ticked
<1>5. TimeIsUp(Millis(part)) <=> (IF back <= Age THEN Age - back ELSE Wrap + Age - back) > LOOP_TIME
  <2>1. Millis(part) \in 0 .. Wrap - 1
    BY <1>1, Reading
  <2> QED BY <1>1, <1>3, <2>1, SeenAge
<1>6. CASE Fresh
  <2>1. /\ Age <= since /\ since <= Age + 1 /\ gap <= Age /\ Age <= LOOP_TIME + MaxGap + gap
    BY <1>6 DEF Fresh
  <2> QED BY <1>1, <1>2, <1>4, <1>5, <1>6, <2>1 DEF EarlyAtCarry
<1>7. CASE Torn
  <2>1. /\ last + since > LOOP_TIME /\ (Age = Base + since - 1 \/ Age = Wrap - Base + since)
        /\ Low = since - 1 /\ gap < since /\ since <= MaxGap + gap
    BY <1>7 DEF Torn
  <2>2. back \in {0, 1}
    BY <1>2, <1>4, <2>1
  <2>3. Age > LOOP_TIME + 1
    BY <1>1, <1>2, <2>1
  <2>4. TimeIsUp(Millis(part))
    BY <1>2, <1>5, <2>2, <2>3
  <2>5. Low <= MaxGap
    BY <1>1, <1>2, <2>1
  <2> QED BY <2>1, <2>4, <2>5
<1> QED BY <1>1, <1>6, <1>7

\* The test keeps the invariant.
LEMMA TestKeeps ==
  ASSUME ClockInv, NEW part \in Parts, Tests(part)
  PROVE  ClockInv'
<1> USE Ranges
<1>1. /\ step = "test" /\ part # read[1] /\ UNCHANGED <<g_millis, old_millis, gap>>
      /\ gap <= 1 /\ gap \in Nat /\ since \in Nat /\ last \in Nat /\ ClockTypes
  BY DEF Tests, ClockInv, ClockTypes
<1>2. Age' = Age /\ Low' = Low /\ Low \in 0 .. Base - 1
  BY <1>1, AgeIs DEF Age, Low
<1>3. CASE TimeIsUp(Millis(part))
  <2>1. step' = "store" /\ since' = 0 /\ last' = since
    BY <1>3 DEF Tests
  <2>2. EarlyAtCarry'
    BY <1>1, <1>2, <1>3, <2>1, TestTells DEF EarlyAtCarry
  <2>3. ClockTypes'
    BY <1>1, <2>1 DEF ClockTypes, Steps
  <2> QED BY <1>1, <2>1, <2>2, <2>3 DEF ClockInv
<1>4. CASE ~TimeIsUp(Millis(part))
  <2>1. step' = "elsewhere" /\ since' = since /\ last' = last
    BY <1>4 DEF Tests
  <2>2. Fresh'
    BY <1>1, <1>2, <1>4, <2>1, TestTells DEF Fresh
  <2>3. ClockTypes' /\ EarlyAtCarry'
    BY <1>1, <1>2, <2>1 DEF ClockInv, ClockTypes, Steps, EarlyAtCarry
  <2> QED BY <1>1, <2>1, <2>2, <2>3 DEF ClockInv
<1> QED BY <1>3, <1>4

\* The second reading, that is stored.
LEMMA StoreKeeps ==
  ASSUME ClockInv, NEW part \in Parts, BeginsStore(part) \/ Stores(part)
  PROVE  ClockInv'
<1> USE Ranges
<1>1. ClockTypes /\ EarlyAtCarry /\ gap \in Nat /\ since \in Nat /\ last \in Nat
  BY DEF ClockInv, ClockTypes
<1>2. CASE BeginsStore(part)
  <2>1. /\ step = "store" /\ step' = "restore" /\ read' = <<part, PartOf(part, g_millis)>>
        /\ UNCHANGED <<g_millis, old_millis, gap, since, last>>
    BY <1>2 DEF BeginsStore, ReadsFirst, Part, PartOf
  <2>2. ReadInv' /\ ClockTypes' /\ EarlyAtCarry'
    BY <1>1, <2>1 DEF ReadInv, ClockTypes, EarlyAtCarry, Steps, Low
  <2> QED BY <2>1, <2>2 DEF ClockInv
<1>3. CASE Stores(part)
  <2>1. /\ step = "restore" /\ step' = "sample" /\ part # read[1] /\ ReadInv
        /\ old_millis' = Millis(part) /\ gap <= 1 /\ since <= gap
        /\ UNCHANGED <<g_millis, gap, since, last>>
    BY <1>3 DEF Stores, Stored, ClockInv
  <2>2. Age' = Diff(g_millis, Millis(part)) /\ Low' = Low
    BY <2>1 DEF Age, Low, Diff
  <2>3. /\ Millis(part) \in 0 .. Wrap - 1
        /\ \/ Age' = 0
           \/ gap = 1 /\ since >= 1 /\ Age' = 1
           \/ gap = 1 /\ since >= 1 /\ Low = 0 /\ (Age' = Base \/ Age' = Wrap - Base + 1)
    BY <1>1, <2>1, <2>2, Reading DEF Ticked
  <2>4. ClockTypes' /\ EarlyAtCarry'
    BY <1>1, <2>1, <2>2, <2>3 DEF ClockTypes, EarlyAtCarry, Steps
  <2>5. CASE Age' \in {0, 1} /\ (Age' = 1 => gap = 1 /\ since >= 1)
    <3>1. Fresh'
      <4>1. /\ Age' <= since' /\ since' <= Age' + 1
        <5>1. since' = since /\ since \in {0, 1}
          BY <1>1, <2>1
        <5>2. CASE Age' = 0
          BY <5>1, <5>2
        <5>3. CASE Age' = 1
          BY <2>5, <5>1, <5>3
        <5> QED BY <2>5, <5>2, <5>3
      <4>2. Age' <= LOOP_TIME + gap'
        BY <1>1, <2>1, <2>5
      <4> QED BY <2>1, <4>1, <4>2 DEF Fresh
    <3> QED BY <1>1, <2>1, <2>4, <3>1 DEF ClockInv
  <2>6. CASE gap = 1 /\ since >= 1 /\ Low = 0 /\ (Age' = Base \/ Age' = Wrap - Base + 1)
    <3>1. since = 1 /\ last + since > LOOP_TIME
      BY <1>1, <2>1, <2>6 DEF EarlyAtCarry
    <3>2. Torn'
      BY <1>1, <2>1, <2>2, <2>6, <3>1 DEF Torn
    <3> QED BY <1>1, <2>1, <2>4, <3>2 DEF ClockInv
  <2> QED BY <2>3, <2>5, <2>6
<1> QED BY <1>2, <1>3

\* Every step keeps the invariant.
LEMMA ClockInductive == Spec => []ClockInv
<1>1. ClockInv /\ [Next]_vars => ClockInv'
  <2> SUFFICES ASSUME ClockInv, [Next]_vars PROVE ClockInv'
    OBVIOUS
  <2>1. CASE Byte \/ Waits \/ Samples \/ Clears \/ SetsDefault \/ UNCHANGED vars
    <3>1. /\ UNCHANGED <<g_millis, old_millis, gap, since, last, read>>
          /\ step' = step \/ (step \in {"sample", "clear"} /\ step' \in {"clear", "rest"})
      BY <2>1 DEF Byte, Waits, Samples, Clears, SetsDefault, vars
    <3> QED BY <3>1, SampleKeeps
  <2> QED BY <2>1, TickKeeps, PollKeeps, TestKeeps, StoreKeeps DEF Next
<1> QED BY <1>1, InitClock, PTL DEF Spec

\* No cycle is late by more than the gap of the main loop and two ticks, for every
\* period and gap and however the readings of the counter are torn.
THEOREM CyclesInTime == Spec => []NeverLate
<1>1. ClockInv => NeverLate
  <2> SUFFICES ASSUME ClockInv PROVE NeverLate
    OBVIOUS
  <2>1. ClockTypes /\ Age \in 0 .. Wrap - 1
    BY AgeIs DEF ClockInv
  <2> QED BY <2>1, Ranges DEF ClockInv, ClockTypes, Fresh, Torn, NeverLate
<1> QED BY <1>1, ClockInductive, PTL

\* Two cycles in a row are never both early: together they take more than a period.
THEOREM EarlyAtMostOnce == Spec => EarlyOnce
<1>1. ClockInv /\ [Next]_vars => (step = "test" /\ step' = "store" => last + since > LOOP_TIME)
  <2> SUFFICES ASSUME ClockInv, [Next]_vars, step = "test", step' = "store"
               PROVE  last + since > LOOP_TIME
    OBVIOUS
  <2>1. PICK part \in Parts : Tests(part)
    BY DEF Next, Tick, Byte, Polls, BeginsStore, Stores, Waits, Samples, Clears,
           SetsDefault, vars
  <2>2. part # read[1] /\ TimeIsUp(Millis(part))
    BY <2>1 DEF Tests
  <2> QED BY <2>1, <2>2, TestTells
<1> QED BY <1>1, ClockInductive, PTL DEF Spec, EarlyOnce
=============================================================================
