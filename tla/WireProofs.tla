------------------------------ MODULE WireProofs ------------------------------
(***************************************************************************)
(* What the CRC is and what it refuses, and the way of an intact frame     *)
(* through the interrupt into the ring and out of it again, for every size *)
(* of the ring, every frame and whatever was received before. Induction    *)
(* over bytes and bits is by least exception (UpTo): an exception to what   *)
(* holds of 0 and passes on has a least one.                                *)
(***************************************************************************)
EXTENDS Wire, SequenceTheorems, WellFoundedInduction, TLAPS

(* Recursion *)

\* What holds of 0 and passes from each number to the next holds up to any bound:
\* otherwise there is a least exception.
LEMMA UpTo ==
  ASSUME NEW N \in Nat, NEW S, 0 \in S, \A n \in 0 .. N : (n # N /\ n \in S) => n + 1 \in S
  PROVE  \A n \in 0 .. N : n \in S
<1> DEFINE T == {n \in 0 .. N : n \notin S}
<1> SUFFICES ASSUME T # {} PROVE FALSE
  OBVIOUS
<1>1. T \subseteq Nat
  OBVIOUS
<1> HIDE DEF T
<1>2. PICK n \in T : \A m \in T : <<m, n>> \notin OpToRel(<, Nat)
  BY <1>1, NatLessThanWellFounded, WFMin
<1>3. n \in 1 .. N /\ n - 1 \in 0 .. N /\ n - 1 # N /\ (n - 1) + 1 = n
  BY DEF T
<1>4. n - 1 \notin T
  <2> SUFFICES ASSUME n - 1 \in T PROVE FALSE
    OBVIOUS
  <2>1. n - 1 \in Nat /\ n \in Nat /\ n - 1 < n
    BY <1>3
  <2>2. <<n - 1, n>> \in OpToRel(<, Nat)
    BY <2>1 DEF OpToRel
  <2> QED BY <1>2, <2>2
<1> QED BY <1>3, <1>4 DEF T

\* A recursive function on 0 .. N that begins with x and goes on by F:
Runs(g, N, S, x, F) == /\ g \in [0 .. N -> S] /\ g[0] = x
                       /\ \A n \in 1 .. N : g[n] = F[<<n, g[n - 1]>>]

\* it exists,
LEMMA Recursion ==
  ASSUME NEW N \in Nat, NEW S, NEW x \in S, NEW F,
         \A n \in 0 .. N : \A s \in S : F[<<n, s>>] \in S
  PROVE  \E g : Runs(g, N, S, x, F)
<1> DEFINE Rec(g, m) == g[0] = x /\ \A n \in 0 .. N : (0 < n /\ n <= m) => g[n] = F[<<n, g[n - 1]>>]
           M == {m \in 0 .. N : \E g \in [0 .. N -> S] : Rec(g, m)}
<1>1. 0 \in M
  <2>1. [n \in 0 .. N |-> x] \in [0 .. N -> S] /\ Rec([n \in 0 .. N |-> x], 0)
    OBVIOUS
  <2> QED BY <2>1
<1>2. ASSUME NEW m \in 0 .. N, m # N, m \in M PROVE m + 1 \in M
  <2>1. PICK g \in [0 .. N -> S] : Rec(g, m)
    BY <1>2
  <2>2. PICK h : h = [g EXCEPT ![m + 1] = F[<<m + 1, g[m]>>]]
    OBVIOUS
  <2>3. m + 1 \in 0 .. N /\ h \in [0 .. N -> S]
    BY <1>2, <2>2
  <2>4. \A n \in 0 .. N : n # m + 1 => h[n] = g[n]
    BY <2>2
  <2>5. h[m + 1] = F[<<m + 1, h[m]>>]
    BY <1>2, <2>2, <2>3, <2>4
  <2>6. ASSUME NEW n \in 0 .. N, 0 < n, n <= m + 1 PROVE h[n] = F[<<n, h[n - 1]>>]
    <3>1. CASE n = m + 1
      BY <2>5, <3>1
    <3>2. CASE n # m + 1
      <4>1. n <= m /\ n - 1 \in 0 .. N /\ n - 1 # m + 1
        BY <2>6, <3>2
      <4> QED BY <2>1, <2>4, <2>6, <3>2, <4>1
    <3> QED BY <3>1, <3>2
  <2>7. h[0] = x
    BY <2>1, <2>4
  <2>8. Rec(h, m + 1)
    BY <2>6, <2>7
  <2> QED BY <2>3, <2>8
<1>3. N \in M
  <2> HIDE DEF M
  <2>1. \A n \in 0 .. N : n \in M
    BY <1>1, <1>2, UpTo
  <2> QED BY <2>1
<1>4. PICK g \in [0 .. N -> S] : Rec(g, N)
  BY <1>3
<1> QED BY <1>4 DEF Runs

\* and its values stay where its steps keep them.
LEMMA StaysIn ==
  ASSUME NEW N \in Nat, NEW S, NEW g, DOMAIN g = 0 .. N, g = [i \in 0 .. N |-> g[i]], g[0] \in S,
         \A i \in 1 .. N : g[i - 1] \in S => g[i] \in S
  PROVE  g \in [0 .. N -> S]
<1> DEFINE M == {i \in 0 .. N : g[i] \in S}
<1>1. 0 \in M
  OBVIOUS
<1>2. ASSUME NEW i \in 0 .. N, i # N, i \in M PROVE i + 1 \in M
  <2>1. i + 1 \in 1 .. N /\ (i + 1) - 1 = i
    BY <1>2
  <2> QED BY <1>2, <2>1
<1>3. \A i \in 0 .. N : i \in M
  <2> HIDE DEF M
  <2> QED BY <1>1, <1>2, UpTo
<1> QED BY <1>3

\* The register of the CRC is 16 bits,
Register == SUBSET (0 .. 15)

\* and after one more bit,
LEMMA UpdateBitType ==
  ASSUME NEW crc \in Register, NEW bit
  PROVE  UpdateBit(crc, bit) \in Register
<1>1. Shifted(crc, 16) \in Register
  BY DEF Shifted, Register
<1>2. CRC_POLY \in Register
  BY DEF CRC_POLY, Register
<1> QED BY <1>1, <1>2 DEF UpdateBit, Xor, SymDiff, Register

\* the registers on the way through a byte,
Shifts(after, crc, byte) ==
  /\ after \in [0 .. 8 -> Register] /\ after[0] = crc
  /\ \A i \in 1 .. 8 : after[i] = UpdateBit(after[i - 1], Bit(byte, 8 - i))
\* which are the ones update_crc16() goes through,
LEMMA UpdateCrc16Is ==
  ASSUME NEW crc \in Register, NEW byte
  PROVE  \E after : Shifts(after, crc, byte) /\ UpdateCrc16(crc, byte) = after[8]
<1> DEFINE F == [p \in (0 .. 8) \X Register |-> UpdateBit(p[2], Bit(byte, 8 - p[1]))]
           E(g) == g = [i \in 0 .. 8 |-> IF i = 0 THEN crc ELSE UpdateBit(g[i - 1], Bit(byte, 8 - i))]
           R == CHOOSE g : E(g)
<1>1. \A i \in 0 .. 8 : \A c \in Register : F[<<i, c>>] \in Register
  BY UpdateBitType
<1>2. PICK g \in [0 .. 8 -> Register] : g[0] = crc /\ \A i \in 1 .. 8 : g[i] = F[<<i, g[i - 1]>>]
  <2> HIDE DEF F
  <2>1. \E g : Runs(g, 8, Register, crc, F)
    BY <1>1, Recursion
  <2> QED BY <2>1 DEF Runs
<1>3. E(g)
  <2>1. \A i \in 0 .. 8 : g[i] = IF i = 0 THEN crc ELSE UpdateBit(g[i - 1], Bit(byte, 8 - i))
    BY <1>2
  <2>2. g = [i \in 0 .. 8 |-> g[i]]
    OBVIOUS
  <2> QED BY <2>1, <2>2
<1>4. E(R)
  <2> HIDE DEF E
  <2> QED BY <1>3
<1>5. UpdateCrc16(crc, byte) = R[8]
  BY DEF UpdateCrc16
<1> HIDE DEF R
<1>6. R[0] = crc /\ \A i \in 1 .. 8 : R[i] = UpdateBit(R[i - 1], Bit(byte, 8 - i))
  BY <1>4
<1>7. R \in [0 .. 8 -> Register]
  <2>1. \A i \in 1 .. 8 : R[i - 1] \in Register => R[i] \in Register
    BY <1>6, UpdateBitType
  <2> QED BY <1>4, <1>6, <2>1, StaysIn
<1> QED BY <1>5, <1>6, <1>7 DEF Shifts

\* so that after one more byte it is 16 bits again;
LEMMA UpdateCrc16Type ==
  ASSUME NEW crc \in Register, NEW byte
  PROVE  UpdateCrc16(crc, byte) \in Register
BY UpdateCrc16Is DEF Shifts

\* the registers on the way through a sequence of bytes,
Registers(after, crc, bytes, N) ==
  /\ after \in [0 .. N -> Register] /\ after[0] = crc
  /\ \A i \in 1 .. N : after[i] = UpdateCrc16(after[i - 1], bytes[i])
\* which end in its CRC;
LEMMA CrcOfIs ==
  ASSUME NEW crc \in Register, NEW bytes, NEW N \in Nat, N = Len(bytes)
  PROVE  \E after : Registers(after, crc, bytes, N) /\ CrcOf(crc, bytes) = after[N]
<1> DEFINE F == [p \in (0 .. N) \X Register |-> UpdateCrc16(p[2], bytes[p[1]])]
           E(g) == g = [i \in 0 .. N |-> IF i = 0 THEN crc ELSE UpdateCrc16(g[i - 1], bytes[i])]
           R == CHOOSE g : E(g)
<1>1. \A i \in 0 .. N : \A c \in Register : F[<<i, c>>] \in Register
  BY UpdateCrc16Type
<1>2. PICK g \in [0 .. N -> Register] : g[0] = crc /\ \A i \in 1 .. N : g[i] = F[<<i, g[i - 1]>>]
  <2> HIDE DEF F
  <2>1. \E g : Runs(g, N, Register, crc, F)
    BY <1>1, Recursion
  <2> QED BY <2>1 DEF Runs
<1>3. E(g)
  <2>1. ASSUME NEW i \in 0 .. N PROVE g[i] = IF i = 0 THEN crc ELSE UpdateCrc16(g[i - 1], bytes[i])
    <3>1. i # 0 => i \in 1 .. N /\ g[i - 1] \in Register
      BY <1>2
    <3> QED BY <1>2, <3>1
  <2>2. g = [i \in 0 .. N |-> g[i]]
    OBVIOUS
  <2> QED BY <2>1, <2>2
<1>4. E(R)
  <2> HIDE DEF E
  <2> QED BY <1>3
<1>5. CrcOf(crc, bytes) = R[N]
  BY DEF CrcOf
<1> HIDE DEF R
<1>6. R[0] = crc /\ \A i \in 1 .. N : R[i] = UpdateCrc16(R[i - 1], bytes[i])
  BY <1>4
<1>7. R \in [0 .. N -> Register]
  <2>1. \A i \in 1 .. N : R[i - 1] \in Register => R[i] \in Register
    BY <1>6, UpdateCrc16Type
  <2> QED BY <1>4, <1>6, <2>1, StaysIn
<1> QED BY <1>5, <1>6, <1>7 DEF Registers

\* and what is left of a polynomial on the way through a division,
Rests(rest, poly, degree, N) ==
  /\ rest \in [0 .. N -> SUBSET Int] /\ rest[0] = poly
  /\ \A n \in 1 .. N : rest[n] = Reduced(rest[n - 1], degree - n + 1)
\* which ends in the remainder.
LEMMA RemainderIs ==
  ASSUME NEW degree \in Nat, NEW N \in Nat, N = degree - 15, NEW poly \in SUBSET Int
  PROVE  \E rest : Rests(rest, poly, degree, N) /\ Remainder(poly, degree) = rest[N]
<1> DEFINE S == SUBSET Int
           F == [p \in (0 .. N) \X S |-> Reduced(p[2], degree - p[1] + 1)]
           E(g) == g = [n \in 0 .. N |-> IF n = 0 THEN poly ELSE Reduced(g[n - 1], degree - n + 1)]
           R == CHOOSE g : E(g)
<1>1. ASSUME NEW p \in S, NEW n \in 0 .. N PROVE Reduced(p, degree - n + 1) \in S
  <2>1. {k + (degree - n + 1) - 16 : k \in Generator} \in S
    BY DEF Generator, CRC_POLY
  <2> QED BY <2>1 DEF Reduced, Xor, SymDiff
<1>2. PICK g \in [0 .. N -> S] : g[0] = poly /\ \A n \in 1 .. N : g[n] = F[<<n, g[n - 1]>>]
  <2>1. \A n \in 0 .. N : \A p \in S : F[<<n, p>>] \in S
    BY <1>1
  <2>2. poly \in S
    OBVIOUS
  <2> HIDE DEF F, S
  <2>3. \E g : Runs(g, N, S, poly, F)
    BY <2>1, <2>2, Recursion
  <2> QED BY <2>3 DEF Runs
<1>3. E(g)
  <2>1. ASSUME NEW n \in 0 .. N PROVE g[n] = IF n = 0 THEN poly ELSE Reduced(g[n - 1], degree - n + 1)
    <3>1. n # 0 => n \in 1 .. N /\ g[n - 1] \in S
      BY <1>2
    <3> HIDE DEF S
    <3> QED BY <1>2, <3>1
  <2>2. g = [n \in 0 .. N |-> g[n]]
    OBVIOUS
  <2> QED BY <2>1, <2>2
<1>4. E(R)
  <2> HIDE DEF E
  <2> QED BY <1>3
<1>5. Remainder(poly, degree) = R[N]
  BY DEF Remainder
<1> HIDE DEF R, S
<1>6. R[0] = poly /\ \A n \in 1 .. N : R[n] = Reduced(R[n - 1], degree - n + 1)
  BY <1>4
<1>7. R \in [0 .. N -> S]
  <2>1. \A n \in 1 .. N : R[n - 1] \in S => R[n] \in S
    BY <1>1, <1>6
  <2>2. poly \in S
    BY DEF S
  <2> QED BY <1>4, <1>6, <2>1, <2>2, StaysIn
<1> QED BY <1>5, <1>6, <1>7 DEF S, Rests
-----------------------------------------------------------------------------
(* The CRC is a division *)

\* What is left of the dividend D, whose last 16 terms are 0, when the terms above
\* lead are gone: below lead by the next 16 it is D, and in those it is D
\* exclusive-or the register.
Follows(p, crc, D, lead) ==
  /\ p \subseteq 0 .. lead
  /\ \A t \in 0 .. lead - 16 : t \in p <=> t \in D
  /\ \A k \in 0 .. 15 : (k + lead - 15 \in p) <=> ~(k \in crc <=> k + lead - 15 \in D)

\* A bit shifted into the register is a term of the dividend,
LEMMA BitDivides ==
  ASSUME NEW lead \in Nat, lead >= 16, NEW p, NEW crc \in Register, NEW D, NEW bit \in BOOLEAN,
         bit <=> lead \in D, Follows(p, crc, D, lead)
  PROVE  Follows(Reduced(p, lead), UpdateBit(crc, bit), D, lead - 1)
<1>1. lead \in p <=> ((15 \in crc) # bit)
  <2>1. 15 \in 0 .. 15 /\ 15 + lead - 15 = lead
    OBVIOUS
  <2>2. lead \in p <=> ~(15 \in crc <=> lead \in D)
    BY <2>1 DEF Follows
  <2> QED BY <2>2
<1> DEFINE q == Reduced(p, lead)
           c == UpdateBit(crc, bit)
<1>2. \A t \in Int : t \in q <=> IF lead \in p /\ t \in {lead, lead - 4, lead - 11, lead - 16}
                                THEN t \notin p ELSE t \in p
  <2>1. {k + lead - 16 : k \in Generator} = {lead, lead - 4, lead - 11, lead - 16}
    BY DEF Generator, CRC_POLY
  <2> QED BY <2>1 DEF Reduced, Xor, SymDiff
<1>3. \A k \in 0 .. 15 : k \in c <=> IF (15 \in crc) # bit /\ k \in {12, 5, 0}
                                    THEN k - 1 \notin crc ELSE k - 1 \in crc
  <2>1. \A k \in 0 .. 15 : k \in Shifted(crc, 16) <=> k - 1 \in crc
    BY DEF Shifted, Register
  <2> QED BY <2>1 DEF UpdateBit, Xor, SymDiff, CRC_POLY
<1>4. q \subseteq Int
  <2>1. {k + lead - 16 : k \in Generator} \subseteq Int
    BY DEF Generator, CRC_POLY
  <2>2. p \subseteq Int
    BY DEF Follows
  <2> QED BY <2>1, <2>2 DEF Reduced, Xor, SymDiff
<1> HIDE DEF q, c
<1>5. q \subseteq 0 .. lead - 1
  BY <1>2, <1>4 DEF Follows
<1>6. \A t \in 0 .. lead - 17 : t \in q <=> t \in D
  BY <1>2 DEF Follows
<1>7. ASSUME NEW k \in 0 .. 15 PROVE (k + lead - 16 \in q) <=> ~(k \in c <=> k + lead - 16 \in D)
  <2>1. CASE k = 0
    <3>1. lead - 16 \in p <=> lead - 16 \in D
      BY DEF Follows
    <3>2. -1 \notin crc
      BY DEF Register
    <3>3. lead - 16 \in q <=> IF (15 \in crc) # bit THEN lead - 16 \notin p ELSE lead - 16 \in p
      BY <1>1, <1>2
    <3>4. 0 \in c <=> ((15 \in crc) # bit)
      BY <1>3, <3>2
    <3> QED BY <2>1, <3>1, <3>3, <3>4
  <2>2. CASE k # 0
    <3>1. PICK j \in 0 .. 14 : k = j + 1
      BY <2>2
    <3>2. j + lead - 15 \in p <=> ~(j \in crc <=> j + lead - 15 \in D)
      BY <3>1 DEF Follows
    <3>3. k + lead - 16 = j + lead - 15
      BY <3>1
    <3>4. k \in c <=> IF (15 \in crc) # bit /\ k \in {12, 5, 0} THEN j \notin crc ELSE j \in crc
      BY <1>3, <3>1
    <3>5. k + lead - 16 \in q <=> IF (15 \in crc) # bit /\ k \in {12, 5, 0}
                                  THEN j + lead - 15 \notin p ELSE j + lead - 15 \in p
      BY <1>1, <1>2, <3>1, <3>3
    <3> QED BY <3>2, <3>3, <3>4, <3>5
  <2> QED BY <2>1, <2>2
<1>8. (lead - 1) - 16 = lead - 17 /\ \A k \in 0 .. 15 : k + (lead - 1) - 15 = k + lead - 16
  OBVIOUS
<1> QED BY <1>5, <1>6, <1>7, <1>8 DEF Follows, q, c

\* so are the eight of a byte,
LEMMA ByteDivides ==
  ASSUME NEW lead \in Nat, lead >= 23, NEW crc \in Register, NEW D, NEW byte, NEW n \in Nat, NEW rest,
         \A i \in 1 .. 8 : Bit(byte, 8 - i) <=> lead - i + 1 \in D,
         \A i \in 1 .. 8 : rest[n + i] = Reduced(rest[n + i - 1], lead - i + 1),
         Follows(rest[n], crc, D, lead)
  PROVE  Follows(rest[n + 8], UpdateCrc16(crc, byte), D, lead - 8)
<1>1. PICK after :
        /\ after \in [0 .. 8 -> Register] /\ after[0] = crc
        /\ \A i \in 1 .. 8 : after[i] = UpdateBit(after[i - 1], Bit(byte, 8 - i))
        /\ UpdateCrc16(crc, byte) = after[8]
  BY UpdateCrc16Is DEF Shifts
<1> DEFINE M == {i \in 0 .. 8 : Follows(rest[n + i], after[i], D, lead - i)}
<1>2. 0 \in M
  <2>1. n + 0 = n /\ lead - 0 = lead
    OBVIOUS
  <2> QED BY <1>1, <2>1
<1>3. ASSUME NEW i \in 0 .. 8, i # 8, i \in M PROVE i + 1 \in M
  <2>1. PICK j \in 1 .. 8 : j = i + 1 /\ n + j - 1 = n + i /\ lead - j + 1 = lead - i /\ j - 1 = i
    BY <1>3
  <2>2. PICK l \in Nat : l = lead - i /\ l >= 16 /\ l - 1 = lead - j
    BY <1>3, <2>1
  <2>3. PICK bit : bit = Bit(byte, 8 - j) /\ bit \in BOOLEAN
    <3>1. Bit(byte, 8 - j) \in BOOLEAN
      BY DEF Bit
    <3> QED BY <3>1
  <2>4. after[i] \in Register /\ after[j] = UpdateBit(after[i], bit)
    <3>1. after[j] = UpdateBit(after[j - 1], Bit(byte, 8 - j))
      BY <1>1
    <3>2. after[j] = UpdateBit(after[i], Bit(byte, 8 - j))
      BY <2>1, <3>1
    <3> QED BY <1>1, <2>3, <3>2
  <2>5. bit <=> l \in D
    BY <2>1, <2>2, <2>3
  <2>6. rest[n + j] = Reduced(rest[n + i], l)
    BY <2>1, <2>2
  <2>7. Follows(rest[n + i], after[i], D, l)
    BY <1>3, <2>2
  <2>8. Follows(rest[n + j], after[j], D, l - 1)
    BY <2>2, <2>3, <2>4, <2>5, <2>6, <2>7, BitDivides
  <2> QED BY <2>1, <2>2, <2>8
<1>4. \A i \in 0 .. 8 : i \in M
  <2> HIDE DEF M
  <2> QED BY <1>2, <1>3, UpTo
<1> QED BY <1>1, <1>4

\* and at the end it is the register that is left: update_crc16(), from 0xFFFF on,
\* computes the remainder CRC-16/CCITT-FALSE is defined by, for every sequence of
\* bytes (crc16.c).
THEOREM CrcIsDivision ==
  ASSUME NEW bytes \in Seq(0 .. 255)
  PROVE  CrcOf(CRC_INIT, bytes) = ReferenceCrc(bytes)
<1>1. PICK N : N = Len(bytes) /\ N \in Nat
  BY LenProperties
<1>2. PICK top : top = 8 * N + 15 /\ top \in Nat /\ top - 15 = 8 * N
  BY <1>1
<1>3. PICK D : D = {k + 16 : k \in Message(bytes)}
  OBVIOUS
<1>4. \A t \in Int : t \in D <=> t \in 16 .. top /\ Bit(bytes[N - ((t - 16) \div 8)], (t - 16) % 8)
  <2>1. \A k \in Int : k \in Message(bytes) <=> k \in 0 .. 8 * N - 1 /\ Bit(bytes[N - (k \div 8)], k % 8)
    BY <1>1 DEF Message
  <2>2. \A t \in Int : t \in D <=> t - 16 \in Message(bytes)
    <3>1. Message(bytes) \subseteq Int
      BY <1>1 DEF Message
    <3> QED BY <1>3, <3>1
  <2>3. \A t \in Int : t - 16 \in 0 .. 8 * N - 1 <=> t \in 16 .. top
    BY <1>1, <1>2
  <2>4. ASSUME NEW t \in Int
        PROVE  t \in D <=> t \in 16 .. top /\ Bit(bytes[N - ((t - 16) \div 8)], (t - 16) % 8)
    <3>1. PICK k \in Int : k = t - 16
      OBVIOUS
    <3> QED BY <2>1, <2>2, <2>3, <3>1
  <2> QED BY <2>4
<1>5. D \subseteq 16 .. top
  <2>1. Message(bytes) \subseteq 0 .. 8 * N - 1
    BY <1>1 DEF Message
  <2> QED BY <1>1, <1>2, <1>3, <2>1
<1>6. CRC_INIT \in Register
  BY DEF CRC_INIT, Register
<1>7. PICK after :
        /\ after \in [0 .. N -> Register] /\ after[0] = CRC_INIT
        /\ \A i \in 1 .. N : after[i] = UpdateCrc16(after[i - 1], bytes[i])
        /\ CrcOf(CRC_INIT, bytes) = after[N]
  <2>1. PICK after : Registers(after, CRC_INIT, bytes, N) /\ CrcOf(CRC_INIT, bytes) = after[N]
    BY <1>1, <1>6, CrcOfIs
  <2> QED BY <2>1 DEF Registers
<1>8. PICK p : p \in SUBSET Int /\ p = Xor(D, (top - 15) .. top)
  <2>1. Xor(D, (top - 15) .. top) \in SUBSET Int
    <3>1. D \subseteq Int /\ (top - 15) .. top \subseteq Int
      BY <1>2, <1>5
    <3> QED BY <3>1 DEF Xor, SymDiff
  <2> QED BY <2>1
<1>9. PICK rest :
        /\ rest \in [0 .. 8 * N -> SUBSET Int] /\ rest[0] = p
        /\ \A n \in 1 .. 8 * N : rest[n] = Reduced(rest[n - 1], top - n + 1)
        /\ Remainder(p, top) = rest[8 * N]
  <2>1. PICK L \in Nat : L = 8 * N /\ L = top - 15
    BY <1>1, <1>2
  <2>2. PICK rest : Rests(rest, p, top, L) /\ Remainder(p, top) = rest[L]
    BY <1>2, <1>8, <2>1, RemainderIs
  <2> QED BY <2>1, <2>2 DEF Rests
<1>10. ReferenceCrc(bytes) = rest[8 * N]
  BY <1>1, <1>2, <1>3, <1>8, <1>9 DEF ReferenceCrc
<1> DEFINE M == {i \in 0 .. N : Follows(rest[8 * i], after[i], D, top - 8 * i)}
<1>11. 0 \in M
  <2>1. \A t \in Int : t \in p <=> IF t \in (top - 15) .. top THEN t \notin D ELSE t \in D
    BY <1>8 DEF Xor, SymDiff
  <2>2. Follows(p, CRC_INIT, D, top)
    <3>1. p \subseteq 0 .. top
      <4>1. ASSUME NEW t \in Int, t \in p PROVE t \in 0 .. top
        <5>1. t \in (top - 15) .. top \/ t \in D
          BY <2>1, <4>1
        <5>2. t \in (top - 15) .. top \/ t \in 16 .. top
          BY <1>5, <5>1
        <5> QED BY <1>1, <1>2, <5>2
      <4> QED BY <1>8, <4>1
    <3>2. \A t \in 0 .. top - 16 : t \in p <=> t \in D
      BY <1>2, <2>1
    <3>3. \A k \in 0 .. 15 : (k + top - 15 \in p) <=> ~(k \in CRC_INIT <=> k + top - 15 \in D)
      BY <1>2, <2>1 DEF CRC_INIT
    <3> QED BY <3>1, <3>2, <3>3 DEF Follows
  <2>3. 8 * 0 = 0 /\ top - 8 * 0 = top
    BY <1>2
  <2> QED BY <1>1, <1>7, <1>9, <2>2, <2>3
<1>12. ASSUME NEW i \in 0 .. N, i # N, i \in M PROVE i + 1 \in M
  <2>1. PICK m \in 1 .. N : m = i + 1 /\ m - 1 = i /\ 8 * m = 8 * i + 8
    BY <1>1, <1>12
  <2>2. PICK n \in Nat : n = 8 * i /\ n + 8 = 8 * m /\ n + 8 <= 8 * N
    BY <1>1, <1>12, <2>1
  <2>3. PICK lead \in Nat : lead = top - n /\ lead >= 23 /\ lead - 8 = top - 8 * m
    <3>1. top - n \in Nat /\ top - n >= 23 /\ (top - n) - 8 = top - 8 * m
      BY <1>1, <1>2, <2>1, <2>2
    <3> QED BY <3>1
  <2>4. after[i] \in Register /\ after[m] = UpdateCrc16(after[i], bytes[m])
    <3>1. after[m] = UpdateCrc16(after[m - 1], bytes[m])
      BY <1>7
    <3> QED BY <1>7, <2>1, <3>1
  <2>5. ASSUME NEW j \in 1 .. 8 PROVE Bit(bytes[m], 8 - j) <=> lead - j + 1 \in D
    <3>1. PICK t \in Int : t = lead - j + 1
      BY <2>3
    <3>2. t - 16 = 8 * (N - m) + (8 - j) /\ t \in 16 .. top
      BY <1>1, <1>2, <2>1, <2>2, <2>3, <3>1
    <3>3. (t - 16) \div 8 = N - m /\ (t - 16) % 8 = 8 - j
      <4>1. PICK a \in Int : a = N - m
        <5>1. N - m \in Int
          BY <1>1, <2>1
        <5> QED BY <5>1
      <4>2. PICK b \in 0 .. 7 : b = 8 - j
        OBVIOUS
      <4>3. (8 * a + b) \div 8 = a /\ (8 * a + b) % 8 = b
        OBVIOUS
      <4> QED BY <3>2, <4>1, <4>2, <4>3
    <3>4. N - (N - m) = m
      BY <1>1
    <3> QED BY <1>4, <3>1, <3>2, <3>3, <3>4
  <2>6. ASSUME NEW j \in 1 .. 8 PROVE rest[n + j] = Reduced(rest[n + j - 1], lead - j + 1)
    <3>1. n + j \in 1 .. 8 * N /\ top - (n + j) + 1 = lead - j + 1
      BY <1>1, <1>2, <2>2, <2>3
    <3>2. rest[n + j] = Reduced(rest[n + j - 1], top - (n + j) + 1)
      BY <1>9, <3>1
    <3> QED BY <3>1, <3>2
  <2>7. Follows(rest[n], after[i], D, lead)
    BY <1>12, <2>2, <2>3
  <2>8. Follows(rest[n + 8], UpdateCrc16(after[i], bytes[m]), D, lead - 8)
    BY <2>3, <2>4, <2>5, <2>6, <2>7, ByteDivides
  <2> QED BY <2>1, <2>2, <2>3, <2>4, <2>8
<1>13. N \in M
  <2> HIDE DEF M
  <2>1. \A i \in 0 .. N : i \in M
    BY <1>1, <1>11, <1>12, UpTo
  <2> QED BY <1>1, <2>1
<1>14. Follows(rest[8 * N], after[N], D, 15)
  <2>1. top - 8 * N = 15
    BY <1>1, <1>2
  <2> QED BY <1>13, <2>1
<1>15. \A k \in 0 .. 15 : k \in rest[8 * N] <=> k \in after[N]
  <2>1. \A k \in 0 .. 15 : k + 15 - 15 = k /\ k \notin D
    BY <1>5
  <2> QED BY <1>14, <2>1 DEF Follows
<1>16. rest[8 * N] \subseteq 0 .. 15 /\ after[N] \subseteq 0 .. 15
  <2>1. after[N] \in Register
    BY <1>1, <1>7
  <2> QED BY <1>14, <2>1 DEF Follows, Register
<1>17. rest[8 * N] = after[N]
  BY <1>15, <1>16
<1> QED BY <1>7, <1>10, <1>17
-----------------------------------------------------------------------------
(* A frame that carries its CRC *)

\* A bit that is the highest of the register only shifts it, and no other leaves
\* the lowest bits clear.
LEMMA BitClears ==
  ASSUME NEW crc \in Register, NEW bit \in BOOLEAN
  PROVE  /\ (bit <=> 15 \in crc) => UpdateBit(crc, bit) = Shifted(crc, 16)
         /\ 0 \notin UpdateBit(crc, bit) => (bit <=> 15 \in crc)
<1>1. \A k \in 0 .. 15 : k \in Shifted(crc, 16) <=> k - 1 \in crc
  BY DEF Shifted, Register
<1>2. 0 \notin Shifted(crc, 16)
  BY <1>1 DEF Register
<1>3. ~(bit <=> 15 \in crc) => 0 \in UpdateBit(crc, bit)
  BY <1>2 DEF UpdateBit, Xor, SymDiff, CRC_POLY
<1>4. (bit <=> 15 \in crc) => UpdateBit(crc, bit) = Shifted(crc, 16)
  BY DEF UpdateBit
<1> QED BY <1>3, <1>4

\* A byte that is the upper one of the register shifts it out,
LEMMA ByteShifts ==
  ASSUME NEW crc \in Register, NEW byte, \A k \in 0 .. 7 : Bit(byte, k) <=> k + 8 \in crc
  PROVE  \A k \in 0 .. 15 : k \in UpdateCrc16(crc, byte) <=> k - 8 \in crc
<1>1. PICK after :
        /\ after \in [0 .. 8 -> Register] /\ after[0] = crc
        /\ \A i \in 1 .. 8 : after[i] = UpdateBit(after[i - 1], Bit(byte, 8 - i))
        /\ UpdateCrc16(crc, byte) = after[8]
  BY UpdateCrc16Is DEF Shifts
<1> DEFINE M == {i \in 0 .. 8 : \A k \in 0 .. 15 : k \in after[i] <=> k - i \in crc}
<1>2. 0 \in M
  BY <1>1
<1>3. ASSUME NEW i \in 0 .. 8, i # 8, i \in M PROVE i + 1 \in M
  <2>1. PICK j \in 1 .. 8 : j = i + 1 /\ j - 1 = i /\ (8 - j) + 8 = 15 - i /\ 8 - j \in 0 .. 7
    BY <1>3
  <2>2. PICK bit : bit = Bit(byte, 8 - j) /\ bit \in BOOLEAN
    <3>1. Bit(byte, 8 - j) \in BOOLEAN
      BY DEF Bit
    <3> QED BY <3>1
  <2>3. bit <=> 15 \in after[i]
    <3>1. bit <=> 15 - i \in crc
      BY <2>1, <2>2
    <3>2. 15 \in after[i] <=> 15 - i \in crc
      BY <1>3
    <3> QED BY <3>1, <3>2
  <2>4. after[i] \in Register /\ after[j] = UpdateBit(after[i], bit)
    <3>1. after[j] = UpdateBit(after[j - 1], Bit(byte, 8 - j))
      BY <1>1
    <3> QED BY <1>1, <2>1, <2>2, <3>1
  <2>5. after[j] = Shifted(after[i], 16)
    BY <2>2, <2>3, <2>4, BitClears
  <2>6. ASSUME NEW k \in 0 .. 15 PROVE k \in after[j] <=> k - j \in crc
    <3>1. k \in after[j] <=> k - 1 \in after[i]
      BY <2>4, <2>5 DEF Shifted, Register
    <3>2. CASE k = 0
      <4>1. k - 1 \notin after[i] /\ k - j \notin crc
        BY <2>1, <2>4, <3>2 DEF Register
      <4> QED BY <3>1, <4>1
    <3>3. CASE k # 0
      <4>1. k - 1 \in 0 .. 15 /\ (k - 1) - i = k - j
        BY <2>1, <3>3
      <4> QED BY <1>3, <3>1, <4>1
    <3> QED BY <3>2, <3>3
  <2> QED BY <2>1, <2>6
<1>4. \A i \in 0 .. 8 : i \in M
  <2> HIDE DEF M
  <2> QED BY <1>2, <1>3, UpTo
<1> QED BY <1>1, <1>4

\* and no other byte leaves the lower one clear.
LEMMA ByteClears ==
  ASSUME NEW crc \in Register, NEW byte, NEW n \in {0, 8}
  PROVE  UpdateCrc16(crc, byte) \subseteq n + 8 .. 15 =>
           crc \subseteq n .. 15 /\ \A k \in 0 .. 7 : Bit(byte, k) <=> k + 8 \in crc
<1>1. PICK after :
        /\ after \in [0 .. 8 -> Register] /\ after[0] = crc
        /\ \A i \in 1 .. 8 : after[i] = UpdateBit(after[i - 1], Bit(byte, 8 - i))
        /\ UpdateCrc16(crc, byte) = after[8]
  <2>1. PICK after : Shifts(after, crc, byte) /\ UpdateCrc16(crc, byte) = after[8]
    BY UpdateCrc16Is
  <2> QED BY <2>1 DEF Shifts
<1> SUFFICES ASSUME UpdateCrc16(crc, byte) \subseteq n + 8 .. 15
             PROVE  crc \subseteq n .. 15 /\ \A k \in 0 .. 7 : Bit(byte, k) <=> k + 8 \in crc
  OBVIOUS
<1>2. ASSUME NEW i \in 1 .. 8, 0 \notin after[i]
      PROVE  /\ after[i - 1] \in Register /\ after[i] = Shifted(after[i - 1], 16)
             /\ Bit(byte, 8 - i) <=> 15 \in after[i - 1]
  <2>1. PICK bit : bit = Bit(byte, 8 - i) /\ bit \in BOOLEAN
    <3>1. Bit(byte, 8 - i) \in BOOLEAN
      BY DEF Bit
    <3> QED BY <3>1
  <2>2. i - 1 \in 0 .. 8
    OBVIOUS
  <2>3. after[i - 1] \in Register /\ after[i] = UpdateBit(after[i - 1], bit)
    BY <1>1, <2>1, <2>2
  <2> QED BY <1>2, <2>1, <2>3, BitClears
<1> DEFINE M == {d \in 0 .. 8 : after[8 - d] \subseteq n + 8 - d .. 15}
<1>3. 0 \in M
  BY <1>1
<1>4. ASSUME NEW d \in 0 .. 8, d # 8, d \in M PROVE d + 1 \in M
  <2>1. PICK i \in 1 .. 8 : i = 8 - d /\ i - 1 = 8 - (d + 1)
    BY <1>4
  <2>2. after[i] \subseteq n + i .. 15
    BY <1>4, <2>1
  <2>3. 0 \notin after[i]
    BY <2>2
  <2>4. after[i - 1] \in Register /\ after[i] = Shifted(after[i - 1], 16)
    BY <1>2, <2>3
  <2>5. ASSUME NEW k \in after[i - 1] PROVE k \in n + (i - 1) .. 15
    <3>1. k \in 0 .. 15
      BY <2>4 DEF Register
    <3>2. k # 15 => k + 1 \in after[i]
      BY <2>4, <3>1 DEF Shifted
    <3> QED BY <2>2, <3>1, <3>2
  <2>6. n + (i - 1) = n + 8 - (d + 1)
    BY <2>1
  <2> QED BY <1>4, <2>1, <2>5, <2>6
<1>5. \A i \in 0 .. 8 : after[i] \subseteq n + i .. 15
  <2>1. \A d \in 0 .. 8 : d \in M
    <3> HIDE DEF M
    <3> QED BY <1>3, <1>4, UpTo
  <2> SUFFICES ASSUME NEW i \in 0 .. 8 PROVE after[i] \subseteq n + i .. 15
    OBVIOUS
  <2>2. PICK d \in 0 .. 8 : d = 8 - i /\ 8 - d = i /\ n + 8 - d = n + i
    OBVIOUS
  <2> QED BY <2>1, <2>2
<1>6. ASSUME NEW i \in 1 .. 8
      PROVE  /\ after[i - 1] \in Register /\ after[i] = Shifted(after[i - 1], 16)
             /\ Bit(byte, 8 - i) <=> 15 \in after[i - 1]
  <2>1. 0 \notin after[i]
    BY <1>5
  <2> QED BY <1>2, <2>1
<1> DEFINE L == {i \in 0 .. 8 : \A k \in i .. 15 : k \in after[i] <=> k - i \in crc}
<1>7. 0 \in L
  BY <1>1
<1>8. ASSUME NEW i \in 0 .. 8, i # 8, i \in L PROVE i + 1 \in L
  <2>1. PICK j \in 1 .. 8 : j = i + 1 /\ j - 1 = i
    BY <1>8
  <2>2. after[i] \in Register /\ after[j] = Shifted(after[i], 16)
    BY <1>6, <2>1
  <2>3. ASSUME NEW k \in j .. 15 PROVE k \in after[j] <=> k - j \in crc
    <3>1. k \in after[j] <=> k - 1 \in after[i]
      BY <2>1, <2>2 DEF Shifted, Register
    <3>2. k - 1 \in i .. 15 /\ (k - 1) - i = k - j
      BY <2>1
    <3> QED BY <1>8, <3>1, <3>2
  <2> QED BY <2>1, <2>3
<1>9. \A i \in 0 .. 8 : i \in L
  <2> HIDE DEF L
  <2> QED BY <1>7, <1>8, UpTo
<1>10. ASSUME NEW k \in 0 .. 7 PROVE Bit(byte, k) <=> k + 8 \in crc
  <2>1. PICK i \in 1 .. 8 : i = 8 - k /\ 8 - i = k /\ 15 - (i - 1) = k + 8 /\ i - 1 \in 0 .. 8 /\ 15 \in i - 1 .. 15
    OBVIOUS
  <2>2. Bit(byte, k) <=> 15 \in after[i - 1]
    BY <1>6, <2>1
  <2>3. 15 \in after[i - 1] <=> k + 8 \in crc
    BY <1>9, <2>1
  <2> QED BY <2>2, <2>3
<1>11. crc \subseteq n .. 15
  BY <1>1, <1>5
<1> QED BY <1>10, <1>11

\* So two more bytes make the register 0 if they are the register.
LEMMA OwnCrcClears ==
  ASSUME NEW crc \in Register, NEW x, NEW y
  PROVE  UpdateCrc16(UpdateCrc16(crc, x), y) = {} <=>
           \A k \in 0 .. 7 : (Bit(x, k) <=> k + 8 \in crc) /\ (Bit(y, k) <=> k \in crc)
<1>1. PICK mid \in Register : mid = UpdateCrc16(crc, x)
  BY UpdateCrc16Type
<1>2. PICK last \in Register : last = UpdateCrc16(mid, y)
  BY <1>1, UpdateCrc16Type
<1>3. ASSUME last = {}
      PROVE  \A k \in 0 .. 7 : (Bit(x, k) <=> k + 8 \in crc) /\ (Bit(y, k) <=> k \in crc)
  <2>1. mid \subseteq 8 .. 15 /\ \A k \in 0 .. 7 : Bit(y, k) <=> k + 8 \in mid
    <3>1. UpdateCrc16(mid, y) \subseteq 8 + 8 .. 15
      BY <1>2, <1>3
    <3> QED BY <1>1, <3>1, ByteClears
  <2>2. \A k \in 0 .. 7 : Bit(x, k) <=> k + 8 \in crc
    <3>1. UpdateCrc16(crc, x) \subseteq 0 + 8 .. 15
      BY <1>1, <2>1
    <3> QED BY <3>1, ByteClears
  <2>3. \A k \in 0 .. 15 : k \in mid <=> k - 8 \in crc
    BY <1>1, <2>2, ByteShifts
  <2>4. \A k \in 0 .. 7 : k + 8 \in 0 .. 15 /\ (k + 8) - 8 = k
    OBVIOUS
  <2>5. \A k \in 0 .. 7 : k + 8 \in mid <=> k \in crc
    BY <2>3, <2>4
  <2> QED BY <2>1, <2>2, <2>5
<1>4. ASSUME \A k \in 0 .. 7 : (Bit(x, k) <=> k + 8 \in crc) /\ (Bit(y, k) <=> k \in crc)
      PROVE  last = {}
  <2>1. \A k \in 0 .. 15 : k \in mid <=> k - 8 \in crc
    BY <1>1, <1>4, ByteShifts
  <2>2. \A k \in 0 .. 7 : k + 8 \in 0 .. 15 /\ (k + 8) - 8 = k
    OBVIOUS
  <2>3. \A k \in 0 .. 7 : Bit(y, k) <=> k + 8 \in mid
    BY <1>4, <2>1, <2>2
  <2>4. \A k \in 0 .. 15 : k \in last <=> k - 8 \in mid
    BY <1>1, <1>2, <2>3, ByteShifts
  <2>5. ASSUME NEW k \in 0 .. 15 PROVE k \notin last
    <3>1. CASE k - 8 \in 0 .. 7
      <4>1. k - 8 \in 0 .. 15 /\ (k - 8) - 8 \notin 0 .. 15
        BY <3>1
      <4> QED BY <2>1, <2>4, <4>1 DEF Register
    <3>2. CASE k - 8 \notin 0 .. 7
      <4>1. k - 8 \notin 0 .. 15
        BY <3>2
      <4> QED BY <2>4, <4>1 DEF Register
    <3> QED BY <3>1, <3>2
  <2> QED BY <2>5 DEF Register
<1> QED BY <1>1, <1>2, <1>3, <1>4

\* A byte has the bits it is made of,
LEMMA ByteIs ==
  ASSUME NEW bits
  PROVE  Byte(bits) \in 0 .. 255 /\ \A k \in 0 .. 7 : Bit(Byte(bits), k) <=> k \in bits
<1>1. /\ Value(bits, 7) = IF 7 \in bits THEN 128 ELSE 0
      /\ Value(bits, 6) = IF 6 \in bits THEN 64 ELSE 0
      /\ Value(bits, 5) = IF 5 \in bits THEN 32 ELSE 0
      /\ Value(bits, 4) = IF 4 \in bits THEN 16 ELSE 0
      /\ Value(bits, 3) = IF 3 \in bits THEN 8 ELSE 0
      /\ Value(bits, 2) = IF 2 \in bits THEN 4 ELSE 0
      /\ Value(bits, 1) = IF 1 \in bits THEN 2 ELSE 0
      /\ Value(bits, 0) = IF 0 \in bits THEN 1 ELSE 0
  BY DEF Value
<1>2. PICK n \in 0 .. 255 : n = Byte(bits)
  <2>1. Byte(bits) \in 0 .. 255
    BY <1>1 DEF Byte
  <2> QED BY <2>1
<1>3. n = (IF 7 \in bits THEN 128 ELSE 0) + (IF 6 \in bits THEN 64 ELSE 0)
        + (IF 5 \in bits THEN 32 ELSE 0) + (IF 4 \in bits THEN 16 ELSE 0)
        + (IF 3 \in bits THEN 8 ELSE 0) + (IF 2 \in bits THEN 4 ELSE 0)
        + (IF 1 \in bits THEN 2 ELSE 0) + (IF 0 \in bits THEN 1 ELSE 0)
  BY <1>1, <1>2 DEF Byte
<1>4. /\ (n \div 128) % 2 = 1 <=> 7 \in bits
      /\ (n \div 64) % 2 = 1 <=> 6 \in bits
      /\ (n \div 32) % 2 = 1 <=> 5 \in bits
      /\ (n \div 16) % 2 = 1 <=> 4 \in bits
      /\ (n \div 8) % 2 = 1 <=> 3 \in bits
      /\ (n \div 4) % 2 = 1 <=> 2 \in bits
      /\ (n \div 2) % 2 = 1 <=> 1 \in bits
      /\ (n \div 1) % 2 = 1 <=> 0 \in bits
  BY <1>3
<1>5. /\ Bit(n, 7) <=> 7 \in bits
      /\ Bit(n, 6) <=> 6 \in bits
      /\ Bit(n, 5) <=> 5 \in bits
      /\ Bit(n, 4) <=> 4 \in bits
      /\ Bit(n, 3) <=> 3 \in bits
      /\ Bit(n, 2) <=> 2 \in bits
      /\ Bit(n, 1) <=> 1 \in bits
      /\ Bit(n, 0) <=> 0 \in bits
  BY <1>4 DEF Bit
<1>6. \A k \in 0 .. 7 : k \in {0, 1, 2, 3, 4, 5, 6, 7}
  OBVIOUS
<1>7. \A k \in 0 .. 7 : Bit(n, k) <=> k \in bits
  BY <1>5, <1>6
<1> QED BY <1>2, <1>7

\* and no other byte has the same ones.
LEMMA ByteUnique ==
  ASSUME NEW n \in 0 .. 255, NEW m \in 0 .. 255, \A k \in 0 .. 7 : Bit(n, k) <=> Bit(m, k)
  PROVE  n = m
<1>1. ASSUME NEW a \in Nat, NEW b \in Nat, a \div 2 = b \div 2, a % 2 = 1 <=> b % 2 = 1
      PROVE  a = b
  <2>1. a = 2 * (a \div 2) + (a % 2) /\ a % 2 \in {0, 1}
    OBVIOUS
  <2>2. b = 2 * (b \div 2) + (b % 2) /\ b % 2 \in {0, 1}
    OBVIOUS
  <2> QED BY <1>1, <2>1, <2>2
<1>2. ASSUME NEW k \in 0 .. 7, NEW d \in Nat \ {0}, 2 ^ k = d, n \div (2 * d) = m \div (2 * d)
      PROVE  n \div d = m \div d
  <2>1. PICK a \in Nat, b \in Nat : a = n \div d /\ b = m \div d
    OBVIOUS
  <2>2. a \div 2 = n \div (2 * d) /\ b \div 2 = m \div (2 * d)
    BY <2>1
  <2>3. Bit(n, k) <=> Bit(m, k)
    OBVIOUS
  <2> QED BY <1>1, <1>2, <2>1, <2>2, <2>3 DEF Bit
<1>3. /\ 2 ^ 7 = 128 /\ 2 ^ 6 = 64 /\ 2 ^ 5 = 32 /\ 2 ^ 4 = 16
      /\ 2 ^ 3 = 8 /\ 2 ^ 2 = 4 /\ 2 ^ 1 = 2 /\ 2 ^ 0 = 1
  OBVIOUS
<1>4. n \div 16 = m \div 16
  <2>1. n \div 256 = 0 /\ m \div 256 = 0
    OBVIOUS
  <2>2. n \div 128 = m \div 128
    BY <1>2, <1>3, <2>1
  <2>3. n \div 64 = m \div 64
    BY <1>2, <1>3, <2>2
  <2>4. n \div 32 = m \div 32
    BY <1>2, <1>3, <2>3
  <2> QED BY <1>2, <1>3, <2>4
<1>5. n \div 1 = m \div 1
  <2>1. n \div 8 = m \div 8
    BY <1>2, <1>3, <1>4
  <2>2. n \div 4 = m \div 4
    BY <1>2, <1>3, <2>1
  <2>3. n \div 2 = m \div 2
    BY <1>2, <1>3, <2>2
  <2> QED BY <1>2, <1>3, <2>3
<1> QED BY <1>5

\* The CRC of two more bytes.
LEMMA CrcOfMore ==
  ASSUME NEW crc \in Register, NEW body \in Seq(0 .. 255), NEW x, NEW y
  PROVE  CrcOf(crc, body \o <<x, y>>) = UpdateCrc16(UpdateCrc16(CrcOf(crc, body), x), y)
<1>1. PICK N \in Nat : N = Len(body)
  BY LenProperties
<1>2. PICK bytes : bytes = body \o <<x, y>>
  OBVIOUS
<1>3. /\ N + 2 = Len(bytes) /\ bytes[N + 1] = x /\ bytes[N + 2] = y
      /\ \A i \in 1 .. N : bytes[i] = body[i]
  BY <1>1, <1>2
<1>4. PICK b : /\ b \in [0 .. N -> Register] /\ b[0] = crc
               /\ \A i \in 1 .. N : b[i] = UpdateCrc16(b[i - 1], body[i])
               /\ CrcOf(crc, body) = b[N]
  <2>1. PICK b : Registers(b, crc, body, N) /\ CrcOf(crc, body) = b[N]
    BY <1>1, CrcOfIs
  <2> QED BY <2>1 DEF Registers
<1>5. PICK a : /\ a \in [0 .. N + 2 -> Register] /\ a[0] = crc
               /\ \A i \in 1 .. N + 2 : a[i] = UpdateCrc16(a[i - 1], bytes[i])
               /\ CrcOf(crc, bytes) = a[N + 2]
  <2>1. PICK L \in Nat : L = N + 2 /\ L = Len(bytes)
    BY <1>1, <1>3
  <2>2. PICK a : Registers(a, crc, bytes, L) /\ CrcOf(crc, bytes) = a[L]
    BY <2>1, CrcOfIs
  <2> QED BY <2>1, <2>2 DEF Registers
<1> DEFINE M == {i \in 0 .. N : a[i] = b[i]}
<1>6. 0 \in M
  BY <1>1, <1>4, <1>5
<1>7. ASSUME NEW i \in 0 .. N, i # N, i \in M PROVE i + 1 \in M
  <2>1. PICK j \in 1 .. N : j = i + 1 /\ j - 1 = i /\ j \in 1 .. N + 2
    BY <1>1, <1>7
  <2>2. a[j] = UpdateCrc16(a[j - 1], bytes[j]) /\ b[j] = UpdateCrc16(b[j - 1], body[j])
    BY <1>4, <1>5, <2>1
  <2>3. a[j] = b[j]
    BY <1>3, <1>7, <2>1, <2>2
  <2>4. j \in 0 .. N
    BY <1>1, <2>1
  <2> QED BY <2>1, <2>3, <2>4
<1>8. a[N] = b[N]
  <2>1. \A i \in 0 .. N : i \in M
    <3> HIDE DEF M
    <3> QED BY <1>1, <1>6, <1>7, UpTo
  <2>2. N \in M
    BY <1>1, <2>1
  <2> QED BY <2>2
<1>9. N + 1 \in 1 .. N + 2 /\ (N + 1) - 1 = N /\ N + 2 \in 1 .. N + 2 /\ (N + 2) - 1 = N + 1
  BY <1>1
<1>10. a[N + 1] = UpdateCrc16(a[N], x) /\ a[N + 2] = UpdateCrc16(a[N + 1], y)
  BY <1>3, <1>5, <1>9
<1> QED BY <1>2, <1>4, <1>5, <1>8, <1>10

\* The CRC of a sequence is 16 bits.
LEMMA CrcOfType ==
  ASSUME NEW body \in Seq(0 .. 255)
  PROVE  CrcOf(CRC_INIT, body) \in Register
<1>1. PICK N \in Nat : N = Len(body)
  BY LenProperties
<1>2. CRC_INIT \in Register
  BY DEF CRC_INIT, Register
<1>3. PICK b : Registers(b, CRC_INIT, body, N) /\ CrcOf(CRC_INIT, body) = b[N]
  BY <1>1, <1>2, CrcOfIs
<1> QED BY <1>1, <1>3 DEF Registers

\* opl_read() finds a frame good if and only if its last two bytes are the
\* remainder the ones before them are divided to, for every sequence of bytes
\* (oplink_com.c:108-117, 299-305).
THEOREM CrcTestIsDivision ==
  ASSUME NEW body \in Seq(0 .. 255), NEW x \in 0 .. 255, NEW y \in 0 .. 255
  PROVE  CrcOk(body \o <<x, y>>) <=> <<x, y>> = CrcBytes(ReferenceCrc(body))
<1>1. PICK crc \in Register : crc = CrcOf(CRC_INIT, body) /\ crc = ReferenceCrc(body)
  BY CrcOfType, CrcIsDivision
<1>2. PICK high : high = {k \in 0 .. 7 : k + 8 \in crc}
  OBVIOUS
<1>3. CrcBytes(ReferenceCrc(body)) = <<Byte(high), Byte(crc)>>
  BY <1>1, <1>2 DEF CrcBytes
<1>4. /\ Byte(high) \in 0 .. 255 /\ \A k \in 0 .. 7 : Bit(Byte(high), k) <=> k + 8 \in crc
      /\ Byte(crc) \in 0 .. 255 /\ \A k \in 0 .. 7 : Bit(Byte(crc), k) <=> k \in crc
  BY <1>2, ByteIs
<1>5. CrcOf(CRC_INIT, body \o <<x, y>>) = UpdateCrc16(UpdateCrc16(crc, x), y)
  <2>1. CRC_INIT \in Register
    BY DEF CRC_INIT, Register
  <2>2. CrcOf(CRC_INIT, body \o <<x, y>>) = UpdateCrc16(UpdateCrc16(CrcOf(CRC_INIT, body), x), y)
    BY <2>1, CrcOfMore
  <2> QED BY <1>1, <2>2
<1>6. CrcOf(CRC_INIT, body \o <<x, y>>) = {} <=>
        \A k \in 0 .. 7 : (Bit(x, k) <=> k + 8 \in crc) /\ (Bit(y, k) <=> k \in crc)
  BY <1>5, OwnCrcClears
<1>7. ASSUME \A k \in 0 .. 7 : (Bit(x, k) <=> k + 8 \in crc) /\ (Bit(y, k) <=> k \in crc)
      PROVE  x = Byte(high) /\ y = Byte(crc)
  <2>1. \A k \in 0 .. 7 : Bit(x, k) <=> Bit(Byte(high), k)
    BY <1>4, <1>7
  <2>2. \A k \in 0 .. 7 : Bit(y, k) <=> Bit(Byte(crc), k)
    BY <1>4, <1>7
  <2>3. PICK h \in 0 .. 255, l \in 0 .. 255 : h = Byte(high) /\ l = Byte(crc)
    BY <1>4
  <2> QED BY <2>1, <2>2, <2>3, ByteUnique
<1>8. x = Byte(high) /\ y = Byte(crc) =>
        \A k \in 0 .. 7 : (Bit(x, k) <=> k + 8 \in crc) /\ (Bit(y, k) <=> k \in crc)
  BY <1>4
<1>9. <<x, y>> = <<Byte(high), Byte(crc)>> <=> x = Byte(high) /\ y = Byte(crc)
  OBVIOUS
<1> QED BY <1>3, <1>6, <1>7, <1>8, <1>9 DEF CrcOk
-----------------------------------------------------------------------------
(* An altered byte *)

\* Two registers that agree in their lowest bits after a bit agreed before it, in
\* one bit less, and on whether to add the polynomial.
LEMMA BitTells ==
  ASSUME NEW c \in Register, NEW d \in Register, NEW a \in BOOLEAN, NEW b \in BOOLEAN,
         NEW m \in 0 .. 15,
         \A k \in 0 .. m : k \in UpdateBit(c, a) <=> k \in UpdateBit(d, b)
  PROVE  /\ (15 \in c <=> a) <=> (15 \in d <=> b)
         /\ \A k \in 0 .. m - 1 : k \in c <=> k \in d
<1>1. \A k \in 0 .. 15 : /\ k \in Shifted(c, 16) <=> k - 1 \in c
                         /\ k \in Shifted(d, 16) <=> k - 1 \in d
  BY DEF Shifted, Register
<1>2. 0 \notin Shifted(c, 16) /\ 0 \notin Shifted(d, 16)
  BY <1>1 DEF Register
<1>3. /\ 0 \in UpdateBit(c, a) <=> ~(15 \in c <=> a)
      /\ 0 \in UpdateBit(d, b) <=> ~(15 \in d <=> b)
  BY <1>2 DEF UpdateBit, Xor, SymDiff, CRC_POLY
<1>4. (15 \in c <=> a) <=> (15 \in d <=> b)
  BY <1>3
<1>5. ASSUME NEW k \in 0 .. m - 1 PROVE k \in c <=> k \in d
  <2>1. PICK j \in 0 .. 15 : j = k + 1 /\ j - 1 = k /\ j \in 0 .. m
    OBVIOUS
  <2>2. j \in UpdateBit(c, a) <=> j \in UpdateBit(d, b)
    BY <2>1
  <2>3. j \in UpdateBit(c, a) <=> IF (15 \in c <=> a) \/ j \notin CRC_POLY
                                 THEN j \in Shifted(c, 16) ELSE j \notin Shifted(c, 16)
    BY DEF UpdateBit, Xor, SymDiff
  <2>4. j \in UpdateBit(d, b) <=> IF (15 \in d <=> b) \/ j \notin CRC_POLY
                                 THEN j \in Shifted(d, 16) ELSE j \notin Shifted(d, 16)
    BY DEF UpdateBit, Xor, SymDiff
  <2>5. j \in Shifted(c, 16) <=> j \in Shifted(d, 16)
    BY <1>4, <2>2, <2>3, <2>4
  <2> QED BY <1>1, <2>1, <2>5
<1> QED BY <1>4, <1>5

Octet == 0 .. 255

\* A byte makes different registers of different ones, and different bytes make
\* different registers of the same one.
LEMMA ByteTells ==
  ASSUME NEW c \in Register, NEW d \in Register, NEW x \in Octet, NEW y \in Octet,
         c = d \/ x = y, NEW last, UpdateCrc16(c, x) = last, UpdateCrc16(d, y) = last
  PROVE  c = d /\ x = y
<1>1. PICK g : /\ g \in [0 .. 8 -> Register] /\ g[0] = c
               /\ \A i \in 1 .. 8 : g[i] = UpdateBit(g[i - 1], Bit(x, 8 - i))
               /\ g[8] = last
  <2>1. PICK g : Shifts(g, c, x) /\ UpdateCrc16(c, x) = g[8]
    BY UpdateCrc16Is
  <2> QED BY <2>1 DEF Shifts
<1>2. PICK h : /\ h \in [0 .. 8 -> Register] /\ h[0] = d
               /\ \A i \in 1 .. 8 : h[i] = UpdateBit(h[i - 1], Bit(y, 8 - i))
               /\ h[8] = last
  <2>1. PICK h : Shifts(h, d, y) /\ UpdateCrc16(d, y) = h[8]
    BY UpdateCrc16Is
  <2> QED BY <2>1 DEF Shifts
<1>3. ASSUME NEW i \in 1 .. 8, NEW m \in 0 .. 15, \A k \in 0 .. m : k \in g[i] <=> k \in h[i]
      PROVE  /\ (15 \in g[i - 1] <=> Bit(x, 8 - i)) <=> (15 \in h[i - 1] <=> Bit(y, 8 - i))
             /\ \A k \in 0 .. m - 1 : k \in g[i - 1] <=> k \in h[i - 1]
  <2>1. PICK a \in BOOLEAN, b \in BOOLEAN : a = Bit(x, 8 - i) /\ b = Bit(y, 8 - i)
    BY DEF Bit
  <2>2. i - 1 \in 0 .. 8
    OBVIOUS
  <2>3. PICK p \in Register, q \in Register : p = g[i - 1] /\ q = h[i - 1]
    BY <1>1, <1>2, <2>2
  <2>4. g[i] = UpdateBit(p, a) /\ h[i] = UpdateBit(q, b)
    BY <1>1, <1>2, <2>1, <2>3
  <2>5. \A k \in 0 .. m : k \in UpdateBit(p, a) <=> k \in UpdateBit(q, b)
    BY <1>3, <2>4
  <2>6. /\ (15 \in p <=> a) <=> (15 \in q <=> b)
        /\ \A k \in 0 .. m - 1 : k \in p <=> k \in q
    BY <2>5, BitTells
  <2> QED BY <2>1, <2>3, <2>6
\* From the last bit back,
<1> DEFINE M == {e \in 0 .. 8 : \A k \in 0 .. 15 - e : k \in g[8 - e] <=> k \in h[8 - e]}
<1>4. 0 \in M
  BY <1>1, <1>2
<1>5. ASSUME NEW e \in 0 .. 8, e # 8, e \in M PROVE e + 1 \in M
  <2>1. PICK i \in 1 .. 8 : i = 8 - e /\ i - 1 = 8 - (e + 1)
    BY <1>5
  <2>2. PICK m \in 0 .. 15 : m = 15 - e /\ m - 1 = 15 - (e + 1)
    BY <1>5
  <2>3. \A k \in 0 .. m - 1 : k \in g[i - 1] <=> k \in h[i - 1]
    BY <1>3, <1>5, <2>1, <2>2
  <2> QED BY <1>5, <2>1, <2>2, <2>3
<1>6. \A e \in 0 .. 8 : e \in M
  <2> HIDE DEF M
  <2> QED BY <1>4, <1>5, UpTo
<1>7. ASSUME NEW i \in 1 .. 8
      PROVE  (15 \in g[i - 1] <=> Bit(x, 8 - i)) <=> (15 \in h[i - 1] <=> Bit(y, 8 - i))
  <2>1. PICK e \in 0 .. 8 : e = 8 - i /\ 8 - e = i
    OBVIOUS
  <2>2. PICK m \in 0 .. 15 : m = 15 - e
    OBVIOUS
  <2>3. \A k \in 0 .. m : k \in g[i] <=> k \in h[i]
    BY <1>6, <2>1, <2>2
  <2> QED BY <1>3, <2>3
\* and if it is the same byte, to equal registers,
<1>8. ASSUME x = y PROVE c = d
  <2> DEFINE L == {e \in 0 .. 8 : g[8 - e] = h[8 - e]}
  <2>1. 0 \in L
    BY <1>1, <1>2
  <2>2. ASSUME NEW e \in 0 .. 8, e # 8, e \in L PROVE e + 1 \in L
    <3>1. PICK i \in 1 .. 8 : i = 8 - e /\ i - 1 = 8 - (e + 1) /\ i - 1 \in 0 .. 8
      BY <2>2
    <3>2. \A k \in 0 .. 15 : k \in g[i] <=> k \in h[i]
      BY <2>2, <3>1
    <3>3. \A k \in 0 .. 14 : k \in g[i - 1] <=> k \in h[i - 1]
      <4>1. 15 \in 0 .. 15 /\ 15 - 1 = 14
        OBVIOUS
      <4> QED BY <1>3, <3>2, <4>1
    <3>4. 15 \in g[i - 1] <=> 15 \in h[i - 1]
      <4>1. PICK a \in BOOLEAN : a = Bit(x, 8 - i) /\ a = Bit(y, 8 - i)
        BY <1>8 DEF Bit
      <4> QED BY <1>7, <4>1
    <3>5. g[i - 1] \in Register /\ h[i - 1] \in Register
      BY <1>1, <1>2, <3>1
    <3>6. \A k \in 0 .. 15 : k = 15 \/ k \in 0 .. 14
      OBVIOUS
    <3>7. g[i - 1] = h[i - 1]
      BY <3>3, <3>4, <3>5, <3>6 DEF Register
    <3> QED BY <2>2, <3>1, <3>7
  <2>3. \A e \in 0 .. 8 : e \in L
    <3> HIDE DEF L
    <3> QED BY <2>1, <2>2, UpTo
  <2>4. 8 \in L /\ 8 - 8 = 0
    BY <2>3
  <2> QED BY <1>1, <1>2, <2>4
\* and if it is the same register, from the first bit on to equal bytes.
<1>9. ASSUME c = d PROVE x = y
  <2>1. ASSUME NEW i \in 1 .. 8, g[i - 1] = h[i - 1] PROVE (Bit(x, 8 - i) <=> Bit(y, 8 - i)) /\ g[i] = h[i]
    <3>1. PICK a \in BOOLEAN, b \in BOOLEAN : a = Bit(x, 8 - i) /\ b = Bit(y, 8 - i)
      BY DEF Bit
    <3>2. a = b
      BY <1>7, <2>1, <3>1
    <3> QED BY <1>1, <1>2, <2>1, <3>1, <3>2
  <2> DEFINE L == {i \in 0 .. 8 : g[i] = h[i]}
  <2>2. 0 \in L
    BY <1>1, <1>2, <1>9
  <2>3. ASSUME NEW i \in 0 .. 8, i # 8, i \in L PROVE i + 1 \in L
    <3>1. i + 1 \in 1 .. 8 /\ (i + 1) - 1 = i
      BY <2>3
    <3> QED BY <2>1, <2>3, <3>1
  <2>4. \A i \in 0 .. 8 : i \in L
    <3> HIDE DEF L
    <3> QED BY <2>2, <2>3, UpTo
  <2>5. ASSUME NEW k \in 0 .. 7 PROVE Bit(x, k) <=> Bit(y, k)
    <3>1. PICK i \in 1 .. 8 : 8 - i = k /\ i - 1 \in 0 .. 8
      <4>1. 8 - k \in 1 .. 8 /\ 8 - (8 - k) = k /\ (8 - k) - 1 \in 0 .. 8
        OBVIOUS
      <4> QED BY <4>1
    <3>2. g[i - 1] = h[i - 1]
      BY <2>4, <3>1
    <3> QED BY <2>1, <3>1, <3>2
  <2>6. x \in 0 .. 255 /\ y \in 0 .. 255
    BY DEF Octet
  <2> QED BY <2>5, <2>6, ByteUnique
<1> QED BY <1>8, <1>9

\* Byte sequences that differ in one byte have different CRCs.
LEMMA OneByteTells ==
  ASSUME NEW a \in Seq(0 .. 255), NEW b \in Seq(0 .. 255), Len(a) = Len(b),
         NEW n \in 1 .. Len(a), a[n] # b[n], \A i \in 1 .. Len(a) : i # n => a[i] = b[i]
  PROVE  CrcOf(CRC_INIT, a) # CrcOf(CRC_INIT, b)
<1>1. PICK N \in Nat : N = Len(a) /\ N = Len(b)
  BY LenProperties
<1>2. CRC_INIT \in Register
  BY DEF CRC_INIT, Register
<1>3. PICK g : /\ g \in [0 .. N -> Register] /\ g[0] = CRC_INIT
               /\ \A i \in 1 .. N : g[i] = UpdateCrc16(g[i - 1], a[i])
               /\ CrcOf(CRC_INIT, a) = g[N]
  <2>1. PICK g : Registers(g, CRC_INIT, a, N) /\ CrcOf(CRC_INIT, a) = g[N]
    BY <1>1, <1>2, CrcOfIs
  <2> QED BY <2>1 DEF Registers
<1>4. PICK h : /\ h \in [0 .. N -> Register] /\ h[0] = CRC_INIT
               /\ \A i \in 1 .. N : h[i] = UpdateCrc16(h[i - 1], b[i])
               /\ CrcOf(CRC_INIT, b) = h[N]
  <2>1. PICK h : Registers(h, CRC_INIT, b, N) /\ CrcOf(CRC_INIT, b) = h[N]
    BY <1>1, <1>2, CrcOfIs
  <2> QED BY <2>1 DEF Registers
<1>5. n \in 1 .. N
  BY <1>1
\* Before that byte the registers are equal,
<1> DEFINE M == {i \in 0 .. n - 1 : g[i] = h[i]}
<1>6. 0 \in M
  BY <1>3, <1>4, <1>5
<1>7. ASSUME NEW i \in 0 .. n - 1, i # n - 1, i \in M PROVE i + 1 \in M
  <2>1. PICK j \in 1 .. N : j = i + 1 /\ j - 1 = i /\ j # n /\ j \in 0 .. n - 1
    <3>1. i + 1 \in 1 .. N /\ (i + 1) - 1 = i /\ i + 1 # n /\ i + 1 \in 0 .. n - 1
      BY <1>1, <1>5, <1>7
    <3> QED BY <3>1
  <2>2. a[j] = b[j]
    BY <1>1, <2>1
  <2>3. g[j] = UpdateCrc16(g[i], a[j]) /\ h[j] = UpdateCrc16(h[i], b[j])
    BY <1>3, <1>4, <2>1
  <2> QED BY <1>7, <2>1, <2>2, <2>3
<1>8. g[n - 1] = h[n - 1]
  <2>1. PICK m \in Nat : m = n - 1
    BY <1>1, <1>5
  <2>2. \A i \in 0 .. m : i \in M
    <3>1. 0 \in M /\ \A i \in 0 .. m : (i # m /\ i \in M) => i + 1 \in M
      BY <1>6, <1>7, <2>1
    <3> HIDE DEF M
    <3> QED BY <2>1, <3>1, UpTo
  <2> QED BY <2>1, <2>2
\* at it they part, and do not meet again.
<1>9. ASSUME NEW i \in 1 .. N, i = n \/ (a[i] = b[i] /\ g[i - 1] # h[i - 1]) PROVE g[i] # h[i]
  <2>1. i - 1 \in 0 .. N
    BY <1>1
  <2>2. PICK c \in Register, d \in Register : c = g[i - 1] /\ d = h[i - 1]
    BY <1>3, <1>4, <2>1
  <2>3. PICK x \in Octet, y \in Octet : x = a[i] /\ y = b[i]
    <3>1. i \in 1 .. Len(a) /\ i \in 1 .. Len(b)
      BY <1>1
    <3>2. a[i] \in 0 .. 255 /\ b[i] \in 0 .. 255
      BY <3>1, ElementOfSeq
    <3> QED BY <3>2 DEF Octet
  <2>4. g[i] = UpdateCrc16(c, x) /\ h[i] = UpdateCrc16(d, y)
    BY <1>3, <1>4, <2>2, <2>3
  <2>5. (c = d \/ x = y) /\ ~(c = d /\ x = y)
    BY <1>8, <1>9, <2>2, <2>3
  <2> SUFFICES ASSUME g[i] = h[i] PROVE FALSE
    OBVIOUS
  <2>6. PICK last : UpdateCrc16(c, x) = last /\ UpdateCrc16(d, y) = last
    BY <2>4
  <2>7. c = d \/ x = y
    BY <2>5
  <2> QED BY <2>5, <2>6, <2>7, ByteTells
<1> DEFINE L == {e \in 0 .. N - n : g[n + e] # h[n + e]}
<1>10. 0 \in L
  <2>1. n + 0 = n /\ 0 \in 0 .. N - n
    BY <1>1, <1>5
  <2> QED BY <1>5, <1>9, <2>1
<1>11. ASSUME NEW e \in 0 .. N - n, e # N - n, e \in L PROVE e + 1 \in L
  <2>1. PICK i \in 1 .. N : i = n + (e + 1) /\ i - 1 = n + e /\ i # n /\ e + 1 \in 0 .. N - n
    <3>1. n + (e + 1) \in 1 .. N /\ (n + (e + 1)) - 1 = n + e /\ n + (e + 1) # n /\ e + 1 \in 0 .. N - n
      BY <1>1, <1>5, <1>11
    <3> QED BY <3>1
  <2>2. a[i] = b[i] /\ g[i - 1] # h[i - 1]
    BY <1>1, <1>11, <2>1
  <2> QED BY <1>9, <2>1, <2>2
<1>12. g[N] # h[N]
  <2>1. PICK m \in Nat : m = N - n /\ n + m = N
    <3>1. N - n \in Nat /\ n + (N - n) = N
      BY <1>1, <1>5
    <3> QED BY <3>1
  <2>2. \A e \in 0 .. m : e \in L
    <3>1. 0 \in L /\ \A e \in 0 .. m : (e # m /\ e \in L) => e + 1 \in L
      BY <1>10, <1>11, <2>1
    <3> HIDE DEF L
    <3> QED BY <2>1, <3>1, UpTo
  <2>3. m \in L
    <3> HIDE DEF L
    <3> QED BY <2>1, <2>2
  <2> QED BY <2>1, <2>3
<1> QED BY <1>3, <1>4, <1>12

\* Of two sequences of bytes that differ in one byte at most one is found good:
\* opl_read() refuses every frame with one byte altered that is not the one that
\* holds its length, whichever byte it is and whatever it became
\* (crc16.c, oplink_com.c:299-305).
THEOREM OneByteRefused ==
  ASSUME NEW a \in Seq(0 .. 255), NEW b \in Seq(0 .. 255), Len(a) = Len(b),
         NEW n \in 1 .. Len(a), a[n] # b[n], \A i \in 1 .. Len(a) : i # n => a[i] = b[i],
         CrcOk(a)
  PROVE  ~CrcOk(b)
BY OneByteTells DEF CrcOk
-----------------------------------------------------------------------------
(* The invariant *)

\* The structs, and what is known of a transmission.
Index == 0 .. UART_BUFFER_SIZE - 1
WireTypes ==
  /\ uart = [on |-> uart.on, mute |-> uart.mute, addr |-> uart.addr]
  /\ rx = Fifo(rx.data_buffer, rx.iFirst, rx.iLast)
  /\ rx.iLast \in Index
  /\ line = [frame |-> line.frame, next |-> line.next, damaged |-> line.damaged,
             woken |-> line.woken]
  /\ line.next \in Nat
  /\ IF Idle THEN line.next = 1
             ELSE /\ \E f \in Sent : line.frame = FrameBytes(f)
                  /\ line.next \in 1 .. Symbols

\* The node is in a frame for it of which it has missed nothing so far:
Within == ~Idle /\ ~line.damaged /\ line.next > 3 /\ Matches(line.frame[1])
          /\ Len(line.frame) < UART_BUFFER_SIZE
Got == line.next - 3

\* the bytes that came are in the ring and counted, and nothing else is.
Slot(fifo, k) == (fifo.iFirst + k - 1) % UART_BUFFER_SIZE
Holds(fifo, bytes, n) ==
  /\ fifo.iFirst \in Index /\ Held(fifo) = n
  /\ \A k \in 1 .. n : /\ Slot(fifo, k) \in DOMAIN fifo.data_buffer
                       /\ fifo.data_buffer[Slot(fifo, k)] = bytes[k]
WithinInv ==
  Within => /\ uart.on /\ ~uart.mute
            /\ Holds(rx, line.frame, Got)
            /\ count = [len |-> IF Got = 1 THEN 255 ELSE Len(line.frame), count |-> Got]
WireInv == WireTypes /\ WithinInv
-----------------------------------------------------------------------------
(* The ring *)

\* The remainder of a number between minus the divisor and twice the divisor.
LEMMA Wraps ==
  ASSUME NEW w \in Nat \ {0}, NEW n \in Int, -w <= n, n < 2 * w
  PROVE  n % w = IF n < 0 THEN n + w ELSE IF n < w THEN n ELSE n - w
<1>1. ASSUME NEW q \in Int, NEW r \in 0 .. w - 1 PROVE (q * w + r) % w = r
  OBVIOUS
<1>2. CASE n < 0
  <2>1. n = (-1) * w + (n + w) /\ n + w \in 0 .. w - 1
    BY <1>2
  <2> QED BY <1>1, <1>2, <2>1
<1>3. CASE n >= 0 /\ n < w
  <2>1. n = 0 * w + n
    OBVIOUS
  <2> QED BY <1>1, <1>3, <2>1
<1>4. CASE n >= w
  <2>1. n = 1 * w + (n - w) /\ n - w \in 0 .. w - 1
    BY <1>4
  <2> QED BY <1>1, <1>4, <2>1
<1> QED BY <1>2, <1>3, <1>4

\* Indices as cases of linear arithmetic,
LEMMA Indices ==
  ASSUME NEW w \in Nat \ {0}, NEW i \in 0 .. w - 1, NEW l \in 0 .. w - 1
  PROVE  /\ (l - i) % w = IF i <= l THEN l - i ELSE l - i + w
         /\ (l + 1) % w = IF l = w - 1 THEN 0 ELSE l + 1
         /\ \A k \in 1 .. w : (i + k - 1) % w = IF i + k - 1 < w THEN i + k - 1 ELSE i + k - 1 - w
<1>1. (l - i) % w = IF l - i < 0 THEN l - i + w ELSE IF l - i < w THEN l - i ELSE l - i - w
  <2>1. l - i \in Int /\ -w <= l - i /\ l - i < 2 * w
    OBVIOUS
  <2> QED BY <2>1, Wraps, Zenon
<1>2. (l + 1) % w = IF l + 1 < 0 THEN l + 1 + w ELSE IF l + 1 < w THEN l + 1 ELSE l + 1 - w
  <2>1. l + 1 \in Int /\ -w <= l + 1 /\ l + 1 < 2 * w
    OBVIOUS
  <2> SUFFICES ASSUME NEW n \in Int, -w <= n, n < 2 * w
               PROVE  n % w = IF n < 0 THEN n + w ELSE IF n < w THEN n ELSE n - w
    BY <2>1
  <2> QED BY Wraps
<1>3. ASSUME NEW k \in 1 .. w
      PROVE  (i + k - 1) % w = IF i + k - 1 < 0 THEN i + k - 1 + w
                               ELSE IF i + k - 1 < w THEN i + k - 1 ELSE i + k - 1 - w
  <2>1. i + k - 1 \in Int /\ -w <= i + k - 1 /\ i + k - 1 < 2 * w
    OBVIOUS
  <2>2. PICK n \in Int : n = i + k - 1
    BY <2>1
  <2>3. n % w = IF n < 0 THEN n + w ELSE IF n < w THEN n ELSE n - w
    BY <2>1, <2>2, Wraps
  <2> QED BY <2>2, <2>3
<1>4. \A k \in 1 .. w : (i + k - 1) % w = IF i + k - 1 < w THEN i + k - 1 ELSE i + k - 1 - w
  BY <1>3
<1> QED BY <1>1, <1>2, <1>4

USE WireAssumption

\* those of the ring among them.
LEMMA RingIs ==
  ASSUME NEW i \in Index, NEW l \in Index, NEW fifo, fifo.iFirst = i, fifo.iLast = l
  PROVE  /\ Held(fifo) = IF i <= l THEN l - i ELSE l - i + UART_BUFFER_SIZE
         /\ NextIndex(l) = IF l = UART_BUFFER_SIZE - 1 THEN 0 ELSE l + 1
         /\ \A k \in 1 .. UART_BUFFER_SIZE :
              Slot(fifo, k) = IF i + k - 1 < UART_BUFFER_SIZE THEN i + k - 1
                              ELSE i + k - 1 - UART_BUFFER_SIZE
<1>1. UART_BUFFER_SIZE \in Nat \ {0} /\ i \in 0 .. UART_BUFFER_SIZE - 1 /\ l \in 0 .. UART_BUFFER_SIZE - 1
  BY DEF Index
<1>2. /\ (l - i) % UART_BUFFER_SIZE = IF i <= l THEN l - i ELSE l - i + UART_BUFFER_SIZE
      /\ (l + 1) % UART_BUFFER_SIZE = IF l = UART_BUFFER_SIZE - 1 THEN 0 ELSE l + 1
      /\ \A k \in 1 .. UART_BUFFER_SIZE :
           (i + k - 1) % UART_BUFFER_SIZE = IF i + k - 1 < UART_BUFFER_SIZE THEN i + k - 1
                                            ELSE i + k - 1 - UART_BUFFER_SIZE
  <2> HIDE WireAssumption
  <2> QED BY <1>1, Indices, Zenon
<1> QED BY <1>2, Zenon DEF Held, NextIndex, Slot

\* A byte that is pushed comes behind the others.
LEMMA PushHolds ==
  ASSUME NEW b, NEW i \in Index, NEW l \in Index,
         NEW fifo, fifo.data_buffer = b, fifo.iFirst = i, fifo.iLast = l,
         NEW bytes, NEW n \in Nat, Holds(fifo, bytes, n), n < UART_BUFFER_SIZE - 1
  PROVE  /\ ~Full(fifo)
         /\ Holds(Push(fifo, bytes[n + 1]), bytes, n + 1)
<1>1. fifo.iFirst = i /\ fifo.iLast = l /\ fifo.data_buffer = b
  OBVIOUS
<1>2. PICK next : next = NextIndex(l)
  OBVIOUS
<1>3. PICK p : p = Push(fifo, bytes[n + 1])
  OBVIOUS
<1>4. p = Fifo(Stored(fifo, bytes[n + 1]), i, next)
  BY <1>1, <1>2, <1>3, Zenon DEF Push
<1>5. p.iFirst = i /\ p.iLast = next /\ p.data_buffer = Stored(fifo, bytes[n + 1])
  BY <1>4 DEF Fifo
<1>6. /\ Held(fifo) = IF i <= l THEN l - i ELSE l - i + UART_BUFFER_SIZE
      /\ NextIndex(l) = IF l = UART_BUFFER_SIZE - 1 THEN 0 ELSE l + 1
      /\ \A k \in 1 .. UART_BUFFER_SIZE :
           Slot(fifo, k) = IF i + k - 1 < UART_BUFFER_SIZE THEN i + k - 1
                           ELSE i + k - 1 - UART_BUFFER_SIZE
  BY <1>1, RingIs
<1>7. next \in Index
  BY <1>2, <1>6 DEF Index
<1>8. Held(p) = IF i <= next THEN next - i ELSE next - i + UART_BUFFER_SIZE
  <2> HIDE WireAssumption
  <2> QED BY <1>5, <1>7, RingIs, Zenon
<1>9. Held(fifo) = n
  BY DEF Holds
<1>10. next # i /\ Held(p) = n + 1
  BY <1>2, <1>6, <1>8, <1>9 DEF Index
<1>11. \A k \in 1 .. n + 1 : Slot(p, k) = Slot(fifo, k)
  BY <1>1, <1>5 DEF Slot
<1>12. Slot(fifo, n + 1) = l /\ \A k \in 1 .. n : Slot(fifo, k) # l
  <2>1. n + 1 \in 1 .. UART_BUFFER_SIZE /\ n = IF i <= l THEN l - i ELSE l - i + UART_BUFFER_SIZE
    BY <1>6, <1>9
  <2>2. ASSUME NEW k \in 1 .. n + 1
        PROVE  Slot(fifo, k) = IF i + k - 1 < UART_BUFFER_SIZE THEN i + k - 1
                               ELSE i + k - 1 - UART_BUFFER_SIZE
    BY <1>6, <2>1
  <2>3. Slot(fifo, n + 1) = l
    BY <2>1, <2>2 DEF Index
  <2>4. ASSUME NEW k \in 1 .. n PROVE Slot(fifo, k) # l
    BY <2>1, <2>2 DEF Index
  <2> QED BY <2>3, <2>4
<1>13. ASSUME NEW k \in 1 .. n + 1
       PROVE  Slot(p, k) \in DOMAIN p.data_buffer /\ p.data_buffer[Slot(p, k)] = bytes[k]
  <2>1. p.data_buffer = [x \in {l} \cup DOMAIN b |-> IF x = l THEN bytes[n + 1] ELSE b[x]]
    BY <1>1, <1>5 DEF Stored
  <2>2. CASE k = n + 1
    BY <1>11, <1>12, <2>1, <2>2
  <2>3. CASE k # n + 1
    <3>1. /\ k \in 1 .. n /\ Slot(p, k) = Slot(fifo, k)
          /\ Slot(fifo, k) # l /\ Slot(fifo, k) \in DOMAIN b /\ b[Slot(fifo, k)] = bytes[k]
      BY <1>1, <1>11, <1>12, <2>3 DEF Holds
    <3> QED BY <2>1, <3>1
  <2> QED BY <2>2, <2>3
<1>14. p.iFirst \in Index
  BY <1>5
<1> QED BY <1>1, <1>2, <1>3, <1>10, <1>13, <1>14 DEF Holds, Full
-----------------------------------------------------------------------------
(* Frames *)

\* The length is the lower bits of the meta byte.
LEMMA MetaIs ==
  ASSUME NEW len \in 0 .. 127
  PROVE  /\ 128 * 0 + len \in 0 .. 255 /\ (128 * 0 + len) % 128 = len
         /\ 128 * 1 + len \in 0 .. 255 /\ (128 * 1 + len) % 128 = len
OBVIOUS

\* The bytes of a frame without its CRC, of which the second tells the length.
LEMMA BodyIs ==
  ASSUME NEW f \in Sent
  PROVE  \E body \in Seq(0 .. 255) :
           /\ FrameBytes(f) = body \o CrcBytes(CrcOf(CRC_INIT, body))
           /\ Len(body) >= 2 /\ Len(body) + 2 = (body[2] % 128) + OVERHEAD
<1>1. PICK data : data = f.data /\ data \in Seq(0 .. 255) /\ Len(data) \in 0 .. 127
  <2>1. PICK data : data = f.data
    OBVIOUS
  <2>2. data \in Seq(0 .. 255) /\ Len(data) < 128
    BY <2>1, WireAssumption
  <2>3. PICK len \in Nat : len = Len(data)
    BY <2>2, LenProperties
  <2>4. len < 128
    BY <2>2, <2>3, Zenon
  <2>5. len \in 0 .. 127
    BY <2>4
  <2>6. Len(data) \in 0 .. 127
    BY <2>3, <2>5
  <2> QED BY <2>1, <2>2, <2>6
<1>2. PICK addr \in 0 .. 255, meta \in 0 .. 255 :
        addr = 16 * f.src + f.dest /\ meta = 128 * f.mode + Len(data) /\ meta % 128 = Len(data)
  <2>1. PICK src \in 0 .. 15, dest \in 0 .. 15, mode \in {0, 1}, len \in 0 .. 127 :
          src = f.src /\ dest = f.dest /\ mode = f.mode /\ len = Len(data)
    BY <1>1, WireAssumption
  <2>2. 16 * src + dest \in 0 .. 255
    OBVIOUS
  <2>3. 128 * mode + len \in 0 .. 255 /\ (128 * mode + len) % 128 = len
    <3>1. /\ 128 * 0 + len \in 0 .. 255 /\ (128 * 0 + len) % 128 = len
          /\ 128 * 1 + len \in 0 .. 255 /\ (128 * 1 + len) % 128 = len
      BY MetaIs
    <3>2. mode = 0 \/ mode = 1
      OBVIOUS
    <3> QED BY <3>1, <3>2, Zenon
  <2> QED BY <2>1, <2>2, <2>3, Zenon
<1>3. PICK body : body = <<addr, meta>> \o data
  OBVIOUS
<1>4. <<addr, meta>> \in Seq(0 .. 255)
  OBVIOUS
<1>5. body \in Seq(0 .. 255) /\ Len(body) = 2 + Len(data) /\ body[2] = meta
  BY <1>1, <1>3, <1>4, ConcatProperties
<1>6. FrameBytes(f) = body \o CrcBytes(CrcOf(CRC_INIT, body))
  BY <1>1, <1>2, <1>3 DEF FrameBytes
<1>7. Len(body) >= 2 /\ Len(body) + 2 = (body[2] % 128) + OVERHEAD
  BY <1>1, <1>2, <1>5 DEF OVERHEAD
<1> QED BY <1>5, <1>6, <1>7

\* A frame has four bytes or more, and is found good.
LEMMA FrameIs ==
  ASSUME NEW f \in Sent, NEW bytes, bytes = FrameBytes(f)
  PROVE  /\ Len(bytes) \in Nat /\ Len(bytes) >= 4 /\ Len(bytes) = (bytes[2] % 128) + OVERHEAD
         /\ bytes = [k \in 1 .. Len(bytes) |-> bytes[k]]
         /\ CrcOk(bytes)
<1>1. PICK body \in Seq(0 .. 255) :
        /\ bytes = body \o CrcBytes(CrcOf(CRC_INIT, body))
        /\ Len(body) >= 2 /\ Len(body) + 2 = (body[2] % 128) + OVERHEAD
  BY BodyIs
<1>2. PICK x \in Octet, y \in Octet : CrcBytes(CrcOf(CRC_INIT, body)) = <<x, y>>
  <2>1. PICK c : c = CrcOf(CRC_INIT, body)
    OBVIOUS
  <2>2. PICK x, y : x = Byte({k \in 0 .. 7 : k + 8 \in c}) /\ y = Byte(c)
    OBVIOUS
  <2>3. x \in Octet /\ y \in Octet
    BY <2>2, ByteIs DEF Octet
  <2>4. CrcBytes(CrcOf(CRC_INIT, body)) = <<x, y>>
    BY <2>1, <2>2, Zenon DEF CrcBytes
  <2> QED BY <2>3, <2>4, Zenon
<1>3. bytes = body \o <<x, y>> /\ <<x, y>> \in Seq(0 .. 255)
  BY <1>1, <1>2 DEF Octet
<1>4. bytes \in Seq(0 .. 255) /\ Len(bytes) = Len(body) + 2 /\ bytes[2] = body[2]
  BY <1>1, <1>3, ConcatProperties
<1>5. bytes = [k \in 1 .. Len(bytes) |-> bytes[k]]
  BY <1>4
<1>6. CrcOk(bytes)
  <2>1. CrcOf(CRC_INIT, body) = ReferenceCrc(body)
    BY CrcIsDivision
  <2>2. <<x, y>> = CrcBytes(ReferenceCrc(body))
    BY <1>2, <2>1
  <2>3. x \in 0 .. 255 /\ y \in 0 .. 255
    BY DEF Octet
  <2>4. CrcOk(body \o <<x, y>>) <=> <<x, y>> = CrcBytes(ReferenceCrc(body))
    BY <2>3, CrcTestIsDivision
  <2> QED BY <1>3, <2>2, <2>4, Zenon
<1>7. Len(body) \in Nat
  BY LenProperties
<1> QED BY <1>1, <1>4, <1>5, <1>6, <1>7
-----------------------------------------------------------------------------
(* Steps *)

\* Initially the line is idle.
LEMMA InitWire == Init => WireInv
<1> SUFFICES ASSUME Init PROVE WireInv
  OBVIOUS
<1>1. /\ uart = [on |-> TRUE, mute |-> TRUE, addr |-> 0]
      /\ rx = Fifo(<< >>, 0, 0) /\ rx.data_buffer = << >> /\ rx.iFirst = 0 /\ rx.iLast = 0
      /\ line = [frame |-> << >>, next |-> 1, damaged |-> FALSE, woken |-> << >>]
  BY DEF Init, Silence, Fifo
<1>2. 0 \in Index
  BY DEF Index
<1>3. Idle
  BY <1>1 DEF Idle
<1> QED BY <1>1, <1>2, <1>3 DEF WireInv, WireTypes, WithinInv, Within

\* After a symbol has passed.
LEMMA PassesIs ==
  ASSUME WireTypes, ~Idle, NEW misses, NEW wakes, Passes(misses, wakes)
  PROVE  /\ line.next # Symbols =>
              /\ line'.frame = line.frame /\ line'.next = line.next + 1 /\ ~Idle'
              /\ line'.damaged = (line.damaged \/ misses)
         /\ line.next = Symbols => Idle'
         /\ line' = [frame |-> line'.frame, next |-> line'.next, damaged |-> line'.damaged,
                     woken |-> line'.woken]
         /\ line'.next \in Nat
         /\ IF Idle' THEN line'.next = 1
                     ELSE /\ \E f \in Sent : line'.frame = FrameBytes(f)
                          /\ line'.next \in 1 .. Symbols'
<1>1. PICK woken : line' = IF line.next = Symbols THEN Silence(woken)
                           ELSE [line EXCEPT !.next = @ + 1, !.damaged = @ \/ misses, !.woken = woken]
  BY DEF Passes
<1>2. CASE line.next = Symbols
  <2>1. line' = [frame |-> << >>, next |-> 1, damaged |-> FALSE, woken |-> woken]
    BY <1>1, <1>2 DEF Silence
  <2> QED BY <1>2, <2>1 DEF Idle
<1>3. CASE line.next # Symbols
  <2>1. line' = [frame |-> line.frame, next |-> line.next + 1, damaged |-> line.damaged \/ misses,
                 woken |-> woken]
    BY <1>1, <1>3 DEF WireTypes
  <2>2. line'.frame = line.frame /\ line'.next = line.next + 1 /\ Symbols' = Symbols /\ ~Idle'
        /\ line'.damaged = (line.damaged \/ misses)
    BY <2>1 DEF Symbols, Idle
  <2>3. line.next + 1 \in 1 .. Symbols
    <3>1. PICK f \in Sent : line.frame = FrameBytes(f)
      BY DEF WireTypes
    <3>2. Len(line.frame) \in Nat
      BY <3>1, FrameIs
    <3> QED BY <1>3, <3>2 DEF WireTypes, Symbols
  <2> QED BY <1>3, <2>1, <2>2, <2>3 DEF WireTypes
<1> QED BY <1>2, <1>3

\* What the interrupt makes of a byte: the ring it pushes it to and the counters.
Ring(byte, is_addr) == IF is_addr /\ Matches(byte) THEN Flush(rx) ELSE rx
Muted(byte, is_addr) == IF is_addr THEN ~Matches(byte) ELSE uart.mute
Completes(byte, is_addr) ==
  ~is_addr /\ Counted(byte, is_addr).count # 2 /\ Counted(byte, is_addr).count = Counted(byte, is_addr).len

\* The ring keeps its indices in range,
LEMMA RingShape ==
  ASSUME WireTypes, NEW byte, NEW is_addr
  PROVE  \E b, i : \E l \in Index : Ring(byte, is_addr) = Fifo(b, i, l)
<1>1. PICK b : rx = Fifo(b, rx.iFirst, rx.iLast)
  BY DEF WireTypes
<1>2. rx.iLast \in Index
  BY DEF WireTypes
<1>3. Flush(rx) = Fifo(<< >>, rx.iLast, rx.iLast)
  BY DEF Flush
<1>4. Ring(byte, is_addr) = rx \/ Ring(byte, is_addr) = Flush(rx)
  BY DEF Ring
<1> QED BY <1>1, <1>2, <1>3, <1>4, Zenon

\* and a byte that is neither muted nor too much is pushed and counted.
LEMMA InterruptIs ==
  ASSUME WireTypes, NEW byte, NEW is_addr, NEW undone, Interrupt(byte, is_addr, undone)
  PROVE  /\ uart' = [on |-> uart'.on, mute |-> uart'.mute, addr |-> uart'.addr]
         /\ uart'.addr = uart.addr
         /\ \E b, i : \E l \in Index : rx' = Fifo(b, i, l)
         /\ (~Muted(byte, is_addr) /\ ~Full(Ring(byte, is_addr))) =>
              /\ rx' = Push(Ring(byte, is_addr), byte)
              /\ count' = Counted(byte, is_addr)
              /\ uart'.on = ~Completes(byte, is_addr)
              /\ undone \/ uart'.mute = Completes(byte, is_addr)
              /\ Completes(byte, is_addr) => state' = "Ready"
<1>1. PICK b, i : \E l \in Index : Ring(byte, is_addr) = Fifo(b, i, l)
  BY RingShape
<1>2. PICK l \in Index : Ring(byte, is_addr) = Fifo(b, i, l)
  BY <1>1
<1>3. PICK ring : ring = Ring(byte, is_addr)
  OBVIOUS
<1>4. uart = [on |-> uart.on, mute |-> uart.mute, addr |-> uart.addr]
  BY DEF WireTypes
<1>5. CASE Muted(byte, is_addr) \/ Full(ring)
  <2>1. rx' = ring /\ \E m : uart' = [uart EXCEPT !.mute = m]
    BY <1>3, <1>5 DEF Interrupt, Ring, Muted
  <2> QED BY <1>2, <1>3, <1>4, <1>5, <2>1
<1>6. CASE ~(Muted(byte, is_addr) \/ Full(ring))
  <2>1. /\ rx' = Push(ring, byte) /\ count' = Counted(byte, is_addr)
        /\ uart' = [uart EXCEPT !.mute = IF undone THEN @ ELSE Completes(byte, is_addr),
                                !.on = ~Completes(byte, is_addr)]
        /\ state' = IF Completes(byte, is_addr) THEN "Ready" ELSE state
    BY <1>3, <1>6 DEF Interrupt, Ring, Muted, Completes
  <2>2. rx' = Fifo(Stored(ring, byte), i, NextIndex(l))
    <3>1. ring.iFirst = i /\ ring.iLast = l
      BY <1>2, <1>3 DEF Fifo
    <3> QED BY <2>1, <3>1, Zenon DEF Push
  <2>3. NextIndex(l) \in Index
    <3>1. PICK empty : empty = Fifo(<< >>, l, l)
      OBVIOUS
    <3>2. empty.iFirst = l /\ empty.iLast = l
      BY <3>1 DEF Fifo
    <3>3. NextIndex(l) = IF l = UART_BUFFER_SIZE - 1 THEN 0 ELSE l + 1
      BY <3>2, RingIs
    <3> QED BY <3>3 DEF Index
  <2>4. uart' = [on |-> ~Completes(byte, is_addr),
                 mute |-> IF undone THEN uart.mute ELSE Completes(byte, is_addr), addr |-> uart.addr]
    BY <1>4, <2>1
  <2>5. /\ uart'.on = ~Completes(byte, is_addr) /\ uart'.addr = uart.addr
        /\ uart'.mute = IF undone THEN uart.mute ELSE Completes(byte, is_addr)
    BY <2>4
  <2>6. uart' = [on |-> uart'.on, mute |-> uart'.mute, addr |-> uart'.addr]
    BY <2>4
  <2>7. \E c, m : \E n \in Index : rx' = Fifo(c, m, n)
    BY <2>2, <2>3
  <2>8. undone \/ uart'.mute = Completes(byte, is_addr)
    BY <2>5
  <2>9. Completes(byte, is_addr) => state' = "Ready"
    BY <2>1
  <2> QED BY <1>3, <2>1, <2>5, <2>6, <2>7, <2>8, <2>9, Zenon
<1> QED BY <1>3, <1>5, <1>6

\* A byte counts to 255.
LEMMA ByteCounts == ASSUME NEW n \in Nat, n < 255 PROVE (n + 1) % 256 = n + 1
<1>1. ASSUME NEW w \in Nat \ {0}, n < w - 1 PROVE (n + 1) % w = n + 1
  <2>1. n \in 0 .. w - 1
    BY <1>1
  <2>2. (n + 1) % w = IF n = w - 1 THEN 0 ELSE n + 1
    BY <2>1, Indices
  <2> QED BY <1>1, <2>2
<1>2. 256 \in Nat \ {0} /\ n < 256 - 1
  OBVIOUS
<1> QED BY <1>1, <1>2

\* Of a frame for it the node takes one byte after the other.
LEMMA TakesSymbol ==
  ASSUME WireInv, ~Idle, line.next > 2, uart.on, ~line.damaged, Matches(line.frame[1]),
         Len(line.frame) < UART_BUFFER_SIZE, NEW undone, Interrupt(Symbol, line.next = 3, undone)
  PROVE  /\ Holds(rx', line.frame, line.next - 2)
         /\ line.next = Symbols => state' = "Ready"
         /\ line.next # Symbols =>
              /\ uart'.on /\ (undone \/ ~uart'.mute)
              /\ count' = [len |-> IF line.next = 3 THEN 255 ELSE Len(line.frame),
                           count |-> line.next - 2]
<1> DEFINE is_addr == line.next = 3
<1>1. PICK frame : /\ frame = line.frame /\ Len(frame) \in Nat /\ Len(frame) >= 4
                   /\ Len(frame) = (frame[2] % 128) + OVERHEAD
                   /\ line.next \in 1 .. Len(frame) + 2
                   /\ frame = [k \in 1 .. Len(frame) |-> frame[k]]
  BY FrameIs DEF WireInv, WireTypes, Symbols
<1>2. PICK n \in Nat : line.next = n + 3 /\ n + 1 <= Len(frame)
  <2>1. ASSUME NEW len \in Nat, NEW next \in 1 .. len + 2, next > 2
        PROVE  next - 3 \in Nat /\ next = (next - 3) + 3 /\ (next - 3) + 1 <= len
    BY <2>1
  <2> QED BY <1>1, <2>1, Zenon
<1>3. /\ n < UART_BUFFER_SIZE - 1 /\ Symbol = frame[n + 1]
      /\ is_addr <=> n = 0
      /\ line.next = Symbols <=> n + 1 = Len(frame)
  <2>1. line.next - 2 = n + 1 /\ line.next # 2
    BY <1>2
  <2>2. n < UART_BUFFER_SIZE - 1
    BY <1>1, <1>2
  <2> QED BY <1>1, <1>2, <2>1, <2>2 DEF Symbol, Symbols
<1> HIDE DEF is_addr
<1>4. PICK ring : ring = Ring(Symbol, is_addr)
  OBVIOUS
<1>5. PICK b, i : \E l \in Index : ring = Fifo(b, i, l)
  BY <1>4, RingShape DEF WireInv
<1>6. PICK l \in Index : ring = Fifo(b, i, l)
  BY <1>5
<1>7. Holds(ring, frame, n) /\ ~Muted(Symbol, is_addr)
  <2>1. CASE n = 0
    <3>1. Symbol = frame[1] /\ is_addr
      BY <1>3, <2>1
    <3>2. ring = Flush(rx) /\ ~Muted(Symbol, is_addr)
      BY <1>1, <1>4, <3>1 DEF Ring, Muted
    <3>3. PICK last \in Index : ring.iFirst = last /\ ring.iLast = last
      BY <3>2 DEF Flush, Fifo, WireInv, WireTypes
    <3>4. Held(ring) = 0
      BY <3>3, RingIs DEF Index
    <3> QED BY <2>1, <3>2, <3>3, <3>4 DEF Holds
  <2>2. CASE n # 0
    <3>1. Got = n /\ line.next > 3
      BY <1>2, <2>2 DEF Got
    <3>2. Within
      BY <3>1 DEF Within
    <3>3. ~is_addr
      BY <1>3, <2>2
    <3> QED BY <1>1, <1>4, <3>1, <3>2, <3>3 DEF Ring, Muted, WireInv, WithinInv
  <2> QED BY <2>1, <2>2
<1>8. ~Full(ring) /\ Holds(Push(ring, Symbol), frame, n + 1)
  <2>1. i \in Index
    BY <1>6, <1>7 DEF Holds, Fifo
  <2>2. ring.data_buffer = b /\ ring.iFirst = i /\ ring.iLast = l
    BY <1>6 DEF Fifo
  <2> QED BY <1>3, <1>7, <2>1, <2>2, PushHolds
<1>9. /\ rx' = Push(ring, Symbol) /\ count' = Counted(Symbol, is_addr)
      /\ uart'.on = ~Completes(Symbol, is_addr)
      /\ undone \/ uart'.mute = Completes(Symbol, is_addr)
      /\ Completes(Symbol, is_addr) => state' = "Ready"
  <2>1. Interrupt(Symbol, is_addr, undone)
    BY DEF is_addr
  <2> QED BY <1>4, <1>7, <1>8, <2>1, InterruptIs DEF WireInv
<1>10. Counted(Symbol, is_addr) = [len |-> IF n = 0 THEN 255 ELSE Len(frame), count |-> n + 1]
  <2>1. CASE n = 0
    BY <1>3, <2>1 DEF Counted
  <2>2. CASE n # 0
    <3>1. Got = n /\ line.next > 3
      BY <1>2, <2>2 DEF Got
    <3>2. Within
      BY <3>1 DEF Within
    <3>3. count.count = n /\ count.len = IF n = 1 THEN 255 ELSE Len(frame)
      BY <1>1, <3>1, <3>2 DEF WireInv, WithinInv
    <3>4. (n + 1) % 256 = n + 1
      <4>1. n < UART_BUFFER_SIZE - 1
        BY <1>3
      <4>2. n < 255
        BY <4>1
      <4> QED BY <4>2, ByteCounts
    <3>5. Counted(Symbol, is_addr) = [count |-> (n + 1) % 256,
                                      len |-> IF n = 1 THEN (Symbol % 128) + OVERHEAD ELSE Len(frame)]
      BY <1>3, <2>2, <3>3 DEF Counted
    <3>6. n = 1 => Symbol = frame[2]
      BY <1>3
    <3> QED BY <1>1, <2>2, <3>4, <3>5, <3>6
  <2> QED BY <2>1, <2>2
<1>11. Completes(Symbol, is_addr) <=> n + 1 = Len(frame)
  <2>1. /\ Counted(Symbol, is_addr).count = n + 1
        /\ Counted(Symbol, is_addr).len = IF n = 0 THEN 255 ELSE Len(frame)
    BY <1>10
  <2> QED BY <1>1, <1>3, <2>1 DEF Completes
<1>12. n + 1 = line.next - 2
  BY <1>2
<1>13. Holds(rx', line.frame, line.next - 2)
  BY <1>1, <1>8, <1>9, <1>12
<1>14. count' = [len |-> IF line.next = 3 THEN 255 ELSE Len(line.frame), count |-> line.next - 2]
  BY <1>1, <1>3, <1>9, <1>10, <1>12 DEF is_addr
<1>15. (line.next = Symbols => state' = "Ready") /\ (line.next # Symbols => uart'.on /\ (undone \/ ~uart'.mute))
  BY <1>3, <1>9, <1>11
<1> QED BY <1>13, <1>14, <1>15

\* The line is what it was before but for damage.
LEMMA LineIs ==
  ASSUME WireTypes, NEW damaged, line' = [line EXCEPT !.damaged = damaged]
  PROVE  /\ line' = [frame |-> line'.frame, next |-> line'.next, damaged |-> line'.damaged,
                     woken |-> line'.woken]
         /\ line'.frame = line.frame /\ line'.next = line.next /\ line'.damaged = damaged
         /\ Idle' = Idle /\ Symbols' = Symbols
<1>1. line' = [frame |-> line.frame, next |-> line.next, damaged |-> damaged, woken |-> line.woken]
  BY DEF WireTypes
<1> QED BY <1>1 DEF Idle, Symbols

\* A step of the node that damages what is under way.
LEMMA DamageKeeps ==
  ASSUME WireInv, NEW damaged, line' = [line EXCEPT !.damaged = damaged],
         uart' = [on |-> uart'.on, mute |-> uart'.mute, addr |-> uart'.addr],
         \E b, i : \E l \in Index : rx' = Fifo(b, i, l),
         Within => damaged, ~line.damaged \/ damaged,
         uart'.addr = uart.addr \/ Idle \/ damaged
  PROVE  WireInv'
<1>1. /\ line' = [frame |-> line'.frame, next |-> line'.next, damaged |-> line'.damaged,
                  woken |-> line'.woken]
      /\ line'.frame = line.frame /\ line'.next = line.next /\ line'.damaged = damaged
      /\ Idle' = Idle /\ Symbols' = Symbols
  BY LineIs DEF WireInv
<1>2. PICK b, i : \E l \in Index : rx' = Fifo(b, i, l)
  OBVIOUS
<1>3. rx' = Fifo(rx'.data_buffer, rx'.iFirst, rx'.iLast) /\ rx'.iLast \in Index
  BY <1>2 DEF Fifo
<1>4. WireTypes'
  BY <1>1, <1>3 DEF WireInv, WireTypes
<1>5. ~Within'
  <2>1. CASE damaged
    BY <1>1, <2>1 DEF Within
  <2>2. CASE ~damaged
    BY <1>1, <2>2 DEF Within, Matches
  <2> QED BY <2>1, <2>2
<1> QED BY <1>4, <1>5 DEF WireInv, WithinInv

\* A symbol that reaches the node.
LEMMA ReachKeeps ==
  ASSUME WireInv, NEW byte, NEW undone, Reaches(byte, undone)
  PROVE  WireInv'
<1>1. ~Idle /\ line.next > 1 /\ line.next \in Nat
  BY DEF Reaches, WireInv, WireTypes
<1>2. PICK misses, wakes : Passes(misses, wakes) /\ misses = (byte # Symbol \/ ~uart.on \/ undone)
  BY DEF Reaches
<1>3. /\ line.next # Symbols =>
           /\ line'.frame = line.frame /\ line'.next = line.next + 1 /\ ~Idle'
           /\ line'.damaged = (line.damaged \/ misses)
      /\ line.next = Symbols => Idle'
      /\ line' = [frame |-> line'.frame, next |-> line'.next, damaged |-> line'.damaged,
                  woken |-> line'.woken]
      /\ line'.next \in Nat
      /\ IF Idle' THEN line'.next = 1
                  ELSE /\ \E f \in Sent : line'.frame = FrameBytes(f)
                       /\ line'.next \in 1 .. Symbols'
  BY <1>1, <1>2, PassesIs DEF WireInv
<1>4. /\ uart' = [on |-> uart'.on, mute |-> uart'.mute, addr |-> uart'.addr]
      /\ uart'.addr = uart.addr
      /\ rx' = Fifo(rx'.data_buffer, rx'.iFirst, rx'.iLast) /\ rx'.iLast \in Index
  <2>1. CASE uart.on
    <3>1. Interrupt(byte, line.next = 3, undone)
      BY <2>1 DEF Reaches
    <3>2. /\ uart' = [on |-> uart'.on, mute |-> uart'.mute, addr |-> uart'.addr]
          /\ uart'.addr = uart.addr
          /\ \E b, i : \E l \in Index : rx' = Fifo(b, i, l)
      BY <3>1, InterruptIs DEF WireInv
    <3>3. PICK b, i : \E l \in Index : rx' = Fifo(b, i, l)
      BY <3>2
    <3> QED BY <3>2, <3>3 DEF Fifo
  <2>2. CASE ~uart.on
    <3>1. uart' = uart /\ rx' = rx
      BY <2>2 DEF Reaches, node
    <3> QED BY <3>1 DEF WireInv, WireTypes
  <2> QED BY <2>1, <2>2
<1>5. WireTypes'
  BY <1>3, <1>4 DEF WireTypes
<1>6. ASSUME Within'
      PROVE  /\ uart'.on /\ ~uart'.mute
             /\ Holds(rx', line'.frame, Got')
             /\ count' = [len |-> IF Got' = 1 THEN 255 ELSE Len(line'.frame), count |-> Got']
  <2>1. line.next # Symbols
    BY <1>3, <1>6 DEF Within
  <2>2. /\ line'.frame = line.frame /\ line'.next = line.next + 1 /\ ~line.damaged /\ ~misses
    BY <1>3, <1>6, <2>1 DEF Within
  <2>3. line.next > 2 /\ Got' = line.next - 2 /\ (Got' = 1 <=> line.next = 3)
    BY <1>1, <1>6, <2>2 DEF Within, Got
  <2>4. Matches(line.frame[1]) /\ Len(line.frame) < UART_BUFFER_SIZE
    BY <1>4, <1>6, <2>2 DEF Within, Matches
  <2>5. uart.on /\ byte = Symbol /\ ~undone
    BY <1>2, <2>2
  <2>6. Interrupt(Symbol, line.next = 3, undone)
    BY <2>5 DEF Reaches
  <2>7. /\ Holds(rx', line.frame, line.next - 2)
        /\ uart'.on /\ (undone \/ ~uart'.mute)
        /\ count' = [len |-> IF line.next = 3 THEN 255 ELSE Len(line.frame), count |-> line.next - 2]
    BY <1>1, <2>1, <2>2, <2>3, <2>4, <2>5, <2>6, TakesSymbol
  <2> QED BY <2>2, <2>3, <2>5, <2>7
<1> QED BY <1>5, <1>6 DEF WireInv, WithinInv

\* A symbol the node does not get: the break, or one that is lost.
LEMMA PassKeeps ==
  ASSUME WireInv, ~Idle, NEW misses, NEW wakes, Passes(misses, wakes), UNCHANGED node,
         misses \/ line.next = 1
  PROVE  WireInv'
<1>1. /\ line.next # Symbols =>
           /\ line'.frame = line.frame /\ line'.next = line.next + 1 /\ ~Idle'
           /\ line'.damaged = (line.damaged \/ misses)
      /\ line.next = Symbols => Idle'
      /\ line' = [frame |-> line'.frame, next |-> line'.next, damaged |-> line'.damaged,
                  woken |-> line'.woken]
      /\ line'.next \in Nat
      /\ IF Idle' THEN line'.next = 1
                  ELSE /\ \E f \in Sent : line'.frame = FrameBytes(f)
                       /\ line'.next \in 1 .. Symbols'
  BY PassesIs DEF WireInv
<1>2. uart' = uart /\ rx' = rx
  BY DEF node
<1>3. WireTypes'
  BY <1>1, <1>2 DEF WireInv, WireTypes
<1>4. ~Within'
  <2>1. CASE line.next = Symbols
    BY <1>1, <2>1 DEF Within
  <2>2. CASE line.next # Symbols /\ line.next = 1
    BY <1>1, <2>2 DEF Within
  <2>3. CASE line.next # Symbols /\ misses
    BY <1>1, <2>3 DEF Within
  <2> QED BY <2>1, <2>2, <2>3
<1> QED BY <1>3, <1>4 DEF WireInv, WithinInv

\* A transmission that begins or breaks off.
LEMMA NewLineKeeps ==
  ASSUME WireInv, UNCHANGED node,
         line' = [frame |-> line'.frame, next |-> 1, damaged |-> line'.damaged, woken |-> line'.woken],
         Idle' \/ \E f \in Sent : line'.frame = FrameBytes(f)
  PROVE  WireInv'
<1>1. uart' = uart /\ rx' = rx
  BY DEF node
<1>2. line'.next = 1
  OBVIOUS
<1>3. ~Idle' => 1 \in 1 .. Symbols'
  <2> SUFFICES ASSUME ~Idle' PROVE 1 \in 1 .. Symbols'
    OBVIOUS
  <2>1. PICK f \in Sent : line'.frame = FrameBytes(f)
    OBVIOUS
  <2>2. PICK len \in Nat : len = Len(line'.frame)
    BY <2>1, FrameIs
  <2> QED BY <2>2 DEF Symbols
<1>4. WireTypes'
  BY <1>1, <1>2, <1>3 DEF WireInv, WireTypes
<1>5. ~Within'
  BY <1>2 DEF Within
<1> QED BY <1>4, <1>5 DEF WireInv, WithinInv

\* Reading from the FIFO.
LEMMA ReadShape ==
  ASSUME WireTypes, NEW n
  PROVE  \E b, i : \E l \in Index : AfterRead(rx, n) = Fifo(b, i, l)
<1>1. rx.iLast \in Index
  BY DEF WireTypes
<1>2. \E b, i : AfterRead(rx, n) = Fifo(b, i, rx.iLast)
  BY DEF AfterRead, Flush
<1> QED BY <1>1, <1>2, Zenon
-----------------------------------------------------------------------------
(* The invariant holds *)

\* WireInv is inductive.
LEMMA WireInductive == WireInv /\ [Next]_vars => WireInv'
<1> SUFFICES ASSUME WireInv, [Next]_vars PROVE WireInv'
  OBVIOUS
<1>types. uart = [on |-> uart.on, mute |-> uart.mute, addr |-> uart.addr]
  BY DEF WireInv, WireTypes
<1>on. Within => uart.on
  BY DEF WireInv, WithinInv
<1>1. ASSUME NEW f \in Sent, Starts(f) PROVE WireInv'
  <2>1. line' = [frame |-> FrameBytes(f), next |-> 1, damaged |-> line.damaged, woken |-> line.woken]
    BY <1>1 DEF Starts, WireInv, WireTypes
  <2> QED BY <1>1, <2>1, NewLineKeeps DEF Starts
<1>2. CASE Break
  BY <1>2, PassKeeps DEF Break
<1>3. CASE Arrives
  BY <1>3, ReachKeeps DEF Arrives
<1>4. CASE Lost
  BY <1>4, PassKeeps DEF Lost
<1>5. CASE Altered
  BY <1>5, ReachKeeps DEF Altered
<1>6. CASE Undone
  BY <1>6, ReachKeeps DEF Undone
<1>7. CASE BreaksOff
  BY <1>7, NewLineKeeps DEF BreaksOff, Silence, Idle
<1>8. ASSUME TakesBytes, NEW on, uart' = [on |-> on, mute |-> uart.mute, addr |-> uart.addr],
             NEW n, rx' = AfterRead(rx, n)
      PROVE  WireInv'
  <2>1. line' = [line EXCEPT !.damaged = line.damaged \/ (uart.on /\ ~Idle)]
    BY <1>8 DEF TakesBytes
  <2>2. uart' = [on |-> uart'.on, mute |-> uart'.mute, addr |-> uart'.addr] /\ uart'.addr = uart.addr
    BY <1>8
  <2>3. \E b, i : \E l \in Index : rx' = Fifo(b, i, l)
    BY <1>8, ReadShape DEF WireInv
  <2>4. Within => line.damaged \/ (uart.on /\ ~Idle)
    BY <1>on DEF Within
  <2> QED BY <2>1, <2>2, <2>3, <2>4, DamageKeeps
<1>9. CASE Drops
  <2>1. TakesBytes /\ rx' = AfterRead(rx, 1) /\ uart' = [uart EXCEPT !.on = TRUE]
    BY <1>9 DEF Drops
  <2>2. uart' = [on |-> TRUE, mute |-> uart.mute, addr |-> uart.addr]
    BY <1>types, <2>1
  <2> QED BY <1>8, <2>1, <2>2
<1>10. CASE Reads
  <2>1. TakesBytes /\ \E n : rx' = AfterRead(rx, n)
    BY <1>10 DEF Reads
  <2>2. uart' = uart \/ uart' = [uart EXCEPT !.on = TRUE]
    BY <1>10 DEF Reads
  <2>3. \E on : uart' = [on |-> on, mute |-> uart.mute, addr |-> uart.addr]
    BY <1>types, <2>2
  <2> QED BY <1>8, <2>1, <2>3
<1>11. CASE Releases
  <2>1. uart' = [on |-> TRUE, mute |-> uart.mute, addr |-> uart.addr]
    <3>1. uart' = [uart EXCEPT !.on = TRUE]
      BY <1>11 DEF Releases
    <3> QED BY <1>types, <3>1
  <2>2. rx' = rx /\ count' = count /\ line' = line
    BY <1>11 DEF Releases
  <2>3. WireTypes'
    BY <2>1, <2>2 DEF WireInv, WireTypes, Idle, Symbols
  <2>4. WithinInv'
    BY <2>1, <2>2 DEF WireInv, WithinInv, Within, Matches, Idle, Got, Holds, Held, Slot
  <2> QED BY <2>3, <2>4 DEF WireInv
<1>12. CASE SetsAddr
  <2>1. uart' = [on |-> TRUE, mute |-> uart.mute, addr |-> Addr]
    <3>1. uart' = [uart EXCEPT !.on = TRUE, !.addr = Addr]
      BY <1>12 DEF SetsAddr
    <3> QED BY <1>types, <3>1
  <2>2. rx' = rx /\ line' = [line EXCEPT !.damaged = line.damaged \/ ~Idle]
    BY <1>12 DEF SetsAddr
  <2>3. \E b, i : \E l \in Index : rx' = Fifo(b, i, l)
    BY <2>2 DEF WireInv, WireTypes
  <2>4. Within => ~Idle
    BY DEF Within
  <2> QED BY <2>1, <2>2, <2>3, <2>4, DamageKeeps
<1>13. CASE SetsDefault
  <2>1. uart' = [on |-> TRUE, mute |-> TRUE, addr |-> 0]
    BY <1>13 DEF SetsDefault
  <2>2. rx' = Fifo(<< >>, rx.iLast, rx.iLast) /\ line' = [line EXCEPT !.damaged = line.damaged \/ ~Idle]
    BY <1>13 DEF SetsDefault, Flush
  <2>3. \E b, i : \E l \in Index : rx' = Fifo(b, i, l)
    BY <2>2 DEF WireInv, WireTypes
  <2>4. Within => ~Idle
    BY DEF Within
  <2> QED BY <2>1, <2>2, <2>3, <2>4, DamageKeeps
<1>14. CASE UNCHANGED vars
  BY <1>14 DEF vars, WireInv, WireTypes, WithinInv, Within, Matches, Idle, Symbols, Got, Holds, Held, Slot
<1> QED
  BY <1>1, <1>2, <1>3, <1>4, <1>5, <1>6, <1>7, <1>9, <1>10, <1>11, <1>12, <1>13, <1>14 DEF Next

\* In every state of the program.
LEMMA WireCorrect == Spec => []WireInv
<1> QED BY InitWire, WireInductive, PTL DEF Spec

\* What the ring holds of a frame is the frame.
LEMMA HeldIsContent ==
  ASSUME NEW fifo, NEW bytes, bytes = [k \in 1 .. Len(bytes) |-> bytes[k]],
         Holds(fifo, bytes, Len(bytes))
  PROVE  Content(fifo) = bytes
<1>1. Content(fifo) = [k \in 1 .. Len(bytes) |-> fifo.data_buffer[Slot(fifo, k)]]
  BY DEF Content, Holds, Slot
<1>2. \A k \in 1 .. Len(bytes) : fifo.data_buffer[Slot(fifo, k)] = bytes[k]
  BY DEF Holds
<1>3. [k \in 1 .. Len(bytes) |-> fifo.data_buffer[Slot(fifo, k)]] = [k \in 1 .. Len(bytes) |-> bytes[k]]
  BY <1>2
<1> QED BY <1>1, <1>3

\* The lengths of what may be read of it,
LEMMA Prefixes ==
  ASSUME NEW len \in Nat, len >= 4
  PROVE  /\ 2 \in 0 .. len /\ len \in 0 .. len /\ 2 \in 1 .. 2
         /\ \A n \in 0 .. len : \A k \in 1 .. n : k <= len
OBVIOUS

\* and it is what opl_parse() and opl_read() make of the ring.
LEMMA HeldIsRead ==
  ASSUME NEW fifo, NEW bytes, NEW len \in Nat, len = Len(bytes), len >= 4,
         bytes = [k \in 1 .. len |-> bytes[k]], len = (bytes[2] % 128) + OVERHEAD,
         Holds(fifo, bytes, len)
  PROVE  Incoming(fifo) = bytes
<1>1. Content(fifo) = bytes
  BY HeldIsContent
<1>2. Held(fifo) = len
  BY DEF Holds
<1>3. ASSUME NEW n \in 0 .. len PROVE ReadBytes(fifo, n) = [k \in 1 .. n |-> bytes[k]]
  <2>1. \A k \in 1 .. n : k <= len
    BY <1>3, Prefixes, Zenon
  <2>2. ReadBytes(fifo, n) = [k \in 1 .. n |-> IF k <= len THEN bytes[k] ELSE 0]
    BY <1>1, <1>2, Zenon DEF ReadBytes
  <2> QED BY <2>1, <2>2
<1>4. 2 \in 0 .. len /\ len \in 0 .. len /\ 2 \in 1 .. 2
  BY Prefixes, Zenon
<1>5. ReadBytes(fifo, 2)[2] = bytes[2]
  <2>1. ReadBytes(fifo, 2) = [k \in 1 .. 2 |-> bytes[k]]
    BY <1>3, <1>4
  <2> QED BY <1>4, <2>1, Zenon
<1>6. ReadBytes(fifo, len) = bytes
  <2>1. ReadBytes(fifo, len) = [k \in 1 .. len |-> bytes[k]]
    BY <1>3, <1>4
  <2> QED BY <2>1, Zenon
<1> QED BY <1>5, <1>6, Zenon DEF Incoming

\* A frame for this node of which it misses nothing is complete in the ring and
\* ready when its last byte has come, and is read as it was sent and found good,
\* for every ring and every frame that fits in it: the callback's counters, left by
\* whatever came before, agree at no other byte, and the bytes of its CRC make
\* the CRC of all of them 0 (uart.c:79-94, oplink_com.c:84-117, 285-305).
THEOREM IntactArrives == Spec => IntactFrameArrives
<1>1. ASSUME WireInv, ~Idle, line.next = Symbols, Arrives, uart.on, ~line.damaged,
             Matches(line.frame[1]), Len(line.frame) < UART_BUFFER_SIZE
      PROVE  /\ state' = "Ready" /\ Content(rx') = line.frame
             /\ Incoming(rx') = line.frame /\ CrcOk(line.frame)
  <2>1. PICK frame : /\ frame = line.frame /\ Len(frame) \in Nat /\ Len(frame) >= 4
                     /\ frame = [k \in 1 .. Len(frame) |-> frame[k]]
                     /\ Len(frame) = (frame[2] % 128) + OVERHEAD /\ CrcOk(frame)
    BY <1>1, FrameIs DEF WireInv, WireTypes
  <2>2. line.next > 2 /\ line.next - 2 = Len(frame)
    BY <1>1, <2>1 DEF Symbols
  <2>3. Interrupt(Symbol, line.next = 3, FALSE)
    BY <1>1 DEF Arrives, Reaches
  <2>4. Holds(rx', line.frame, line.next - 2) /\ state' = "Ready"
    BY <1>1, <2>2, <2>3, TakesSymbol
  <2>5. Incoming(rx') = frame
    BY <2>1, <2>2, <2>4, HeldIsRead
  <2> QED BY <2>1, <2>2, <2>4, <2>5, HeldIsContent
<1>2. WireInv /\ [Next]_vars =>
        [(~Idle /\ line.next = Symbols /\ Arrives /\ uart.on /\ ~line.damaged
          /\ Matches(line.frame[1]) /\ Len(line.frame) < UART_BUFFER_SIZE) =>
           /\ state' = "Ready" /\ Content(rx') = line.frame
           /\ Incoming(rx') = line.frame /\ CrcOk(line.frame)]_vars
  BY <1>1
<1> QED BY <1>2, WireCorrect, PTL DEF Spec, IntactFrameArrives
=============================================================================
