-------------------------------- MODULE Crc16 --------------------------------
(***************************************************************************)
(* update_crc16() of OPL/Core/Helpers/crc16.c: CRC-16/CCITT-FALSE. A number *)
(* is the set of its bits, or of the exponents of a polynomial over GF(2),  *)
(* so that its exclusive or is the symmetric difference.                    *)
(***************************************************************************)
EXTENDS Integers, Sequences, FiniteSetsExt

Bit(n, k) == (n \div 2 ^ k) % 2 = 1
Value(bits, k) == IF k \in bits THEN 2 ^ k ELSE 0
Byte(bits) == Value(bits, 7) + Value(bits, 6) + Value(bits, 5) + Value(bits, 4)
            + Value(bits, 3) + Value(bits, 2) + Value(bits, 1) + Value(bits, 0)
Xor(a, b) == SymDiff(a, b)
Shifted(bits, width) == {k + 1 : k \in bits} \cap 0 .. width - 1

CRC_POLY == {12, 5, 0}    \* 0x1021
CRC_INIT == 0 .. 15       \* 0xFFFF

\* update_crc16() of one bit, and of the bits of a byte from the highest one.
UpdateBit(crc, bit) ==
  IF (15 \in crc) # bit THEN Xor(Shifted(crc, 16), CRC_POLY) ELSE Shifted(crc, 16)
UpdateCrc16(crc, byte) ==
  LET after[i \in 0 .. 8] ==
        IF i = 0 THEN crc ELSE UpdateBit(after[i - 1], Bit(byte, 8 - i))
  IN  after[8]

\* opl_read_bytes(): the CRC after some bytes.
CrcOf(crc, bytes) ==
  LET after[i \in 0 .. Len(bytes)] ==
        IF i = 0 THEN crc ELSE UpdateCrc16(after[i - 1], bytes[i])
  IN  after[Len(bytes)]

\* The two bytes opl_send_bytes() ends a frame with. opl_hton16() returns its
\* argument: on a little-endian target it takes the number apart and puts it
\* together again in the same order (byte_utils.c:15-20).
CrcBytes(crc) == <<Byte({k \in 0 .. 7 : k + 8 \in crc}), Byte(crc)>>
-----------------------------------------------------------------------------
(* The reference definition: the remainder of message * x^16 divided by     *)
(* x^16 + x^12 + x^5 + 1, the first 16 bits of the message inverted.        *)

Generator == {16} \cup CRC_POLY

\* Long division: what is left of the dividend, its leading term gone n times.
Reduced(poly, lead) ==
  IF lead \in poly THEN Xor(poly, {k + lead - 16 : k \in Generator}) ELSE poly
Remainder(poly, degree) ==
  LET rest[n \in 0 .. degree - 15] ==
        IF n = 0 THEN poly ELSE Reduced(rest[n - 1], degree - n + 1)
  IN  rest[degree - 15]

Message(bytes) == {k \in 0 .. 8 * Len(bytes) - 1 : Bit(bytes[Len(bytes) - (k \div 8)], k % 8)}
ReferenceCrc(bytes) ==
  LET top == 8 * Len(bytes) + 15
      dividend == {k + 16 : k \in Message(bytes)}
  IN  Remainder(Xor(dividend, (top - 15) .. top), top)
=============================================================================
