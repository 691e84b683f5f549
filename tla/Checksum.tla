------------------------------ MODULE Checksum ------------------------------
(***************************************************************************)
(* The checksum of crc.c over messages of bytes, which grow here a byte at *)
(* a time. A byte is the set of its bits that are 1.                       *)
(***************************************************************************)
EXTENDS Integers, Sequences

CONSTANTS
  CrcBytes,   \* bytes of messages
  MaxCrc      \* bound on their length

ASSUME ChecksumAssumption == CrcBytes \subseteq SUBSET (0 .. 7)

CRC_POLY == {0, 1, 2}
CRC_INIT == {}

Xor(a, b) == (a \ b) \cup (b \ a)

\* crc <<= 1
Doubled(crc) == {bit + 1 : bit \in crc \ {7}}

\* Mutant: the bit is tested after it was shifted out.
ShiftedLate(crc) == IF 7 \in Doubled(crc) THEN Xor(Doubled(crc), CRC_POLY) ELSE Doubled(crc)

\* One bit: what is shifted out takes the polynomial with it.
Shifted(crc) == IF 7 \in crc THEN Xor(Doubled(crc), CRC_POLY) ELSE Doubled(crc)

\* One byte: eight bits.
Taken(crc, byte) ==
  LET two(c) == Shifted(Shifted(c))
      four(c) == two(two(c))
  IN four(four(Xor(crc, byte)))

crc8_check(buffer) ==
  LET crc[n \in 0 .. Len(buffer)] == IF n = 0 THEN CRC_INIT ELSE Taken(crc[n - 1], buffer[n])
  IN crc[Len(buffer)]

VARIABLE message

ChecksumInit == message = <<>>

ChecksumNext == Len(message) < MaxCrc /\ \E b \in CrcBytes : message' = Append(message, b)

ChecksumSpec == ChecksumInit /\ [][ChecksumNext]_message

\* A message with its checksum behind it has the checksum 0, and no longer does
\* when any one of its bytes, or the checksum, is another (crc8_check).
ChecksumCloses ==
  message /= <<>> =>
  LET sealed == Append(message, crc8_check(message)) IN
  /\ crc8_check(sealed) = {}
  /\ \A k \in DOMAIN sealed, b \in CrcBytes \ {{}} :
       crc8_check([sealed EXCEPT ![k] = Xor(@, b)]) /= {}
=============================================================================
