-------------------------------- MODULE Crc16 --------------------------------
(***************************************************************************)
(* crc16_modbus of tools/packets.py, bit by bit.  A register of 16 bits is *)
(* the set of the bits that are one, bit 0 the lowest.                     *)
(***************************************************************************)
EXTENDS Integers, Sequences

POLY == {0, 13, 15}    \* 0xa001
INITIAL == 0 .. 15     \* 0xffff

Xor(a, b) == (a \ b) \cup (b \ a)

\* The bits of a byte.
Bits(byte) == {k \in 0 .. 7 : (byte \div <<1, 2, 4, 8, 16, 32, 64, 128>>[k + 1]) % 2 = 1}

Shift(crc) ==
    LET low == {k - 1 : k \in crc \ {0}}
    IN  IF 0 \in crc THEN Xor(low, POLY) ELSE low

\* One byte: eight shifts after the exclusive or.
Step(crc, byte) ==
    Shift(Shift(Shift(Shift(Shift(Shift(Shift(Shift(Xor(crc, Bits(byte))))))))))

\* The register after more bytes.  The comprehension has TLC evaluate the
\* register so far before the step.
After(start, bytes) ==
    LET crc[n \in 0 .. Len(bytes)] ==
          IF n = 0 THEN start
                   ELSE CHOOSE c \in {Step(sofar, bytes[n]) : sofar \in {crc[n - 1]}} : TRUE
    IN  crc[Len(bytes)]

\* In blocks of 64 bytes, which keeps TLC's recursion shallow on an image.
Block(data, n) == SubSeq(data, 64 * n - 63, IF 64 * n < Len(data) THEN 64 * n ELSE Len(data))
Register(data) ==
    LET crc[n \in 0 .. Len(data) \div 64 + 1] ==
          IF n = 0 THEN INITIAL
          ELSE CHOOSE c \in {After(sofar, Block(data, n)) : sofar \in {crc[n - 1]}} : TRUE
    IN  crc[Len(data) \div 64 + 1]

\* Eight bits of a register as a number.
ByteOf(register, from) ==
    LET bit(k) == IF from + k \in register THEN 1 ELSE 0
    IN  bit(0) + 2 * bit(1) + 4 * bit(2) + 8 * bit(3) + 16 * bit(4) + 32 * bit(5) + 64 * bit(6)
        + 128 * bit(7)

crc16_modbus(data) == ByteOf(Register(data), 0) + 256 * ByteOf(Register(data), 8)
=============================================================================
