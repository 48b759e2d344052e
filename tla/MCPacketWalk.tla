---------------------------- MODULE MCPacketWalk ----------------------------
\* PacketWalk with the checksum of the code.
EXTENDS PacketWalk

\* The vector of tools/test_packets.py: the CRC of "123456789" is 0x4b37.
ASSUME CrcVector == crc16_modbus(<<49, 50, 51, 52, 53, 54, 55, 56, 57>>) = 19255
=============================================================================
