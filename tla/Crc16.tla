------------------------------- MODULE Crc16 -------------------------------
(***************************************************************************)
(* DsmrPacketBuffer::calculate_crc16 (packet_accumulator.h), computed as   *)
(* the code does it: CRC-16 with the reflected polynomial 0xa001 and zero  *)
(* as the initial value, eight shifts for every byte.                      *)
(***************************************************************************)
EXTENDS Integers, Sequences, Bitwise, SequencesExt

Polynomial == 40961   \* 0xa001

ShiftBit(crc) == IF crc % 2 = 1 THEN (crc \div 2) ^^ Polynomial ELSE crc \div 2

AddByte(byte, crc) == FoldLeft(LAMBDA c, bit : ShiftBit(c), crc ^^ byte,
                               [bit \in 1..8 |-> bit])

calculate_crc16(packet) == FoldLeft(LAMBDA c, byte : AddByte(byte, c), 0, packet)
=============================================================================
