------------------------- MODULE PacketAccumulator -------------------------
(***************************************************************************)
(* dsmr_parser::PacketAccumulator (packet_accumulator.h): the receiver of  *)
(* an unencrypted P1 port.  It is fed one byte at a time and returns, from *)
(* the call that completes a telegram, a string_view into its own buffer.  *)
(*                                                                         *)
(* process_byte is one handler; every step of the module is one whole call *)
(* of it, and the actions are the paths through it.  Logging is left out.  *)
(***************************************************************************)
EXTENDS Integers, Sequences

CONSTANTS
  BufferSize,  \* _raw_buffer.size(): the length of the caller's span
  Bytes,       \* the byte values the line can carry
  Memory,      \* what the caller's span may contain when it is handed over
  Crc16(_)     \* calculate_crc16 of a sequence of bytes (see module Crc16)

(* The buffer of the caller has room for one byte at least: the branch of  *)
(* '/' stores a byte without asking has_space again.                       *)
ASSUME BufferSizeAssumption == BufferSize \in Nat \ {0}

ASSUME BytesAssumption == Bytes \subseteq 0..255

ASSUME MemoryAssumption == Memory \subseteq [0..(BufferSize - 1) -> Bytes]

VARIABLES
  buffer,                 \* the caller's memory, DsmrPacketBuffer::_buffer
  packetSize,             \* DsmrPacketBuffer::_packetSize
  state,                  \* PacketAccumulator::_state
  crc,                    \* CrcAccumulator::crc
  amount_of_crc_nibbles,  \* CrcAccumulator::amount_of_crc_nibbles
  check_crc,              \* PacketAccumulator::_check_crc
  returned                \* length of the view the last call returned; 0 stands
                          \* for nullopt (a delivered view is never empty)

vars == <<buffer, packetSize, state, crc, amount_of_crc_nibbles, check_crc,
          returned>>

-----------------------------------------------------------------------------
WaitStart == "WaitingForPacketStartSymbol"
WaitEnd   == "WaitingForPacketEndSymbol"
WaitCrc   == "WaitingForCrc"
States    == {WaitStart, WaitEnd, WaitCrc}

StartByte == 47   \* '/'
EndByte   == 33   \* '!'

Digits     == 48..57    \* '0'..'9'
UpperHex   == 65..70    \* 'A'..'F'
LowerHex   == 97..102   \* 'a'..'f'
IsCrcCharacter(b) == b \in Digits \cup UpperHex \cup LowerHex

Nibble(b) == IF b \in Digits THEN b - 48
             ELSE IF b \in UpperHex THEN b - 65 + 10
             ELSE b - 97 + 10

(* crc is a uint16_t: the shift drops what leaves the sixteen bits. *)
AddNibble(b) == (crc * 16 + Nibble(b)) % 65536

(* The first n bytes of the buffer: what packet() and a returned view show. *)
View(n) == [i \in 1..n |-> buffer[i - 1]]

-----------------------------------------------------------------------------
(* Nothing clears the caller's memory. *)
Init == /\ buffer \in Memory
        /\ packetSize = 0
        /\ state = WaitStart
        /\ crc = 0
        /\ amount_of_crc_nibbles = 0
        /\ check_crc \in BOOLEAN
        /\ returned = 0

HasSpace == packetSize < BufferSize

(* The overflow check precedes the dispatch: a byte that meets a full      *)
(* buffer finds it emptied and the machine back at its first state.        *)
Size == IF HasSpace THEN packetSize ELSE 0
DispatchState == IF HasSpace THEN state ELSE WaitStart

AddAt(size, b) == /\ buffer' = [buffer EXCEPT ![size] = b]
                  /\ packetSize' = size + 1

UNCHANGED_crc == UNCHANGED <<crc, amount_of_crc_nibbles>>

(* '/' starts a telegram in every state, whatever was being received. *)
StartSymbolOutsideCrcOnly(b) ==
  /\ b = StartByte
  /\ IF DispatchState = WaitCrc
     THEN state' = WaitStart /\ packetSize' = Size /\ UNCHANGED buffer
     ELSE AddAt(0, b) /\ state' = WaitEnd
  /\ returned' = 0
  /\ UNCHANGED_crc
StartSymbol(b) == /\ b = StartByte
                  /\ AddAt(0, b)
                  /\ state' = WaitEnd
                  /\ returned' = 0
                  /\ UNCHANGED_crc

(* Between two telegrams every byte is ignored. *)
SkipByteIntoBuffer(b) == /\ b # StartByte
                         /\ DispatchState = WaitStart
                         /\ AddAt(Size, b)
                         /\ state' = WaitStart
                         /\ returned' = 0
                         /\ UNCHANGED_crc
SkipByteReturnsAgain(b) == /\ b # StartByte
                           /\ DispatchState = WaitStart
                           /\ packetSize' = Size
                           /\ state' = WaitStart
                           /\ returned' = returned
                           /\ UNCHANGED buffer
                           /\ UNCHANGED_crc
SkipByte(b) == /\ b # StartByte
               /\ DispatchState = WaitStart
               /\ packetSize' = Size
               /\ state' = WaitStart
               /\ returned' = 0
               /\ UNCHANGED buffer
               /\ UNCHANGED_crc

PayloadByte(b) == /\ b \notin {StartByte, EndByte}
                  /\ DispatchState = WaitEnd
                  /\ AddAt(packetSize, b)
                  /\ state' = WaitEnd
                  /\ returned' = 0
                  /\ UNCHANGED_crc

(* '!' without a CRC check: the telegram is complete and is returned. *)
EndWithoutCheck(b) == /\ b = EndByte
                      /\ DispatchState = WaitEnd
                      /\ AddAt(packetSize, b)
                      /\ state' = WaitStart
                      /\ returned' = packetSize + 1
                      /\ UNCHANGED_crc
EndWithoutCrc(b) == /\ b = EndByte
                    /\ DispatchState = WaitEnd
                    /\ ~check_crc
                    /\ AddAt(packetSize, b)
                    /\ state' = WaitStart
                    /\ returned' = packetSize + 1
                    /\ UNCHANGED_crc

(* '!' with a CRC check: a fresh CrcAccumulator waits for four nibbles. *)
EndBeforeCrcStale(b) == /\ b = EndByte
                        /\ DispatchState = WaitEnd
                        /\ check_crc
                        /\ AddAt(packetSize, b)
                        /\ state' = WaitCrc
                        /\ returned' = 0
                        /\ crc' = crc
                        /\ amount_of_crc_nibbles' =
                             IF amount_of_crc_nibbles > 4
                             THEN 4 ELSE amount_of_crc_nibbles
EndBeforeCrc(b) == /\ b = EndByte
                   /\ DispatchState = WaitEnd
                   /\ check_crc
                   /\ AddAt(packetSize, b)
                   /\ state' = WaitCrc
                   /\ returned' = 0
                   /\ crc' = 0
                   /\ amount_of_crc_nibbles' = 0

(* A character that is no hexadecimal digit abandons the telegram. *)
NotACrcCharacter(b) == /\ b # StartByte
                       /\ DispatchState = WaitCrc
                       /\ ~IsCrcCharacter(b)
                       /\ state' = WaitStart
                       /\ returned' = 0
                       /\ UNCHANGED <<buffer, packetSize>>
                       /\ UNCHANGED_crc

CrcNibble(b) == /\ DispatchState = WaitCrc
                /\ IsCrcCharacter(b)
                /\ crc' = AddNibble(b)
                /\ amount_of_crc_nibbles' = amount_of_crc_nibbles + 1
                /\ UNCHANGED <<buffer, packetSize>>

PartialCrcWithoutCount(b) == /\ CrcNibble(b)
                             /\ state' = WaitCrc
                             /\ returned' = 0
PartialCrc(b) == /\ CrcNibble(b)
                 /\ amount_of_crc_nibbles' # 4
                 /\ state' = WaitCrc
                 /\ returned' = 0

CrcUnchecked(b) == /\ CrcNibble(b)
                   /\ amount_of_crc_nibbles' = 4
                   /\ state' = WaitStart
                   /\ returned' = packetSize
CrcMatch(b) == /\ CrcNibble(b)
               /\ amount_of_crc_nibbles' = 4
               /\ crc' = Crc16(View(packetSize))
               /\ state' = WaitStart
               /\ returned' = packetSize

CrcMismatch(b) == /\ CrcNibble(b)
                  /\ amount_of_crc_nibbles' = 4
                  /\ crc' # Crc16(View(packetSize))
                  /\ state' = WaitStart
                  /\ returned' = 0

process_byte(b) == /\ \/ StartSymbol(b)
                      \/ SkipByte(b)
                      \/ PayloadByte(b)
                      \/ EndWithoutCrc(b)
                      \/ EndBeforeCrc(b)
                      \/ NotACrcCharacter(b)
                      \/ PartialCrc(b)
                      \/ CrcMatch(b)
                      \/ CrcMismatch(b)
                   /\ UNCHANGED check_crc

Next == \E b \in Bytes : process_byte(b)

Spec == Init /\ [][Next]_vars

-----------------------------------------------------------------------------
(* Types; in particular the buffer is never written past its end, since a  *)
(* write at index i leaves packetSize = i + 1.                             *)
TypeOK == /\ buffer \in [0..(BufferSize - 1) -> Bytes]
          /\ packetSize \in 0..BufferSize
          /\ state \in States
          /\ crc \in Nat /\ crc < 65536
          /\ amount_of_crc_nibbles \in 0..4
          /\ check_crc \in BOOLEAN
          /\ returned \in 0..packetSize
=============================================================================
