------------------------ MODULE MCPacketAccumulator ------------------------
(***************************************************************************)
(* A small instance of PacketAccumulatorHistory with the real CRC.  With   *)
(* these bytes "/1!" has the CRC 41E4, so every outcome is reached: a CRC  *)
(* that matches, one that does not, one cut short, an overflow.            *)
(***************************************************************************)
EXTENDS PacketAccumulatorHistory, Crc16

CONSTANT MaxSince   \* bound of Len(since): bytes fed after a '/'

MCBytes == {47, 33, 49, 52, 69}   \* '/' '!' '1' '4' 'E'

(* Stale '!' everywhere: the worst contents the caller's memory can have. *)
MCMemory == {[i \in 0..(BufferSize - 1) |-> EndByte]}

MCNext == HNext /\ Len(since') <= MaxSince

MCSpec == HInit /\ [][MCNext]_hvars
=============================================================================
