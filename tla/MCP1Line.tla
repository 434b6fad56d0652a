----------------------------- MODULE MCP1Line -----------------------------
(***************************************************************************)
(* Small instances of P1Line with the real CRC: telegrams shorter than the *)
(* buffer, of its length and longer.                                       *)
(***************************************************************************)
EXTENDS P1Line, Crc16

MCTelegrams == {<<47, 49, 33>>,          \* "/1!"    shorter than the buffer
                <<47, 49, 49, 33>>,      \* "/11!"   as long as the buffer
                <<47, 49, 49, 49, 33>>}  \* "/111!"  longer

MCNoiseBytes == {47, 33, 49, 52}         \* '/' '!' '1' '4'

(* Every byte a transmission or the noise can carry. *)
MCBytes == {13, 33, 47} \cup 48..57 \cup 65..70

(* Stale '!' everywhere: the worst contents the caller's memory can have. *)
MCMemory == {[i \in 0..(BufferSize - 1) |-> EndByte]}

(* The packets a buffer of four bytes can hold, with their CRCs worked out *)
(* once.                                                                   *)
MCPackets == MCTelegrams \cup {<<47, 33>>} \cup {<<47, b, 33>> : b \in MCBytes}
             \cup {<<47, b, c, 33>> : b \in MCBytes, c \in MCBytes}

CrcTable == [p \in MCPackets |-> calculate_crc16(p)]

MCCrc16(p) == CrcTable[p]
=============================================================================
