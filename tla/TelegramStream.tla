--------------------------- MODULE TelegramStream ---------------------------
(***************************************************************************)
(* What a P1 receiver promises, said without a state machine: after every  *)
(* byte it hands out a telegram exactly when the bytes received since the  *)
(* last '/' are a complete telegram, with its CRC when CRCs are checked.   *)
(* PacketAccumulator is shown to implement this specification.             *)
(***************************************************************************)
EXTENDS Integers, Sequences

CONSTANTS Capacity,  \* length of the receiver's buffer
          Bytes,
          Crc16(_)

VARIABLES check_crc,  \* whether a CRC follows the '!'
          since,      \* the bytes received since the last '/', that one included
          out         \* the telegram handed out after the last byte, or <<>>

vars == <<check_crc, since, out>>

Slash == 47
Bang  == 33

(* The characters that print the hexadecimal digit n. *)
HexCharacters(n) == IF n < 10 THEN {48 + n} ELSE {55 + n, 87 + n}

(* The four bytes of s after position k print v, the highest digit first. *)
PrintsAt(s, k, v) == /\ v \in Nat /\ v < 65536
                     /\ s[k + 1] \in HexCharacters(v \div 4096)
                     /\ s[k + 2] \in HexCharacters((v \div 256) % 16)
                     /\ s[k + 3] \in HexCharacters((v \div 16) % 16)
                     /\ s[k + 4] \in HexCharacters(v % 16)

CrcLength == IF check_crc THEN 4 ELSE 0

(* A telegram whose CRC is checked must leave one byte of the buffer free. *)
Spare == IF check_crc THEN 1 ELSE 0

(* s is a telegram, from its '/' to its first '!', followed by its CRC.    *)
Complete(s) ==
  LET k == Len(s) - CrcLength
  IN  /\ k \in 2..(Capacity - Spare)
      /\ s[k] = Bang
      /\ \A i \in 1..(k - 1) : s[i] # Bang
      /\ check_crc => PrintsAt(s, k, Crc16(SubSeq(s, 1, k)))

Telegram(s) == SubSeq(s, 1, Len(s) - CrcLength)

Extend(s, b) == IF b = Slash THEN <<b>>
                ELSE IF s = <<>> THEN <<>> ELSE Append(s, b)

Init == /\ check_crc \in BOOLEAN
        /\ since = <<>>
        /\ out = <<>>

Receive(b) == /\ since' = Extend(since, b)
              /\ out' = IF Complete(since') THEN Telegram(since') ELSE <<>>
              /\ UNCHANGED check_crc

Next == \E b \in Bytes : Receive(b)

Spec == Init /\ [][Next]_vars
=============================================================================
