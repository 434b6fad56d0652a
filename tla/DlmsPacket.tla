----------------------------- MODULE DlmsPacket -----------------------------
(***************************************************************************)
(* DlmsPacketDecryptor::DlmsPacket (dlms_packet_decryptor.h): the checks   *)
(* that decide whether the bytes between two gaps of the line are read as  *)
(* an encrypted packet, and the places of its parts.                       *)
(*                                                                         *)
(*   header (18 bytes) | encrypted telegram | GCM tag (12 bytes)           *)
(*                                                                         *)
(* A span of bytes is a record: its size, the number in the two bytes      *)
(* total_length_big_endian, and whether the four header bytes with fixed   *)
(* values have them.  Lengths are computed in size_t, where a difference   *)
(* below zero wraps around.                                                *)
(***************************************************************************)
EXTENDS Integers

CONSTANT SizeLimit   \* 2^w of a size_t of w bits

(* C++ asks for sixteen bits at least. *)
ASSUME SizeLimitAssumption == SizeLimit \in Nat /\ SizeLimit >= 65536

-----------------------------------------------------------------------------
HeaderSize == 18   \* sizeof(header)
TagLength  == 12

(* A result of int or size_t arithmetic as a size_t. *)
SizeT(n) == IF n < 0 THEN n + SizeLimit
            ELSE IF n >= SizeLimit THEN n - SizeLimit
            ELSE n

(* The int total_length - 5 - 12 is below zero for a field under 17. *)
telegram_length(b) == SizeT(b.total_length - 5 - TagLength)

(* The shortest span whose header can be read, the tag included. *)
LongEnoughForHeader(b) == b.size >= HeaderSize
LongEnough(b) == b.size >= HeaderSize + TagLength

expected_length(b) == SizeT(HeaderSize + TagLength + telegram_length(b))

LengthAgreesAtMost(b) == expected_length(b) <= b.size
LengthAgrees(b) == expected_length(b) = b.size

(* from_bytes returns a packet, and not nullptr. *)
Accepts(b) == /\ LongEnough(b)
              /\ LengthAgrees(b)
              /\ telegram_length(b) >= 10
              /\ b.header_bytes_consistent

(* The ranges of the span that the accessors hand to the decryptor, from   *)
(* the first place to the one past the last.                               *)
encrypted_telegram(b) == [first |-> HeaderSize,
                          last |-> HeaderSize + telegram_length(b)]
gcm_tag(b) == [first |-> HeaderSize + telegram_length(b),
               last |-> HeaderSize + telegram_length(b) + TagLength]

-----------------------------------------------------------------------------
(* The layout the header promises: a telegram of n >= 10 bytes between the *)
(* header and the tag, announced as n and the 17 bytes around it.          *)
WellFormed(b) == \E n \in 10..b.size : /\ b.size = HeaderSize + n + TagLength
                                       /\ b.total_length = 5 + n + TagLength
                                       /\ b.header_bytes_consistent
=============================================================================
