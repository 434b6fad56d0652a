------------------------ MODULE DlmsPacketDecryptor ------------------------
(***************************************************************************)
(* DlmsPacketDecryptor::decrypt_inplace (dlms_packet_decryptor.h): a span  *)
(* of bytes is checked, decrypted where it lies, and the telegram in it is *)
(* returned as a view into the same bytes.  The decryptor it calls is the  *)
(* interface described in module Aes128GcmDecryptor.                       *)
(***************************************************************************)
EXTENDS DlmsPacket

CONSTANTS Keys,
          NoKey,    \* no key has been set
          Packets   \* what the line can deliver between two gaps

(* A packet is a span with the facts that decide what comes out of it: the *)
(* key it is sealed with, whether it is intact, and of its plaintext       *)
(* whether it begins with '/' and the place of its first '!' (0: none).    *)
ASSUME NoKeyAssumption == NoKey \notin Keys
ASSUME PacketsAssumption ==
  \A p \in Packets :
    /\ p.size \in Nat /\ p.size < SizeLimit
    /\ p.total_length \in Nat /\ p.total_length < 65536
    /\ p.header_bytes_consistent \in BOOLEAN
    /\ p.intact \in BOOLEAN
    /\ p.starts_with_slash \in BOOLEAN
    /\ p.bang \in Nat
    /\ WellFormed(p) => p.bang <= p.total_length - 17
    /\ p.starts_with_slash => p.bang # 1

VARIABLES packet,    \* the bytes in the caller's buffer
          contents,  \* of its encrypted part: as sealed, plain, or spoiled
          key,       \* of the decryptor
          outcome,   \* of the last call on these bytes
          returned   \* length of the view returned; 0 stands for nullopt

vars == <<packet, contents, key, outcome, returned>>

decryptor == INSTANCE Aes128GcmDecryptor
               WITH Messages <- Packets, message <- packet,
                    answer <- outcome \in {"no telegram", "telegram"}

-----------------------------------------------------------------------------
Init == /\ packet \in Packets
        /\ contents = "sealed"
        /\ key = NoKey
        /\ outcome = "no call"
        /\ returned = 0

(* The caller fills its buffer with what came next. *)
Receive == /\ packet' \in Packets
           /\ contents' = "sealed"
           /\ outcome' = "no call"
           /\ returned' = 0
           /\ UNCHANGED key

(* A backend that cannot set the key is left without one. *)
set_encryption_key(k) == /\ key' \in {k, NoKey}
                         /\ UNCHANGED <<packet, contents, outcome, returned>>

RejectPacket == /\ ~Accepts(packet)
                /\ outcome' = "nullptr"
                /\ returned' = 0
                /\ UNCHANGED contents

DecryptionFailed == /\ Accepts(packet)
                    /\ decryptor!Fails
                    /\ outcome' = "decryption failed"
                    /\ returned' = 0

Opened == Accepts(packet) /\ decryptor!Opens

HasTelegram(p) == p.starts_with_slash /\ p.bang # 0

NoTelegram == /\ Opened
              /\ ~HasTelegram(packet)
              /\ outcome' = "no telegram"
              /\ returned' = 0

(* The view ends with the first '!'. *)
ViewLength(p) == p.bang

ReturnUndecrypted == /\ Accepts(packet)
                     /\ HasTelegram(packet)
                     /\ decryptor!Fails
                     /\ outcome' = "telegram"
                     /\ returned' = ViewLength(packet)
ReturnTelegram == /\ Opened
                  /\ HasTelegram(packet)
                  /\ outcome' = "telegram"
                  /\ returned' = ViewLength(packet)

decrypt_inplace == /\ \/ RejectPacket
                      \/ DecryptionFailed
                      \/ NoTelegram
                      \/ ReturnTelegram
                   /\ UNCHANGED <<packet, key>>

Next == \/ Receive
        \/ \E k \in Keys : set_encryption_key(k)
        \/ decrypt_inplace

Spec == Init /\ [][Next]_vars

-----------------------------------------------------------------------------
(* Exactly the spans laid out as a packet are decrypted: no length field,  *)
(* however small or large, passes for one after wrapping around in size_t. *)
AcceptsExactlyPackets ==
  outcome # "no call" => (outcome # "nullptr" <=> WellFormed(packet))

(* The decryptor never gets a range that leaves the span, and front() has  *)
(* a byte to read: the telegram has ten bytes or more, it ends where the   *)
(* tag begins, the tag ends the span.                                      *)
RangesInsideSpan ==
  outcome \notin {"no call", "nullptr"} =>
    /\ encrypted_telegram(packet).last >= encrypted_telegram(packet).first + 10
    /\ encrypted_telegram(packet).last = gcm_tag(packet).first
    /\ gcm_tag(packet).last = packet.size

(* A view that is returned shows authenticated plaintext, inside the range *)
(* of the telegram: what a failed decryption left in the buffer never gets *)
(* out, however many calls are made on the same bytes.                     *)
ViewIsAuthenticated ==
  returned # 0 => /\ contents = "plain"
                  /\ packet.intact
                  /\ packet.starts_with_slash
                  /\ returned = packet.bang
                  /\ HeaderSize + returned <= encrypted_telegram(packet).last
=============================================================================
