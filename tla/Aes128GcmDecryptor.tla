------------------------- MODULE Aes128GcmDecryptor -------------------------
(***************************************************************************)
(* The interface Aes128GcmDecryptor (decryption/aes128gcm.h), as its only  *)
(* user DlmsPacketDecryptor relies on it.  The interface authenticates: it *)
(* answers true only for the bytes the meter sealed, opened with the       *)
(* meter's key.  It works in place: what it answers false to may have been *)
(* overwritten, restored or decrypted, and it may answer false for reasons *)
(* of its own.  The three backends are shown to implement this module.     *)
(***************************************************************************)
CONSTANTS Keys,
          NoKey,    \* no key is set
          Messages  \* what the caller can hand over

(* A message is a record; it is sealed_with a key, and it is intact when   *)
(* its header, ciphertext and tag are those of the meter.                  *)
VARIABLES message,   \* the bytes handed over, as they were received
          contents,  \* what has become of them: as sealed, plain, or spoiled
          key,       \* the key that is set
          answer     \* of the last call on these bytes

vars == <<message, contents, key, answer>>

Contents == {"sealed", "plain", "spoiled"}

-----------------------------------------------------------------------------
Init == /\ message \in Messages
        /\ contents = "sealed"
        /\ key = NoKey
        /\ answer = FALSE

(* The caller fills its buffer anew. *)
Receive == /\ message' \in Messages
           /\ contents' = "sealed"
           /\ answer' = FALSE
           /\ UNCHANGED key

(* Nothing tells the caller that a key has not been set. *)
set_encryption_key(k) == /\ key' \in {k, NoKey}
                         /\ UNCHANGED <<message, contents, answer>>

Opens == /\ contents = "sealed"
         /\ message.intact
         /\ key = message.sealed_with
         /\ contents' = "plain"

Fails == IF key = NoKey THEN UNCHANGED contents ELSE contents' \in Contents

decrypt_inplace == /\ \/ Opens /\ answer' = TRUE
                      \/ Fails /\ answer' = FALSE
                   /\ UNCHANGED <<message, key>>

Next == \/ Receive
        \/ \E k \in Keys : set_encryption_key(k)
        \/ decrypt_inplace

Spec == Init /\ [][Next]_vars
=============================================================================
