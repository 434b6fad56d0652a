-------------------------- MODULE Aes128GcmMbedTls --------------------------
(***************************************************************************)
(* Aes128GcmMbedTls (decryption/aes128gcm_mbedtls.h).  The results of Mbed *)
(* TLS reach the caller of decrypt_inplace but not that of                 *)
(* set_encryption_key: a key that could not be set is only noticed when    *)
(* nothing can be decrypted with it.                                       *)
(***************************************************************************)
CONSTANTS Keys, NoKey, Messages   \* as those of Aes128GcmBearSsl

VARIABLES message,   \* the bytes handed over, as they were received
          text,      \* what has become of them
          gcm,       \* the key in the context
          answer     \* of the last call on these bytes

vars == <<message, text, gcm, answer>>

-----------------------------------------------------------------------------
(* mbedtls_gcm_init leaves a context without a key. *)
Init == /\ message \in Messages
        /\ text = "sealed"
        /\ gcm = NoKey
        /\ answer = FALSE

Receive == /\ message' \in Messages
           /\ text' = "sealed"
           /\ answer' = FALSE
           /\ UNCHANGED gcm

(* mbedtls_gcm_setkey frees the old key before it fails. *)
set_encryption_key(k) == /\ gcm' \in {k, NoKey}
                         /\ UNCHANGED <<message, text, answer>>

(* mbedtls_gcm_auth_decrypt computes the tag of the bytes it is given, and *)
(* wipes what it has decrypted when the tags differ.                       *)
TagAgrees == message.intact /\ gcm = message.sealed_with /\ text = "sealed"

AuthDecryptUnchecked == /\ gcm # NoKey
                        /\ text' = IF TagAgrees THEN "plain" ELSE "wiped"
                        /\ answer' = TRUE
AuthDecrypt == /\ gcm # NoKey
               /\ text' = IF TagAgrees THEN "plain" ELSE "wiped"
               /\ answer' = TagAgrees

(* An accelerator may fail on the way; without a key nothing is written.   *)
Error == /\ text' \in IF gcm = NoKey THEN {text} ELSE {text, "half done"}
         /\ answer' = FALSE

decrypt_inplace == /\ AuthDecrypt \/ Error
                   /\ UNCHANGED <<message, gcm>>

Next == \/ Receive
        \/ \E k \in Keys : set_encryption_key(k)
        \/ decrypt_inplace

Spec == Init /\ [][Next]_vars

-----------------------------------------------------------------------------
decryptor == INSTANCE Aes128GcmDecryptor
               WITH contents <- IF text \in {"sealed", "plain"} THEN text
                                ELSE "spoiled",
                    key <- gcm

(* The backend keeps the promise of the interface: it answers true only    *)
(* when it has just turned the meter's own bytes into their plaintext,     *)
(* whichever keys could not be set and whatever was left of earlier calls. *)
ImplementsDecryptor == decryptor!Spec
=============================================================================
