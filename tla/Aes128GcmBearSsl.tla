-------------------------- MODULE Aes128GcmBearSsl --------------------------
(***************************************************************************)
(* Aes128GcmBearSsl (decryption/aes128gcm_bearssl.h).  br_gcm_run takes    *)
(* the ciphertext into the tag and replaces it by its exclusive or with    *)
(* the keystream of the key, before the tag is compared: a call that       *)
(* answers false has changed the bytes, and the same call once more        *)
(* changes them back.                                                      *)
(***************************************************************************)
CONSTANTS Keys, NoKey, Messages

ASSUME NoKeyAssumption == NoKey \notin Keys
ASSUME MessagesAssumption == \A m \in Messages : /\ m.sealed_with \in Keys
                                                 /\ m.intact \in BOOLEAN

VARIABLES message,      \* the bytes handed over, as they were received
          keystreams,   \* the keys whose keystream lies on the sealed bytes
          initialized,
          aes,          \* the key in the contexts aes and gcm
          answer        \* of the last call on these bytes

vars == <<message, keystreams, initialized, aes, answer>>

-----------------------------------------------------------------------------
Init == /\ message \in Messages
        /\ keystreams = {}
        /\ initialized = FALSE
        /\ aes \in Keys       \* uninitialized members
        /\ answer = FALSE

Receive == /\ message' \in Messages
           /\ keystreams' = {}
           /\ answer' = FALSE
           /\ UNCHANGED <<initialized, aes>>

set_encryption_key(k) == /\ aes' = k
                         /\ initialized' = TRUE
                         /\ UNCHANGED <<message, keystreams, answer>>

Refuse == /\ ~initialized
          /\ answer' = FALSE
          /\ UNCHANGED <<message, keystreams, initialized, aes>>

(* br_gcm_run: a keystream put on twice is gone. *)
Run == keystreams' = (keystreams \ {aes}) \cup ({aes} \ keystreams)

(* br_gcm_check_tag_trunc: the tag is that of the bytes before the run. *)
TagAgrees == message.intact /\ aes = message.sealed_with /\ keystreams = {}

DecryptUnguarded == /\ Run
                    /\ answer' = TagAgrees
                    /\ UNCHANGED <<message, initialized, aes>>
Decrypt == /\ initialized
           /\ Run
           /\ answer' = TagAgrees
           /\ UNCHANGED <<message, initialized, aes>>

decrypt_inplace == Refuse \/ Decrypt

Next == \/ Receive
        \/ \E k \in Keys : set_encryption_key(k)
        \/ decrypt_inplace

Spec == Init /\ [][Next]_vars

-----------------------------------------------------------------------------
Text == IF keystreams = {} THEN "sealed"
        ELSE IF keystreams = {message.sealed_with} THEN "plain" ELSE "spoiled"

decryptor == INSTANCE Aes128GcmDecryptor
               WITH contents <- Text,
                    key <- IF initialized THEN aes ELSE NoKey

(* The backend keeps the promise of the interface: whatever keys were      *)
(* tried on the same bytes before, it answers true only when it has just   *)
(* turned untouched sealed bytes into their plaintext.                     *)
ImplementsDecryptor == decryptor!Spec
=============================================================================
