--------------------------- MODULE Aes128GcmTfPsa ---------------------------
(***************************************************************************)
(* Aes128GcmTfPsa (decryption/aes128gcm_tfpsa.h): decryption by a PSA      *)
(* crypto service.  The service keeps the keys and the operations begun,   *)
(* both in stores of its own; every call of it may fail.  Each call of     *)
(* decrypt_inplace is a sequence of calls of the service, one per step.    *)
(***************************************************************************)
EXTENDS Naturals, Functions

CONSTANTS Keys, NoKey, Messages,
          KeyIds,      \* the identifiers the service gives to keys
          Operations,  \* how many operations the service can have begun
          Garbage      \* stands for a keystream of no key: half-written bytes

ASSUME NoKeyAssumption == NoKey \notin Keys
ASSUME GarbageAssumption == Garbage \notin Keys
ASSUME MessagesAssumption == \A m \in Messages : /\ m.sealed_with \in Keys
                                                 /\ m.intact \in BOOLEAN
ASSUME KeyIdsAssumption == KeyIds \subseteq Nat \ {0}
ASSUME OperationsAssumption == Operations \in Nat

VARIABLES alive,        \* the object is constructed
          initialized,
          key_id,
          store,        \* the service: the keys it holds, by identifier
          operations,   \* the service: operations begun and not ended
          pc,           \* the next call of decrypt_inplace; "idle" outside
          message,      \* the bytes handed over, as they were received
          keystreams,   \* the keystreams that lie on the sealed bytes
          before,       \* the keystreams when the call in progress began
          answer        \* of the last call on these bytes

object  == <<alive, initialized, key_id>>
service == <<store, operations>>
span    == <<message, keystreams, before>>
vars == <<object, service, span, pc, answer>>

Calls == {"setup", "set_nonce", "update_ad", "update", "verify"}

-----------------------------------------------------------------------------
Init == /\ alive = FALSE
        /\ initialized = FALSE
        /\ key_id = 0
        /\ store = [id \in {} |-> NoKey]
        /\ operations = 0
        /\ pc = "idle"
        /\ message \in Messages
        /\ keystreams = {}
        /\ before = {}
        /\ answer = FALSE

Idle == alive /\ pc = "idle"

Construct == /\ ~alive
             /\ alive' = TRUE
             /\ initialized' \in BOOLEAN     \* psa_crypto_init may fail
             /\ key_id' = 0
             /\ UNCHANGED <<service, span, pc, answer>>

Destroyed(id) == Restrict(store, DOMAIN store \ {id})

(* A key whose identifier is 0 is none. *)
Destruct == /\ Idle
            /\ alive' = FALSE
            /\ store' = Destroyed(key_id)
            /\ UNCHANGED <<initialized, key_id, operations, span, pc, answer>>

Receive == /\ Idle
           /\ message' \in Messages
           /\ keystreams' = {}
           /\ before' = {}
           /\ answer' = FALSE
           /\ UNCHANGED <<object, service, pc>>

-----------------------------------------------------------------------------
With(f, id, k) == [i \in DOMAIN f \cup {id} |-> IF i = id THEN k ELSE f[i]]

(* The old key is destroyed before the new one is imported; when the       *)
(* import fails no key is left.                                            *)
ImportOverOldKey(k) == \E id \in KeyIds \ DOMAIN store :
                         store' = With(store, id, k) /\ key_id' = id
Import(k) == LET rest == Destroyed(key_id)
             IN  \E id \in KeyIds \ DOMAIN rest :
                   store' = With(rest, id, k) /\ key_id' = id

ImportFailed == store' = Destroyed(key_id) /\ key_id' = 0

set_encryption_key(k) ==
  /\ Idle
  /\ IF initialized THEN Import(k) \/ ImportFailed
                    ELSE UNCHANGED <<store, key_id>>
  /\ UNCHANGED <<alive, initialized, operations, span, pc, answer>>

-----------------------------------------------------------------------------
Refuse == /\ Idle
          /\ ~initialized \/ key_id = 0
          /\ answer' = FALSE
          /\ UNCHANGED <<object, service, span, pc>>

Enter == /\ Idle
         /\ initialized /\ key_id # 0
         /\ pc' = "setup"
         /\ before' = keystreams
         /\ UNCHANGED <<object, service, message, keystreams, answer>>

(* psa_aead_decrypt_setup begins an operation when the service has room.   *)
Setup == /\ pc = "setup"
         /\ operations < Operations
         /\ operations' = operations + 1
         /\ pc' = "set_nonce"
         /\ UNCHANGED <<object, store, span, answer>>

(* psa_aead_set_nonce and psa_aead_update_ad. *)
Prepare == /\ \/ pc = "set_nonce" /\ pc' = "update_ad"
              \/ pc = "update_ad" /\ pc' = "update"
           /\ UNCHANGED <<object, service, span, answer>>

Toggle(k) == (keystreams \ {k}) \cup ({k} \ keystreams)

(* psa_aead_update with all of the output, in place. *)
Update == /\ pc = "update"
          /\ keystreams' = Toggle(store[key_id])
          /\ pc' = "verify"
          /\ UNCHANGED <<object, service, message, before, answer>>

(* The tag is compared with that of the bytes before the update. *)
TagAgrees == /\ message.intact
             /\ before = {}
             /\ store[key_id] = message.sealed_with

(* psa_aead_verify ends the operation when the tag agrees. *)
VerifyUnchecked == /\ pc = "verify"
                   /\ operations' = operations - 1
                   /\ pc' = "idle"
                   /\ answer' = TRUE
                   /\ UNCHANGED <<object, store, span>>
Verify == /\ pc = "verify"
          /\ TagAgrees
          /\ operations' = operations - 1
          /\ pc' = "idle"
          /\ answer' = TRUE
          /\ UNCHANGED <<object, store, span>>

(* What psa_aead_update can have written when it failed, or when it left   *)
(* some of the output out: nothing, a part, or all.                        *)
HalfUpdated == IF pc = "update"
               THEN {keystreams, keystreams \cup {Garbage},
                     Toggle(store[key_id])}
               ELSE {keystreams}

(* A call fails, or psa_aead_verify still has output: psa_aead_abort ends  *)
(* the operation, if one was begun.                                        *)
FailWithoutAbort == /\ pc \in Calls
                    /\ pc' = "idle"
                    /\ answer' = FALSE
                    /\ keystreams' \in HalfUpdated
                    /\ UNCHANGED <<object, service, message, before>>
Fail == /\ pc \in Calls
        /\ pc' = "idle"
        /\ answer' = FALSE
        /\ keystreams' \in HalfUpdated
        /\ operations' = IF pc = "setup" THEN operations ELSE operations - 1
        /\ UNCHANGED <<object, store, message, before>>

decrypt_inplace == \/ Refuse \/ Enter \/ Setup \/ Prepare \/ Update \/ Verify
                   \/ Fail

Next == \/ Construct
        \/ Destruct
        \/ Receive
        \/ \E k \in Keys : set_encryption_key(k)
        \/ decrypt_inplace

Spec == Init /\ [][Next]_vars

-----------------------------------------------------------------------------
(* Between two calls no operation is left open in the service by a call    *)
(* that failed halfway: the few the service has are never used up.         *)
NoOperationLeaks == pc = "idle" => operations = 0

(* The service holds the key of this object and no other: no key that was  *)
(* replaced or whose object is gone, and never an identifier without key.  *)
NoKeyLeaks == DOMAIN store = IF alive /\ key_id # 0 THEN {key_id} ELSE {}

Text(streams) == IF streams = {} THEN "sealed"
                 ELSE IF streams = {message.sealed_with} THEN "plain"
                 ELSE "spoiled"

decryptor == INSTANCE Aes128GcmDecryptor
               WITH contents <- Text(IF pc = "idle" THEN keystreams ELSE before),
                    key <- IF alive /\ key_id # 0 THEN store[key_id] ELSE NoKey

(* The backend keeps the promise of the interface: it answers true only    *)
(* when it has turned untouched sealed bytes into their plaintext with the *)
(* key it holds, whichever calls of the service failed before.             *)
ImplementsDecryptor == decryptor!Spec
=============================================================================
