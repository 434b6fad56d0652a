---------------------- MODULE Aes128GcmBackendsProofs ----------------------
(***************************************************************************)
(* Aes128GcmBearSsl and Aes128GcmMbedTls implement the interface           *)
(* Aes128GcmDecryptor, for every set of keys and of messages.              *)
(***************************************************************************)
EXTENDS MCAes128GcmBackends, TLAPS

-----------------------------------------------------------------------------
(* BearSSL.                                                                *)

(* The context holds some key, whether it was initialized or not.          *)
KeyInv == message \in Messages /\ aes \in Keys

(* The uninitialized context holds one of the keys too.                    *)
LEMMA KeyInit == Init => KeyInv
BY DEF Init, KeyInv

(* Only set_encryption_key touches it.                                     *)
LEMMA KeyStep == KeyInv /\ [Next]_vars => KeyInv'
BY DEF KeyInv, Next, vars, Receive, set_encryption_key, decrypt_inplace,
       Refuse, Decrypt

(* In every reachable state the message and the key are of their sets.     *)
LEMMA KeyCorrect == Spec => []KeyInv
BY KeyInit, KeyStep, PTL DEF Spec

(* A fresh backend is a fresh decryptor without a key.                     *)
LEMMA DecryptorInit == Init => decryptor!Init
BY DEF Init, decryptor!Init, Text

(* Every step of the backend is a step of the decryptor, or none.          *)
LEMMA DecryptorStep ==
  KeyInv /\ [Next]_vars => [decryptor!Next]_(decryptor!vars)
<1> SUFFICES ASSUME KeyInv, [Next]_vars
             PROVE  [decryptor!Next]_(decryptor!vars)
  OBVIOUS
<1> USE DEF KeyInv
<1>1. CASE Receive
  BY <1>1 DEF Receive, decryptor!Next, decryptor!Receive, Text
<1>2. ASSUME NEW k \in Keys, set_encryption_key(k)
      PROVE  decryptor!Next
  BY <1>2 DEF set_encryption_key, decryptor!Next,
              decryptor!set_encryption_key, Text
<1>3. CASE Refuse
  <2>1. decryptor!Fails
    BY <1>3 DEF Refuse, decryptor!Fails, Text
  <2> QED
    BY <1>3, <2>1 DEF Refuse, decryptor!Next, decryptor!decrypt_inplace
<1>4. CASE Decrypt
  <2>1. aes # NoKey
    BY NoKeyAssumption
  <2>2. message' = message /\ aes' = aes /\ initialized /\ initialized'
    BY <1>4 DEF Decrypt
  <2>3. CASE TagAgrees
    <3>1. keystreams' = {message.sealed_with}
      BY <1>4, <2>3 DEF Decrypt, Run, TagAgrees
    <3>2. Text = "sealed" /\ Text' = "plain"
      BY <2>2, <2>3, <3>1 DEF Text, TagAgrees
    <3>3. decryptor!Opens
      BY <2>2, <2>3, <3>2 DEF decryptor!Opens, TagAgrees
    <3>4. answer' = TRUE
      BY <1>4, <2>3, Zenon DEF Decrypt
    <3> QED
      BY <2>2, <3>3, <3>4 DEF decryptor!Next, decryptor!decrypt_inplace
  <2>4. CASE ~TagAgrees
    <3>1. Text' \in {"sealed", "plain", "spoiled"}
      BY DEF Text
    <3>2. decryptor!Fails
      BY <2>1, <2>2, <3>1 DEF decryptor!Fails, decryptor!Contents
    <3>3. answer' = FALSE
      <4>1. TagAgrees \in BOOLEAN
        BY MessagesAssumption DEF TagAgrees
      <4> QED
        BY <1>4, <2>4, <4>1 DEF Decrypt
    <3> QED
      BY <2>2, <3>2, <3>3 DEF decryptor!Next, decryptor!decrypt_inplace
  <2> QED
    BY <2>3, <2>4
<1>5. CASE UNCHANGED vars
  BY <1>5 DEF vars, decryptor!vars, Text
<1> QED
  BY <1>1, <1>2, <1>3, <1>4, <1>5 DEF Next, decrypt_inplace

(* The backend keeps the promise of the interface, whatever was tried on   *)
(* the same bytes before.                                                  *)
THEOREM BearSslImplementsDecryptor == Spec => ImplementsDecryptor
BY KeyCorrect, DecryptorInit, DecryptorStep, PTL
   DEF Spec, ImplementsDecryptor, decryptor!Spec

-----------------------------------------------------------------------------
(* Mbed TLS.                                                               *)

(* The two backends share the message and nothing else. *)
MessageInv == message \in Messages

(* It is one of the messages at first. *)
LEMMA MessageInit == BothInit => MessageInv
BY DEF BothInit, Init, MessageInv

(* Only Receive replaces it. *)
LEMMA MessageStep ==
  MessageInv /\ [BothNext]_<<vars, text, gcm, mbedtls_answer>> => MessageInv'
BY DEF MessageInv, BothNext, BothReceive, BothSetKey, BothDecrypt, vars, Receive,
       set_encryption_key, decrypt_inplace, Refuse, Decrypt

(* A context without a key is a decryptor without one. *)
LEMMA MbedTlsInit == BothInit => MbedTls!decryptor!Init
BY DEF BothInit, MbedTls!Init, MbedTls!decryptor!Init

(* A call of mbedtls_gcm_auth_decrypt opens the bytes or fails. *)
LEMMA MbedTlsDecrypts ==
  ASSUME MessageInv, MbedTls!decrypt_inplace
  PROVE  MbedTls!decryptor!decrypt_inplace
<1>1. message' = message /\ gcm' = gcm
  BY DEF MbedTls!decrypt_inplace
<1>2. CASE MbedTls!AuthDecrypt /\ MbedTls!TagAgrees
  <2>1. mbedtls_answer' = TRUE
    BY <1>2, Zenon DEF MbedTls!AuthDecrypt
  <2>2. MbedTls!decryptor!Opens
    BY <1>2 DEF MbedTls!AuthDecrypt, MbedTls!TagAgrees,
                MbedTls!decryptor!Opens
  <2> QED BY <1>1, <2>1, <2>2 DEF MbedTls!decryptor!decrypt_inplace
<1>3. CASE MbedTls!AuthDecrypt /\ ~MbedTls!TagAgrees
  <2>1. mbedtls_answer' = FALSE
    <3>1. MbedTls!TagAgrees \in BOOLEAN
      BY MessagesAssumption DEF MbedTls!TagAgrees, MessageInv
    <3> QED BY <1>3, <3>1 DEF MbedTls!AuthDecrypt
  <2>2. MbedTls!decryptor!Fails
    BY <1>3 DEF MbedTls!AuthDecrypt, MbedTls!decryptor!Fails,
                MbedTls!decryptor!Contents
  <2> QED BY <1>1, <2>1, <2>2 DEF MbedTls!decryptor!decrypt_inplace
<1>4. CASE MbedTls!Error
  <2>1. MbedTls!decryptor!Fails
    BY <1>4 DEF MbedTls!Error, MbedTls!decryptor!Fails,
                MbedTls!decryptor!Contents
  <2>2. mbedtls_answer' = FALSE BY <1>4, Zenon DEF MbedTls!Error
  <2> QED BY <1>1, <2>1, <2>2 DEF MbedTls!decryptor!decrypt_inplace
<1> QED BY <1>2, <1>3, <1>4 DEF MbedTls!decrypt_inplace

(* Every step of the two backends is a step of the decryptor Mbed TLS      *)
(* implements, or none.                                                    *)
LEMMA MbedTlsStep ==
  MessageInv /\ [BothNext]_<<vars, text, gcm, mbedtls_answer>>
    => [MbedTls!decryptor!Next]_(MbedTls!decryptor!vars)
<1> SUFFICES ASSUME MessageInv,
                    [BothNext]_<<vars, text, gcm, mbedtls_answer>>
             PROVE  [MbedTls!decryptor!Next]_(MbedTls!decryptor!vars)
  OBVIOUS
<1>1. CASE BothReceive
  BY <1>1 DEF BothReceive, MbedTls!Receive, MbedTls!decryptor!Next,
              MbedTls!decryptor!Receive
<1>2. ASSUME NEW k \in Keys, BothSetKey(k)
      PROVE  MbedTls!decryptor!Next
  BY <1>2 DEF BothSetKey, MbedTls!set_encryption_key,
              MbedTls!decryptor!Next, MbedTls!decryptor!set_encryption_key
<1>3. CASE BothDecrypt
  BY <1>3, MbedTlsDecrypts DEF BothDecrypt, MbedTls!decryptor!Next
<1>4. CASE UNCHANGED <<vars, text, gcm, mbedtls_answer>>
  BY <1>4 DEF vars, MbedTls!decryptor!vars
<1> QED BY <1>1, <1>2, <1>3, <1>4 DEF BothNext

(* The backend of Mbed TLS keeps the promise of the interface, although a  *)
(* key that could not be set is told to nobody.                            *)
THEOREM MbedTlsBackendImplementsDecryptor ==
  BothSpec => MbedTlsImplementsDecryptor
BY MessageInit, MessageStep, MbedTlsInit, MbedTlsStep, PTL
   DEF BothSpec, MbedTlsImplementsDecryptor, MbedTls!ImplementsDecryptor,
       MbedTls!decryptor!Spec
=============================================================================
