------------------------ MODULE MCAes128GcmBackends ------------------------
(***************************************************************************)
(* The backends of BearSSL and of Mbed TLS, given the same calls on the    *)
(* same messages: with three keys, the one of the meter and two wrong ones *)
(* whose keystreams can lie on the bytes together.                         *)
(***************************************************************************)
EXTENDS Aes128GcmBearSsl

VARIABLES text, gcm, mbedtls_answer

MbedTls == INSTANCE Aes128GcmMbedTls WITH answer <- mbedtls_answer

MCMessages == [sealed_with : Keys, intact : BOOLEAN]

BothInit == Init /\ MbedTls!Init

BothReceive == Receive /\ MbedTls!Receive

BothSetKey(k) == set_encryption_key(k) /\ MbedTls!set_encryption_key(k)

BothDecrypt == decrypt_inplace /\ MbedTls!decrypt_inplace

BothNext == \/ BothReceive
            \/ \E k \in Keys : BothSetKey(k)
            \/ BothDecrypt

BothSpec == BothInit /\ [][BothNext]_<<vars, text, gcm, mbedtls_answer>>

(* The backend of Mbed TLS keeps the promise of the interface, whichever   *)
(* keys could not be set and whatever was left of earlier calls.           *)
MbedTlsImplementsDecryptor == MbedTls!ImplementsDecryptor
=============================================================================
