------------------------- MODULE MCAes128GcmTfPsa -------------------------
(***************************************************************************)
(* Aes128GcmTfPsa with the key of the meter and a wrong one, and a service *)
(* that can hold two keys and two operations.                              *)
(***************************************************************************)
EXTENDS Aes128GcmTfPsa

MCMessages == [sealed_with : Keys, intact : BOOLEAN]
=============================================================================
