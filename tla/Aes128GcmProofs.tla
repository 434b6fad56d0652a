-------------------------- MODULE Aes128GcmProofs --------------------------
(***************************************************************************)
(* Aes128GcmDecryptionKey reads what prints a key, for keys of any length. *)
(* Aes128GcmTfPsa leaves nothing behind in the crypto service, and it      *)
(* implements the interface Aes128GcmDecryptor, for every set of keys, of  *)
(* messages and of key identifiers and every size of the service.          *)
(***************************************************************************)
EXTENDS DecryptionKey, Aes128GcmTfPsa, SequenceTheorems, TLAPS

(* A digit is one of the two characters that print its value.              *)
LEMMA DigitIsRead ==
  ASSUME NEW c, IsHexDigit(c)
  PROVE  DigitValue(c) \in 0..15 /\ c \in DigitCharacters(DigitValue(c))
BY DEF IsHexDigit, DigitValue, DigitCharacters

(* A byte takes its upper half from the first digit of a pair.             *)
LEMMA NumberOfDigits ==
  ASSUME NEW c, NEW d, IsHexDigit(c), IsHexDigit(d)
  PROVE  /\ c \in DigitCharacters(Number(c, d) \div 16)
         /\ d \in DigitCharacters(Number(c, d) % 16)
<1>1. DigitValue(c) \in 0..15 /\ DigitValue(d) \in 0..15 BY DigitIsRead
<1>2. Number(c, d) = DigitValue(c) * 16 + DigitValue(d) BY DEF Number
<1>3. /\ (DigitValue(c) * 16 + DigitValue(d)) \div 16 = DigitValue(c)
      /\ (DigitValue(c) * 16 + DigitValue(d)) % 16 = DigitValue(d)
  BY <1>1
<1> QED BY <1>2, <1>3, DigitIsRead

(* A string of digits is read, pair by pair.                               *)
LEMMA PrintedIsRead ==
  ASSUME NEW s \in Seq(0..255), Printed(s)
  PROVE  Prints(s, from_hex(s))
<1>1. Len(s) = 2 * KeyLength /\ \A i \in 1..(2 * KeyLength) : IsHexDigit(s[i])
  <2>1. DOMAIN s = 1..Len(s) BY LenProperties
  <2> QED BY <2>1 DEF Printed
<1>2. \A i \in 1..KeyLength : IsHexDigit(s[2 * i - 1]) /\ IsHexDigit(s[2 * i])
  <2> SUFFICES ASSUME NEW i \in 1..KeyLength
               PROVE  IsHexDigit(s[2 * i - 1]) /\ IsHexDigit(s[2 * i])
    OBVIOUS
  <2>1. 2 * i - 1 \in 1..(2 * KeyLength) /\ 2 * i \in 1..(2 * KeyLength)
    BY KeyLengthAssumption
  <2> QED BY <1>1, <2>1
<1>3. from_hex(s) = [i \in 1..KeyLength |-> Number(s[2 * i - 1], s[2 * i])]
  BY <1>1, <1>2 DEF from_hex
<1>4. Len(from_hex(s)) = KeyLength
  BY <1>3, KeyLengthAssumption
<1>5. \A i \in 1..KeyLength :
        /\ s[2 * i - 1] \in DigitCharacters(from_hex(s)[i] \div 16)
        /\ s[2 * i] \in DigitCharacters(from_hex(s)[i] % 16)
  <2> SUFFICES ASSUME NEW i \in 1..KeyLength
               PROVE  /\ s[2 * i - 1] \in DigitCharacters(from_hex(s)[i] \div 16)
                      /\ s[2 * i] \in DigitCharacters(from_hex(s)[i] % 16)
    OBVIOUS
  <2>1. from_hex(s)[i] = Number(s[2 * i - 1], s[2 * i]) BY <1>3
  <2> QED BY <1>2, <2>1, NumberOfDigits
<1> QED BY <1>1, <1>4, <1>5 DEF Prints

(* What is returned was read from the argument. *)
KeyInv == hex \in Strings /\ (called => key = from_hex(hex))

(* For keys of every length, a string that prints a key in upper or lower  *)
(* case is read, and as the key that it prints.                            *)
THEOREM PrintedKeysAreRead == KeySpec => []PrintedKeyIsRead
<1>1. KeyInit => KeyInv BY DEF KeyInit, KeyInv
<1>2. KeyInv /\ [ReadKey]_keyVars => KeyInv' BY DEF KeyInv, ReadKey, keyVars
<1>3. KeyInv => PrintedKeyIsRead
  BY PrintedIsRead, StringsAssumption DEF KeyInv, PrintedKeyIsRead
<1> QED BY <1>1, <1>2, <1>3, PTL DEF KeySpec

-----------------------------------------------------------------------------
(* An operation is open from the call that begins it to the end of         *)
(* decrypt_inplace, and calls are made on a living object only.            *)
OpenInv == /\ pc \in Calls \cup {"idle"}
           /\ operations = IF pc \in {"idle", "setup"} THEN 0 ELSE 1
           /\ pc # "idle" => alive /\ key_id # 0

(* No operation is open at first.                                          *)
LEMMA OpenInit == Init => OpenInv
BY DEF Init, OpenInv, Calls

(* Whichever way a call goes, the operation it began is ended with it.     *)
LEMMA OpenStep == OpenInv /\ [Next]_vars => OpenInv'
<1> SUFFICES ASSUME OpenInv, [Next]_vars
             PROVE  OpenInv'
  OBVIOUS
<1> USE DEF OpenInv, Calls, object, service, span
<1>1. CASE Construct
  BY <1>1 DEF Construct
<1>2. CASE Destruct
  BY <1>2 DEF Destruct, Idle
<1>3. CASE Receive
  BY <1>3 DEF Receive, Idle
<1>4. ASSUME NEW k \in Keys, set_encryption_key(k)
      PROVE  OpenInv'
  BY <1>4 DEF set_encryption_key, Idle
<1>5. CASE Refuse
  BY <1>5 DEF Refuse, Idle
<1>6. CASE Enter
  BY <1>6 DEF Enter, Idle
<1>7. CASE Setup
  BY <1>7 DEF Setup
<1>8. CASE Prepare
  BY <1>8 DEF Prepare
<1>9. CASE Update
  BY <1>9 DEF Update
<1>10. CASE Verify
  BY <1>10 DEF Verify
<1>11. CASE Fail
  BY <1>11 DEF Fail
<1>12. CASE UNCHANGED vars
  BY <1>12 DEF vars
<1> QED
  BY <1>1, <1>2, <1>3, <1>4, <1>5, <1>6, <1>7, <1>8, <1>9, <1>10, <1>11, <1>12
     DEF Next, decrypt_inplace

(* In every reachable state an operation is open exactly within a call.    *)
LEMMA OpenCorrect == Spec => []OpenInv
BY OpenInit, OpenStep, PTL DEF Spec

(* No call, failed or not, leaves an operation in the service.             *)
THEOREM OperationsAreEnded == Spec => []NoOperationLeaks
<1>1. OpenInv => NoOperationLeaks
  BY DEF OpenInv, NoOperationLeaks
<1> QED
  BY <1>1, OpenCorrect, PTL

-----------------------------------------------------------------------------
(* The store holds the key of this object and no other, and it is one that *)
(* the caller set.                                                         *)
StoreInv == /\ NoKeyLeaks
            /\ key_id \in KeyIds \cup {0}
            /\ alive \in BOOLEAN
            /\ \A id \in DOMAIN store : store[id] \in Keys
            /\ message \in Messages

(* What destroying a key leaves of the store.                              *)
LEMMA DestroyedStore ==
  ASSUME NEW id
  PROVE  /\ DOMAIN Destroyed(id) = DOMAIN store \ {id}
         /\ \A i \in DOMAIN store \ {id} : Destroyed(id)[i] = store[i]
BY DEF Destroyed, Restrict

(* The store is empty at first.                                            *)
LEMMA StoreInit == Init => StoreInv
BY DEF Init, StoreInv, NoKeyLeaks

(* The only calls that touch the store are the ones that also set key_id.  *)
LEMMA StoreStep == StoreInv /\ OpenInv /\ [Next]_vars => StoreInv'
<1> SUFFICES ASSUME StoreInv, OpenInv, [Next]_vars
             PROVE  StoreInv'
  OBVIOUS
<1>1. ASSUME alive' = alive, key_id' = key_id, store' = store,
             message' \in Messages
      PROVE  StoreInv'
  BY <1>1, Zenon DEF StoreInv, NoKeyLeaks
<1>2. message \in Messages
  BY DEF StoreInv
<1>3. CASE Construct
  <2>1. ~alive /\ alive' /\ key_id' = 0 /\ store' = store /\ message' = message
    BY <1>3 DEF Construct, service, span
  <2>2. DOMAIN store' = {}
    BY <2>1 DEF StoreInv, NoKeyLeaks
  <2>3. alive' \in BOOLEAN
    BY <1>3, Zenon DEF Construct
  <2> QED
    BY <1>2, <2>1, <2>2, <2>3 DEF StoreInv, NoKeyLeaks
<1>4. CASE Destruct
  <2>1. /\ alive /\ ~alive' /\ key_id' = key_id /\ message' = message
        /\ store' = Destroyed(key_id)
    BY <1>4 DEF Destruct, Idle, span
  <2>2. DOMAIN store' = {}
    BY <2>1, DestroyedStore DEF StoreInv, NoKeyLeaks
  <2>3. alive' \in BOOLEAN
    BY <1>4, Zenon DEF Destruct
  <2> QED
    BY <1>2, <2>1, <2>2, <2>3 DEF StoreInv, NoKeyLeaks
<1>5. CASE Receive
  BY <1>1, <1>5 DEF Receive, object, service
<1>6. ASSUME NEW k \in Keys, set_encryption_key(k)
      PROVE  StoreInv'
  <2>1. alive /\ alive' = alive /\ message' = message
    BY <1>6 DEF set_encryption_key, Idle, span
  <2>2. DOMAIN Destroyed(key_id) = {}
    BY <2>1, DestroyedStore DEF StoreInv, NoKeyLeaks
  <2>3. CASE UNCHANGED <<store, key_id>>
    BY <1>1, <1>2, <2>1, <2>3
  <2>4. CASE ImportFailed
    BY <1>2, <2>1, <2>2, <2>4 DEF ImportFailed, StoreInv, NoKeyLeaks
  <2>5. CASE Import(k)
    <3>1. PICK id \in KeyIds \ DOMAIN Destroyed(key_id) :
            /\ store' = With(Destroyed(key_id), id, k)
            /\ key_id' = id
      BY <2>5 DEF Import
    <3>2. DOMAIN store' = {id} /\ store'[id] = k
      <4> DEFINE f == Destroyed(key_id)
      <4>1. store' = With(f, id, k)
        BY <3>1
      <4>2. DOMAIN f = {}
        BY <2>2
      <4> HIDE DEF f
      <4>3. DOMAIN With(f, id, k) = DOMAIN f \cup {id} /\ With(f, id, k)[id] = k
        BY DEF With
      <4> QED
        BY <4>1, <4>2, <4>3
    <3>3. key_id' # 0
      BY <3>1, KeyIdsAssumption
    <3> QED
      BY <1>2, <2>1, <3>1, <3>2, <3>3 DEF StoreInv, NoKeyLeaks
  <2> QED
    BY <1>6, <2>3, <2>4, <2>5 DEF set_encryption_key
<1>7. CASE decrypt_inplace
  <2>1. UNCHANGED <<alive, key_id, store, message>>
    BY <1>7 DEF decrypt_inplace, Refuse, Enter, Setup, Prepare, Update, Verify,
                Fail, object, service, span
  <2> QED
    BY <1>1, <1>2, <2>1
<1>8. CASE UNCHANGED vars
  BY <1>1, <1>2, <1>8 DEF vars, object, service, span
<1> QED
  BY <1>3, <1>4, <1>5, <1>6, <1>7, <1>8 DEF Next

(* In every reachable state the store holds the key of this object only.   *)
LEMMA StoreCorrect == Spec => []StoreInv
BY StoreInit, StoreStep, OpenCorrect, PTL DEF Spec

(* No key outlives its replacement, a failed import or its object.         *)
THEOREM KeysAreDestroyed == Spec => []NoKeyLeaks
<1>1. StoreInv => NoKeyLeaks
  BY DEF StoreInv
<1> QED
  BY <1>1, StoreCorrect, PTL

-----------------------------------------------------------------------------
(* Until psa_aead_update the bytes are those the call began with; after it *)
(* untouched bytes carry the keystream of the key and no other.            *)
RunInv == /\ pc \in Calls \ {"verify"} => keystreams = before
          /\ pc = "verify" /\ before = {} => keystreams = {store[key_id]}

(* No call is in progress at first.                                        *)
LEMMA RunInit == Init => RunInv
BY DEF Init, RunInv, Calls

(* Nothing but psa_aead_update changes the bytes during a call.            *)
LEMMA RunStep == RunInv /\ OpenInv /\ [Next]_vars => RunInv'
<1> SUFFICES ASSUME RunInv, OpenInv, [Next]_vars
             PROVE  RunInv'
  OBVIOUS
<1> USE DEF RunInv, Calls
<1>1. ASSUME pc' = "idle"
      PROVE  RunInv'
  BY <1>1
<1>2. CASE Construct
  <2>1. pc = "idle"
    BY <1>2 DEF Construct, OpenInv
  <2> QED
    BY <1>1, <1>2, <2>1 DEF Construct
<1>3. CASE Destruct \/ Receive \/ Refuse
  BY <1>1, <1>3 DEF Destruct, Receive, Refuse, Idle, span, object, service
<1>4. ASSUME NEW k \in Keys, set_encryption_key(k)
      PROVE  RunInv'
  BY <1>1, <1>4 DEF set_encryption_key, Idle
<1>5. CASE Enter
  BY <1>5 DEF Enter
<1>6. CASE Setup
  BY <1>6 DEF Setup, span
<1>7. CASE Prepare
  BY <1>7 DEF Prepare, span
<1>8. CASE Update
  BY <1>8 DEF Update, Toggle, object, service
<1>9. CASE Verify \/ Fail
  BY <1>1, <1>9 DEF Verify, Fail
<1>10. CASE UNCHANGED vars
  BY <1>10 DEF vars, object, service, span
<1> QED
  BY <1>2, <1>3, <1>4, <1>5, <1>6, <1>7, <1>8, <1>9, <1>10
     DEF Next, decrypt_inplace

(* In every reachable state the bytes are those of the call in progress.   *)
LEMMA RunCorrect == Spec => []RunInv
BY RunInit, RunStep, OpenCorrect, PTL DEF Spec

(* An object without a key maps to a decryptor without one.                *)
LEMMA DecryptorInit == Init => decryptor!Init
BY DEF Init, decryptor!Init, Text

(* Every step of the backend is a step of the decryptor or none: a call    *)
(* takes its step when it returns.                                         *)
LEMMA DecryptorStep == StoreInv /\ OpenInv /\ RunInv /\ [Next]_vars
                         => [decryptor!Next]_(decryptor!vars)
<1> DEFINE Contents == Text(IF pc = "idle" THEN keystreams ELSE before)
           Key == IF alive /\ key_id # 0 THEN store[key_id] ELSE NoKey
<1> SUFFICES ASSUME StoreInv, OpenInv, RunInv, [Next]_vars
             PROVE  [decryptor!Next]_(decryptor!vars)
  OBVIOUS
<1>1. ASSUME message' = message, Contents' = Contents, Key' = Key,
             answer' = answer
      PROVE  [decryptor!Next]_(decryptor!vars)
  BY <1>1 DEF decryptor!vars
<1>2. ASSUME message' = message, Contents' = Contents, answer' = answer,
             NEW k \in Keys, Key' \in {k, NoKey}
      PROVE  [decryptor!Next]_(decryptor!vars)
  BY <1>2 DEF decryptor!Next, decryptor!set_encryption_key
<1>3. ASSUME message' = message, Key' = Key, answer' = FALSE,
             Key # NoKey \/ Contents' = Contents
      PROVE  [decryptor!Next]_(decryptor!vars)
  <2>1. Contents' \in {"sealed", "plain", "spoiled"}
    BY DEF Text
  <2>2. decryptor!Fails
    BY <1>3, <2>1 DEF decryptor!Fails, decryptor!Contents
  <2> QED
    BY <1>3, <2>2 DEF decryptor!Next, decryptor!decrypt_inplace
<1>4. alive /\ key_id # 0 => store[key_id] \in Keys
  BY DEF StoreInv, NoKeyLeaks
<1>5. CASE Construct
  BY <1>1, <1>5 DEF Construct, service, span, Text
<1>6. CASE Destruct
  <2>1. /\ alive /\ ~alive' /\ pc = "idle"
        /\ message' = message /\ answer' = answer
        /\ keystreams' = keystreams /\ pc' = pc
    BY <1>6 DEF Destruct, Idle, span
  <2>2. Contents' = Contents /\ Key' = NoKey
    BY <2>1 DEF Text
  <2>3. CASE key_id = 0
    BY <1>1, <2>1, <2>2, <2>3
  <2>4. CASE key_id # 0
    BY <1>2, <1>4, <2>1, <2>2, <2>4
  <2> QED
    BY <2>3, <2>4
<1>7. CASE Receive
  <2>1. /\ message' \in Messages /\ answer' = FALSE /\ pc' = "idle"
        /\ keystreams' = {} /\ Key' = Key
    BY <1>7 DEF Receive, Idle, object, service
  <2>2. Contents' = "sealed"
    BY <2>1 DEF Text
  <2> QED
    BY <2>1, <2>2 DEF decryptor!Next, decryptor!Receive
<1>8. ASSUME NEW k \in Keys, set_encryption_key(k)
      PROVE  [decryptor!Next]_(decryptor!vars)
  <2>1. /\ alive /\ alive' = alive /\ pc' = pc
        /\ message' = message /\ answer' = answer
        /\ keystreams' = keystreams /\ before' = before
    BY <1>8 DEF set_encryption_key, Idle, span
  <2>2. Contents' = Contents
    BY <2>1 DEF Text
  <2>3. CASE UNCHANGED <<store, key_id>>
    BY <1>1, <2>1, <2>2, <2>3
  <2>4. CASE ImportFailed
    BY <1>2, <2>1, <2>2, <2>4 DEF ImportFailed
  <2>5. CASE Import(k)
    <3>1. PICK id \in KeyIds : /\ store' = With(Destroyed(key_id), id, k)
                               /\ key_id' = id
      BY <2>5 DEF Import
    <3>2. store'[key_id'] = k
      BY <3>1 DEF With
    <3>3. Key' = k
      BY <2>1, <3>1, <3>2, KeyIdsAssumption
    <3> QED
      BY <1>2, <2>1, <2>2, <3>3
  <2> QED
    BY <1>8, <2>3, <2>4, <2>5 DEF set_encryption_key
<1>9. CASE Refuse
  BY <1>3, <1>9 DEF Refuse, object, service, span, Text
<1>10. CASE Enter
  BY <1>1, <1>10 DEF Enter, Idle, object, service, Text
<1>11. CASE Setup \/ Prepare \/ Update
  BY <1>1, <1>11 DEF Setup, Prepare, Update, object, service, span, Text
<1>12. CASE Verify
  <2>1. /\ pc = "verify" /\ TagAgrees /\ pc' = "idle" /\ answer' = TRUE
        /\ UNCHANGED <<alive, key_id, store, message, keystreams>>
    BY <1>12 DEF Verify, object, span
  <2>2. alive /\ key_id # 0
    BY <2>1 DEF OpenInv
  <2>3. keystreams = {message.sealed_with}
    BY <2>1 DEF RunInv, TagAgrees
  <2>4. Contents = "sealed" /\ Contents' = "plain"
    BY <2>1, <2>3 DEF Text, TagAgrees
  <2>5. decryptor!Opens
    BY <2>1, <2>2, <2>4 DEF decryptor!Opens, TagAgrees
  <2>6. Key' = Key
    BY <2>1
  <2> QED
    BY <2>1, <2>5, <2>6 DEF decryptor!Next, decryptor!decrypt_inplace
<1>13. CASE Fail
  <2>1. /\ pc # "idle" /\ answer' = FALSE
        /\ UNCHANGED <<alive, key_id, store, message>>
    BY <1>13 DEF Fail, object, Calls
  <2>2. Key # NoKey
    BY <1>4, <2>1, NoKeyAssumption DEF OpenInv
  <2> QED
    BY <1>3, <2>1, <2>2
<1>14. CASE UNCHANGED vars
  BY <1>1, <1>14 DEF vars, object, service, span, Text
<1> QED
  BY <1>5, <1>6, <1>7, <1>8, <1>9, <1>10, <1>11, <1>12, <1>13, <1>14
     DEF Next, decrypt_inplace

(* The backend keeps the promise of the interface, whichever calls of the  *)
(* service fail.                                                           *)
THEOREM TfPsaImplementsDecryptor == Spec => ImplementsDecryptor
BY StoreCorrect, OpenCorrect, RunCorrect, DecryptorInit, DecryptorStep, PTL
   DEF Spec, ImplementsDecryptor, decryptor!Spec
=============================================================================
