---------------------------- MODULE DecryptionKey ----------------------------
(***************************************************************************)
(* Aes128GcmDecryptionKey::from_hex (decryption/aes128gcm.h): a key is     *)
(* read from a string, two characters a byte, by std::from_chars.          *)
(***************************************************************************)
EXTENDS Integers, Sequences

CONSTANTS KeyLength,  \* bytes of a key: sixteen
          Strings     \* what a caller may pass

ASSUME KeyLengthAssumption == KeyLength \in Nat \ {0}

(* A std::string_view is a sequence of bytes. *)
ASSUME StringsAssumption == \A s \in Strings : s \in Seq(0..255)

VARIABLES hex,     \* the argument
          called,  \* the call has returned
          key      \* its result, <<>> for nullopt

keyVars == <<hex, called, key>>

-----------------------------------------------------------------------------
IsHexDigit(c) == c \in 48..57 \cup 65..70 \cup 97..102

DigitValue(c) == IF c < 65 THEN c - 48 ELSE IF c < 97 THEN c - 55 ELSE c - 87

(* std::from_chars with base 16 reads the longest run of digits: it fails  *)
(* when there is none, and a run of one digit is a number too.             *)
Number(first, second) == IF IsHexDigit(second)
                         THEN DigitValue(first) * 16 + DigitValue(second)
                         ELSE DigitValue(first)

from_hexStepOfOne(s) ==
               IF /\ Len(s) = 2 * KeyLength
                  /\ \A i \in 1..KeyLength : IsHexDigit(s[i])
               THEN [i \in 1..KeyLength |-> Number(s[i], s[i + 1])]
               ELSE <<>>
from_hex(s) == IF /\ Len(s) = 2 * KeyLength
                  /\ \A i \in 1..KeyLength : IsHexDigit(s[2 * i - 1])
               THEN [i \in 1..KeyLength |-> Number(s[2 * i - 1], s[2 * i])]
               ELSE <<>>

KeyInit == /\ hex \in Strings
           /\ called = FALSE
           /\ key = <<>>

ReadKey == /\ ~called
           /\ called' = TRUE
           /\ key' = from_hex(hex)
           /\ UNCHANGED hex

KeySpec == KeyInit /\ [][ReadKey]_keyVars

-----------------------------------------------------------------------------
(* The characters that print the digit n. *)
DigitCharacters(n) == IF n < 10 THEN {48 + n} ELSE {55 + n, 87 + n}

Printed(s) == Len(s) = 2 * KeyLength /\ \A i \in DOMAIN s : IsHexDigit(s[i])

(* s prints the key k, in upper case, in lower case or in both. *)
Prints(s, k) ==
  /\ Len(k) = KeyLength
  /\ Len(s) = 2 * KeyLength
  /\ \A i \in 1..KeyLength :
       /\ s[2 * i - 1] \in DigitCharacters(k[i] \div 16)
       /\ s[2 * i] \in DigitCharacters(k[i] % 16)

(* A string of digits of the right length is read, and as the key that     *)
(* prints as it: the decryptor never gets a key with swapped or mixed-up   *)
(* digits, which no test could tell from a key that is merely wrong.       *)
PrintedKeyIsRead == called /\ Printed(hex) => Prints(hex, key)

(* dlms_packet_decryptor_test.cpp lists "non hex symbols in key" among the *)
(* failure cases of from_hex: a string with any other symbol gives no key. *)
OtherSymbolsAreRefused == called /\ ~Printed(hex) => key = <<>>
=============================================================================
