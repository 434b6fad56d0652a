-------------------------- MODULE MCDecryptionKey --------------------------
(***************************************************************************)
(* DecryptionKey with keys of two bytes, and the characters on both sides  *)
(* of each range of digits.                                                *)
(***************************************************************************)
EXTENDS DecryptionKey

\* '0' '9' 'A' 'F' 'a' 'f', and the characters just outside the ranges
MCCharacters == {48, 57, 65, 70, 97, 102} \cup {47, 58, 64, 71, 96, 103}

MCStrings == UNION {[1..n -> MCCharacters] : n \in {0, 2, 3, 4}}
=============================================================================
