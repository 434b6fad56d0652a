----------------------- MODULE MCDlmsPacketDecryptor -----------------------
(***************************************************************************)
(* DlmsPacketDecryptor with a size_t of sixteen bits, the narrowest there  *)
(* is, and packets on both sides of every boundary of the length checks.   *)
(***************************************************************************)
EXTENDS DlmsPacketDecryptor

CONSTANTS k1, k2

MCSizes == {0, 17, 18, 23, 29, 30, 39, 40, 41, 65535}
MCTotalLengths == {0, 5, 10, 16, 17, 26, 27, 28, 65522, 65523, 65535}

(* Every pair of lengths, with a plaintext of nothing in particular. *)
Shapes ==
  [size : MCSizes, total_length : MCTotalLengths,
   header_bytes_consistent : {TRUE}, sealed_with : {k1}, intact : {TRUE},
   starts_with_slash : {TRUE}, bang : {2}]

(* A packet with the shortest telegram, sealed with either key, and every  *)
(* kind of plaintext.                                                      *)
Shortest ==
  [size : {40}, total_length : {27}, header_bytes_consistent : BOOLEAN,
   sealed_with : {k1, k2}, intact : BOOLEAN, starts_with_slash : {TRUE},
   bang : {0, 2, 10}]
  \cup
  [size : {40}, total_length : {27}, header_bytes_consistent : {TRUE},
   sealed_with : {k1}, intact : {TRUE}, starts_with_slash : {FALSE},
   bang : {0, 1, 10}]

MCPackets == Shapes \cup Shortest
=============================================================================
