------------------------- MODULE MCDlmsReceiveLoop -------------------------
(***************************************************************************)
(* DlmsReceiveLoop with packets shorter than, as long as and longer than   *)
(* the buffer, and the tightest times its assumptions allow.               *)
(***************************************************************************)
EXTENDS DlmsReceiveLoop

MCSizes == <<2, 5, 3>>
=============================================================================
