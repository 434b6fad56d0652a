---------------------- MODULE PacketAccumulatorHistory ----------------------
(***************************************************************************)
(* PacketAccumulator with two history variables: what arrived since the    *)
(* last '/', and the contents a caller saw in the last telegram returned.  *)
(* They let the module say which telegrams the receiver returns            *)
(* (TelegramStream) and how long a returned view stays good.               *)
(***************************************************************************)
EXTENDS PacketAccumulator

VARIABLES since,  \* the bytes received since the last '/'
          held    \* contents of the last view returned since the last '/'

hvars == <<vars, since, held>>

Abs == INSTANCE TelegramStream
         WITH Capacity <- BufferSize, out <- View(returned)

HInit == Init /\ since = <<>> /\ held = <<>>

(* What a caller that keeps the returned view remembers of it. *)
Remember(b) == held' = IF b = StartByte THEN <<>>
                       ELSE IF returned' # 0 THEN View(returned)' ELSE held

HNext == \E b \in Bytes : /\ process_byte(b)
                          /\ since' = Abs!Extend(since, b)
                          /\ Remember(b)

HSpec == HInit /\ [][HNext]_hvars

-----------------------------------------------------------------------------
(* The receiver returns a telegram exactly when the bytes since the last   *)
(* '/' complete one, whatever preceded that '/': no stale CRC, overflow or *)
(* abandoned telegram changes what the next '/' starts.                    *)
ImplementsTelegramStream == Abs!Spec

(* A view returned by process_byte keeps showing the telegram while other  *)
(* bytes are fed, until the next '/' arrives: the caller need not copy it  *)
(* before.                                                                 *)
HeldTelegramIntact == held = View(Len(held))
=============================================================================
