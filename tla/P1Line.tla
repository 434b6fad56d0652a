------------------------------- MODULE P1Line -------------------------------
(***************************************************************************)
(* A smart meter that sends telegrams over a P1 line which loses, changes  *)
(* and makes up bytes, and a PacketAccumulator that receives every byte    *)
(* that gets through, as the loop of packet_accumulator_example_test.cpp   *)
(* does.  The meter and the line are outside the library.                  *)
(***************************************************************************)
EXTENDS PacketAccumulator

CONSTANTS Telegrams,   \* what meters send: sequences from '/' to the only '!'
          NoiseBytes,  \* the bytes noise can put on the line
          MaxNoise     \* bound of the number of disturbances

VARIABLES frame,      \* the telegram the meter is sending
          rest,       \* the bytes of its transmission still to be sent
          noise,      \* disturbances still to come
          clean,      \* nothing disturbed this frame since its first byte
          deliveries  \* telegrams returned since this frame was begun

lineVars == <<frame, rest, noise, clean, deliveries>>
allVars  == <<vars, lineVars>>

-----------------------------------------------------------------------------
CR == 13

(* A telegram begins with the only '/' and ends with the only '!'. *)
ASSUME TelegramsAssumption ==
  \A t \in Telegrams : /\ t \in Seq(Bytes)
                       /\ Len(t) >= 2
                       /\ t[1] = StartByte
                       /\ t[Len(t)] = EndByte
                       /\ \A i \in 2..(Len(t) - 1) : t[i] \notin {StartByte, EndByte}

(* calculate_crc16 returns a uint16_t. *)
ASSUME CrcAssumption == \A t \in Telegrams : /\ Crc16(t) \in Nat
                                            /\ Crc16(t) < 65536

ASSUME MeterBytesAssumption == {CR} \cup Digits \cup UpperHex \subseteq Bytes

ASSUME NoiseAssumption == NoiseBytes \subseteq Bytes /\ MaxNoise \in Nat

(* A meter prints the CRC as four digits in upper case. *)
UpperDigit(n) == IF n < 10 THEN 48 + n ELSE 55 + n
CrcText(t) == LET v == Crc16(t)
              IN  [i \in 1..4 |-> UpperDigit(CASE i = 1 -> v \div 4096
                                               [] i = 2 -> (v \div 256) % 16
                                               [] i = 3 -> (v \div 16) % 16
                                               [] i = 4 -> v % 16)]

(* The bytes of one transmission; check_crc is set for the meters that     *)
(* print a CRC.                                                            *)
Transmission(t) == (IF check_crc THEN t \o CrcText(t) ELSE t) \o <<CR>>

(* The receiver may be switched on in the middle of a transmission. *)
LineInit == /\ Init
            /\ frame \in Telegrams
            /\ LET all == Transmission(frame)
               IN  \E k \in 0..Len(all) : /\ rest = SubSeq(all, k + 1, Len(all))
                                         /\ clean = (k = 0)
            /\ noise = MaxNoise
            /\ deliveries = 0

Receive(b) == /\ process_byte(b)
              /\ deliveries' = deliveries + (IF returned' # 0 THEN 1 ELSE 0)

Transmit == /\ rest # <<>>
            /\ Receive(Head(rest))
            /\ rest' = Tail(rest)
            /\ UNCHANGED <<frame, noise, clean>>

NextFrame == /\ rest = <<>>
             /\ frame' \in Telegrams
             /\ rest' = Transmission(frame')
             /\ clean' = TRUE
             /\ deliveries' = 0
             /\ UNCHANGED <<vars, noise>>

Disturb == /\ noise > 0
           /\ noise' = noise - 1
           /\ UNCHANGED frame

LoseByte == /\ Disturb
            /\ rest # <<>>
            /\ rest' = Tail(rest)
            /\ clean' = FALSE
            /\ UNCHANGED <<vars, deliveries>>

ChangeByte == /\ Disturb
              /\ rest # <<>>
              /\ \E b \in NoiseBytes \ {Head(rest)} : Receive(b)
              /\ rest' = Tail(rest)
              /\ clean' = FALSE

(* A byte made up before the first one of a frame leaves the frame clean.  *)
InsertByte == /\ Disturb
              /\ \E b \in NoiseBytes : Receive(b)
              /\ clean' = (clean /\ rest # <<>> /\ Head(rest) = StartByte)
              /\ UNCHANGED rest

LineNext == Transmit \/ NextFrame \/ LoseByte \/ ChangeByte \/ InsertByte

(* The meter sends without end, and the caller's loop reads every byte the *)
(* line delivers; disturbances need not happen.                            *)
LineSpec == /\ LineInit
            /\ [][LineNext]_allVars
            /\ WF_allVars(Transmit)
            /\ WF_allVars(NextFrame)

-----------------------------------------------------------------------------
(* The telegrams the receiver can return: those that leave a byte of the   *)
(* buffer free when a CRC is to follow.                                    *)
Fits(t) == Len(t) + (IF check_crc THEN 1 ELSE 0) <= BufferSize

(* A frame that arrives undisturbed and fits is returned with its last     *)
(* byte, exactly as it was sent, whatever the line did before: half a      *)
(* frame, an overflow or a cut CRC never costs the next frame.             *)
CleanFrameDelivered ==
  clean /\ rest = <<CR>> /\ Fits(frame) => View(returned) = frame

(* With CRCs checked nothing but the telegram being sent is ever returned: *)
(* a disturbed frame is dropped, never handed out changed or merged with   *)
(* another one.                                                            *)
DeliveredWasSent ==
  [][check_crc /\ deliveries' > deliveries => View(returned)' = frame]_allVars

(* With CRCs checked the receiver never returns two telegrams out of one   *)
(* frame, although the old bytes stay in the buffer and the line goes on.  *)
OncePerFrame == check_crc => deliveries <= 1

(* Every further telegram that one frame yields, the same one or another,  *)
(* has cost the line two disturbances, a '/' and a '!' of its own: however *)
(* noise falls, the receiver never returns what it holds a second time.    *)
ExtraTelegramsCostNoise ==
  check_crc => 2 * (deliveries - 1) <= MaxNoise - noise

(* Whatever the line did, telegrams keep coming out once it is quiet, as   *)
(* long as frames that fit keep being sent: no state is one that process_- *)
(* byte cannot leave.                                                      *)
Resynchronises == ([]<>Fits(frame)) => []<>(returned # 0)
=============================================================================
