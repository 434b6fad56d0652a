--------------------------- MODULE DlmsReceiveLoop ---------------------------
(***************************************************************************)
(* The loop that receives encrypted packets, as the example of the         *)
(* decryptor writes it (tests/dlms_packet_decryptor_example_test.cpp), and *)
(* the meter that sends them.  A packet has no first and no last byte to   *)
(* know it by: it ends when the line has been quiet for long enough.       *)
(*                                                                         *)
(* Time is counted in ticks.  A clock reading only matters by how long ago *)
(* it was: the variables quiet, read_age and loop_age are such ages, and   *)
(* an age is not counted beyond PacketGap.                                 *)
(***************************************************************************)
EXTENDS Integers, Sequences

CONSTANTS Sizes,       \* of the packets the meter sends, one after the other
          BufferSize,  \* of dlms_packet_buffer
          Timeout,     \* a packet is complete after more than this: a second
          PacketGap,   \* the least time between two packets: ten seconds
          ByteGap,     \* the most between two bytes of one
          LoopPeriod   \* the most from one end of loop() to the next

Numbers == DOMAIN Sizes

ASSUME SizesAssumption == Sizes \in Seq(Nat \ {0}) /\ Sizes # <<>>
ASSUME BufferSizeAssumption == BufferSize \in Nat \ {0}
ASSUME TimesAssumption == /\ {Timeout, PacketGap, ByteGap} \subseteq Nat
                          /\ LoopPeriod \in Nat \ {0}

(* The loop is called often enough for what the meter guarantees. *)
ASSUME BytesAreCloseAssumption == ByteGap + LoopPeriod <= Timeout
ASSUME PacketsAreApartAssumption == Timeout + 3 * LoopPeriod < PacketGap

VARIABLES
  number,    \* of the packet the meter is sending or has sent last
  sent,      \* how many of its bytes
  disturbed, \* the packets that are not as the meter should send them
  quiet,     \* time since the last byte
  uart,      \* the bytes that wait to be read
  at,        \* where the loop is
  buffer,    \* dlms_packet_buffer up to dlms_packet_buffer_position
  read_age,  \* millis() - last_read_timestamp
  loop_age,  \* time since loop() ended
  handed     \* what was handed to decrypt_inplace last

meter == <<number, sent, disturbed>>
vars == <<meter, quiet, uart, at, buffer, read_age, loop_age, handed>>

Byte(n, i) == <<n, i>>     \* byte i of packet n
Changed(n) == Byte(n, 0)   \* a byte in the place of one of packet n
FirstBytes(n, k) == [i \in 1..k |-> Byte(n, i)]
Packet(n) == FirstBytes(n, Sizes[n])

SendingPacket == sent < Sizes[number]

-----------------------------------------------------------------------------
(* The program may start while the meter is sending. *)
Init == /\ number = 1
        /\ sent \in 0..Sizes[1]
        /\ disturbed = IF sent = 0 THEN {} ELSE {1}
        /\ quiet = PacketGap
        /\ uart = <<>>
        /\ at = "away"
        /\ buffer = <<>>
        /\ read_age = 0
        /\ loop_age = 0
        /\ handed = <<>>

-----------------------------------------------------------------------------
(* The meter and the line                                                  *)

Arrives(b) == /\ uart' = Append(uart, b)
              /\ quiet' = 0
              /\ UNCHANGED <<at, buffer, read_age, loop_age, handed>>

SendByte == /\ SendingPacket
            /\ sent > 0 \/ quiet = PacketGap
            /\ sent' = sent + 1
            /\ Arrives(Byte(number, sent'))
            /\ UNCHANGED <<number, disturbed>>

NextPacket == /\ ~SendingPacket
              /\ number + 1 \in Numbers
              /\ quiet = PacketGap
              /\ number' = number + 1
              /\ sent' = 1
              /\ Arrives(Byte(number', 1))
              /\ UNCHANGED disturbed

(* Within a packet anything may happen to its bytes. *)
Disturb == /\ SendingPacket
           /\ sent > 0
           /\ disturbed' = disturbed \cup {number}
           /\ UNCHANGED number

LoseByte == /\ Disturb
            /\ sent' = sent + 1
            /\ quiet' = 0
            /\ UNCHANGED <<uart, at, buffer, read_age, loop_age, handed>>

ChangeByte == /\ Disturb
              /\ sent' = sent + 1
              /\ Arrives(Changed(number))

(* The meter pauses: the next byte may come at any time. *)
Pause == /\ Disturb
         /\ number \notin disturbed
         /\ UNCHANGED <<sent, quiet, uart, at, buffer, read_age, loop_age, handed>>

-----------------------------------------------------------------------------
(* loop()                                                                  *)

CallLoop == /\ at = "away"
            /\ at' = "reading"
            /\ UNCHANGED <<meter, quiet, uart, buffer, read_age, loop_age, handed>>

(* A full buffer starts over. *)
ReadByteWithoutTimestamp ==
            /\ at = "reading"
            /\ uart # <<>>
            /\ buffer' = IF Len(buffer) >= BufferSize THEN <<Head(uart)>>
                         ELSE Append(buffer, Head(uart))
            /\ uart' = Tail(uart)
            /\ UNCHANGED <<meter, quiet, at, read_age, loop_age, handed>>
ReadByte == /\ at = "reading"
            /\ uart # <<>>
            /\ buffer' = IF Len(buffer) >= BufferSize THEN <<Head(uart)>>
                         ELSE Append(buffer, Head(uart))
            /\ uart' = Tail(uart)
            /\ read_age' = 0
            /\ UNCHANGED <<meter, quiet, at, loop_age, handed>>

(* From here on a byte that arrives waits for the next call of loop(). *)
NothingAvailableButTimestamp ==
                    /\ at = "reading"
                    /\ uart = <<>>
                    /\ at' = "checking"
                    /\ read_age' = 0
                    /\ UNCHANGED <<meter, quiet, uart, buffer, loop_age, handed>>
NothingAvailable == /\ at = "reading"
                    /\ uart = <<>>
                    /\ at' = "checking"
                    /\ UNCHANGED <<meter, quiet, uart, buffer, read_age, loop_age, handed>>

PacketComplete == read_age > Timeout /\ buffer # <<>>

EndLoop == /\ at = "checking"
           /\ at' = "away"
           /\ loop_age' = 0
           /\ UNCHANGED <<meter, quiet, uart, read_age>>

HandOver == /\ EndLoop
            /\ PacketComplete
            /\ handed' = buffer
            /\ buffer' = <<>>

KeepWaiting == /\ EndLoop
               /\ ~PacketComplete
               /\ UNCHANGED <<buffer, handed>>

loop == CallLoop \/ ReadByte \/ NothingAvailable \/ HandOver \/ KeepWaiting

-----------------------------------------------------------------------------
Older(age) == IF age < PacketGap THEN age + 1 ELSE age

Tick == /\ loop_age < LoopPeriod
        /\ SendingPacket /\ sent > 0 /\ number \notin disturbed => quiet < ByteGap
        /\ quiet' = Older(quiet)
        /\ read_age' = Older(read_age)
        /\ loop_age' = Older(loop_age)
        /\ UNCHANGED <<meter, uart, at, buffer, handed>>

Next == SendByte \/ NextPacket \/ LoseByte \/ ChangeByte \/ Pause \/ loop \/ Tick

(* The processor runs the loop, and time passes. *)
Fairness == WF_vars(loop) /\ WF_vars(Tick)

Spec == Init /\ [][Next]_vars /\ Fairness

-----------------------------------------------------------------------------
Clean(n) == n \notin disturbed /\ Sizes[n] <= BufferSize

(* What is handed over with a byte of a clean packet that fits into the    *)
(* buffer is that packet: it is not cut by the timeout, it has not been    *)
(* started over, and neither the rest of a disturbed packet nor the next   *)
(* packet is in it.                                                        *)
CleanPacketHandedWhole ==
  \A i \in DOMAIN handed :
    LET n == handed[i][1] IN Clean(n) => handed = Packet(n)

(* Every clean packet that fits is handed over, before the next one or     *)
(* after the last one.                                                     *)
CleanPacketsHanded ==
  \A n \in Numbers :
    number = n /\ sent = Sizes[n] /\ Clean(n)
      ~> handed = Packet(n) \/ ~Clean(n)
=============================================================================
