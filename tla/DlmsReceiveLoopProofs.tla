----------------------- MODULE DlmsReceiveLoopProofs -----------------------
(***************************************************************************)
(* Every clean packet that fits into the buffer is handed over whole, for  *)
(* all packets and buffers and all times the assumptions allow.  The       *)
(* inductive invariant is about ages: how long bytes can wait, which       *)
(* empties the buffer before the next packet, and how long the loop can    *)
(* have been without a byte, which keeps it from cutting a packet.         *)
(***************************************************************************)
EXTENDS DlmsReceiveLoop, SequenceTheorems, TLAPS

(* The bytes that come while the meter sends packet n. *)
Of(n) == {n} \X Nat

TypeInv ==
  /\ number \in Numbers
  /\ sent \in 0..Sizes[number]
  /\ quiet \in 0..PacketGap
  /\ read_age \in 0..PacketGap
  /\ loop_age \in 0..LoopPeriod
  /\ at \in {"away", "reading", "checking"}
  /\ uart \in Seq(Of(number))
  /\ buffer \in Seq(Of(number))

(* What has been sent waits in the uart for at most two calls of loop(),   *)
(* and in the buffer for no more than the timeout and another call.        *)
WaitingInv ==
  /\ uart # <<>> => quiet <= loop_age + IF at = "checking" THEN 0 ELSE LoopPeriod
  /\ buffer # <<>> => /\ quiet <= read_age + 2 * LoopPeriod
                      /\ read_age <= Timeout + loop_age
  /\ sent = 0 => uart = <<>> /\ buffer = <<>>

(* Of a clean packet everything that was sent is there, until all of it is *)
(* handed over.                                                            *)
ContentsInv ==
  Clean(number) /\ sent > 0 =>
    \/ buffer \o uart = FirstBytes(number, sent)
    \/ sent = Sizes[number] /\ uart = <<>> /\ buffer = <<>>

(* While some of a clean packet is missing from the buffer, the last byte  *)
(* was read not long ago.                                                  *)
UncutInv ==
  Clean(number) /\ sent > 0 =>
    /\ SendingPacket => quiet <= ByteGap
    /\ uart = <<>> /\ buffer # <<>> => read_age <= quiet
    /\ at = "checking" /\ buffer # <<>> /\ (uart # <<>> \/ SendingPacket)
         => read_age <= ByteGap + loop_age

LoopInv == /\ TypeInv
           /\ WaitingInv
           /\ ContentsInv
           /\ UncutInv
           /\ CleanPacketHandedWhole

-----------------------------------------------------------------------------
(* The constants as the provers need them. *)
LEMMA ConstantTypes ==
  /\ Sizes \in Seq(Nat)
  /\ Numbers \subseteq Nat /\ 1 \in Numbers
  /\ \A n \in Numbers : Sizes[n] \in Nat /\ Sizes[n] > 0
  /\ BufferSize \in Nat
  /\ Timeout \in Nat /\ PacketGap \in Nat /\ ByteGap \in Nat
  /\ LoopPeriod \in Nat /\ LoopPeriod > 0
  /\ ByteGap + LoopPeriod <= Timeout
  /\ Timeout + 3 * LoopPeriod < PacketGap
<1>1. Sizes \in Seq(Nat \ {0}) /\ Sizes # <<>> BY SizesAssumption
<1>2. Len(Sizes) \in Nat /\ Len(Sizes) > 0 /\ Numbers = 1..Len(Sizes)
  BY <1>1, LenProperties, EmptySeq DEF Numbers
<1>3. \A n \in Numbers : Sizes[n] \in Nat \ {0}
  BY <1>1, <1>2, ElementOfSeq
<1>4. Sizes \in Seq(Nat)
  BY <1>1, SeqMonotonic, Nat \ {0} \subseteq Nat
<1> QED
  BY <1>2, <1>3, <1>4, BufferSizeAssumption, TimesAssumption,
     BytesAreCloseAssumption, PacketsAreApartAssumption

(* Reading a byte moves it from the head of the uart to the end of the     *)
(* buffer.                                                                 *)
LEMMA ReadingKeepsOrder ==
  ASSUME NEW S, NEW b \in Seq(S), NEW u \in Seq(S), u # <<>>
  PROVE  /\ Append(b, Head(u)) \in Seq(S)
         /\ Tail(u) \in Seq(S)
         /\ Append(b, Head(u)) \o Tail(u) = b \o u
<1>1. Head(u) \in S /\ Tail(u) \in Seq(S) /\ Append(b, Head(u)) \in Seq(S)
  BY HeadTailProperties
<1> DEFINE l == Append(b, Head(u)) \o Tail(u)
           r == b \o u
<1>2. l \in Seq(S) /\ r \in Seq(S)
  BY <1>1, ConcatProperties
<1>3. Len(u) \in Nat /\ Len(u) > 0 /\ Len(b) \in Nat
  BY LenProperties, EmptySeq
<1>4. /\ Len(Append(b, Head(u))) = Len(b) + 1
      /\ \A i \in 1..(Len(b) + 1) :
           Append(b, Head(u))[i] = IF i <= Len(b) THEN b[i] ELSE Head(u)
  BY <1>1, <1>3, LenProperties
<1>5. /\ Len(Tail(u)) = Len(u) - 1
      /\ \A i \in 1..(Len(u) - 1) : Tail(u)[i] = u[i + 1]
      /\ Head(u) = u[1]
  BY HeadTailProperties
<1>6. Len(l) = Len(r) /\ Len(r) = Len(b) + Len(u)
  BY <1>1, <1>3, <1>4, <1>5, ConcatProperties
<1>7. ASSUME NEW i \in 1..Len(l) PROVE l[i] = r[i]
  <2>1. l[i] = IF i <= Len(b) + 1 THEN Append(b, Head(u))[i]
               ELSE Tail(u)[i - (Len(b) + 1)]
    BY <1>1, <1>4, <1>5, <1>6, <1>3, ConcatProperties
  <2>2. r[i] = IF i <= Len(b) THEN b[i] ELSE u[i - Len(b)]
    BY <1>6, ConcatProperties
  <2>3. i \in Nat /\ i >= 1 /\ i <= Len(b) + Len(u)
    BY <1>6, <1>3
  <2>4. CASE i <= Len(b)
    BY <2>1, <2>2, <2>3, <2>4, <1>3, <1>4
  <2>5. CASE i = Len(b) + 1
    BY <2>1, <2>2, <2>3, <2>5, <1>3, <1>4, <1>5
  <2>6. CASE i > Len(b) + 1
    <3>1. i - (Len(b) + 1) \in 1..(Len(u) - 1)
      BY <2>3, <2>6, <1>3
    <3>2. (i - (Len(b) + 1)) + 1 = i - Len(b)
      BY <2>3, <1>3
    <3> QED BY <2>1, <2>2, <2>3, <2>6, <3>1, <3>2, <1>3, <1>5
  <2> QED BY <2>3, <2>4, <2>5, <2>6, <1>3
<1>8. l = r
  <2> HIDE DEF l, r
  <2> QED BY <1>2, <1>6, <1>7, SeqEqual
<1> QED BY <1>1, <1>8

(* A byte that arrives comes after what is there. *)
LEMMA ArrivingKeepsOrder ==
  ASSUME NEW S, NEW b \in Seq(S), NEW u \in Seq(S), NEW x \in S
  PROVE  /\ Append(u, x) \in Seq(S)
         /\ Append(u, x) # <<>>
         /\ b \o Append(u, x) = Append(b \o u, x)
<1>1. Append(u, x) \in Seq(S) /\ Append(u, x) = u \o <<x>> /\ <<x>> \in Seq(S)
  BY AppendProperties, AppendIsConcat
<1>2. b \o Append(u, x) = (b \o u) \o <<x>>
  BY <1>1, ConcatAssociative
<1>3. b \o u \in Seq(S)
  BY ConcatProperties
<1>4. Append(b \o u, x) = (b \o u) \o <<x>>
  BY <1>3, AppendIsConcat
<1>5. Append(u, x) # <<>>
  BY <1>1, AppendProperties
<1> QED BY <1>1, <1>2, <1>4, <1>5

(* The bytes of a packet follow each other. *)
LEMMA FirstBytesGrow ==
  ASSUME NEW n \in Nat, NEW k \in Nat
  PROVE  /\ FirstBytes(n, k) \in Seq(Of(n))
         /\ Len(FirstBytes(n, k)) = k
         /\ Append(FirstBytes(n, k), Byte(n, k + 1)) = FirstBytes(n, k + 1)
<1>1. \A j \in Nat : /\ FirstBytes(n, j) \in Seq(Of(n))
                     /\ Len(FirstBytes(n, j)) = j
                     /\ \A i \in 1..j : FirstBytes(n, j)[i] = <<n, i>>
  BY DEF FirstBytes, Byte, Of
<1> DEFINE l == Append(FirstBytes(n, k), Byte(n, k + 1))
           r == FirstBytes(n, k + 1)
<1>2. Byte(n, k + 1) \in Of(n)
  BY DEF Byte, Of
<1>3. l \in Seq(Of(n)) /\ Len(l) = k + 1
  BY <1>1, <1>2, AppendProperties
<1>4. \A i \in 1..(k + 1) : l[i] = IF i = k + 1 THEN <<n, k + 1>>
                                   ELSE FirstBytes(n, k)[i]
  BY <1>1, <1>2, AppendProperties DEF Byte
<1>5. \A i \in 1..(k + 1) : l[i] = r[i]
  <2> SUFFICES ASSUME NEW i \in 1..(k + 1) PROVE l[i] = r[i] OBVIOUS
  <2>1. r[i] = <<n, i>> BY DEF FirstBytes, Byte
  <2>2. CASE i = k + 1 BY <1>4, <2>1, <2>2
  <2>3. CASE i # k + 1
    <3>1. i \in 1..k BY <2>3
    <3> QED BY <1>1, <1>4, <2>1, <2>3, <3>1
  <2> QED BY <2>2, <2>3
<1>6. r \in Seq(Of(n)) /\ Len(r) = k + 1 BY <1>1
<1>7. l = r
  <2> HIDE DEF l, r
  <2> QED BY <1>3, <1>5, <1>6, SeqEqual
<1> QED BY <1>1, <1>7

(* The bytes of a packet belong to it. *)
LEMMA BytesBelong ==
  ASSUME NEW n \in Nat, NEW i \in Nat
  PROVE  Byte(n, i) \in Of(n)
BY DEF Byte, Of

(* When the line has been quiet for long enough, everything that was sent  *)
(* has been read and handed over.                                          *)
LEMMA QuietLineIsEmpty ==
  ASSUME TypeInv, WaitingInv, quiet = PacketGap
  PROVE  uart = <<>> /\ buffer = <<>>
BY ConstantTypes DEF TypeInv, WaitingInv

-----------------------------------------------------------------------------
(* The program starts with nothing in its buffer. *)
LEMMA LoopInvInit == Init => LoopInv
<1> SUFFICES ASSUME Init PROVE LoopInv OBVIOUS
<1>1. /\ number = 1 /\ sent \in 0..Sizes[1] /\ quiet = PacketGap
      /\ uart = <<>> /\ at = "away" /\ buffer = <<>>
      /\ read_age = 0 /\ loop_age = 0 /\ handed = <<>>
      /\ sent > 0 => disturbed = {1}
  BY ConstantTypes DEF Init
<1>2. <<>> \in Seq(Of(1)) BY EmptySeq
<1>3. TypeInv BY <1>1, <1>2, ConstantTypes DEF TypeInv
<1>4. WaitingInv BY <1>1 DEF WaitingInv
<1>5. ContentsInv /\ UncutInv BY <1>1 DEF ContentsInv, UncutInv, Clean
<1>6. CleanPacketHandedWhole BY <1>1 DEF CleanPacketHandedWhole
<1> QED BY <1>3, <1>4, <1>5, <1>6 DEF LoopInv

(* What has been handed over stays as it is while packets are only found   *)
(* to be disturbed.                                                        *)
LEMMA HandedStays ==
  ASSUME CleanPacketHandedWhole, handed' = handed, disturbed \subseteq disturbed'
  PROVE  CleanPacketHandedWhole'
BY DEF CleanPacketHandedWhole, Clean, Packet, FirstBytes, Byte

(* A byte of a clean packet arrives behind the others. *)
LEMMA SendByteStep == LoopInv /\ SendByte => LoopInv'
<1> SUFFICES ASSUME LoopInv, SendByte PROVE LoopInv' OBVIOUS
<1> USE DEF LoopInv
<1>1. /\ sent < Sizes[number] /\ sent' = sent + 1 /\ quiet' = 0
      /\ uart' = Append(uart, Byte(number, sent + 1))
      /\ UNCHANGED <<number, disturbed, at, buffer, read_age, loop_age, handed>>
      /\ sent > 0 \/ quiet = PacketGap
  BY DEF SendByte, Arrives, SendingPacket
<1>2. number \in Nat /\ sent \in Nat /\ Sizes[number] \in Nat
  BY ConstantTypes DEF TypeInv
<1>3. /\ uart' \in Seq(Of(number)) /\ uart' # <<>>
      /\ buffer \o uart' = Append(buffer \o uart, Byte(number, sent + 1))
  <2>1. sent + 1 \in Nat BY <1>2
  <2>2. Byte(number, sent + 1) \in Of(number) BY <1>2, <2>1, BytesBelong
  <2>3. uart \in Seq(Of(number)) /\ buffer \in Seq(Of(number)) BY DEF TypeInv
  <2> HIDE DEF LoopInv
  <2> QED BY <1>1, <2>2, <2>3, ArrivingKeepsOrder
<1>4. TypeInv'
  BY <1>1, <1>2, <1>3, ConstantTypes DEF TypeInv
<1>5. WaitingInv'
  BY <1>1, <1>2, <1>3, ConstantTypes DEF WaitingInv, TypeInv
<1>6. ContentsInv'
  <2> SUFFICES ASSUME Clean(number)
               PROVE  buffer \o uart' = FirstBytes(number, sent + 1)
    BY <1>1 DEF ContentsInv, Clean, FirstBytes, Byte
  <2>1. buffer \o uart = FirstBytes(number, sent)
    <3>1. CASE sent > 0
      BY <1>1, <1>2, <3>1 DEF ContentsInv
    <3>2. CASE sent = 0
      <4>1. uart = <<>> /\ buffer = <<>> BY <3>2 DEF WaitingInv
      <4>2. FirstBytes(number, 0) = <<>> BY <1>2, FirstBytesGrow, EmptySeq
      <4> QED BY <3>2, <4>1, <4>2, ConcatEmptySeq, EmptySeq
    <3> QED BY <1>2, <3>1, <3>2
  <2> QED BY <1>2, <1>3, <2>1, FirstBytesGrow
<1>7. UncutInv'
  <2>1. buffer # <<>> => sent > 0 BY <1>2 DEF WaitingInv
  <2> QED
    BY <1>1, <1>2, <1>3, <2>1, ConstantTypes
    DEF UncutInv, Clean, SendingPacket, TypeInv
<1>8. CleanPacketHandedWhole' BY <1>1, HandedStays
<1> QED BY <1>4, <1>5, <1>6, <1>7, <1>8

(* The first byte of the next packet finds the line and the buffer empty. *)
LEMMA NextPacketStep == LoopInv /\ NextPacket => LoopInv'
<1> SUFFICES ASSUME LoopInv, NextPacket PROVE LoopInv' OBVIOUS
<1> USE DEF LoopInv
<1>1. /\ number' = number + 1 /\ number' \in Numbers
      /\ sent' = 1 /\ quiet' = 0
      /\ uart' = Append(uart, Byte(number', 1))
      /\ UNCHANGED <<disturbed, at, buffer, read_age, loop_age, handed>>
  BY DEF NextPacket, Arrives
<1>2. uart = <<>> /\ buffer = <<>>
  BY QuietLineIsEmpty DEF NextPacket
<1>3. number' \in Nat /\ Sizes[number'] \in Nat /\ Sizes[number'] > 0
  BY <1>1, ConstantTypes
<1>4. FirstBytes(number', 0) = <<>>
  BY <1>3, FirstBytesGrow, EmptySeq
<1>5. /\ uart' = FirstBytes(number', 1)
      /\ uart' \in Seq(Of(number')) /\ Len(uart') = 1
  <2>1. /\ FirstBytes(number', 1) = Append(FirstBytes(number', 0), Byte(number', 1))
        /\ FirstBytes(number', 1) \in Seq(Of(number'))
        /\ Len(FirstBytes(number', 1)) = 1
    BY <1>3, FirstBytesGrow, 0 + 1 = 1
  <2> QED BY <1>1, <1>2, <1>4, <2>1
<1>6. uart' # <<>> BY <1>5, EmptySeq
<1>7. buffer' \in Seq(Of(number')) /\ buffer' \o uart' = uart'
  BY <1>1, <1>2, <1>5, EmptySeq, ConcatEmptySeq
<1>8. TypeInv'
  BY <1>1, <1>3, <1>5, <1>7, ConstantTypes DEF TypeInv
<1>9. WaitingInv'
  BY <1>1, <1>2, <1>6, ConstantTypes DEF WaitingInv, TypeInv
<1>10. ContentsInv'
  BY <1>1, <1>5, <1>7 DEF ContentsInv, Clean, FirstBytes, Byte
<1>11. UncutInv'
  BY <1>1, <1>2, <1>6, ConstantTypes DEF UncutInv
<1>12. CleanPacketHandedWhole' BY <1>1, HandedStays
<1> QED BY <1>8, <1>9, <1>10, <1>11, <1>12

(* A packet that is disturbed need not arrive. *)
LEMMA DisturbStep == LoopInv /\ (LoseByte \/ ChangeByte \/ Pause) => LoopInv'
<1> SUFFICES ASSUME LoopInv, LoseByte \/ ChangeByte \/ Pause PROVE LoopInv'
  OBVIOUS
<1> USE DEF LoopInv
<1>1. /\ disturbed' = disturbed \cup {number}
      /\ sent > 0 /\ sent < Sizes[number]
      /\ UNCHANGED <<number, at, buffer, read_age, loop_age, handed>>
      /\ \/ sent' = sent + 1 /\ quiet' = 0
         \/ sent' = sent /\ quiet' = quiet
      /\ \/ uart' = uart
         \/ uart' = Append(uart, Changed(number)) /\ quiet' = 0
  BY DEF LoseByte, ChangeByte, Pause, Disturb, SendingPacket, Arrives
<1>2. number \in Nat /\ sent \in Nat /\ Sizes[number] \in Nat
  BY ConstantTypes DEF TypeInv
<1>3. uart' \in Seq(Of(number))
  <2>1. Changed(number) \in Of(number)
    BY <1>2 DEF Changed, Byte, Of
  <2>2. uart \in Seq(Of(number)) BY DEF TypeInv
  <2> QED BY <1>1, <2>1, <2>2, AppendProperties
<1>4. TypeInv'
  BY <1>1, <1>2, <1>3, ConstantTypes DEF TypeInv
<1>5. WaitingInv'
  BY <1>1, <1>2, ConstantTypes DEF WaitingInv, TypeInv
<1>6. ~Clean(number)' BY <1>1 DEF Clean
<1>7. ContentsInv' /\ UncutInv' BY <1>6 DEF ContentsInv, UncutInv
<1>8. CleanPacketHandedWhole' BY <1>1, HandedStays
<1> QED BY <1>4, <1>5, <1>7, <1>8

(* What changes only where the loop is, and to another place than the      *)
(* check, keeps all that is known.                                         *)
LEMMA CallLoopStep == LoopInv /\ CallLoop => LoopInv'
<1> SUFFICES ASSUME LoopInv, CallLoop PROVE LoopInv' OBVIOUS
<1> USE DEF LoopInv
<1>1. /\ at = "away" /\ at' = "reading"
      /\ UNCHANGED <<number, sent, disturbed, quiet, uart, buffer, read_age,
                     loop_age, handed>>
  BY DEF CallLoop, meter
<1>2. TypeInv' BY <1>1 DEF TypeInv
<1>3. WaitingInv' BY <1>1 DEF WaitingInv
<1>4. ContentsInv' BY <1>1 DEF ContentsInv, Clean, FirstBytes, Byte
<1>5. UncutInv' BY <1>1 DEF UncutInv, Clean, SendingPacket
<1>6. CleanPacketHandedWhole' BY <1>1, HandedStays
<1> QED BY <1>2, <1>3, <1>4, <1>5, <1>6

(* A clean packet that fits never fills the buffer before its last byte.   *)
LEMMA ReadByteStep == LoopInv /\ ReadByte => LoopInv'
<1> SUFFICES ASSUME LoopInv, ReadByte PROVE LoopInv' OBVIOUS
<1> USE DEF LoopInv
<1>1. /\ at = "reading" /\ uart # <<>>
      /\ buffer' = IF Len(buffer) >= BufferSize THEN <<Head(uart)>>
                   ELSE Append(buffer, Head(uart))
      /\ uart' = Tail(uart)
      /\ read_age' = 0
      /\ UNCHANGED <<number, sent, disturbed, quiet, at, loop_age, handed>>
  BY DEF ReadByte, meter
<1>2. uart \in Seq(Of(number)) /\ buffer \in Seq(Of(number))
  BY DEF TypeInv
<1>3. /\ Append(buffer, Head(uart)) \in Seq(Of(number))
      /\ Tail(uart) \in Seq(Of(number))
      /\ Append(buffer, Head(uart)) \o Tail(uart) = buffer \o uart
  BY <1>1, <1>2, ReadingKeepsOrder
<1>4. <<Head(uart)>> \in Seq(Of(number))
  <2>1. Head(uart) \in Of(number) BY <1>1, <1>2, HeadTailProperties
  <2> QED BY <2>1
<1>5. TypeInv'
  BY <1>1, <1>3, <1>4, ConstantTypes DEF TypeInv
<1>6. sent # 0 BY <1>1 DEF WaitingInv
<1>7. WaitingInv'
  BY <1>1, <1>6, ConstantTypes DEF WaitingInv, TypeInv
<1>8. ContentsInv'
  <2> SUFFICES ASSUME Clean(number), sent > 0
               PROVE  buffer' \o uart' = FirstBytes(number, sent)
    BY <1>1 DEF ContentsInv, Clean, FirstBytes, Byte
  <2>1. buffer \o uart = FirstBytes(number, sent)
    BY <1>1 DEF ContentsInv
  <2>2. /\ number \in Nat /\ sent \in Nat /\ sent <= Sizes[number]
        /\ Sizes[number] \in Nat /\ Sizes[number] <= BufferSize
    BY ConstantTypes DEF TypeInv, Clean
  <2>3. Len(buffer) + Len(uart) = sent
    <3>1. Len(buffer \o uart) = Len(buffer) + Len(uart)
      BY <1>2, ConcatProperties
    <3>2. Len(FirstBytes(number, sent)) = sent
      BY <2>2, FirstBytesGrow
    <3> QED BY <2>1, <3>1, <3>2
  <2>4. Len(buffer) \in Nat /\ Len(uart) \in Nat /\ Len(uart) > 0
    BY <1>1, <1>2, LenProperties, EmptySeq
  <2>5. ~(Len(buffer) >= BufferSize)
    BY <2>2, <2>3, <2>4, ConstantTypes
  <2> QED BY <1>1, <1>3, <2>1, <2>5
<1>9. UncutInv'
  BY <1>1, ConstantTypes DEF UncutInv, Clean, SendingPacket, TypeInv
<1>10. CleanPacketHandedWhole' BY <1>1, HandedStays
<1> QED BY <1>5, <1>7, <1>8, <1>9, <1>10

(* When there is nothing to read, the last byte of a clean packet that is  *)
(* being sent was read not long ago.                                       *)
LEMMA NothingAvailableStep == LoopInv /\ NothingAvailable => LoopInv'
<1> SUFFICES ASSUME LoopInv, NothingAvailable PROVE LoopInv' OBVIOUS
<1> USE DEF LoopInv
<1>1. /\ at = "reading" /\ uart = <<>> /\ at' = "checking"
      /\ UNCHANGED <<number, sent, disturbed, quiet, uart, buffer, read_age,
                     loop_age, handed>>
  BY DEF NothingAvailable, meter
<1>2. TypeInv' BY <1>1 DEF TypeInv
<1>3. WaitingInv' BY <1>1 DEF WaitingInv
<1>4. ContentsInv' BY <1>1 DEF ContentsInv, Clean, FirstBytes, Byte
<1>5. UncutInv'
  BY <1>1, ConstantTypes DEF UncutInv, Clean, SendingPacket, TypeInv
<1>6. CleanPacketHandedWhole' BY <1>1, HandedStays
<1> QED BY <1>2, <1>3, <1>4, <1>5, <1>6

(* A clean packet whose bytes came no further apart than they may is       *)
(* complete when the timeout has passed.                                   *)
LEMMA HandOverStep == LoopInv /\ HandOver => LoopInv'
<1> SUFFICES ASSUME LoopInv, HandOver PROVE LoopInv' OBVIOUS
<1> USE DEF LoopInv
<1>1. /\ at = "checking" /\ at' = "away" /\ loop_age' = 0
      /\ read_age > Timeout /\ buffer # <<>>
      /\ handed' = buffer /\ buffer' = <<>>
      /\ UNCHANGED <<number, sent, disturbed, quiet, uart, read_age>>
  BY DEF HandOver, EndLoop, PacketComplete, meter
<1>2. TypeInv' BY <1>1, ConstantTypes, EmptySeq DEF TypeInv
<1>3. WaitingInv'
  BY <1>1, ConstantTypes DEF WaitingInv, TypeInv
<1>4. ASSUME Clean(number)
      PROVE  sent = Sizes[number] /\ uart = <<>> /\ buffer = Packet(number)
  <2>1. sent > 0 BY <1>1, ConstantTypes DEF WaitingInv, TypeInv
  <2>2. uart = <<>> /\ ~SendingPacket
    BY <1>1, <1>4, <2>1, ConstantTypes DEF UncutInv, TypeInv
  <2>3. sent = Sizes[number]
    BY <2>2, ConstantTypes DEF SendingPacket, TypeInv
  <2>4. buffer \o uart = buffer
    BY <2>2, ConcatEmptySeq DEF TypeInv
  <2> QED BY <1>1, <1>4, <2>1, <2>2, <2>3, <2>4 DEF ContentsInv, Packet
<1>5. ContentsInv' BY <1>1, <1>4 DEF ContentsInv, Clean
<1>6. UncutInv' BY <1>1 DEF UncutInv, Clean, SendingPacket
<1>7. CleanPacketHandedWhole'
  <2>1. \A i \in DOMAIN buffer : buffer[i][1] = number
    <3>1. buffer \in Seq(Of(number)) BY DEF TypeInv
    <3>2. \A i \in DOMAIN buffer : buffer[i] \in Of(number)
      BY <3>1, ElementOfSeq, LenProperties
    <3> QED BY <3>2 DEF Of
  <2> QED
    BY <1>1, <1>4, <2>1
    DEF CleanPacketHandedWhole, Clean, Packet, FirstBytes, Byte
<1> QED BY <1>2, <1>3, <1>5, <1>6, <1>7

(* A packet that is not complete waits no longer than the timeout. *)
LEMMA KeepWaitingStep == LoopInv /\ KeepWaiting => LoopInv'
<1> SUFFICES ASSUME LoopInv, KeepWaiting PROVE LoopInv' OBVIOUS
<1> USE DEF LoopInv
<1>1. /\ at = "checking" /\ at' = "away" /\ loop_age' = 0
      /\ buffer # <<>> => ~(read_age > Timeout)
      /\ UNCHANGED <<number, sent, disturbed, quiet, uart, buffer, read_age,
                     handed>>
  BY DEF KeepWaiting, EndLoop, PacketComplete, meter
<1>2. TypeInv' BY <1>1, ConstantTypes DEF TypeInv
<1>3. WaitingInv'
  BY <1>1, ConstantTypes DEF WaitingInv, TypeInv
<1>4. ContentsInv' BY <1>1 DEF ContentsInv, Clean, FirstBytes, Byte
<1>5. UncutInv' BY <1>1 DEF UncutInv, Clean, SendingPacket
<1>6. CleanPacketHandedWhole' BY <1>1, HandedStays
<1> QED BY <1>2, <1>3, <1>4, <1>5, <1>6

(* Time passes, at most a loop period between the ends of two calls and at *)
(* most a byte gap within a clean packet.                                  *)
LEMMA TickStep == LoopInv /\ Tick => LoopInv'
<1> SUFFICES ASSUME LoopInv, Tick PROVE LoopInv' OBVIOUS
<1> USE DEF LoopInv
<1>1. /\ loop_age < LoopPeriod
      /\ SendingPacket /\ sent > 0 /\ number \notin disturbed => quiet < ByteGap
      /\ quiet' = IF quiet < PacketGap THEN quiet + 1 ELSE quiet
      /\ read_age' = IF read_age < PacketGap THEN read_age + 1 ELSE read_age
      /\ loop_age' = loop_age + 1
      /\ UNCHANGED <<number, sent, disturbed, uart, at, buffer, handed>>
  BY ConstantTypes DEF Tick, Older, meter, TypeInv
<1>2. TypeInv' BY <1>1, ConstantTypes DEF TypeInv
<1>3. WaitingInv'
  BY <1>1, ConstantTypes DEF WaitingInv, TypeInv
<1>4. ContentsInv' BY <1>1 DEF ContentsInv, Clean, FirstBytes, Byte
<1>5. UncutInv'
  BY <1>1, ConstantTypes DEF UncutInv, Clean, SendingPacket, TypeInv
<1>6. CleanPacketHandedWhole' BY <1>1, HandedStays
<1> QED BY <1>2, <1>3, <1>4, <1>5, <1>6

-----------------------------------------------------------------------------
(* Every step keeps the invariant. *)
LEMMA LoopInvStep == LoopInv /\ [Next]_vars => LoopInv'
<1> SUFFICES ASSUME LoopInv, [Next]_vars PROVE LoopInv' OBVIOUS
<1>1. CASE UNCHANGED vars
  BY <1>1 DEF vars, meter, LoopInv, TypeInv, WaitingInv, ContentsInv, UncutInv,
              CleanPacketHandedWhole, Clean, SendingPacket, FirstBytes, Packet,
              Byte
<1> QED
  BY <1>1, SendByteStep, NextPacketStep, DisturbStep, CallLoopStep,
     ReadByteStep, NothingAvailableStep, HandOverStep, KeepWaitingStep, TickStep
  DEF Next, loop

(* However long the packets, whatever fits into the buffer, and for all    *)
(* times with ByteGap + LoopPeriod <= Timeout and                          *)
(* Timeout + 3 * LoopPeriod < PacketGap: what loop() hands to              *)
(* decrypt_inplace with a byte of a clean packet is that packet.           *)
THEOREM ReceiveLoopHandsPacketsWhole == Spec => []CleanPacketHandedWhole
<1>1. LoopInv => CleanPacketHandedWhole BY DEF LoopInv
<1> QED BY <1>1, LoopInvInit, LoopInvStep, PTL DEF Spec

=============================================================================
