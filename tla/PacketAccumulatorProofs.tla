----------------------- MODULE PacketAccumulatorProofs -----------------------
(***************************************************************************)
(* Proofs about PacketAccumulator and PacketAccumulatorHistory, for every  *)
(* buffer size, every set of bytes and every function in place of Crc16:   *)
(* the types, that PacketAccumulator implements TelegramStream (from the   *)
(* inductive invariant that relates the machine to the bytes since the     *)
(* last '/'), and that a returned view stays good until the next '/'.      *)
(* About P1Line, for every set of telegrams and any number of              *)
(* disturbances: a frame that arrives undisturbed and fits into the buffer *)
(* is returned with its last byte.  The inductive invariant follows the    *)
(* receiver through a clean frame, byte by byte.  Of a frame that is       *)
(* disturbed more than one telegram can come, at two disturbances each: a  *)
(* second inductive invariant keeps the account.                           *)
(***************************************************************************)
EXTENDS P1Line, PacketAccumulatorHistory, SequenceTheorems, TLAPS

-----------------------------------------------------------------------------
(* Type correctness.                                                       *)

(* TypeOK alone is not inductive: a fifth nibble is impossible only since  *)
(* the machine leaves WaitingForCrc on the fourth.                         *)
CrcUnfinished == state = WaitCrc => amount_of_crc_nibbles < 4

TypeInv == TypeOK /\ CrcUnfinished

(* An update inside the domain of a function keeps its type and sets the   *)
(* one place.                                                              *)
LEMMA UpdateType ==
  ASSUME NEW D, NEW R, NEW f \in [D -> R], NEW k \in D, NEW v \in R
  PROVE  [f EXCEPT ![k] = v] \in [D -> R]
OBVIOUS

(* Storing a byte at a place inside the caller's memory keeps its type.    *)
LEMMA AddAtType ==
  ASSUME TypeOK, NEW b \in Bytes, NEW k \in 0..(BufferSize - 1), AddAt(k, b)
  PROVE  /\ buffer' \in [0..(BufferSize - 1) -> Bytes]
         /\ packetSize' = k + 1
         /\ packetSize' \in 1..BufferSize
<1>1. buffer \in [0..(BufferSize - 1) -> Bytes] BY DEF TypeOK
<1>2. [buffer EXCEPT ![k] = b] \in [0..(BufferSize - 1) -> Bytes]
  BY <1>1, UpdateType
<1>3. buffer' \in [0..(BufferSize - 1) -> Bytes] BY <1>2 DEF AddAt
<1>4. packetSize' \in 1..BufferSize /\ packetSize' = k + 1
  BY BufferSizeAssumption DEF AddAt
<1> QED BY <1>3, <1>4

(* The state the dispatch sees is a state, and one that still receives has *)
(* a free byte in the buffer.                                              *)
LEMMA DispatchType ==
  ASSUME TypeOK
  PROVE  /\ DispatchState # WaitStart =>
              /\ DispatchState = state
              /\ packetSize \in 0..(BufferSize - 1)
         /\ Size \in 0..(BufferSize - 1)
BY BufferSizeAssumption DEF TypeOK, DispatchState, HasSpace, Size

(* The three states are different. *)
LEMMA StatesDiffer ==
  WaitStart # WaitEnd /\ WaitStart # WaitCrc /\ WaitEnd # WaitCrc
BY DEF WaitStart, WaitEnd, WaitCrc

(* The uint16_t of the CRC and its nibble counter stay in their ranges.    *)
LEMMA CrcType ==
  ASSUME TypeInv, NEW b \in Bytes, process_byte(b)
  PROVE  /\ crc' \in Nat /\ crc' < 65536
         /\ amount_of_crc_nibbles' \in 0..4
<1>1. CASE UNCHANGED_crc BY <1>1 DEF UNCHANGED_crc, TypeOK, TypeInv
<1>2. CASE EndBeforeCrc(b) BY <1>2 DEF EndBeforeCrc
<1>3. CASE PartialCrc(b) \/ CrcMatch(b) \/ CrcMismatch(b)
  <2>1. CrcNibble(b) BY <1>3 DEF PartialCrc, CrcMatch, CrcMismatch
  <2>2. Nibble(b) \in Int BY BytesAssumption DEF Nibble
  <2>3. crc' \in Nat /\ crc' < 65536
    BY <2>1, <2>2 DEF CrcNibble, AddNibble, TypeOK, TypeInv
  <2>4. state = WaitCrc
    BY <2>1, DispatchType, StatesDiffer DEF CrcNibble, TypeInv
  <2>5. amount_of_crc_nibbles' \in 0..4
    BY <2>1, <2>4 DEF CrcNibble, TypeOK, TypeInv, CrcUnfinished
  <2> QED BY <2>3, <2>5
<1> QED BY <1>1, <1>2, <1>3
        DEF process_byte, StartSymbol, SkipByte, PayloadByte, EndWithoutCrc,
            NotACrcCharacter

(* The places of the buffer and the machine's state keep their types: the  *)
(* byte of every path that stores one lands inside the caller's memory.    *)
LEMMA BufferType ==
  ASSUME TypeOK, NEW b \in Bytes, process_byte(b)
  PROVE  /\ buffer' \in [0..(BufferSize - 1) -> Bytes]
         /\ packetSize' \in 0..BufferSize
         /\ returned' \in 0..packetSize'
         /\ state' \in States
<1> USE DispatchType, StatesDiffer DEF States
<1>1. CASE StartSymbol(b)
  <2>1. 0 \in 0..(BufferSize - 1) BY BufferSizeAssumption
  <2> QED BY <1>1, <2>1, AddAtType DEF StartSymbol
<1>2. CASE SkipByte(b)
  BY <1>2, BufferSizeAssumption DEF SkipByte, TypeOK
<1>3. CASE PayloadByte(b)
  BY <1>3, AddAtType DEF PayloadByte
<1>4. CASE EndWithoutCrc(b)
  BY <1>4, AddAtType DEF EndWithoutCrc
<1>5. CASE EndBeforeCrc(b)
  BY <1>5, AddAtType DEF EndBeforeCrc
<1>6. CASE NotACrcCharacter(b)
  BY <1>6 DEF NotACrcCharacter, TypeOK
<1>7. CASE PartialCrc(b) \/ CrcMatch(b) \/ CrcMismatch(b)
  BY <1>7 DEF PartialCrc, CrcMatch, CrcMismatch, CrcNibble, TypeOK
<1> QED BY <1>1, <1>2, <1>3, <1>4, <1>5, <1>6, <1>7 DEF process_byte

(* Every path through process_byte keeps the types.                        *)
LEMMA TypeInvStep ==
  ASSUME TypeInv, NEW b \in Bytes, process_byte(b)
  PROVE  TypeInv'
<1>1. check_crc' \in BOOLEAN
  <2>1. check_crc \in BOOLEAN BY DEF TypeInv, TypeOK
  <2>2. check_crc' = check_crc BY DEF process_byte
  <2> QED BY <2>1, <2>2, Zenon
<1>2. TypeOK'
  <2>1. TypeOK BY DEF TypeInv
  <2> QED BY <1>1, <2>1, BufferType, CrcType DEF TypeOK
<1>3. CrcUnfinished'
  <2>1. state' = WaitCrc =>
          EndBeforeCrc(b) \/ PartialCrc(b)
    BY StatesDiffer
    DEF process_byte, StartSymbol, SkipByte, PayloadByte, EndWithoutCrc,
        NotACrcCharacter, CrcMatch, CrcMismatch
  <2>2. CASE EndBeforeCrc(b) BY <2>2 DEF EndBeforeCrc, CrcUnfinished
  <2>3. CASE PartialCrc(b)
    BY <2>3, CrcType DEF PartialCrc, CrcUnfinished
  <2> QED BY <2>1, <2>2, <2>3 DEF CrcUnfinished
<1> QED BY <1>2, <1>3 DEF TypeInv

(* The first state has them.                                               *)
LEMMA InitType ==
  ASSUME Init PROVE TypeInv
<1>1. check_crc \in BOOLEAN BY Zenon DEF Init
<1>2. TypeOK
  BY <1>1, BufferSizeAssumption, MemoryAssumption, SMT
  DEF Init, TypeOK, States
<1>3. CrcUnfinished BY DEF Init, CrcUnfinished, WaitStart, WaitCrc
<1> QED BY <1>2, <1>3 DEF TypeInv

(* So has a state in which nothing was called.                             *)
LEMMA StutterType ==
  ASSUME TypeInv, UNCHANGED vars PROVE TypeInv'
<1>1. check_crc' \in BOOLEAN
  <2>1. check_crc \in BOOLEAN BY DEF TypeInv, TypeOK
  <2> QED BY <2>1, Zenon DEF vars
<1> QED BY <1>1, SMT DEF vars, TypeInv, TypeOK, CrcUnfinished

(* Every telegram receiver, whatever its buffer and its input, keeps its   *)
(* writes and the views it returns inside the caller's buffer.             *)
THEOREM TypeCorrect == Spec => []TypeOK
<1>1. Init => TypeInv BY InitType
<1>2. TypeInv /\ [Next]_vars => TypeInv'
  BY TypeInvStep, StutterType DEF Next
<1>3. TypeInv => TypeOK BY DEF TypeInv
<1> QED BY <1>1, <1>2, <1>3, PTL DEF Spec

-----------------------------------------------------------------------------
(* Hexadecimal characters: the encoding of the specification and the       *)
(* decoding of the code agree.                                             *)

(* A byte prints the digit n exactly when add_to_crc accepts it and reads  *)
(* n from it, in upper or lower case.                                      *)
LEMMA HexDigit ==
  ASSUME NEW b \in Bytes, NEW n \in 0..15
  PROVE  b \in Abs!HexCharacters(n) <=> IsCrcCharacter(b) /\ Nibble(b) = n
BY BytesAssumption
   DEF Abs!HexCharacters, IsCrcCharacter, Nibble, Digits, UpperHex, LowerHex

(* A nibble has four bits. *)
LEMMA NibbleType ==
  ASSUME NEW b \in Bytes, IsCrcCharacter(b)
  PROVE  Nibble(b) \in 0..15
BY BytesAssumption DEF IsCrcCharacter, Nibble, Digits, UpperHex, LowerHex

(* Four hexadecimal characters print v exactly when their nibbles, shifted *)
(* in one after the other, are v.                                          *)
LEMMA FourDigits ==
  ASSUME NEW c1 \in Bytes, NEW c2 \in Bytes, NEW c3 \in Bytes, NEW c4 \in Bytes,
         IsCrcCharacter(c1), IsCrcCharacter(c2),
         IsCrcCharacter(c3), IsCrcCharacter(c4),
         NEW v \in Nat, v < 65536
  PROVE  (/\ c1 \in Abs!HexCharacters(v \div 4096)
          /\ c2 \in Abs!HexCharacters((v \div 256) % 16)
          /\ c3 \in Abs!HexCharacters((v \div 16) % 16)
          /\ c4 \in Abs!HexCharacters(v % 16))
         <=> v = ((Nibble(c1) * 16 + Nibble(c2)) * 16 + Nibble(c3)) * 16
                 + Nibble(c4)
<1>1. /\ v \div 4096 \in 0..15 /\ (v \div 256) % 16 \in 0..15
      /\ (v \div 16) % 16 \in 0..15 /\ v % 16 \in 0..15
  OBVIOUS
<1>2. c1 \in Abs!HexCharacters(v \div 4096) <=> v \div 4096 = Nibble(c1)
  BY <1>1, HexDigit
<1>3. c2 \in Abs!HexCharacters((v \div 256) % 16)
        <=> (v \div 256) % 16 = Nibble(c2)
  BY <1>1, HexDigit
<1>4. c3 \in Abs!HexCharacters((v \div 16) % 16)
        <=> (v \div 16) % 16 = Nibble(c3)
  BY <1>1, HexDigit
<1>5. c4 \in Abs!HexCharacters(v % 16) <=> v % 16 = Nibble(c4)
  BY <1>1, HexDigit
<1> DEFINE n1 == Nibble(c1)  n2 == Nibble(c2)
           n3 == Nibble(c3)  n4 == Nibble(c4)
<1>6. n1 \in 0..15 /\ n2 \in 0..15 /\ n3 \in 0..15 /\ n4 \in 0..15
  BY NibbleType
<1>7. v = ((n1 * 16 + n2) * 16 + n3) * 16 + n4
        <=> /\ v \div 4096 = n1
            /\ (v \div 256) % 16 = n2
            /\ (v \div 16) % 16 = n3
            /\ v % 16 = n4
  <2> HIDE DEF n1, n2, n3, n4
  <2> QED BY <1>6, SMTT(60)
<1> QED BY <1>2, <1>3, <1>4, <1>5, <1>7

-----------------------------------------------------------------------------
(* The bytes since the last '/' as a sequence.                             *)

(* Extend appends every byte but '/'. *)
LEMMA ExtendType ==
  ASSUME NEW s \in Seq(Bytes), NEW b \in Bytes
  PROVE  /\ Abs!Extend(s, b) \in Seq(Bytes)
         /\ b = StartByte => Abs!Extend(s, b) = <<b>>
         /\ b # StartByte /\ s = <<>> => Abs!Extend(s, b) = <<>>
         /\ b # StartByte /\ s # <<>> =>
              /\ Len(Abs!Extend(s, b)) = Len(s) + 1
              /\ Abs!Extend(s, b)[Len(s) + 1] = b
              /\ \A i \in 1..Len(s) : Abs!Extend(s, b)[i] = s[i]
BY DEF Abs!Extend, Abs!Slash, StartByte

(* The first '!' of s is at place k. *)
FirstEnd(s, k) == /\ k \in 1..Len(s)
                  /\ s[k] = EndByte
                  /\ \A i \in 1..(k - 1) : s[i] # EndByte

(* A CRC has four characters or none.                                      *)
LEMMA CrcLengthType ==
  ASSUME check_crc \in BOOLEAN
  PROVE  /\ Abs!CrcLength \in 0..4
         /\ check_crc => Abs!CrcLength = 4 /\ Abs!Spare = 1
         /\ ~check_crc => Abs!CrcLength = 0 /\ Abs!Spare = 0
BY DEF Abs!CrcLength, Abs!Spare

(* A complete telegram ends at its first '!', and hexadecimal characters   *)
(* follow it to the end.                                                   *)
LEMMA CompleteShape ==
  ASSUME TypeOK, NEW s \in Seq(Bytes), Abs!Complete(s)
  PROVE  LET k == Len(s) - Abs!CrcLength
         IN  /\ FirstEnd(s, k)
             /\ k \in 2..(BufferSize - Abs!Spare)
             /\ \A j \in (k + 1)..Len(s) : IsCrcCharacter(s[j])
<1> DEFINE k == Len(s) - Abs!CrcLength
<1>1. Abs!CrcLength \in 0..4 /\ Len(s) \in Nat /\ Abs!Spare \in 0..1
  BY CrcLengthType DEF TypeOK, Abs!Spare
<1>2. k \in 2..(BufferSize - Abs!Spare) /\ k \in 1..Len(s)
  BY <1>1, BufferSizeAssumption DEF Abs!Complete
<1>3. FirstEnd(s, k)
  BY <1>2 DEF Abs!Complete, Abs!Bang, FirstEnd, EndByte
<1>4. ASSUME NEW j \in (k + 1)..Len(s) PROVE IsCrcCharacter(s[j])
  <2>1. check_crc /\ Len(s) = k + 4
    BY <1>1, <1>2, CrcLengthType DEF TypeOK
  <2> DEFINE v == Crc16(SubSeq(s, 1, k))
  <2>2. Abs!PrintsAt(s, k, v) BY <2>1 DEF Abs!Complete
  <2>3. s[j] \in Bytes BY <1>2
  <2>4. j = k + 1 \/ j = k + 2 \/ j = k + 3 \/ j = k + 4
    BY <1>2, <2>1
  <2>5. /\ v \div 4096 \in 0..15 /\ (v \div 256) % 16 \in 0..15
        /\ (v \div 16) % 16 \in 0..15 /\ v % 16 \in 0..15
    <3> HIDE DEF v
    <3> QED BY <2>2 DEF Abs!PrintsAt
  <2> HIDE DEF k, v
  <2>6. CASE j = k + 1
    <3>1. s[j] \in Abs!HexCharacters(v \div 4096)
      BY <2>2, <2>6 DEF Abs!PrintsAt
    <3> QED BY <2>3, <2>5, <3>1, HexDigit, SMTT(60)
  <2>7. CASE j = k + 2
    <3>1. s[j] \in Abs!HexCharacters((v \div 256) % 16)
      BY <2>2, <2>7 DEF Abs!PrintsAt
    <3> QED BY <2>3, <2>5, <3>1, HexDigit, SMTT(60)
  <2>8. CASE j = k + 3
    <3>1. s[j] \in Abs!HexCharacters((v \div 16) % 16)
      BY <2>2, <2>8 DEF Abs!PrintsAt
    <3> QED BY <2>3, <2>5, <3>1, HexDigit, SMTT(60)
  <2>9. CASE j = k + 4
    <3>1. s[j] \in Abs!HexCharacters(v % 16)
      BY <2>2, <2>9 DEF Abs!PrintsAt
    <3> QED BY <2>3, <2>5, <3>1, HexDigit, SMTT(60)
  <2> QED BY <2>4, <2>6, <2>7, <2>8, <2>9
<1> QED BY <1>2, <1>3, <1>4

(* There is one first '!'. *)
LEMMA FirstEndUnique ==
  ASSUME NEW s \in Seq(Bytes), NEW k, NEW l, FirstEnd(s, k), FirstEnd(s, l)
  PROVE  k = l
BY DEF FirstEnd

(* No extension of s is ever complete: nothing was started, or no '!' came *)
(* while there was space, or the first one is too late, or enough bytes    *)
(* or a wrong one followed it.                                             *)
Dead(s) ==
  \/ s = <<>>
  \/ /\ Len(s) >= BufferSize
     /\ \A i \in 1..BufferSize : s[i] # EndByte
  \/ \E k \in 1..Len(s) :
       /\ FirstEnd(s, k)
       /\ \/ k > BufferSize - Abs!Spare
          \/ Len(s) >= k + Abs!CrcLength
          \/ \E j \in (k + 1)..Len(s) : ~IsCrcCharacter(s[j])

(* What can no longer become complete stays so until the next '/'.         *)
LEMMA DeadExtend ==
  ASSUME TypeOK, NEW s \in Seq(Bytes), Dead(s),
         NEW b \in Bytes, b # StartByte
  PROVE  Dead(Abs!Extend(s, b)) /\ ~Abs!Complete(Abs!Extend(s, b))
<1> DEFINE t == Abs!Extend(s, b)  c == Abs!CrcLength
<1>1. c \in 0..4 /\ Abs!Spare \in 0..1 /\ Len(s) \in Nat
  BY CrcLengthType DEF TypeOK, Abs!Spare
<1>2. t \in Seq(Bytes) BY ExtendType
<1>3. CASE s = <<>>
  <2>1. t = <<>> BY <1>3, ExtendType
  <2>2. ~Abs!Complete(t) BY <1>1, <2>1 DEF Abs!Complete
  <2> QED BY <2>1, <2>2 DEF Dead
<1>4. CASE /\ s # <<>> /\ Len(s) >= BufferSize
           /\ \A i \in 1..BufferSize : s[i] # EndByte
  <2>1. Len(t) = Len(s) + 1 /\ \A i \in 1..Len(s) : t[i] = s[i]
    BY <1>4, ExtendType
  <2>2. Len(t) >= BufferSize /\ \A i \in 1..BufferSize : t[i] # EndByte
    BY <1>1, <1>4, <2>1, BufferSizeAssumption
  <2>3. ASSUME Abs!Complete(t) PROVE FALSE
    <3>1. FirstEnd(t, Len(t) - c) /\ Len(t) - c \in 2..(BufferSize - Abs!Spare)
      BY <1>2, <2>3, CompleteShape
    <3> QED BY <1>1, <2>2, <3>1, BufferSizeAssumption DEF FirstEnd
  <2> QED BY <2>2, <2>3 DEF Dead
<1>5. CASE /\ s # <<>>
           /\ \E k \in 1..Len(s) :
                /\ FirstEnd(s, k)
                /\ \/ k > BufferSize - Abs!Spare
                   \/ Len(s) >= k + c
                   \/ \E j \in (k + 1)..Len(s) : ~IsCrcCharacter(s[j])
  <2>1. Len(t) = Len(s) + 1 /\ \A i \in 1..Len(s) : t[i] = s[i]
    BY <1>5, ExtendType
  <2>2. PICK k \in 1..Len(s) :
          /\ FirstEnd(s, k)
          /\ \/ k > BufferSize - Abs!Spare
             \/ Len(s) >= k + c
             \/ \E j \in (k + 1)..Len(s) : ~IsCrcCharacter(s[j])
    BY <1>5
  <2>3. k \in 1..Len(t) /\ FirstEnd(t, k)
    BY <1>1, <2>1, <2>2 DEF FirstEnd
  <2>4. \/ k > BufferSize - Abs!Spare
        \/ Len(t) > k + c
        \/ \E j \in (k + 1)..Len(t) : ~IsCrcCharacter(t[j])
    <3> HIDE DEF t, c
    <3> QED BY <1>1, <2>1, <2>2
  <2>5. Dead(t) BY <1>1, <2>3, <2>4 DEF Dead
  <2>6. ASSUME Abs!Complete(t) PROVE FALSE
    <3>1. /\ FirstEnd(t, Len(t) - c)
          /\ Len(t) - c \in 2..(BufferSize - Abs!Spare)
          /\ \A j \in (Len(t) - c + 1)..Len(t) : IsCrcCharacter(t[j])
      BY <1>2, <2>6, CompleteShape
    <3>2. k = Len(t) - c BY <1>2, <2>3, <3>1, FirstEndUnique
    <3> HIDE DEF t, c
    <3> QED BY <1>1, <2>1, <2>4, <3>1, <3>2, BufferSizeAssumption
  <2> QED BY <2>5, <2>6
<1> QED BY <1>3, <1>4, <1>5 DEF Dead

-----------------------------------------------------------------------------
(* The invariant.                                                          *)

(* The first n bytes of the buffer are the first n bytes since the '/'.    *)
Stored(n) == \A i \in 1..n : since[i] = buffer[i - 1]

ReceivingInv == state = WaitEnd =>
  /\ packetSize >= 1
  /\ Len(since) = packetSize
  /\ Stored(packetSize)
  /\ \A i \in 1..packetSize : since[i] # EndByte

(* While the CRC arrives, crc holds the value of the nibbles so far. *)
CrcInv == state = WaitCrc =>
  /\ check_crc
  /\ packetSize >= 2
  /\ amount_of_crc_nibbles \in 0..3
  /\ Len(since) = packetSize + amount_of_crc_nibbles
  /\ Stored(packetSize)
  /\ FirstEnd(since, packetSize)
  /\ \A j \in (packetSize + 1)..Len(since) : IsCrcCharacter(since[j])
  /\ amount_of_crc_nibbles = 0 => crc = 0
  /\ amount_of_crc_nibbles = 1 => crc = Nibble(since[packetSize + 1])
  /\ amount_of_crc_nibbles = 2 =>
       crc = Nibble(since[packetSize + 1]) * 16 + Nibble(since[packetSize + 2])
  /\ amount_of_crc_nibbles = 3 =>
       crc = (Nibble(since[packetSize + 1]) * 16
              + Nibble(since[packetSize + 2])) * 16
             + Nibble(since[packetSize + 3])

IdleInv == state = WaitStart => Dead(since)

SinceInv == /\ TypeInv
            /\ since \in Seq(Bytes)
            /\ IdleInv
            /\ ReceivingInv
            /\ CrcInv

(* What the call must return for the bytes it has seen. *)
Returns == /\ Abs!Complete(since') => /\ returned' # 0
                                      /\ View(returned)' = Abs!Telegram(since')
           /\ ~Abs!Complete(since') => returned' = 0

(* One call of process_byte with the history it leaves. *)
Call(b) == /\ process_byte(b)
           /\ since' = Abs!Extend(since, b)

-----------------------------------------------------------------------------
(* A byte that meets a full buffer finds a machine that has given up on    *)
(* bytes no extension of which could be complete.                          *)
LEMMA DispatchIdle ==
  ASSUME SinceInv, DispatchState = WaitStart
  PROVE  Dead(since)
<1>1. CASE state = WaitStart BY <1>1 DEF SinceInv, IdleInv
<1>2. CASE state = WaitEnd
  <2>1. packetSize = BufferSize
    BY <1>2, StatesDiffer, BufferSizeAssumption
    DEF DispatchState, HasSpace, SinceInv, TypeInv, TypeOK
  <2> QED BY <1>2, <2>1 DEF SinceInv, ReceivingInv, Dead
<1>3. CASE state = WaitCrc
  <2>1. packetSize = BufferSize
    BY <1>3, StatesDiffer, BufferSizeAssumption
    DEF DispatchState, HasSpace, SinceInv, TypeInv, TypeOK
  <2>2. Abs!Spare = 1
    BY <1>3, CrcLengthType DEF SinceInv, CrcInv, TypeInv, TypeOK
  <2>3. packetSize > BufferSize - Abs!Spare
    BY <2>1, <2>2, BufferSizeAssumption
  <2>4. FirstEnd(since, packetSize) /\ packetSize \in 1..Len(since)
    BY <1>3 DEF SinceInv, CrcInv, FirstEnd
  <2> QED BY <2>3, <2>4 DEF Dead
<1> QED BY <1>1, <1>2, <1>3 DEF SinceInv, TypeInv, TypeOK, States

(* Where the constants of the CRC mode stand while a call runs. *)
LEMMA ModeKept ==
  ASSUME SinceInv, NEW b \in Bytes, Call(b)
  PROVE  /\ check_crc' = check_crc
         /\ Abs!CrcLength' = Abs!CrcLength
         /\ Abs!Spare' = Abs!Spare
         /\ TypeInv'
         /\ since' \in Seq(Bytes)
<1>1. check_crc' = check_crc BY DEF Call, process_byte
<1>2. TypeInv' BY TypeInvStep DEF SinceInv, Call
<1>3. since' \in Seq(Bytes) BY ExtendType DEF SinceInv, Call
<1> QED BY <1>1, <1>2, <1>3 DEF Abs!CrcLength, Abs!Spare

(* '/' starts a telegram in the receiver and in the abstract stream.       *)
LEMMA StartSymbolStep ==
  ASSUME SinceInv, NEW b \in Bytes, Call(b), StartSymbol(b)
  PROVE  SinceInv' /\ Returns
<1>1. since' = <<b>>
  BY ExtendType DEF Call, StartSymbol, SinceInv
<1>2. state' = WaitEnd /\ packetSize' = 1 /\ returned' = 0
      /\ buffer' = [buffer EXCEPT ![0] = b]
  BY DEF StartSymbol, AddAt
<1>3. buffer'[0] = b
  <2>1. 0 \in 0..(BufferSize - 1) BY BufferSizeAssumption
  <2> QED BY <1>2, <2>1 DEF SinceInv, TypeInv, TypeOK
<1>4. Len(since') = 1 /\ since'[1] = b BY <1>1
<1>5. ~Abs!Complete(since')
  <2>1. Abs!CrcLength \in 0..4
    BY CrcLengthType DEF SinceInv, TypeInv, TypeOK
  <2> QED BY <1>4, <2>1 DEF Abs!Complete
<1>6. ReceivingInv'
  BY <1>2, <1>3, <1>4 DEF ReceivingInv, Stored, StartSymbol, StartByte, EndByte
<1>7. IdleInv' /\ CrcInv'
  BY <1>2, StatesDiffer DEF IdleInv, CrcInv
<1> QED BY <1>2, <1>5, <1>6, <1>7, ModeKept DEF SinceInv, Returns

(* A byte that is skipped completes nothing: what came since the last      *)
(* '/' has overflowed, failed, or been returned already.                   *)
LEMMA SkipByteStep ==
  ASSUME SinceInv, NEW b \in Bytes, Call(b), SkipByte(b)
  PROVE  SinceInv' /\ Returns
<1>1. Dead(since) BY DispatchIdle DEF SkipByte
<1>2. Dead(since') /\ ~Abs!Complete(since')
  <2>1. Dead(Abs!Extend(since, b)) /\ ~Abs!Complete(Abs!Extend(since, b))
    BY <1>1, DeadExtend DEF SinceInv, TypeInv, SkipByte
  <2> QED BY <2>1 DEF Call
<1>3. Dead(since)'
  BY <1>2, ModeKept DEF Dead, FirstEnd
<1>4. state' = WaitStart /\ returned' = 0 BY DEF SkipByte
<1>5. IdleInv' /\ ReceivingInv' /\ CrcInv'
  BY <1>3, <1>4, StatesDiffer DEF IdleInv, ReceivingInv, CrcInv
<1> QED BY <1>2, <1>4, <1>5, ModeKept DEF SinceInv, Returns

(* The three paths that store a byte while the packet is received: the     *)
(* stored bytes still are the bytes since the '/'.                         *)
LEMMA StoreStep ==
  ASSUME SinceInv, NEW b \in Bytes, Call(b), b # StartByte,
         DispatchState = WaitEnd, AddAt(packetSize, b)
  PROVE  /\ packetSize \in 1..(BufferSize - 1)
         /\ packetSize' = packetSize + 1
         /\ Len(since') = packetSize'
         /\ Stored(packetSize)'
         /\ since'[packetSize'] = b
         /\ \A i \in 1..packetSize : since'[i] # EndByte
<1>1. state = WaitEnd /\ packetSize \in 1..(BufferSize - 1)
  BY DispatchType, StatesDiffer, BufferSizeAssumption
  DEF SinceInv, TypeInv, ReceivingInv
<1>2. /\ since \in Seq(Bytes) /\ Len(since) = packetSize
      /\ Stored(packetSize)
      /\ \A i \in 1..packetSize : since[i] # EndByte
  BY <1>1 DEF SinceInv, ReceivingInv
<1>3. since # <<>> BY <1>1, <1>2
<1>4. /\ Len(since') = packetSize + 1 /\ since'[packetSize + 1] = b
      /\ \A i \in 1..packetSize : since'[i] = since[i]
  BY <1>2, <1>3, ExtendType, ZenonT(60) DEF Call
<1>5. /\ packetSize' = packetSize + 1
      /\ buffer'[packetSize] = b
      /\ \A i \in 0..(packetSize - 1) : buffer'[i] = buffer[i]
  BY <1>1 DEF AddAt, SinceInv, TypeInv, TypeOK
<1>6. Stored(packetSize)'
  <2> SUFFICES ASSUME NEW i \in 1..(packetSize + 1)
               PROVE  since'[i] = buffer'[i - 1]
    BY <1>5 DEF Stored
  <2>1. CASE i = packetSize + 1 BY <1>1, <1>4, <1>5, <2>1
  <2>2. CASE i \in 1..packetSize BY <1>1, <1>2, <1>4, <1>5, <2>2 DEF Stored
  <2> QED BY <1>1, <2>1, <2>2
<1> QED BY <1>1, <1>2, <1>4, <1>5, <1>6

(* A byte that is stored extends the telegram both have so far.            *)
LEMMA PayloadByteStep ==
  ASSUME SinceInv, NEW b \in Bytes, Call(b), PayloadByte(b)
  PROVE  SinceInv' /\ Returns
<1>1. b # StartByte /\ b # EndByte /\ DispatchState = WaitEnd
      /\ AddAt(packetSize, b) /\ state' = WaitEnd /\ returned' = 0
  BY DEF PayloadByte
<1>2. /\ packetSize \in 1..(BufferSize - 1)
      /\ packetSize' = packetSize + 1
      /\ Len(since') = packetSize'
      /\ Stored(packetSize)'
      /\ since'[packetSize'] = b
      /\ \A i \in 1..packetSize : since'[i] # EndByte
  BY <1>1, StoreStep
<1>3. \A i \in 1..packetSize' : since'[i] # EndByte
  BY <1>1, <1>2
<1>4. ReceivingInv' BY <1>2, <1>3 DEF ReceivingInv
<1>5. IdleInv' /\ CrcInv' BY <1>1, StatesDiffer DEF IdleInv, CrcInv
<1>6. ASSUME Abs!Complete(since') PROVE FALSE
  <2>1. FirstEnd(since', Len(since') - Abs!CrcLength)
    BY <1>6, CompleteShape, ModeKept DEF SinceInv, TypeInv
  <2> QED BY <1>2, <1>3, <2>1 DEF FirstEnd
<1> QED BY <1>1, <1>4, <1>5, <1>6, ModeKept DEF SinceInv, Returns

(* What the first n bytes of the buffer show is what arrived first. *)
LEMMA ViewIsPrefix ==
  ASSUME NEW s \in Seq(Bytes), NEW n \in 0..Len(s),
         \A i \in 1..n : s[i] = buffer[i - 1]
  PROVE  View(n) = SubSeq(s, 1, n)
BY DEF View

(* Without a CRC the first '!' completes the telegram in both.             *)
LEMMA EndWithoutCrcStep ==
  ASSUME SinceInv, NEW b \in Bytes, Call(b), EndWithoutCrc(b)
  PROVE  SinceInv' /\ Returns
<1>1. b # StartByte /\ b = EndByte /\ DispatchState = WaitEnd /\ ~check_crc
      /\ AddAt(packetSize, b) /\ state' = WaitStart
      /\ returned' = packetSize + 1
  BY DEF EndWithoutCrc, StartByte, EndByte
<1>2. /\ packetSize \in 1..(BufferSize - 1)
      /\ packetSize' = packetSize + 1
      /\ Len(since') = packetSize'
      /\ Stored(packetSize)'
      /\ since'[packetSize'] = b
      /\ \A i \in 1..packetSize : since'[i] # EndByte
  BY <1>1, StoreStep
<1>3. Abs!CrcLength = 0 /\ Abs!Spare = 0
  BY <1>1 DEF Abs!CrcLength, Abs!Spare
<1>4. FirstEnd(since', packetSize') BY <1>1, <1>2 DEF FirstEnd
<1>5. Abs!Complete(since')
  BY <1>1, <1>2, <1>3, <1>4, BufferSizeAssumption
  DEF Abs!Complete, Abs!Bang, EndByte, FirstEnd
<1>6. View(returned)' = Abs!Telegram(since')
  <2>1. View(packetSize)' = SubSeq(since', 1, packetSize')
    BY <1>2, ModeKept DEF View, Stored
  <2>2. returned' = packetSize' BY <1>1, <1>2
  <2> QED BY <1>2, <1>3, <2>1, <2>2 DEF View, Abs!Telegram
<1>7. Dead(since)'
  BY <1>2, <1>3, <1>4, ModeKept DEF Dead, FirstEnd
<1>8. IdleInv' /\ ReceivingInv' /\ CrcInv'
  BY <1>1, <1>7, StatesDiffer DEF IdleInv, ReceivingInv, CrcInv
<1>9. returned' # 0 BY <1>1, <1>2
<1> QED BY <1>5, <1>6, <1>8, <1>9, ModeKept DEF SinceInv, Returns

(* With a CRC the first '!' completes nothing yet.                         *)
LEMMA EndBeforeCrcStep ==
  ASSUME SinceInv, NEW b \in Bytes, Call(b), EndBeforeCrc(b)
  PROVE  SinceInv' /\ Returns
<1>1. b # StartByte /\ b = EndByte /\ DispatchState = WaitEnd /\ check_crc
      /\ AddAt(packetSize, b) /\ state' = WaitCrc /\ returned' = 0
      /\ crc' = 0 /\ amount_of_crc_nibbles' = 0
  BY DEF EndBeforeCrc, StartByte, EndByte
<1>2. /\ packetSize \in 1..(BufferSize - 1)
      /\ packetSize' = packetSize + 1
      /\ Len(since') = packetSize'
      /\ Stored(packetSize)'
      /\ since'[packetSize'] = b
      /\ \A i \in 1..packetSize : since'[i] # EndByte
  BY <1>1, StoreStep
<1>3. Abs!CrcLength = 4 BY <1>1 DEF Abs!CrcLength
<1>4. FirstEnd(since', packetSize') BY <1>1, <1>2 DEF FirstEnd
<1>5. CrcInv'
  <2>1. check_crc' BY <1>1, ModeKept, Zenon
  <2>2. FirstEnd(since, packetSize)' BY <1>4 DEF FirstEnd
  <2>3. /\ packetSize' >= 2 /\ amount_of_crc_nibbles' \in 0..3
        /\ Len(since') = packetSize' + amount_of_crc_nibbles'
        /\ \A j \in (packetSize' + 1)..Len(since') : IsCrcCharacter(since'[j])
    BY <1>1, <1>2
  <2> QED BY <1>1, <1>2, <2>1, <2>2, <2>3 DEF CrcInv
<1>6. IdleInv' /\ ReceivingInv'
  BY <1>1, StatesDiffer DEF IdleInv, ReceivingInv
<1>7. ASSUME Abs!Complete(since') PROVE FALSE
  <2>1. FirstEnd(since', Len(since') - 4)
    BY <1>3, <1>7, CompleteShape, ModeKept DEF SinceInv, TypeInv
  <2>2. Len(since') - 4 = packetSize'
    BY <1>4, <2>1, FirstEndUnique, ModeKept
  <2> QED BY <1>2, <2>2
<1> QED BY <1>1, <1>5, <1>6, <1>7, ModeKept DEF SinceInv, Returns

-----------------------------------------------------------------------------
(* The four characters of the CRC.                                         *)

(* A character of the CRC lengthens what arrived and leaves the packet.    *)
LEMMA CrcCharacter ==
  ASSUME SinceInv, NEW b \in Bytes, Call(b), b # StartByte,
         DispatchState = WaitCrc, UNCHANGED <<buffer, packetSize>>
  PROVE  /\ check_crc /\ state = WaitCrc
         /\ packetSize \in 2..(BufferSize - 1)
         /\ amount_of_crc_nibbles \in 0..3
         /\ Len(since) = packetSize + amount_of_crc_nibbles
         /\ Len(since') = Len(since) + 1
         /\ since'[Len(since')] = b
         /\ \A i \in 1..Len(since) : since'[i] = since[i]
         /\ Stored(packetSize)'
         /\ FirstEnd(since', packetSize')
<1>1. state = WaitCrc /\ packetSize \in 0..(BufferSize - 1)
  BY DispatchType, StatesDiffer DEF SinceInv, TypeInv
<1>2. /\ check_crc
      /\ packetSize \in 2..(BufferSize - 1)
      /\ amount_of_crc_nibbles \in 0..3
      /\ Len(since) = packetSize + amount_of_crc_nibbles
      /\ Stored(packetSize) /\ FirstEnd(since, packetSize)
  BY <1>1, BufferSizeAssumption DEF SinceInv, CrcInv
<1>3. since # <<>> BY <1>2
<1>4. /\ Len(since') = Len(since) + 1
      /\ since'[Len(since')] = b
      /\ \A i \in 1..Len(since) : since'[i] = since[i]
  BY <1>3, ExtendType, ZenonT(60) DEF Call, SinceInv
<1>5. Stored(packetSize)' BY <1>2, <1>4 DEF Stored
<1>6. FirstEnd(since', packetSize')
  BY <1>2, <1>4 DEF FirstEnd
<1> QED BY <1>1, <1>2, <1>4, <1>5, <1>6

(* Before the fourth character nothing is complete. *)
LEMMA TooShort ==
  ASSUME SinceInv, NEW b \in Bytes, Call(b), check_crc,
         FirstEnd(since', packetSize'), Abs!Complete(since')
  PROVE  /\ Len(since') = packetSize' + 4
         /\ \A j \in (packetSize' + 1)..Len(since') : IsCrcCharacter(since'[j])
<1>1. Abs!CrcLength = 4 BY DEF Abs!CrcLength
<1>2. since' \in Seq(Bytes) /\ TypeOK BY ModeKept DEF SinceInv, TypeInv
<1>3. FirstEnd(since', Len(since') - 4)
      /\ \A j \in (Len(since') - 4 + 1)..Len(since') : IsCrcCharacter(since'[j])
  BY <1>1, <1>2, CompleteShape
<1>4. packetSize' = Len(since') - 4 BY <1>2, <1>3, FirstEndUnique
<1> QED BY <1>2, <1>3, <1>4

(* A CRC that is cut short completes nothing, now or later.                *)
LEMMA NotACrcCharacterStep ==
  ASSUME SinceInv, NEW b \in Bytes, Call(b), NotACrcCharacter(b)
  PROVE  SinceInv' /\ Returns
<1>1. /\ b # StartByte /\ DispatchState = WaitCrc /\ ~IsCrcCharacter(b)
      /\ UNCHANGED <<buffer, packetSize>> /\ state' = WaitStart
      /\ returned' = 0
  BY DEF NotACrcCharacter
<1>2. /\ check_crc /\ packetSize \in 2..(BufferSize - 1)
      /\ amount_of_crc_nibbles \in 0..3
      /\ Len(since) = packetSize + amount_of_crc_nibbles
      /\ Len(since') = Len(since) + 1 /\ since'[Len(since')] = b
      /\ FirstEnd(since', packetSize')
  BY <1>1, CrcCharacter
<1>3. ~Abs!Complete(since')
  BY <1>1, <1>2, TooShort
<1>4. Dead(since)'
  BY <1>1, <1>2, ModeKept DEF Dead, FirstEnd
<1>5. IdleInv' /\ ReceivingInv' /\ CrcInv'
  BY <1>1, <1>4, StatesDiffer DEF IdleInv, ReceivingInv, CrcInv
<1> QED BY <1>1, <1>3, <1>5, ModeKept DEF SinceInv, Returns

(* The nibbles seen so far, with the one this call reads.                  *)
LEMMA NibbleStep ==
  ASSUME SinceInv, NEW b \in Bytes, Call(b), CrcNibble(b)
  PROVE  /\ b # StartByte
         /\ check_crc /\ state = WaitCrc
         /\ packetSize \in 2..(BufferSize - 1)
         /\ packetSize' = packetSize
         /\ amount_of_crc_nibbles \in 0..3
         /\ amount_of_crc_nibbles' = amount_of_crc_nibbles + 1
         /\ Len(since') = packetSize' + amount_of_crc_nibbles'
         /\ Stored(packetSize)'
         /\ FirstEnd(since', packetSize')
         /\ \A j \in (packetSize' + 1)..Len(since') : IsCrcCharacter(since'[j])
         /\ since'[Len(since')] = b
         /\ \A i \in 1..Len(since) : since'[i] = since[i]
<1>1. /\ DispatchState = WaitCrc /\ IsCrcCharacter(b)
      /\ UNCHANGED <<buffer, packetSize>>
      /\ amount_of_crc_nibbles' = amount_of_crc_nibbles + 1
  BY DEF CrcNibble
<1>2. b # StartByte
  BY <1>1 DEF IsCrcCharacter, Digits, UpperHex, LowerHex, StartByte
<1>3. /\ check_crc /\ state = WaitCrc
      /\ packetSize \in 2..(BufferSize - 1)
      /\ amount_of_crc_nibbles \in 0..3
      /\ Len(since) = packetSize + amount_of_crc_nibbles
      /\ Len(since') = Len(since) + 1
      /\ since'[Len(since')] = b
      /\ \A i \in 1..Len(since) : since'[i] = since[i]
      /\ Stored(packetSize)'
      /\ FirstEnd(since', packetSize')
  BY <1>1, <1>2, CrcCharacter
<1>4. \A j \in (packetSize + 1)..Len(since) : IsCrcCharacter(since[j])
  BY <1>3 DEF SinceInv, CrcInv
<1>5. \A j \in (packetSize' + 1)..Len(since') : IsCrcCharacter(since'[j])
  BY <1>1, <1>3, <1>4
<1> QED BY <1>1, <1>2, <1>3, <1>5

(* crc is the value of the nibbles read: sixteen bits hold four of them.   *)
LEMMA CrcValue ==
  ASSUME SinceInv, NEW b \in Bytes, Call(b), CrcNibble(b)
  PROVE  /\ amount_of_crc_nibbles' = 1 => crc' = Nibble(since'[packetSize' + 1])
         /\ amount_of_crc_nibbles' = 2 =>
              crc' = Nibble(since'[packetSize' + 1]) * 16
                     + Nibble(since'[packetSize' + 2])
         /\ amount_of_crc_nibbles' = 3 =>
              crc' = (Nibble(since'[packetSize' + 1]) * 16
                      + Nibble(since'[packetSize' + 2])) * 16
                     + Nibble(since'[packetSize' + 3])
         /\ amount_of_crc_nibbles' = 4 =>
              crc' = ((Nibble(since'[packetSize' + 1]) * 16
                       + Nibble(since'[packetSize' + 2])) * 16
                      + Nibble(since'[packetSize' + 3])) * 16
                     + Nibble(since'[packetSize' + 4])
<1> DEFINE p == packetSize  n == amount_of_crc_nibbles
           x(i) == Nibble(since'[p + i])
<1>1. /\ packetSize' = p /\ p \in Nat /\ n \in 0..3 /\ n' = n + 1
      /\ Len(since) = p + n /\ Len(since') = p + n + 1
      /\ since'[p + n + 1] = b /\ state = WaitCrc
      /\ \A i \in 1..Len(since) : since'[i] = since[i]
  BY NibbleStep DEF SinceInv, CrcInv
<1>2. Nibble(b) \in 0..15
  BY NibbleType DEF CrcNibble
<1>3. \A i \in 1..n : since[p + i] = since'[p + i]
  BY <1>1
<1>4. \A i \in 1..(n + 1) : x(i) \in 0..15
  <2> SUFFICES ASSUME NEW i \in 1..(n + 1) PROVE x(i) \in 0..15
    OBVIOUS
  <2>1. since' \in Seq(Bytes) BY ModeKept
  <2>2. since'[p + i] \in Bytes BY <1>1, <2>1
  <2>3. IsCrcCharacter(since'[p + i]) BY <1>1, NibbleStep
  <2> QED BY <2>2, <2>3, NibbleType
<1>5. /\ n = 0 => crc = 0
      /\ n = 1 => crc = x(1)
      /\ n = 2 => crc = x(1) * 16 + x(2)
      /\ n = 3 => crc = (x(1) * 16 + x(2)) * 16 + x(3)
  BY <1>1, <1>3 DEF SinceInv, CrcInv
<1>6. x(n + 1) = Nibble(b) /\ crc' = (crc * 16 + Nibble(b)) % 65536
  BY <1>1 DEF CrcNibble, AddNibble
<1>7. crc' = crc * 16 + x(n + 1)
  <2>1. crc \in Nat /\ crc < 4096
    <3> HIDE DEF x, n
    <3>1. CASE n = 0 BY <1>5, <3>1
    <3>2. CASE n = 1
      <4>1. x(1) \in 0..15 BY <1>4, <3>2
      <4> QED BY <1>5, <3>2, <4>1
    <3>3. CASE n = 2
      <4>1. x(1) \in 0..15 /\ x(2) \in 0..15 BY <1>4, <3>3
      <4> QED BY <1>5, <3>3, <4>1
    <3>4. CASE n = 3
      <4>1. x(1) \in 0..15 /\ x(2) \in 0..15 /\ x(3) \in 0..15
        BY <1>4, <3>4
      <4> QED BY <1>5, <3>4, <4>1, SMTT(60)
    <3> QED BY <1>1, <3>1, <3>2, <3>3, <3>4
  <2> QED BY <1>2, <1>6, <2>1
<1> HIDE DEF x
<1>8. /\ n' = 1 => crc' = x(1)
      /\ n' = 2 => crc' = x(1) * 16 + x(2)
      /\ n' = 3 => crc' = (x(1) * 16 + x(2)) * 16 + x(3)
      /\ n' = 4 => crc' = ((x(1) * 16 + x(2)) * 16 + x(3)) * 16 + x(4)
  BY <1>1, <1>4, <1>5, <1>7, SMTT(60)
<1> QED BY <1>1, <1>8 DEF x

(* Up to three characters of the CRC complete nothing yet.                 *)
LEMMA PartialCrcStep ==
  ASSUME SinceInv, NEW b \in Bytes, Call(b), PartialCrc(b)
  PROVE  SinceInv' /\ Returns
<1>1. CrcNibble(b) /\ amount_of_crc_nibbles' # 4 /\ state' = WaitCrc
      /\ returned' = 0
  BY DEF PartialCrc
<1>2. amount_of_crc_nibbles' \in 1..3 /\ packetSize' >= 2
  BY <1>1, NibbleStep
<1>3. ~Abs!Complete(since')
  BY <1>1, <1>2, NibbleStep, TooShort
<1>4. CrcInv'
  <2>1. check_crc' BY <1>1, NibbleStep, ModeKept
  <2>2. FirstEnd(since, packetSize)' BY <1>1, NibbleStep DEF FirstEnd
  <2> QED BY <1>1, <1>2, <2>1, <2>2, NibbleStep, CrcValue DEF CrcInv
<1>5. IdleInv' /\ ReceivingInv'
  BY <1>1, StatesDiffer DEF IdleInv, ReceivingInv
<1> QED BY <1>1, <1>3, <1>4, <1>5, ModeKept DEF SinceInv, Returns

(* The fourth nibble decides: the CRC printed after the '!' is the one of  *)
(* the packet exactly when the accumulated value is.                       *)
LEMMA FullCrc ==
  ASSUME SinceInv, NEW b \in Bytes, Call(b), CrcNibble(b),
         amount_of_crc_nibbles' = 4
  PROVE  /\ Len(since') = packetSize' + 4
         /\ View(packetSize)' = SubSeq(since', 1, packetSize')
         /\ View(packetSize)' = View(packetSize)
         /\ Abs!Complete(since') <=> crc' = Crc16(View(packetSize))
<1>1. /\ check_crc /\ packetSize' = packetSize
      /\ packetSize \in 2..(BufferSize - 1)
      /\ Len(since') = packetSize' + 4
      /\ Stored(packetSize)'
      /\ FirstEnd(since', packetSize')
      /\ \A j \in (packetSize' + 1)..Len(since') : IsCrcCharacter(since'[j])
      /\ since' \in Seq(Bytes)
      /\ crc' \in Nat /\ crc' < 65536
  BY NibbleStep, ModeKept DEF TypeInv, TypeOK
<1>2. View(packetSize)' = View(packetSize) BY <1>1 DEF View, CrcNibble
<1>3. View(packetSize)' = SubSeq(since', 1, packetSize')
  <2>1. packetSize' \in Nat /\ packetSize' <= Len(since') BY <1>1
  <2>2. Stored(packetSize)' /\ since' \in Seq(Bytes) BY <1>1
  <2> QED BY <2>1, <2>2, SMTT(60) DEF View, Stored
<1> DEFINE k == packetSize'
           v == Crc16(SubSeq(since', 1, k))
           w == ((Nibble(since'[k + 1]) * 16 + Nibble(since'[k + 2])) * 16
                 + Nibble(since'[k + 3])) * 16 + Nibble(since'[k + 4])
<1>4. crc' = w BY CrcValue
<1>5. Abs!CrcLength = 4 /\ Abs!Spare = 1
  BY <1>1 DEF Abs!CrcLength, Abs!Spare
<1>6. Abs!Complete(since') <=> Abs!PrintsAt(since', k, v)
  BY <1>1, <1>5 DEF Abs!Complete, Abs!Bang, FirstEnd, EndByte
<1>7. Abs!PrintsAt(since', k, v) <=> v = w
  <2>1. /\ since'[k + 1] \in Bytes /\ since'[k + 2] \in Bytes
        /\ since'[k + 3] \in Bytes /\ since'[k + 4] \in Bytes
    BY <1>1
  <2>2. /\ IsCrcCharacter(since'[k + 1]) /\ IsCrcCharacter(since'[k + 2])
        /\ IsCrcCharacter(since'[k + 3]) /\ IsCrcCharacter(since'[k + 4])
    BY <1>1
  <2>3. ASSUME v \in Nat, v < 65536
        PROVE  Abs!PrintsAt(since', k, v) <=> v = w
    <3> HIDE DEF v
    <3> QED BY <2>1, <2>2, <2>3, FourDigits DEF Abs!PrintsAt
  <2>4. w \in Nat /\ w < 65536 BY <1>1, <1>4
  <2> QED BY <2>3, <2>4 DEF Abs!PrintsAt
<1>8. v = Crc16(View(packetSize)) BY <1>2, <1>3
<1> QED BY <1>1, <1>2, <1>3, <1>4, <1>6, <1>7, <1>8

(* The fourth character completes the telegram in both, or in neither.     *)
LEMMA CrcMatchStep ==
  ASSUME SinceInv, NEW b \in Bytes, Call(b), CrcMatch(b) \/ CrcMismatch(b)
  PROVE  SinceInv' /\ Returns
<1>1. /\ CrcNibble(b) /\ amount_of_crc_nibbles' = 4 /\ state' = WaitStart
      /\ crc' = Crc16(View(packetSize)) => returned' = packetSize
      /\ crc' # Crc16(View(packetSize)) => returned' = 0
  BY DEF CrcMatch, CrcMismatch
<1>2. /\ Len(since') = packetSize' + 4
      /\ View(packetSize)' = SubSeq(since', 1, packetSize')
      /\ Abs!Complete(since') <=> crc' = Crc16(View(packetSize))
  BY <1>1, FullCrc
<1>3. /\ check_crc /\ packetSize' = packetSize /\ packetSize >= 2
      /\ FirstEnd(since', packetSize')
  BY <1>1, NibbleStep
<1>4. Abs!CrcLength = 4 BY <1>3 DEF Abs!CrcLength
<1>5. Returns
  <2>1. ASSUME Abs!Complete(since')
        PROVE  returned' # 0 /\ View(returned)' = Abs!Telegram(since')
    <3>1. returned' = packetSize' /\ returned' # 0
      BY <1>1, <1>2, <1>3, <2>1
    <3>2. View(returned)' = View(packetSize)' BY <3>1 DEF View
    <3>3. Len(since') - 4 = packetSize'
      BY <1>2, <1>3 DEF SinceInv, TypeInv, TypeOK
    <3> QED BY <1>2, <1>4, <3>1, <3>2, <3>3 DEF Abs!Telegram
  <2>2. ~Abs!Complete(since') => returned' = 0 BY <1>1, <1>2
  <2> QED BY <2>1, <2>2 DEF Returns
<1>6. Dead(since)'
  <2>1. FirstEnd(since', packetSize') /\ packetSize' \in 1..Len(since')
    BY <1>3 DEF FirstEnd
  <2>2. since' \in Seq(Bytes) BY ModeKept
  <2>3. Len(since') >= packetSize' + 4
    <3>1. packetSize \in Nat BY DEF SinceInv, TypeInv, TypeOK
    <3>2. Len(since') = packetSize + 4 BY <1>2, <1>3
    <3>3. Len(since') >= packetSize + 4 BY <3>1, <3>2
    <3> QED BY <1>3, <3>3
  <2>4. Dead(since') BY <1>4, <2>1, <2>3 DEF Dead
  <2> QED BY <2>4, ModeKept DEF Dead, FirstEnd
<1>7. IdleInv' /\ ReceivingInv' /\ CrcInv'
  BY <1>1, <1>6, StatesDiffer DEF IdleInv, ReceivingInv, CrcInv
<1> QED BY <1>5, <1>7, ModeKept DEF SinceInv

(* Every call keeps the invariant and returns what the specification asks. *)
LEMMA CallStep ==
  ASSUME SinceInv, NEW b \in Bytes, Call(b)
  PROVE  SinceInv' /\ Returns
BY StartSymbolStep, SkipByteStep, PayloadByteStep, EndWithoutCrcStep,
   EndBeforeCrcStep, NotACrcCharacterStep, PartialCrcStep, CrcMatchStep
   DEF Call, process_byte

-----------------------------------------------------------------------------
(* View(0) shows nothing: the abstract receiver has handed out no telegram *)
(* when process_byte returns nullopt.                                      *)
LEMMA ViewEmpty == View(0) = <<>>
BY DEF View

(* The receiver implements the declarative specification of a P1 stream,   *)
(* with any buffer, any bytes and any checksum.                            *)
THEOREM ReceiverImplementsTelegramStream == HSpec => ImplementsTelegramStream
<1>1. HInit => SinceInv /\ Abs!Init
  <2> SUFFICES ASSUME HInit PROVE SinceInv /\ Abs!Init OBVIOUS
  <2>1. TypeInv BY InitType DEF HInit
  <2>2. Dead(since) BY DEF Dead, HInit
  <2>3. state = WaitStart /\ since = <<>> /\ returned = 0
    BY DEF HInit, Init
  <2>4. SinceInv
    BY <2>1, <2>2, <2>3, StatesDiffer
    DEF SinceInv, IdleInv, ReceivingInv, CrcInv
  <2>5. View(returned) = <<>> BY <2>3, ViewEmpty
  <2>6. check_crc \in BOOLEAN BY DEF HInit, Init
  <2> QED BY <2>3, <2>4, <2>5, <2>6 DEF Abs!Init
<1>2. SinceInv /\ [HNext]_hvars => SinceInv' /\ [Abs!Next]_(Abs!vars)
  <2> SUFFICES ASSUME SinceInv, [HNext]_hvars
               PROVE  SinceInv' /\ [Abs!Next]_(Abs!vars)
    OBVIOUS
  <2>1. CASE HNext
    <3>1. PICK b \in Bytes : Call(b) BY <2>1 DEF HNext, Call
    <3>2. SinceInv' /\ Returns BY <3>1, CallStep
    <3>3. since' = Abs!Extend(since, b) BY <3>1 DEF Call
    <3>4. check_crc' = check_crc BY <3>1, ModeKept
    <3>5. View(returned)' = IF Abs!Complete(since')
                            THEN Abs!Telegram(since') ELSE <<>>
      <4>1. returned' = 0 => View(returned)' = <<>> BY DEF View
      <4> QED BY <3>2, <4>1 DEF Returns
    <3>6. Abs!Receive(b) BY <3>3, <3>4, <3>5 DEF Abs!Receive
    <3> QED BY <3>2, <3>6 DEF Abs!Next
  <2>2. CASE UNCHANGED hvars
    <3>1. UNCHANGED <<buffer, packetSize, state, crc, amount_of_crc_nibbles,
                      check_crc, returned, since>>
      BY <2>2 DEF hvars, vars
    <3>2. TypeInv' BY <3>1, StutterType DEF SinceInv, vars
    <3>3. SinceInv'
      BY <3>1, <3>2, Zenon DEF SinceInv, IdleInv, ReceivingInv, CrcInv,
        Stored, Dead, FirstEnd, Abs!Spare, Abs!CrcLength
    <3>4. UNCHANGED Abs!vars BY <3>1 DEF Abs!vars, View
    <3> QED BY <3>3, <3>4
  <2> QED BY <2>1, <2>2
<1> QED BY <1>1, <1>2, PTL DEF HSpec, ImplementsTelegramStream, Abs!Spec

-----------------------------------------------------------------------------
(* The view the caller holds.                                              *)

(* HeldTelegramIntact alone is not inductive: the buffer stays as it is    *)
(* because a receiver that has returned a telegram skips every byte.       *)
HeldInv == /\ TypeInv
           /\ held \in Seq(Bytes)
           /\ Len(held) <= BufferSize
           /\ \A i \in 1..Len(held) : held[i] = buffer[i - 1]
           /\ held # <<>> => state = WaitStart

(* Contents that lie in the buffer from its start are what a view shows.   *)
LEMMA HeldIsView ==
  ASSUME HeldInv PROVE HeldTelegramIntact
<1>1. held \in Seq(Bytes) BY DEF HeldInv
<1>2. Len(held) \in Nat /\ held = [i \in 1..Len(held) |-> held[i]] BY <1>1
<1>3. \A i \in 1..Len(held) : held[i] = buffer[i - 1] BY DEF HeldInv
<1> QED BY <1>2, <1>3 DEF HeldTelegramIntact, View

(* No byte but '/' overwrites the telegram that was returned last.         *)
LEMMA HeldStep ==
  ASSUME HeldInv, NEW b \in Bytes, process_byte(b), Remember(b)
  PROVE  HeldInv'
<1>1. TypeInv' /\ TypeOK' BY TypeInvStep DEF HeldInv, TypeInv
<1>2. CASE b = StartByte
  BY <1>1, <1>2, BufferSizeAssumption DEF HeldInv, Remember
<1>3. CASE b # StartByte /\ returned' # 0
  <2>1. held' = View(returned)' BY <1>3 DEF Remember
  <2>2. state' = WaitStart
    BY <1>3 DEF process_byte, StartSymbol, SkipByte, PayloadByte,
      EndWithoutCrc, EndBeforeCrc, NotACrcCharacter, PartialCrc, CrcMatch,
      CrcMismatch
  <2>3. (returned \in 1..BufferSize)'
    BY <1>1, <1>3, BufferSizeAssumption DEF TypeOK
  <2>4. (buffer \in [0..(BufferSize - 1) -> Bytes])' BY <1>1 DEF TypeOK
  <2>5. (/\ View(returned) \in Seq(Bytes)
         /\ Len(View(returned)) = returned
         /\ \A i \in 1..returned : View(returned)[i] = buffer[i - 1])'
    BY <2>3, <2>4, BufferSizeAssumption DEF View
  <2> QED BY <1>1, <2>1, <2>2, <2>3, <2>5 DEF HeldInv
<1>4. CASE b # StartByte /\ returned' = 0
  <2>1. held' = held BY <1>4 DEF Remember
  <2>2. CASE held = <<>>
    BY <1>1, <2>1, <2>2, BufferSizeAssumption DEF HeldInv
  <2>3. CASE held # <<>>
    <3>1. DispatchState = WaitStart
      BY <2>3 DEF HeldInv, DispatchState
    <3>2. SkipByte(b)
      BY <1>4, <3>1, StatesDiffer
      DEF process_byte, StartSymbol, PayloadByte, EndWithoutCrc, EndBeforeCrc,
          NotACrcCharacter, PartialCrc, CrcMatch, CrcMismatch, CrcNibble
    <3> QED BY <1>1, <2>1, <3>2 DEF SkipByte, HeldInv
  <2> QED BY <2>2, <2>3
<1> QED BY <1>2, <1>3, <1>4

(* A caller may keep the telegram it was given until the next '/': with    *)
(* any buffer and any input the view still shows it.                       *)
THEOREM HeldTelegramStays == HSpec => []HeldTelegramIntact
<1>1. HInit => HeldInv
  <2> SUFFICES ASSUME HInit PROVE HeldInv OBVIOUS
  <2>1. TypeInv BY InitType DEF HInit
  <2> QED BY <2>1, BufferSizeAssumption DEF HInit, HeldInv
<1>2. HeldInv /\ [HNext]_hvars => HeldInv'
  <2> SUFFICES ASSUME HeldInv, [HNext]_hvars PROVE HeldInv' OBVIOUS
  <2>1. CASE HNext BY <2>1, HeldStep DEF HNext
  <2>2. CASE UNCHANGED hvars
    <3>1. TypeInv' BY <2>2, StutterType DEF HeldInv, hvars
    <3> QED BY <2>2, <3>1 DEF HeldInv, hvars, vars
  <2> QED BY <2>1, <2>2
<1>3. HeldInv => HeldTelegramIntact BY HeldIsView
<1> QED BY <1>1, <1>2, <1>3, PTL DEF HSpec

-----------------------------------------------------------------------------
(* The line. *)
All == Transmission(frame)
Arrived == Len(All) - Len(rest)     \* the bytes of the frame that are gone
Checked == IF check_crc THEN 4 ELSE 0

RestInv == /\ frame \in Telegrams
           /\ rest \in Seq(Bytes)
           /\ Len(rest) <= Len(All)
           /\ \A i \in 1..Len(rest) : rest[i] = All[Arrived + i]

FrameStored(n) == \A i \in 0..(n - 1) : buffer[i] = frame[i + 1]

(* The digits of the CRC that have been read. *)
CrcSoFar(n) == CASE n = 0 -> 0
                 [] n = 1 -> Crc16(frame) \div 4096
                 [] n = 2 -> Crc16(frame) \div 256
                 [] n = 3 -> Crc16(frame) \div 16

InTelegram == /\ state = WaitEnd
              /\ packetSize = Arrived
              /\ FrameStored(Arrived)

InCrc == /\ state = WaitCrc
         /\ packetSize = Len(frame)
         /\ FrameStored(Len(frame))
         /\ amount_of_crc_nibbles = Arrived - Len(frame)
         /\ crc = CrcSoFar(Arrived - Len(frame))

Delivered == returned = Len(frame) /\ FrameStored(Len(frame))

CleanInv ==
  clean /\ Fits(frame) =>
    /\ Arrived \in 1..(Len(frame) - 1) => InTelegram
    /\ check_crc /\ Arrived \in Len(frame)..(Len(frame) + 3) => InCrc
    /\ Arrived = Len(frame) + Checked => Delivered

P1Inv == TypeInv /\ RestInv /\ CleanInv

-----------------------------------------------------------------------------
(* The digits of the CRC are what the meter can print, and no '/'. *)
LEMMA CrcDigits ==
  ASSUME NEW t \in Telegrams
  PROVE  /\ CrcText(t) \in Seq(Bytes) /\ Len(CrcText(t)) = 4
         /\ CrcText(t)[1] = UpperDigit(Crc16(t) \div 4096)
         /\ CrcText(t)[2] = UpperDigit((Crc16(t) \div 256) % 16)
         /\ CrcText(t)[3] = UpperDigit((Crc16(t) \div 16) % 16)
         /\ CrcText(t)[4] = UpperDigit(Crc16(t) % 16)
         /\ \A i \in 1..4 : CrcText(t)[i] \in Digits \cup UpperHex
<1>1. Crc16(t) \in Nat /\ Crc16(t) < 65536 BY CrcAssumption
<1>2. /\ Crc16(t) \div 4096 \in 0..15 /\ (Crc16(t) \div 256) % 16 \in 0..15
      /\ (Crc16(t) \div 16) % 16 \in 0..15 /\ Crc16(t) % 16 \in 0..15
  BY <1>1
<1>3. \A n \in 0..15 : UpperDigit(n) \in Digits \cup UpperHex
  BY DEF UpperDigit, Digits, UpperHex
<1>4. /\ CrcText(t)[1] = UpperDigit(Crc16(t) \div 4096)
      /\ CrcText(t)[2] = UpperDigit((Crc16(t) \div 256) % 16)
      /\ CrcText(t)[3] = UpperDigit((Crc16(t) \div 16) % 16)
      /\ CrcText(t)[4] = UpperDigit(Crc16(t) % 16)
  BY DEF CrcText
<1>5. \A i \in 1..4 : CrcText(t)[i] \in Digits \cup UpperHex
  <2> SUFFICES ASSUME NEW i \in 1..4 PROVE CrcText(t)[i] \in Digits \cup UpperHex
    OBVIOUS
  <2>1. i = 1 \/ i = 2 \/ i = 3 \/ i = 4 OBVIOUS
  <2> QED BY <2>1, <1>2, <1>3, <1>4
<1>6. CrcText(t) \in [1..4 -> Bytes]
  <2> DEFINE g(i) == UpperDigit(CASE i = 1 -> Crc16(t) \div 4096
                                  [] i = 2 -> (Crc16(t) \div 256) % 16
                                  [] i = 3 -> (Crc16(t) \div 16) % 16
                                  [] i = 4 -> Crc16(t) % 16)
  <2>1. CrcText(t) = [i \in 1..4 |-> g(i)] BY DEF CrcText
  <2> HIDE DEF g
  <2>2. \A i \in 1..4 : CrcText(t)[i] \in Bytes
    BY <1>5, MeterBytesAssumption
  <2> QED BY <2>1, <2>2
<1>7. CrcText(t) \in Seq(Bytes) /\ Len(CrcText(t)) = 4
  <2>1. 4 \in Nat OBVIOUS
  <2>2. CrcText(t) \in Seq(Bytes) BY <1>6, <2>1, SeqDef, Zenon
  <2>3. DOMAIN CrcText(t) = 1..4 BY <1>6
  <2> QED BY <2>1, <2>2, <2>3, LenProperties
<1> QED BY <1>4, <1>5, <1>7

(* What the meter sends, byte by byte. *)
LEMMA TransmissionBytes ==
  ASSUME NEW t \in Telegrams, check_crc \in BOOLEAN
  PROVE  /\ t \in Seq(Bytes) /\ Len(t) \in Nat /\ Len(t) >= 2
         /\ Transmission(t) \in Seq(Bytes)
         /\ Len(Transmission(t)) = Len(t) + Checked + 1
         /\ \A i \in 1..Len(t) : Transmission(t)[i] = t[i]
         /\ check_crc => \A i \in 1..4 :
                           Transmission(t)[Len(t) + i] = CrcText(t)[i]
         /\ Transmission(t)[Len(t) + Checked + 1] = CR
<1>1. t \in Seq(Bytes) /\ Len(t) \in Nat /\ Len(t) >= 2
  BY TelegramsAssumption, LenProperties
<1>2. CrcText(t) \in Seq(Bytes) /\ Len(CrcText(t)) = 4
  BY CrcDigits
<1>3. <<CR>> \in Seq(Bytes) /\ Len(<<CR>>) = 1 /\ <<CR>>[1] = CR
  BY MeterBytesAssumption
<1>4. CASE ~check_crc
  <2>1. Transmission(t) = t \o <<CR>> BY <1>4 DEF Transmission
  <2>2. /\ t \o <<CR>> \in Seq(Bytes)
        /\ Len(t \o <<CR>>) = Len(t) + 1
        /\ \A i \in 1..(Len(t) + 1) : (t \o <<CR>>)[i] =
             IF i <= Len(t) THEN t[i] ELSE <<CR>>[i - Len(t)]
    BY <1>1, <1>3, ConcatProperties
  <2> QED BY <1>1, <1>3, <1>4, <2>1, <2>2 DEF Checked
<1>5. CASE check_crc
  <2> DEFINE u == t \o CrcText(t)
  <2>1. Transmission(t) = u \o <<CR>> BY <1>5 DEF Transmission
  <2>2. /\ u \in Seq(Bytes)
        /\ Len(u) = Len(t) + 4
        /\ \A i \in 1..(Len(t) + 4) : u[i] =
             IF i <= Len(t) THEN t[i] ELSE CrcText(t)[i - Len(t)]
    <3>1. /\ u \in Seq(Bytes)
          /\ Len(u) = Len(t) + Len(CrcText(t))
          /\ \A i \in 1..(Len(t) + Len(CrcText(t))) : u[i] =
               IF i <= Len(t) THEN t[i] ELSE CrcText(t)[i - Len(t)]
      BY <1>1, <1>2, ConcatProperties, Zenon
    <3> HIDE DEF u
    <3> QED BY <1>2, <3>1
  <2> HIDE DEF u
  <2>3. /\ u \o <<CR>> \in Seq(Bytes)
        /\ Len(u \o <<CR>>) = Len(t) + 5
        /\ \A i \in 1..(Len(t) + 5) : (u \o <<CR>>)[i] =
             IF i <= Len(t) + 4 THEN u[i] ELSE <<CR>>[i - (Len(t) + 4)]
    BY <1>1, <1>3, <2>2, ConcatProperties
  <2>4. \A i \in 1..4 : (u \o <<CR>>)[Len(t) + i] = CrcText(t)[i]
    BY <1>1, <2>2, <2>3
  <2>5. \A i \in 1..Len(t) : (u \o <<CR>>)[i] = t[i]
    BY <1>1, <2>2, <2>3
  <2> QED BY <1>1, <1>3, <1>5, <2>1, <2>3, <2>4, <2>5 DEF Checked
<1> QED BY <1>4, <1>5

(* '/' is the first byte of a transmission only. *)
LEMMA OneStart ==
  ASSUME NEW t \in Telegrams, check_crc \in BOOLEAN,
         NEW i \in 1..Len(Transmission(t)), Transmission(t)[i] = StartByte
  PROVE  i = 1
<1> USE TransmissionBytes
<1>1. CASE i <= Len(t)
  BY <1>1, TelegramsAssumption DEF StartByte, EndByte
<1>2. CASE i = Len(t) + Checked + 1
  BY <1>2 DEF CR, StartByte
<1>3. CASE i > Len(t) /\ i < Len(t) + Checked + 1
  <2>1. check_crc /\ i - Len(t) \in 1..4 BY <1>3 DEF Checked
  <2>2. Transmission(t)[i] = CrcText(t)[i - Len(t)]
    BY <2>1, SMTT(60)
  <2>3. \A j \in 1..4 : CrcText(t)[j] \in Digits \cup UpperHex
    BY CrcDigits, SMTT(60)
  <2>4. StartByte \in Digits \cup UpperHex
    BY <2>1, <2>2, <2>3
  <2> QED BY <2>4 DEF Digits, UpperHex, StartByte
<1> QED BY <1>1, <1>2, <1>3, SMTT(60) DEF Checked

-----------------------------------------------------------------------------
(* What process_byte does with the bytes of a frame.                       *)

(* While there is room a byte is dispatched in the state the machine has. *)
LEMMA RoomLeft ==
  ASSUME packetSize < BufferSize PROVE DispatchState = state
BY DEF DispatchState, HasSpace

(* '/' starts a telegram in every state. *)
LEMMA FirstByte ==
  ASSUME TypeInv, process_byte(StartByte)
  PROVE  state' = WaitEnd /\ packetSize' = 1 /\ buffer'[0] = StartByte
<1>1. StartSymbol(StartByte)
  BY DEF process_byte, SkipByte, PayloadByte, EndWithoutCrc, EndBeforeCrc,
         NotACrcCharacter, PartialCrc, CrcMatch, CrcMismatch, CrcNibble,
         IsCrcCharacter, Digits, UpperHex, LowerHex, StartByte, EndByte
<1>2. 0 \in DOMAIN buffer
  BY BufferSizeAssumption DEF TypeInv, TypeOK
<1> QED BY <1>1, <1>2 DEF StartSymbol, AddAt

(* A byte inside a telegram is stored. *)
LEMMA InnerByte ==
  ASSUME TypeInv, NEW b \in Bytes \ {StartByte, EndByte},
         state = WaitEnd, packetSize < BufferSize, process_byte(b)
  PROVE  /\ state' = WaitEnd
         /\ packetSize' = packetSize + 1
         /\ buffer' = [buffer EXCEPT ![packetSize] = b]
<1>1. DispatchState = WaitEnd BY RoomLeft
<1>2. PayloadByte(b)
  BY <1>1, StatesDiffer
  DEF process_byte, StartSymbol, SkipByte, EndWithoutCrc, EndBeforeCrc,
      NotACrcCharacter, PartialCrc, CrcMatch, CrcMismatch, CrcNibble
<1> QED BY <1>2 DEF PayloadByte, AddAt

(* '!' ends the telegram, or begins its CRC. *)
LEMMA LastByte ==
  ASSUME TypeInv, state = WaitEnd, packetSize < BufferSize,
         process_byte(EndByte)
  PROVE  /\ buffer' = [buffer EXCEPT ![packetSize] = EndByte]
         /\ packetSize' = packetSize + 1
         /\ ~check_crc => returned' = packetSize + 1
         /\ check_crc => /\ state' = WaitCrc
                         /\ crc' = 0
                         /\ amount_of_crc_nibbles' = 0
<1>1. DispatchState = WaitEnd BY RoomLeft
<1>2. EndWithoutCrc(EndByte) \/ EndBeforeCrc(EndByte)
  BY <1>1, StatesDiffer
  DEF process_byte, StartSymbol, SkipByte, PayloadByte, StartByte, EndByte,
      NotACrcCharacter, PartialCrc, CrcMatch, CrcMismatch, CrcNibble
<1> QED BY <1>2 DEF EndWithoutCrc, EndBeforeCrc, AddAt

(* A digit is taken into the CRC; with the fourth one the CRC is compared. *)
LEMMA CrcByte ==
  ASSUME TypeInv, NEW b \in Digits \cup UpperHex,
         state = WaitCrc, packetSize < BufferSize, process_byte(b)
  PROVE  /\ UNCHANGED <<buffer, packetSize>>
         /\ crc' = AddNibble(b)
         /\ amount_of_crc_nibbles' = amount_of_crc_nibbles + 1
         /\ amount_of_crc_nibbles' # 4 => state' = WaitCrc
         /\ amount_of_crc_nibbles' = 4 /\ crc' = Crc16(View(packetSize))
              => returned' = packetSize
<1>1. DispatchState = WaitCrc BY RoomLeft
<1>2. IsCrcCharacter(b) /\ b # StartByte
  BY DEF IsCrcCharacter, Digits, UpperHex, StartByte
<1>3. PartialCrc(b) \/ CrcMatch(b) \/ CrcMismatch(b)
  BY <1>1, <1>2, StatesDiffer
  DEF process_byte, StartSymbol, SkipByte, PayloadByte, EndWithoutCrc,
      EndBeforeCrc, NotACrcCharacter
<1> QED BY <1>3 DEF PartialCrc, CrcMatch, CrcMismatch, CrcNibble

(* The digit n is read as n. *)
LEMMA DigitRead ==
  ASSUME NEW n \in 0..15 PROVE Nibble(UpperDigit(n)) = n
BY DEF Nibble, UpperDigit, Digits, UpperHex

(* The digits of a number, taken in one after the other. *)
LEMMA DigitsOfNumber ==
  ASSUME NEW v \in Nat, v < 65536
  PROVE  /\ (0 * 16 + (v \div 4096)) % 65536 = v \div 4096
         /\ ((v \div 4096) * 16 + ((v \div 256) % 16)) % 65536 = v \div 256
         /\ ((v \div 256) * 16 + ((v \div 16) % 16)) % 65536 = v \div 16
         /\ ((v \div 16) * 16 + (v % 16)) % 65536 = v
OBVIOUS

(* What is stored of a whole telegram is the telegram. *)
LEMMA StoredTelegram ==
  ASSUME TypeInv, frame \in Telegrams, FrameStored(Len(frame))
  PROVE  View(Len(frame)) = frame
<1>1. frame \in Seq(Bytes) /\ Len(frame) \in Nat /\ frame \in [1..Len(frame) -> Bytes]
  BY TelegramsAssumption, LenProperties
<1>2. \A i \in 1..Len(frame) : buffer[i - 1] = frame[i]
  <2> SUFFICES ASSUME NEW i \in 1..Len(frame) PROVE buffer[i - 1] = frame[i]
    OBVIOUS
  <2>1. i - 1 \in 0..(Len(frame) - 1) /\ (i - 1) + 1 = i BY <1>1
  <2> QED BY <2>1 DEF FrameStored
<1> QED BY <1>1, <1>2 DEF View

-----------------------------------------------------------------------------
(* The byte the line delivers next, and what is left after it. *)
LEMMA NextByte ==
  ASSUME TypeInv, RestInv, rest # <<>>
  PROVE  /\ Arrived \in Nat /\ Arrived < Len(All)
         /\ Len(All) = Len(frame) + Checked + 1
         /\ Head(rest) = All[Arrived + 1] /\ Head(rest) \in Bytes
         /\ Tail(rest) \in Seq(Bytes)
         /\ Len(Tail(rest)) = Len(rest) - 1
         /\ \A i \in 1..Len(Tail(rest)) : Tail(rest)[i] = All[Arrived + 1 + i]
<1>1. check_crc \in BOOLEAN BY DEF TypeInv, TypeOK
<1>2. /\ All \in Seq(Bytes) /\ Len(All) = Len(frame) + Checked + 1
      /\ Len(All) \in Nat
  BY <1>1, TransmissionBytes, LenProperties DEF RestInv, All, Checked
<1>3. rest \in Seq(Bytes) /\ Len(rest) \in Nat /\ Len(rest) >= 1
  BY EmptySeq, LenProperties DEF RestInv
<1>4. /\ Head(rest) = rest[1] /\ Head(rest) \in Bytes
      /\ Tail(rest) \in Seq(Bytes) /\ Len(Tail(rest)) = Len(rest) - 1
      /\ \A i \in 1..Len(Tail(rest)) : Tail(rest)[i] = rest[i + 1]
  BY <1>3, HeadTailProperties
<1>5. /\ Arrived \in Nat /\ Arrived < Len(All)
      /\ \A i \in 1..Len(rest) : rest[i] = All[Arrived + i]
  BY <1>2, <1>3 DEF Arrived, RestInv
<1>6. rest[1] = All[Arrived + 1] BY <1>3, <1>5
<1>7. \A i \in 1..Len(Tail(rest)) : Tail(rest)[i] = All[Arrived + 1 + i]
  <2> SUFFICES ASSUME NEW i \in 1..Len(Tail(rest))
               PROVE  Tail(rest)[i] = All[Arrived + 1 + i]
    OBVIOUS
  <2>1. i + 1 \in 1..Len(rest) /\ Arrived + (i + 1) = Arrived + 1 + i
    BY <1>3, <1>4, <1>5
  <2> QED BY <1>4, <1>5, <2>1
<1> QED BY <1>2, <1>4, <1>5, <1>6, <1>7

(* A byte leaves the line: it was delivered, changed or lost. *)
LEMMA RestStep ==
  ASSUME TypeInv, RestInv, rest # <<>>, rest' = Tail(rest),
         frame' = frame, check_crc' = check_crc
  PROVE  RestInv' /\ Arrived' = Arrived + 1 /\ All' = All
<1>1. All' = All BY DEF All, Transmission
<1>2. /\ rest \in Seq(Bytes) /\ Len(rest) \in Nat /\ Len(All) \in Int
      /\ Len(Tail(rest)) = Len(rest) - 1
  BY NextByte, LenProperties DEF RestInv, Arrived
<1>3. Arrived' = Arrived + 1 BY <1>1, <1>2, NextByte DEF Arrived
<1>4. RestInv' BY <1>1, <1>2, <1>3, NextByte DEF RestInv
<1> QED BY <1>1, <1>3, <1>4

(* One more byte of the telegram is in the buffer. *)
LEMMA StoredStep ==
  ASSUME TypeInv, NEW n \in Nat, n < BufferSize, FrameStored(n),
         buffer' = [buffer EXCEPT ![n] = frame[n + 1]], frame' = frame
  PROVE  FrameStored(n + 1)'
<1>1. buffer \in [0..(BufferSize - 1) -> Bytes] /\ n \in 0..(BufferSize - 1)
  BY BufferSizeAssumption DEF TypeInv, TypeOK
<1> SUFFICES ASSUME NEW i \in 0..n PROVE buffer'[i] = frame[i + 1]
  BY DEF FrameStored
<1>2. CASE i = n BY <1>1, <1>2
<1>3. CASE i # n
  <2>1. i \in 0..(n - 1) /\ i \in 0..(BufferSize - 1)
    BY <1>3, BufferSizeAssumption
  <2> QED BY <1>1, <1>3, <2>1 DEF FrameStored
<1> QED BY <1>2, <1>3

(* The telegram bytes of a clean frame find the machine where they should. *)
LEMMA TelegramByte ==
  ASSUME TypeInv, RestInv, CleanInv, Transmit, clean, Fits(frame),
         Arrived \in 0..(Len(frame) - 1)
  PROVE  /\ Arrived' \in 1..(Len(frame) - 1) => InTelegram'
         /\ Arrived' = Len(frame) /\ check_crc => InCrc'
         /\ Arrived' = Len(frame) /\ ~check_crc => Delivered'
<1>1. /\ process_byte(Head(rest)) /\ rest # <<>>
      /\ rest' = Tail(rest) /\ frame' = frame /\ check_crc' = check_crc
  BY DEF Transmit, Receive, process_byte
<1>2. Arrived' = Arrived + 1 /\ Arrived \in Nat
  BY <1>1, RestStep, NextByte
<1>3. check_crc \in BOOLEAN BY DEF TypeInv, TypeOK
<1>4. frame \in Telegrams /\ Len(frame) \in Nat /\ Len(frame) >= 2
  BY TelegramsAssumption, LenProperties DEF RestInv
<1>5. Head(rest) = frame[Arrived + 1]
  <2>1. Head(rest) = All[Arrived + 1] BY <1>1, NextByte
  <2>2. Arrived + 1 \in 1..Len(frame) BY <1>2, <1>4
  <2> QED BY <1>3, <1>4, <2>1, <2>2, TransmissionBytes DEF All
<1>6. Len(frame) <= BufferSize /\ (check_crc => Len(frame) < BufferSize)
  BY <1>4, BufferSizeAssumption DEF Fits
<1>7. CASE Arrived = 0
  <2>1. frame[1] = StartByte BY <1>4, TelegramsAssumption
  <2>2. /\ state' = WaitEnd /\ packetSize' = 1 /\ buffer'[0] = frame[1]
    BY <1>1, <1>5, <1>7, <2>1, FirstByte
  <2>3. Arrived' = 1 BY <1>2, <1>7
  <2>4. FrameStored(Arrived)' BY <1>1, <2>2, <2>3 DEF FrameStored
  <2>5. InTelegram' BY <2>2, <2>3, <2>4 DEF InTelegram
  <2>6. Arrived' # Len(frame)
    <3>1. \A m \in Nat : m >= 2 => m # 1 OBVIOUS
    <3> QED BY <1>4, <2>3, <3>1, Zenon
  <2> QED BY <2>5, <2>6, Zenon
<1>8. CASE Arrived \in 1..(Len(frame) - 2)
  <2>1. InTelegram BY <1>4, <1>8 DEF CleanInv
  <2>2. /\ state = WaitEnd /\ packetSize = Arrived /\ packetSize < BufferSize
        /\ FrameStored(Arrived)
    BY <2>1, <1>4, <1>6, <1>8, BufferSizeAssumption DEF InTelegram
  <2>3. Arrived + 1 \in 2..(Len(frame) - 1) BY <1>4, <1>8
  <2>4. Head(rest) \notin {StartByte, EndByte}
    BY <1>4, <1>5, <2>3, TelegramsAssumption
  <2>5. Head(rest) \in Bytes BY <1>1, NextByte
  <2>6. /\ state' = WaitEnd /\ packetSize' = Arrived + 1
        /\ buffer' = [buffer EXCEPT ![Arrived] = frame[Arrived + 1]]
    BY <1>1, <1>5, <2>2, <2>4, <2>5, InnerByte
  <2>7. PICK a \in Nat : a = Arrived BY <1>2
  <2>8. FrameStored(a + 1)' BY <1>1, <2>2, <2>6, <2>7, StoredStep
  <2>9. InTelegram' BY <1>2, <2>6, <2>7, <2>8 DEF InTelegram, FrameStored
  <2>10. Arrived' # Len(frame) BY <1>2, <1>4, <1>8
  <2> QED BY <2>9, <2>10, Zenon
<1>9. CASE Arrived = Len(frame) - 1
  <2>1. InTelegram BY <1>4, <1>9 DEF CleanInv
  <2>2. /\ state = WaitEnd /\ packetSize = Arrived /\ packetSize < BufferSize
        /\ FrameStored(Arrived)
    BY <2>1, <1>4, <1>6, <1>9, BufferSizeAssumption DEF InTelegram
  <2>3. Head(rest) = EndByte
    BY <1>4, <1>5, <1>9, TelegramsAssumption
  <2>4. /\ buffer' = [buffer EXCEPT ![Arrived] = frame[Arrived + 1]]
        /\ packetSize' = Len(frame)
        /\ ~check_crc => returned' = Len(frame)
        /\ check_crc => /\ state' = WaitCrc
                        /\ crc' = 0
                        /\ amount_of_crc_nibbles' = 0
    BY <1>1, <1>4, <1>5, <1>9, <2>2, <2>3, LastByte
  <2>5. PICK a \in Nat : a = Arrived BY <1>2
  <2>6. a + 1 = Len(frame) /\ Arrived' = Len(frame)
    BY <1>2, <1>4, <1>9, <2>5
  <2>7. FrameStored(Len(frame))'
    <3>1. FrameStored(a + 1)' BY <1>1, <2>2, <2>4, <2>5, StoredStep
    <3> QED BY <1>1, <2>6, <3>1 DEF FrameStored
  <2>8. ~check_crc => Delivered' BY <1>1, <2>4, <2>7 DEF Delivered
  <2>9. check_crc => InCrc'
    <3>1. Arrived' - Len(frame) = 0 BY <1>4, <2>6
    <3>2. CrcSoFar(0)' = 0 BY DEF CrcSoFar
    <3>3. CrcSoFar(Arrived - Len(frame))' = 0
      BY <1>1, <3>1, <3>2 DEF CrcSoFar
    <3> QED BY <1>1, <2>4, <2>7, <3>1, <3>3 DEF InCrc
  <2>10. ~(Arrived' \in 1..(Len(frame) - 1)) BY <1>4, <2>6
  <2> QED BY <2>8, <2>9, <2>10, Zenon
<1> QED BY <1>4, <1>7, <1>8, <1>9

(* The digits of its CRC are read as the number the meter printed. *)
LEMMA ChecksumByte ==
  ASSUME TypeInv, RestInv, CleanInv, Transmit, clean, Fits(frame), check_crc,
         Arrived \in Len(frame)..(Len(frame) + 3)
  PROVE  /\ Arrived' \in Len(frame)..(Len(frame) + 3) => InCrc'
         /\ Arrived' = Len(frame) + 4 => Delivered'
<1> DEFINE v == Crc16(frame)
           n == Arrived - Len(frame)
<1>1. /\ process_byte(Head(rest)) /\ rest # <<>>
      /\ rest' = Tail(rest) /\ frame' = frame /\ check_crc' = check_crc
  BY DEF Transmit, Receive, process_byte
<1>2. Arrived' = Arrived + 1 /\ Arrived \in Nat
  BY <1>1, RestStep, NextByte
<1>3. check_crc \in BOOLEAN BY DEF TypeInv, TypeOK
<1>4. frame \in Telegrams /\ Len(frame) \in Nat /\ Len(frame) >= 2
  BY TelegramsAssumption, LenProperties DEF RestInv
<1>5. v \in Nat /\ v < 65536 BY <1>4, CrcAssumption
<1>6. n \in 0..3 /\ Arrived = Len(frame) + n BY <1>2, <1>4
<1>7. /\ state = WaitCrc /\ packetSize = Len(frame) /\ FrameStored(Len(frame))
      /\ amount_of_crc_nibbles = n /\ crc = CrcSoFar(n)
  BY DEF CleanInv, InCrc
<1>8. packetSize < BufferSize BY <1>4, <1>7, BufferSizeAssumption DEF Fits
<1> HIDE DEF n, v
<1>9. Head(rest) = CrcText(frame)[n + 1] /\ n + 1 \in 1..4
  <2>1. Head(rest) = All[Arrived + 1] BY <1>1, NextByte
  <2>2. n + 1 \in 1..4 /\ Arrived + 1 = Len(frame) + (n + 1)
    BY <1>2, <1>4, <1>6
  <2>3. \A i \in 1..4 : All[Len(frame) + i] = CrcText(frame)[i]
    BY <1>3, <1>4, TransmissionBytes DEF All
  <2> QED BY <2>1, <2>2, <2>3
<1>10. Head(rest) \in Digits \cup UpperHex
  BY <1>4, <1>9, CrcDigits
<1>11. /\ buffer' = buffer /\ packetSize' = Len(frame)
       /\ crc' = AddNibble(Head(rest))
       /\ amount_of_crc_nibbles' = n + 1
       /\ n + 1 # 4 => state' = WaitCrc
       /\ n + 1 = 4 /\ crc' = Crc16(View(Len(frame)))
            => returned' = Len(frame)
  BY <1>1, <1>7, <1>8, <1>10, CrcByte
<1>12. /\ n = 0 => crc' = v \div 4096
       /\ n = 1 => crc' = v \div 256
       /\ n = 2 => crc' = v \div 16
       /\ n = 3 => crc' = v
  <2>1. /\ v \div 4096 \in 0..15 /\ (v \div 256) % 16 \in 0..15
        /\ (v \div 16) % 16 \in 0..15 /\ v % 16 \in 0..15
    BY <1>5
  <2>2. /\ n = 0 => Nibble(Head(rest)) = v \div 4096
        /\ n = 1 => Nibble(Head(rest)) = (v \div 256) % 16
        /\ n = 2 => Nibble(Head(rest)) = (v \div 16) % 16
        /\ n = 3 => Nibble(Head(rest)) = v % 16
    <3>1. /\ CrcText(frame)[1] = UpperDigit(v \div 4096)
          /\ CrcText(frame)[2] = UpperDigit((v \div 256) % 16)
          /\ CrcText(frame)[3] = UpperDigit((v \div 16) % 16)
          /\ CrcText(frame)[4] = UpperDigit(v % 16)
      BY <1>4, CrcDigits DEF v
    <3>2. ASSUME n = 0 PROVE Nibble(Head(rest)) = v \div 4096
      <4>1. PICK d \in 0..15 : d = v \div 4096 BY <2>1
      <4>2. Head(rest) = UpperDigit(d) BY <1>9, <3>1, <3>2, <4>1
      <4>3. Nibble(Head(rest)) = d BY <4>2, DigitRead
      <4> QED BY <4>1, <4>3
    <3>3. ASSUME n = 1 PROVE Nibble(Head(rest)) = (v \div 256) % 16
      <4>1. PICK d \in 0..15 : d = (v \div 256) % 16 BY <2>1
      <4>2. Head(rest) = UpperDigit(d) BY <1>9, <3>1, <3>3, <4>1
      <4>3. Nibble(Head(rest)) = d BY <4>2, DigitRead
      <4> QED BY <4>1, <4>3
    <3>4. ASSUME n = 2 PROVE Nibble(Head(rest)) = (v \div 16) % 16
      <4>1. PICK d \in 0..15 : d = (v \div 16) % 16 BY <2>1
      <4>2. Head(rest) = UpperDigit(d) BY <1>9, <3>1, <3>4, <4>1
      <4>3. Nibble(Head(rest)) = d BY <4>2, DigitRead
      <4> QED BY <4>1, <4>3
    <3>5. ASSUME n = 3 PROVE Nibble(Head(rest)) = v % 16
      <4>1. PICK d \in 0..15 : d = v % 16 BY <2>1
      <4>2. Head(rest) = UpperDigit(d) BY <1>9, <3>1, <3>5, <4>1
      <4>3. Nibble(Head(rest)) = d BY <4>2, DigitRead
      <4> QED BY <4>1, <4>3
    <3> QED BY <3>2, <3>3, <3>4, <3>5
  <2>3. /\ n = 0 => crc = 0
        /\ n = 1 => crc = v \div 4096
        /\ n = 2 => crc = v \div 256
        /\ n = 3 => crc = v \div 16
    BY <1>7 DEF CrcSoFar, v
  <2>4. crc' = (crc * 16 + Nibble(Head(rest))) % 65536
    BY <1>11 DEF AddNibble
  <2>5. CASE n = 0
    <3>1. crc' = (0 * 16 + (v \div 4096)) % 65536 BY <2>2, <2>3, <2>4, <2>5
    <3> QED BY <1>5, <2>5, <3>1, DigitsOfNumber
  <2>6. CASE n = 1
    <3>1. crc' = ((v \div 4096) * 16 + ((v \div 256) % 16)) % 65536
      BY <2>2, <2>3, <2>4, <2>6
    <3> QED BY <1>5, <2>6, <3>1, DigitsOfNumber
  <2>7. CASE n = 2
    <3>1. crc' = ((v \div 256) * 16 + ((v \div 16) % 16)) % 65536
      BY <2>2, <2>3, <2>4, <2>7
    <3> QED BY <1>5, <2>7, <3>1, DigitsOfNumber
  <2>8. CASE n = 3
    <3>1. crc' = ((v \div 16) * 16 + (v % 16)) % 65536
      BY <2>2, <2>3, <2>4, <2>8
    <3> QED BY <1>5, <2>8, <3>1, DigitsOfNumber
  <2> QED BY <1>6, <2>5, <2>6, <2>7, <2>8
<1>13. FrameStored(Len(frame))' BY <1>1, <1>7, <1>11 DEF FrameStored
<1>14. n \in 0..2 => InCrc'
  <2> SUFFICES ASSUME n \in 0..2 PROVE InCrc'
    OBVIOUS
  <2>1. Arrived' - Len(frame') = n + 1 BY <1>1, <1>2, <1>4, <1>6
  <2>2. n = 0 \/ n = 1 \/ n = 2 OBVIOUS
  <2>3. CrcSoFar(Arrived - Len(frame))' = crc'
    BY <1>1, <1>12, <2>1, <2>2 DEF CrcSoFar, v
  <2>4. state' = WaitCrc BY <1>11, <2>2
  <2> QED BY <1>1, <1>11, <1>13, <2>1, <2>3, <2>4 DEF InCrc
<1>15. n = 3 => Delivered'
  <2> SUFFICES ASSUME n = 3 PROVE Delivered'
    OBVIOUS
  <2>1. View(Len(frame)) = frame BY <1>4, <1>7, StoredTelegram
  <2>2. returned' = Len(frame) BY <1>11, <1>12, <2>1 DEF v
  <2> QED BY <1>1, <1>13, <2>2 DEF Delivered
<1> QED BY <1>2, <1>4, <1>6, <1>14, <1>15

-----------------------------------------------------------------------------
(* The invariant holds when the receiver is switched on. *)
LEMMA P1InvInit ==
  ASSUME LineInit PROVE P1Inv
<1>1. TypeInv BY InitType DEF LineInit
<1>2. frame \in Telegrams /\ check_crc \in BOOLEAN
  BY <1>1 DEF LineInit, TypeInv, TypeOK
<1>3. /\ All \in Seq(Bytes) /\ Len(All) \in Nat
      /\ Len(frame) \in Nat /\ Len(frame) >= 2
  BY <1>2, TransmissionBytes, LenProperties DEF All
<1>4. PICK k \in 0..Len(All) : /\ rest = SubSeq(All, k + 1, Len(All))
                               /\ clean = (k = 0)
  BY DEF LineInit, All
<1>5. /\ rest \in Seq(Bytes) /\ Len(rest) = Len(All) - k
      /\ \A i \in 1..Len(rest) : rest[i] = All[k + i]
  <2>1. k + 1 \in 1..(Len(All) + 1) BY <1>3
  <2>2. /\ rest \in Seq(Bytes)
        /\ Len(rest) = IF k + 1 <= Len(All) THEN Len(All) - (k + 1) + 1 ELSE 0
        /\ \A i \in 1..(Len(All) - (k + 1) + 1) : rest[i] = All[k + 1 + i - 1]
    BY <1>3, <1>4, <2>1, SubSeqProperties
  <2> QED BY <1>3, <2>2
<1>6. Arrived = k BY <1>3, <1>5 DEF Arrived
<1>7. RestInv BY <1>2, <1>3, <1>5, <1>6 DEF RestInv
<1>8. CleanInv
  <2>1. clean => Arrived = 0 BY <1>4, <1>6
  <2> QED BY <1>3, <2>1 DEF CleanInv, Checked
<1> QED BY <1>1, <1>7, <1>8 DEF P1Inv

(* A frame of which nothing has arrived says nothing about the receiver. *)
LEMMA NothingArrived ==
  ASSUME RestInv', Arrived' = 0 PROVE CleanInv'
<1>1. Len(frame') \in Nat /\ Len(frame') >= 2
  BY TelegramsAssumption, LenProperties DEF RestInv
<1> QED BY <1>1 DEF CleanInv, Checked

(* Every step of the line keeps the types. *)
LEMMA LineType ==
  ASSUME TypeInv, RestInv, LineNext PROVE TypeInv'
<1>1. CASE Transmit BY <1>1, NextByte, TypeInvStep DEF Transmit, Receive
<1>2. CASE NextFrame BY <1>2, StutterType DEF NextFrame
<1>3. CASE LoseByte BY <1>3, StutterType DEF LoseByte
<1>4. CASE ChangeByte
  BY <1>4, NoiseAssumption, TypeInvStep DEF ChangeByte, Receive
<1>5. CASE InsertByte
  BY <1>5, NoiseAssumption, TypeInvStep DEF InsertByte, Receive
<1> QED BY <1>1, <1>2, <1>3, <1>4, <1>5 DEF LineNext

(* The next byte of the frame gets through. *)
LEMMA TransmitKeeps ==
  ASSUME P1Inv, Transmit PROVE RestInv' /\ CleanInv'
<1> USE DEF P1Inv
<1>1. /\ rest # <<>> /\ rest' = Tail(rest) /\ frame' = frame
      /\ check_crc' = check_crc /\ clean' = clean
  BY DEF Transmit, Receive, process_byte
<1>2. RestInv' /\ Arrived' = Arrived + 1 BY <1>1, RestStep
<1>3. /\ Arrived \in Nat /\ Len(frame) \in Nat
      /\ Checked' = Checked /\ (Fits(frame)' <=> Fits(frame))
  BY <1>1, NextByte, TelegramsAssumption, LenProperties
  DEF Checked, Fits, RestInv
<1> SUFFICES ASSUME clean, Fits(frame)
             PROVE  /\ Arrived' \in 1..(Len(frame) - 1) => InTelegram'
                    /\ check_crc /\ Arrived' \in Len(frame)..(Len(frame) + 3)
                         => InCrc'
                    /\ Arrived' = Len(frame) + Checked => Delivered'
  BY <1>1, <1>2, <1>3, Zenon DEF CleanInv
<1>4. CASE Arrived \in 0..(Len(frame) - 1)
  <2>1. /\ Arrived' \in 1..(Len(frame) - 1) => InTelegram'
        /\ Arrived' = Len(frame) /\ check_crc => InCrc'
        /\ Arrived' = Len(frame) /\ ~check_crc => Delivered'
    BY <1>4, TelegramByte
  <2>2. /\ Arrived' \in Len(frame)..(Len(frame) + 3) => Arrived' = Len(frame)
        /\ Arrived' = Len(frame) + Checked =>
             Arrived' = Len(frame) /\ ~check_crc
    BY <1>2, <1>3, <1>4 DEF Checked
  <2> QED BY <2>1, <2>2, Zenon
<1>5. CASE check_crc /\ Arrived \in Len(frame)..(Len(frame) + 3)
  <2>1. /\ Arrived' \in Len(frame)..(Len(frame) + 3) => InCrc'
        /\ Arrived' = Len(frame) + 4 => Delivered'
    BY <1>5, ChecksumByte
  <2>2. ~(Arrived' \in 1..(Len(frame) - 1)) /\ Checked = 4
    BY <1>2, <1>3, <1>5 DEF Checked
  <2> QED BY <2>1, <2>2
<1>6. CASE Arrived >= Len(frame) + Checked
  <2>1. Arrived' > Len(frame) + Checked BY <1>2, <1>3, <1>6 DEF Checked
  <2> QED BY <1>2, <1>3, <2>1 DEF Checked
<1>7. \/ Arrived \in 0..(Len(frame) - 1)
      \/ check_crc /\ Arrived \in Len(frame)..(Len(frame) + 3)
      \/ Arrived >= Len(frame) + Checked
  BY <1>3 DEF Checked
<1> QED BY <1>4, <1>5, <1>6, <1>7

(* Disturbances cost the frame its cleanness, or come before it. *)
LEMMA DisturbanceKeeps ==
  ASSUME P1Inv, LoseByte \/ ChangeByte \/ InsertByte
  PROVE  RestInv' /\ CleanInv'
<1> USE DEF P1Inv
<1>1. frame' = frame /\ check_crc' = check_crc
  BY DEF LoseByte, ChangeByte, InsertByte, Disturb, Receive, process_byte, vars
<1>2. CASE LoseByte \/ ChangeByte
  <2>1. rest # <<>> /\ rest' = Tail(rest) /\ ~clean'
    BY <1>2 DEF LoseByte, ChangeByte
  <2> QED BY <1>1, <2>1, RestStep DEF CleanInv
<1>3. CASE InsertByte
  <2>1. rest' = rest /\ All' = All /\ Arrived' = Arrived
    BY <1>1, <1>3 DEF InsertByte, All, Arrived, Transmission
  <2>2. RestInv' BY <1>1, <2>1 DEF RestInv
  <2>3. CASE clean'
    <3>1. rest # <<>> /\ Head(rest) = StartByte BY <1>3, <2>3 DEF InsertByte
    <3>2. check_crc \in BOOLEAN BY DEF TypeInv, TypeOK
    <3>3. /\ Arrived \in Nat /\ Arrived < Len(All) /\ Len(All) \in Int
          /\ All[Arrived + 1] = StartByte
      <4>1. Len(All) \in Nat
        BY <3>2, TransmissionBytes, LenProperties DEF All, RestInv
      <4> QED BY <3>1, <4>1, NextByte
    <3>4. Arrived + 1 \in 1..Len(All) BY <3>3
    <3>5. Arrived + 1 = 1 BY <3>2, <3>3, <3>4, OneStart DEF All, RestInv
    <3>6. Arrived' = 0 BY <2>1, <3>3, <3>5
    <3>7. CleanInv' BY <2>2, <3>6, NothingArrived
    <3> QED BY <2>2, <3>7
  <2>4. CASE ~clean' BY <2>2, <2>4 DEF CleanInv
  <2> QED BY <2>3, <2>4
<1> QED BY <1>2, <1>3

(* The meter begins another frame. *)
LEMMA NextFrameKeeps ==
  ASSUME P1Inv, NextFrame PROVE RestInv' /\ CleanInv'
<1>1. /\ frame' \in Telegrams /\ rest' = All' /\ check_crc' = check_crc
      /\ check_crc \in BOOLEAN
  BY DEF NextFrame, vars, All, Transmission, P1Inv, TypeInv, TypeOK
<1>2. All' \in Seq(Bytes) /\ Len(All') \in Nat
  BY <1>1, TransmissionBytes, LenProperties DEF All, Transmission
<1>3. Arrived' = 0 BY <1>1, <1>2 DEF Arrived
<1>4. RestInv' BY <1>1, <1>2, <1>3 DEF RestInv
<1>5. CleanInv' BY <1>3, <1>4, NothingArrived
<1> QED BY <1>4, <1>5

(* A step in which nothing happens. *)
LEMMA StutterKeeps ==
  ASSUME P1Inv, UNCHANGED allVars PROVE P1Inv'
<1>1. TypeInv' BY StutterType DEF P1Inv, allVars
<1>2. /\ buffer' = buffer /\ packetSize' = packetSize /\ state' = state
      /\ crc' = crc /\ amount_of_crc_nibbles' = amount_of_crc_nibbles
      /\ check_crc' = check_crc /\ returned' = returned
      /\ frame' = frame /\ rest' = rest /\ clean' = clean
  BY DEF allVars, vars, lineVars
<1>3. All' = All BY <1>2, Zenon DEF All, Transmission
<1>4. Arrived' = Arrived /\ Checked' = Checked /\ Fits(frame)' = Fits(frame)
  BY <1>2, <1>3, Zenon DEF Arrived, Checked, Fits
<1>5. RestInv'
  BY <1>2, <1>3, <1>4, Zenon DEF P1Inv, RestInv
<1>6. CrcSoFar(Arrived - Len(frame))' = CrcSoFar(Arrived - Len(frame))
  BY <1>2, <1>4 DEF CrcSoFar
<1>7. /\ InTelegram => InTelegram'
      /\ InCrc => InCrc'
      /\ Delivered => Delivered'
  <2>1. InTelegram => InTelegram'
    BY <1>2, <1>4 DEF InTelegram, FrameStored
  <2>2. InCrc => InCrc'
    BY <1>2, <1>4, <1>6 DEF InCrc, FrameStored
  <2>3. Delivered => Delivered'
    BY <1>2 DEF Delivered, FrameStored
  <2> QED BY <2>1, <2>2, <2>3
<1>8. CleanInv'
  <2>1. CleanInv BY DEF P1Inv
  <2> QED BY <1>2, <1>4, <1>7, <2>1, Zenon DEF CleanInv
<1> QED BY <1>1, <1>5, <1>8 DEF P1Inv

(* What is returned with the last byte of a clean frame is the frame. *)
LEMMA CleanFrame ==
  ASSUME P1Inv PROVE CleanFrameDelivered
<1> SUFFICES ASSUME clean, rest = <<CR>>, Fits(frame)
             PROVE  View(returned) = frame
  BY DEF CleanFrameDelivered
<1> USE DEF P1Inv
<1>1. Len(rest) = 1 /\ rest # <<>> OBVIOUS
<1>2. Arrived = Len(frame) + Checked
  <2>1. Len(All) = Len(frame) + Checked + 1 BY <1>1, NextByte
  <2>2. Len(frame) \in Nat
    BY TelegramsAssumption, LenProperties DEF RestInv
  <2> QED BY <1>1, <2>1, <2>2 DEF Arrived, Checked
<1>3. returned = Len(frame) /\ FrameStored(Len(frame))
  BY <1>2 DEF CleanInv, Delivered
<1> QED BY <1>3, StoredTelegram DEF RestInv

(* Whatever the line did before, a frame that arrives undisturbed and fits *)
(* into the buffer is returned with its last byte, exactly as it was sent. *)
THEOREM CleanFramesAreDelivered == LineSpec => []CleanFrameDelivered
<1>1. LineInit => P1Inv BY P1InvInit
<1>2. P1Inv /\ [LineNext]_allVars => P1Inv'
  <2> SUFFICES ASSUME P1Inv, [LineNext]_allVars PROVE P1Inv'
    OBVIOUS
  <2>1. CASE LineNext
    <3>1. TypeInv' BY <2>1, LineType DEF P1Inv
    <3>2. RestInv' /\ CleanInv'
      BY <2>1, TransmitKeeps, DisturbanceKeeps, NextFrameKeeps DEF LineNext
    <3> QED BY <3>1, <3>2 DEF P1Inv
  <2>2. CASE UNCHANGED allVars BY <2>2, StutterKeeps
  <2> QED BY <2>1, <2>2
<1>3. P1Inv => CleanFrameDelivered BY CleanFrame
<1> QED BY <1>1, <1>2, <1>3, PTL DEF LineSpec

-----------------------------------------------------------------------------
(* What a telegram more than the one that was sent has cost the line.      *)

(* How far a telegram has come: '/' and '!' each bring it on by one. *)
Progress(s) == IF s = WaitStart THEN 0 ELSE IF s = WaitEnd THEN 1 ELSE 2

(* Of a frame with a telegram of L bytes, n bytes are gone: how far they   *)
(* can have brought it, and how many of '/' and '!' were among them.       *)
Expected(L, n) == IF n = 0 \/ n > L + 4 THEN 0
                  ELSE IF n < L \/ n = L + 4 THEN 1 ELSE 2
Sent(L, n) == IF n = 0 THEN 0 ELSE IF n < L THEN 1 ELSE 2

(* What d telegrams, and one as far as the state s and its k nibbles show, *)
(* owe to the frame and to the u disturbances there have been.             *)
NoisePaid(L, n, u, s, k, d) ==
  /\ Progress(s) <= u + Expected(L, n)
  /\ 2 * d + Progress(s) <= u + Sent(L, n)
  /\ n >= L /\ s = WaitEnd => u >= 1
  /\ u = 0 /\ s = WaitCrc => n \in L..(L + 3) /\ k = n - L

(* The disturbances there have been. *)
Used == MaxNoise - noise

CountInv == noise \in Nat /\ Used \in Nat /\ deliveries \in Nat

NoiseInv ==
  check_crc => NoisePaid(Len(frame), Arrived, Used, state,
                         amount_of_crc_nibbles, deliveries)

(* The account of the deliveries (the second part of NoisePaid) is not     *)
(* inductive alone: what a frame leaves behind must not be carried into    *)
(* the next one unpaid (the first part), and the last two parts say that   *)
(* an undisturbed frame leaves nothing: its CRC ends with the fourth digit.*)
P1NoiseInv == TypeInv /\ RestInv /\ CountInv /\ NoiseInv

(* A step of the receiver: nothing is gained but by '/' and '!', and a     *)
(* telegram is returned only from the last state.                          *)
Stays(s, t, d, e) ==
  /\ t \in {s, WaitStart}
  /\ \/ e = d
     \/ e = d + 1 /\ s = WaitCrc /\ t = WaitStart
Starts(t, d, e) == t = WaitEnd /\ e = d
Ends(s, t, d, e) == /\ e = d
                    /\ t # WaitEnd
                    /\ t = WaitCrc => s = WaitEnd

(* A byte of the frame pays for what it brings. *)
LEMMA FramePays ==
  ASSUME NEW L \in Nat, L >= 2, NEW n \in 0..(L + 4), NEW u \in Nat,
         NEW s \in States, NEW t \in States, NEW k \in Nat, NEW j \in Nat,
         NEW d \in Nat, NEW e \in Nat,
         NoisePaid(L, n, u, s, k, d),
         n = 0 => Starts(t, d, e),
         n = L - 1 => Ends(s, t, d, e) /\ (t = WaitCrc => j = 0),
         n \in 1..(L - 2) \/ n >= L => Stays(s, t, d, e),
         t = WaitCrc /\ n # L - 1 => j = k + 1 /\ j # 4 /\ n # L + 4
  PROVE  NoisePaid(L, n + 1, u, t, j, e)
<1> DEFINE p == Progress(s)
           q == Progress(t)
<1>1. /\ p \in 0..2 /\ q \in 0..2
      /\ s = WaitEnd <=> p = 1
      /\ s = WaitCrc <=> p = 2
      /\ t = WaitEnd <=> q = 1
      /\ t = WaitCrc <=> q = 2
  BY StatesDiffer DEF Progress, States
<1>2. /\ p <= u + Expected(L, n)
      /\ 2 * d + p <= u + Sent(L, n)
      /\ n >= L /\ p = 1 => u >= 1
      /\ u = 0 /\ p = 2 => n \in L..(L + 3) /\ k = n - L
  <2>1. n >= L /\ p = 1 => u >= 1 BY <1>1 DEF NoisePaid
  <2>2. u = 0 /\ p = 2 => n \in L..(L + 3) /\ k = n - L
    BY <1>1 DEF NoisePaid
  <2>3. p <= u + Expected(L, n) /\ 2 * d + p <= u + Sent(L, n)
    BY Zenon DEF NoisePaid
  <2> QED BY <2>1, <2>2, <2>3
<1>3. n = 0 => q = 1 /\ e = d BY <1>1 DEF Starts
<1>4. n = L - 1 => /\ e = d /\ q # 1
                   /\ q = 2 => p = 1 /\ j = 0
  BY <1>1 DEF Ends
<1>5. n \in 1..(L - 2) \/ n >= L =>
        /\ q = p \/ q = 0
        /\ e = d \/ (e = d + 1 /\ p = 2 /\ q = 0)
  BY <1>1, StatesDiffer DEF Stays, Progress
<1>6. q = 2 /\ n # L - 1 => j = k + 1 /\ j # 4 /\ n # L + 4 BY <1>1
<1> HIDE DEF p, q
<1>7. \/ n = 0 \/ n \in 1..(L - 2) \/ n = L - 1
      \/ n \in L..(L + 2) \/ n = L + 3 \/ n = L + 4
  OBVIOUS
<1>8. q <= u + Expected(L, n + 1)
  <2>1. CASE n = 0 BY <1>3, <2>1 DEF Expected
  <2>2. CASE n \in 1..(L - 2) BY <1>1, <1>2, <1>5, <2>2 DEF Expected
  <2>3. CASE n = L - 1 \/ n \in L..(L + 2) BY <1>1, <2>3 DEF Expected
  <2>4. CASE n = L + 3
    <3>1. Expected(L, n + 1) = 1 BY <2>4 DEF Expected
    <3>2. u = 0 => q # 2 BY <1>2, <1>5, <1>6, <2>4
    <3> QED BY <1>1, <3>1, <3>2
  <2>5. CASE n = L + 4
    <3>1. Expected(L, n + 1) = 0 BY <2>5 DEF Expected
    <3>2. q # 2 /\ (u = 0 => q # 1) BY <1>2, <1>5, <1>6, <2>5
    <3> QED BY <1>1, <3>1, <3>2
  <2> QED BY <1>7, <2>1, <2>2, <2>3, <2>4, <2>5
<1>9. 2 * e + q <= u + Sent(L, n + 1)
  <2>1. CASE n = 0
    <3>1. Sent(L, n) = 0 /\ Sent(L, n + 1) = 1 BY <2>1 DEF Sent
    <3> QED BY <1>1, <1>2, <1>3, <2>1, <3>1
  <2>2. CASE n \in 1..(L - 2) \/ n >= L
    <3>1. Sent(L, n) = Sent(L, n + 1) BY <2>2 DEF Sent
    <3>2. 2 * e + q <= 2 * d + p BY <1>1, <1>5, <2>2
    <3>3. Sent(L, n) \in 0..2 BY DEF Sent
    <3> QED BY <1>1, <1>2, <3>1, <3>2, <3>3
  <2>3. CASE n = L - 1
    <3>1. Sent(L, n) = 1 /\ Sent(L, n + 1) = 2 BY <2>3 DEF Sent
    <3>2. 2 * e + q <= 2 * d + p + 1 BY <1>1, <1>4, <2>3
    <3> QED BY <1>1, <1>2, <3>1, <3>2
  <2> QED BY <1>7, <2>1, <2>2, <2>3
<1>10. n + 1 >= L /\ q = 1 => u >= 1
  <2> SUFFICES ASSUME n + 1 >= L, q = 1 PROVE u >= 1
    OBVIOUS
  <2>1. n >= L BY <1>4
  <2> QED BY <1>2, <1>5, <2>1
<1>11. u = 0 /\ q = 2 => n + 1 \in L..(L + 3) /\ j = n + 1 - L
  <2> SUFFICES ASSUME u = 0, q = 2, n # L - 1
               PROVE  n + 1 \in L..(L + 3) /\ j = n + 1 - L
    BY <1>4
  <2>1. n # 0 BY <1>3
  <2>2. p = 2 BY <1>5, <1>7, <2>1
  <2>3. n \in L..(L + 3) /\ k = n - L BY <1>2, <2>2
  <2> QED BY <1>6, <2>3
<1> QED BY <1>1, <1>8, <1>9, <1>10, <1>11 DEF NoisePaid, p, q

(* A disturbance pays for any byte, and for the loss of one. *)
LEMMA DisturbancePays ==
  ASSUME NEW L \in Nat, L >= 2, NEW n \in 0..(L + 5), NEW u \in Nat,
         NEW s \in States, NEW t \in States, NEW k \in Nat, NEW j \in Nat,
         NEW d \in Nat, NEW e \in Nat,
         NoisePaid(L, n, u, s, k, d),
         Stays(s, t, d, e) \/ Starts(t, d, e) \/ Ends(s, t, d, e),
         NEW m \in Nat, m = n \/ m = n + 1
  PROVE  NoisePaid(L, m, u + 1, t, j, e)
<1> USE StatesDiffer DEF Progress, Starts, Ends, Stays
<1>1. /\ Progress(t) <= Progress(s) + 1 /\ Progress(t) <= 2
      /\ 2 * e + Progress(t) <= 2 * d + Progress(s) + 1
      /\ Progress(s) \in 0..2 /\ Progress(t) \in 0..2
  BY DEF States
<1>2. Sent(L, n) <= Sent(L, m) /\ Sent(L, n) \in 0..2 /\ Sent(L, m) \in 0..2
  BY DEF Sent
<1>3. /\ Progress(s) <= u + Expected(L, n)
      /\ 2 * d + Progress(s) <= u + Sent(L, n)
      /\ n >= L /\ s = WaitEnd => u >= 1
      /\ u = 0 /\ s = WaitCrc => n \in L..(L + 3)
  BY DEF NoisePaid
<1>4. 2 * e + Progress(t) <= (u + 1) + Sent(L, m) BY <1>1, <1>2, <1>3
<1>5. Progress(t) <= (u + 1) + Expected(L, m)
  <2>1. CASE Expected(L, n) <= Expected(L, m)
    BY <1>1, <1>3, <2>1 DEF Expected
  <2>2. CASE n = L + 3 /\ m = L + 4
    <3>1. Expected(L, m) = 1 BY <2>2 DEF Expected
    <3> QED BY <1>1, <3>1
  <2>3. CASE n = L + 4 /\ m = L + 5
    <3>1. Expected(L, m) = 0 BY <2>3 DEF Expected
    <3>2. u = 0 => s = WaitStart BY <1>3, <2>3 DEF States
    <3> QED BY <1>1, <3>1, <3>2
  <2>4. \/ Expected(L, n) <= Expected(L, m)
        \/ n = L + 3 /\ m = L + 4
        \/ n = L + 4 /\ m = L + 5
    BY DEF Expected
  <2> QED BY <2>1, <2>2, <2>3, <2>4
<1> QED BY <1>4, <1>5 DEF NoisePaid

(* What one byte does to it. *)
LEMMA ByteProgress ==
  ASSUME TypeInv, check_crc, NEW b \in Bytes, process_byte(b)
  PROVE  /\ b = StartByte => state' = WaitEnd /\ returned' = 0
         /\ b = EndByte => /\ returned' = 0
                           /\ state' = WaitCrc => state = WaitEnd
                           /\ state' # WaitEnd
         /\ b \notin {StartByte, EndByte} =>
              /\ state' \in {state, WaitStart}
              /\ returned' # 0 => state = WaitCrc /\ state' = WaitStart
         /\ state' = WaitCrc /\ b # EndByte =>
              /\ IsCrcCharacter(b)
              /\ amount_of_crc_nibbles' = amount_of_crc_nibbles + 1
              /\ amount_of_crc_nibbles' # 4
         /\ state' = WaitCrc /\ b = EndByte => amount_of_crc_nibbles' = 0
<1> USE DispatchType, StatesDiffer DEF TypeInv
<1>1. StartByte # EndByte /\ ~IsCrcCharacter(StartByte)
      /\ ~IsCrcCharacter(EndByte)
  BY DEF StartByte, EndByte, IsCrcCharacter, Digits, UpperHex, LowerHex
<1>2. CASE StartSymbol(b) BY <1>1, <1>2 DEF StartSymbol
<1>3. CASE SkipByte(b) BY <1>1, <1>3 DEF SkipByte
<1>4. CASE PayloadByte(b) BY <1>1, <1>4 DEF PayloadByte
<1>5. CASE EndBeforeCrc(b) BY <1>1, <1>5 DEF EndBeforeCrc
<1>6. CASE NotACrcCharacter(b) BY <1>1, <1>6 DEF NotACrcCharacter
<1>7. CASE PartialCrc(b) BY <1>1, <1>7 DEF PartialCrc, CrcNibble
<1>8. CASE CrcMatch(b) \/ CrcMismatch(b)
  BY <1>1, <1>8 DEF CrcMatch, CrcMismatch, CrcNibble
<1> QED BY <1>2, <1>3, <1>4, <1>5, <1>6, <1>7, <1>8
        DEF process_byte, EndWithoutCrc

(* The bytes of a frame in their order. *)
LEMMA FrameByte ==
  ASSUME TypeInv, RestInv, rest # <<>>, check_crc
  PROVE  /\ Len(frame) \in Nat /\ Len(frame) >= 2
         /\ Arrived \in 0..(Len(frame) + 4)
         /\ Head(rest) \in Bytes
         /\ Arrived = 0 => Head(rest) = StartByte
         /\ Arrived \in 1..(Len(frame) - 2)
              => Head(rest) \notin {StartByte, EndByte}
         /\ Arrived = Len(frame) - 1 => Head(rest) = EndByte
         /\ Arrived >= Len(frame) => Head(rest) \notin {StartByte, EndByte}
         /\ Arrived = Len(frame) + 4 => ~IsCrcCharacter(Head(rest))
<1>1. frame \in Telegrams BY DEF RestInv
<1>2. /\ Len(frame) \in Nat /\ Len(frame) >= 2
      /\ \A i \in 1..Len(frame) : All[i] = frame[i]
      /\ \A i \in 1..4 : All[Len(frame) + i] = CrcText(frame)[i]
      /\ All[Len(frame) + 5] = CR
  BY <1>1, TransmissionBytes DEF All, Checked
<1>3. /\ Arrived \in Nat /\ Arrived < Len(frame) + 5
      /\ Head(rest) = All[Arrived + 1] /\ Head(rest) \in Bytes
  BY <1>2, NextByte DEF Checked
<1>4. /\ frame[1] = StartByte /\ frame[Len(frame)] = EndByte
      /\ \A i \in 2..(Len(frame) - 1) : frame[i] \notin {StartByte, EndByte}
  BY <1>1, TelegramsAssumption
<1>5. Arrived = 0 => Head(rest) = StartByte BY <1>2, <1>3, <1>4
<1>6. ASSUME Arrived \in 1..(Len(frame) - 2)
      PROVE  Head(rest) \notin {StartByte, EndByte}
  <2>1. Arrived + 1 \in 2..(Len(frame) - 1) /\ Arrived + 1 \in 1..Len(frame)
    BY <1>2, <1>6
  <2> QED BY <1>2, <1>3, <1>4, <2>1
<1>7. Arrived = Len(frame) - 1 => Head(rest) = EndByte BY <1>2, <1>3, <1>4
<1>8. ASSUME Arrived \in Len(frame)..(Len(frame) + 3)
      PROVE  Head(rest) \notin {StartByte, EndByte}
  <2> DEFINE i == Arrived + 1 - Len(frame)
  <2>1. i \in 1..4 /\ Len(frame) + i = Arrived + 1 BY <1>2, <1>3, <1>8
  <2>2. Head(rest) = CrcText(frame)[i] BY <1>2, <1>3, <2>1
  <2>3. Head(rest) \in Digits \cup UpperHex BY <1>1, <2>1, <2>2, CrcDigits
  <2> QED BY <2>3 DEF Digits, UpperHex, StartByte, EndByte
<1>9. ASSUME Arrived = Len(frame) + 4
      PROVE  Head(rest) \notin {StartByte, EndByte} /\ ~IsCrcCharacter(Head(rest))
  <2>1. Arrived + 1 = Len(frame) + 5 BY <1>2, <1>9
  <2>2. Head(rest) = CR BY <1>2, <1>3, <2>1
  <2>3. CR \notin {StartByte, EndByte} /\ ~IsCrcCharacter(CR)
    BY DEF CR, StartByte, EndByte, IsCrcCharacter, Digits, UpperHex, LowerHex
  <2> QED BY <2>2, <2>3
<1>10. Arrived >= Len(frame)
         => Arrived \in Len(frame)..(Len(frame) + 3) \/ Arrived = Len(frame) + 4
  BY <1>2, <1>3
<1> QED BY <1>2, <1>3, <1>5, <1>6, <1>7, <1>8, <1>9, <1>10

(* What is left of a frame, in every step. *)
LEMMA RestKept ==
  ASSUME TypeInv, RestInv, LineNext PROVE RestInv'
<1>1. CASE Transmit \/ LoseByte \/ ChangeByte
  <2>1. /\ rest # <<>> /\ rest' = Tail(rest) /\ frame' = frame
        /\ check_crc' = check_crc
    BY <1>1 DEF Transmit, LoseByte, ChangeByte, Disturb, Receive,
                process_byte, vars
  <2> QED BY <2>1, RestStep
<1>2. CASE InsertByte
  <2>1. rest' = rest /\ frame' = frame /\ check_crc' = check_crc
    BY <1>2 DEF InsertByte, Disturb, Receive, process_byte
  <2>2. All' = All /\ Arrived' = Arrived
    BY <2>1 DEF All, Arrived, Transmission
  <2> QED BY <2>1, <2>2 DEF RestInv
<1>3. CASE NextFrame
  <2>1. /\ frame' \in Telegrams /\ rest' = All' /\ check_crc' = check_crc
        /\ check_crc \in BOOLEAN
    BY <1>3 DEF NextFrame, vars, All, Transmission, TypeInv, TypeOK
  <2>2. All' \in Seq(Bytes) /\ Len(All') \in Nat
    BY <2>1, TransmissionBytes, LenProperties DEF All, Transmission
  <2>3. Arrived' = 0 BY <2>1, <2>2 DEF Arrived
  <2> QED BY <2>1, <2>2, <2>3 DEF RestInv
<1> QED BY <1>1, <1>2, <1>3 DEF LineNext

(* One byte, whatever it is. *)
LEMMA ByteMoves ==
  ASSUME TypeInv, CountInv, check_crc, NEW b \in Bytes, Receive(b)
  PROVE  /\ b = StartByte => Starts(state', deliveries, deliveries')
         /\ b = EndByte => Ends(state, state', deliveries, deliveries')
         /\ b \notin {StartByte, EndByte}
              => Stays(state, state', deliveries, deliveries')
         /\ deliveries' \in Nat
<1>1. /\ process_byte(b)
      /\ deliveries' = deliveries + (IF returned' # 0 THEN 1 ELSE 0)
  BY DEF Receive
<1>2. deliveries \in Nat BY DEF CountInv
<1> QED BY <1>1, <1>2, ByteProgress DEF Starts, Ends, Stays

(* A byte that gets through undisturbed. *)
LEMMA TransmitNoise ==
  ASSUME P1NoiseInv, Transmit PROVE CountInv' /\ NoiseInv'
<1> USE DEF P1NoiseInv
<1>1. /\ rest # <<>> /\ Receive(Head(rest)) /\ process_byte(Head(rest))
      /\ rest' = Tail(rest)
      /\ frame' = frame /\ noise' = noise /\ check_crc' = check_crc
  BY DEF Transmit, Receive, process_byte
<1>2. Head(rest) \in Bytes BY <1>1, NextByte
<1>3. deliveries \in Nat /\ deliveries' \in Nat
  <2>1. deliveries' = deliveries + (IF returned' # 0 THEN 1 ELSE 0)
    BY <1>1 DEF Receive
  <2> QED BY <2>1 DEF CountInv
<1>4. CountInv' BY <1>1, <1>3 DEF CountInv, Used
<1>5. SUFFICES ASSUME check_crc PROVE NoiseInv'
  BY <1>1, <1>4 DEF NoiseInv
<1>6. Arrived' = Arrived + 1 BY <1>1, RestStep
<1>7. TypeInv' BY <1>1, <1>2, TypeInvStep
<1>8. /\ Len(frame) \in Nat /\ Len(frame) >= 2
      /\ Arrived \in 0..(Len(frame) + 4)
      /\ Arrived = 0 => Head(rest) = StartByte
      /\ Arrived \in 1..(Len(frame) - 2)
           => Head(rest) \notin {StartByte, EndByte}
      /\ Arrived = Len(frame) - 1 => Head(rest) = EndByte
      /\ Arrived >= Len(frame) => Head(rest) \notin {StartByte, EndByte}
      /\ Arrived = Len(frame) + 4 => ~IsCrcCharacter(Head(rest))
  BY <1>1, <1>5, FrameByte
<1>9. /\ state \in States /\ state' \in States
      /\ amount_of_crc_nibbles \in Nat /\ amount_of_crc_nibbles' \in Nat
      /\ Used \in Nat /\ Used' = Used
  BY <1>1, <1>7 DEF TypeInv, TypeOK, CountInv, Used
<1>10. NoisePaid(Len(frame), Arrived, Used, state, amount_of_crc_nibbles,
                 deliveries)
  BY <1>5 DEF NoiseInv
<1>11. /\ Arrived = 0 => Starts(state', deliveries, deliveries')
       /\ Arrived = Len(frame) - 1
            => Ends(state, state', deliveries, deliveries')
       /\ Arrived \in 1..(Len(frame) - 2) \/ Arrived >= Len(frame)
            => Stays(state, state', deliveries, deliveries')
  BY <1>1, <1>2, <1>5, <1>8, ByteMoves, Zenon
<1>12. /\ Arrived = Len(frame) - 1 /\ state' = WaitCrc
            => amount_of_crc_nibbles' = 0
       /\ Arrived # Len(frame) - 1 /\ state' = WaitCrc
            => /\ amount_of_crc_nibbles' = amount_of_crc_nibbles + 1
               /\ amount_of_crc_nibbles' # 4
               /\ Arrived # Len(frame) + 4
  <2>1. Arrived # Len(frame) - 1 => Head(rest) # EndByte
    <3>1. \/ Arrived = 0 \/ Arrived \in 1..(Len(frame) - 2)
          \/ Arrived = Len(frame) - 1 \/ Arrived >= Len(frame)
      BY <1>8
    <3>2. StartByte # EndByte BY DEF StartByte, EndByte
    <3> QED BY <1>8, <3>1, <3>2
  <2>2. /\ state' = WaitCrc /\ Head(rest) # EndByte =>
             /\ IsCrcCharacter(Head(rest))
             /\ amount_of_crc_nibbles' = amount_of_crc_nibbles + 1
             /\ amount_of_crc_nibbles' # 4
        /\ state' = WaitCrc /\ Head(rest) = EndByte
             => amount_of_crc_nibbles' = 0
    BY <1>1, <1>2, <1>5, ByteProgress
  <2> QED BY <1>8, <2>1, <2>2, Zenon
<1>13. NoisePaid(Len(frame), Arrived + 1, Used, state',
                 amount_of_crc_nibbles', deliveries')
  BY <1>3, <1>8, <1>9, <1>10, <1>11, <1>12, FramePays
<1> QED BY <1>1, <1>6, <1>9, <1>13, Zenon DEF NoiseInv

(* A disturbance. *)
LEMMA DisturbNoise ==
  ASSUME P1NoiseInv, LoseByte \/ ChangeByte \/ InsertByte
  PROVE  CountInv' /\ NoiseInv'
<1> USE DEF P1NoiseInv
<1>1. /\ noise > 0 /\ noise' = noise - 1 /\ frame' = frame
      /\ check_crc' = check_crc
  BY DEF LoseByte, ChangeByte, InsertByte, Disturb, Receive, process_byte, vars
<1>2. noise' \in Nat /\ Used' = Used + 1 /\ Used \in Nat /\ Used' \in Nat
  BY <1>1, NoiseAssumption DEF CountInv, Used
<1>3. check_crc \in BOOLEAN BY DEF TypeInv, TypeOK
<1>4. /\ Len(frame) \in Nat /\ Len(frame) >= 2
      /\ Len(All) = Len(frame) + Checked + 1
      /\ Len(rest) \in Nat /\ Len(rest) <= Len(All)
  BY <1>3, TransmissionBytes, LenProperties DEF RestInv, All
<1>5. check_crc => Arrived \in 0..(Len(frame) + 5)
  BY <1>4 DEF Checked, Arrived
<1>6. \/ UNCHANGED <<vars, deliveries>>
      \/ \E b \in Bytes : Receive(b)
  BY NoiseAssumption DEF LoseByte, ChangeByte, InsertByte
<1>7. deliveries \in Nat /\ deliveries' \in Nat
  BY <1>6 DEF CountInv, Receive
<1>8. CountInv' BY <1>2, <1>7 DEF CountInv
<1>9. SUFFICES ASSUME check_crc PROVE NoiseInv'
  BY <1>1, <1>8 DEF NoiseInv
<1>10. TypeInv'
  <2>1. CASE UNCHANGED <<vars, deliveries>> BY <2>1, StutterType
  <2>2. CASE \E b \in Bytes : Receive(b) BY <2>2, TypeInvStep DEF Receive
  <2> QED BY <1>6, <2>1, <2>2
<1>11. /\ state \in States /\ state' \in States
       /\ amount_of_crc_nibbles \in Nat /\ amount_of_crc_nibbles' \in Nat
  BY <1>10 DEF TypeInv, TypeOK
<1>12. Arrived' \in {Arrived, Arrived + 1}
  <2>1. CASE InsertByte
    <3>1. rest' = rest /\ All' = All
      BY <1>1, <2>1 DEF InsertByte, All, Transmission
    <3> QED BY <3>1 DEF Arrived
  <2>2. CASE LoseByte \/ ChangeByte
    <3>1. rest # <<>> /\ rest' = Tail(rest) BY <2>2 DEF LoseByte, ChangeByte
    <3> QED BY <1>1, <3>1, RestStep
  <2> QED BY <2>1, <2>2
<1>13. \/ Stays(state, state', deliveries, deliveries')
       \/ Starts(state', deliveries, deliveries')
       \/ Ends(state, state', deliveries, deliveries')
  <2>1. CASE UNCHANGED <<vars, deliveries>> BY <2>1 DEF vars, Stays
  <2>2. CASE \E b \in Bytes : Receive(b) BY <1>9, <2>2, ByteMoves, Zenon
  <2> QED BY <1>6, <2>1, <2>2
<1>14. NoisePaid(Len(frame), Arrived, Used, state, amount_of_crc_nibbles,
                 deliveries)
  BY <1>9 DEF NoiseInv
<1>15. NoisePaid(Len(frame), Arrived', Used + 1, state',
                 amount_of_crc_nibbles', deliveries')
  <2>1. Arrived \in 0..(Len(frame) + 5) BY <1>5, <1>9
  <2>2. PICK L \in Nat : L = Len(frame) /\ L >= 2 BY <1>4
  <2>3. PICK n \in 0..(L + 5) : n = Arrived BY <2>1, <2>2
  <2>4. PICK u \in Nat : u = Used BY <1>2
  <2>5. PICK m \in Nat : m = Arrived' /\ (m = n \/ m = n + 1)
    BY <1>12, <2>2, <2>3
  <2>6. /\ NoisePaid(L, n, u, state, amount_of_crc_nibbles, deliveries)
        /\ \/ Stays(state, state', deliveries, deliveries')
           \/ Starts(state', deliveries, deliveries')
           \/ Ends(state, state', deliveries, deliveries')
    BY <1>13, <1>14, <2>2, <2>3, <2>4, Zenon
  <2>7. NoisePaid(L, m, u + 1, state', amount_of_crc_nibbles', deliveries')
    <3>1. L >= 2 BY <2>2
    <3>2. /\ state \in States /\ state' \in States
          /\ amount_of_crc_nibbles \in Nat /\ amount_of_crc_nibbles' \in Nat
          /\ deliveries \in Nat /\ deliveries' \in Nat
      BY <1>7, <1>11
    <3> QED BY <3>1, <3>2, <2>5, <2>6, DisturbancePays
  <2> QED BY <2>2, <2>4, <2>5, <2>7, Zenon
<1> QED BY <1>1, <1>2, <1>15, Zenon DEF NoiseInv

(* A frame is over when nothing of a telegram is left that it brought. *)
LEMMA NextFrameNoise ==
  ASSUME P1NoiseInv, NextFrame PROVE CountInv' /\ NoiseInv'
<1> USE DEF P1NoiseInv
<1>1. /\ rest = <<>> /\ frame' \in Telegrams /\ rest' = All'
      /\ deliveries' = 0 /\ noise' = noise /\ UNCHANGED vars
  BY DEF NextFrame, All, Transmission, vars
<1>2. CountInv' BY <1>1 DEF CountInv, Used
<1>3. /\ state' = state /\ check_crc' = check_crc /\ Used' = Used
      /\ amount_of_crc_nibbles' = amount_of_crc_nibbles
  BY <1>1 DEF vars, Used
<1>4. SUFFICES ASSUME check_crc PROVE NoiseInv'
  BY <1>2, <1>3 DEF NoiseInv
<1>5. check_crc \in BOOLEAN BY DEF TypeInv, TypeOK
<1>6. Len(rest) = 0 BY <1>1
<1>7. Len(frame) \in Nat /\ Arrived = Len(frame) + 5
  BY <1>4, <1>5, <1>6, TransmissionBytes DEF RestInv, All, Arrived, Checked
<1>8. Arrived' = 0 /\ Len(frame') \in Nat /\ Len(frame') >= 2
  <2>1. Len(frame') \in Nat /\ Len(frame') >= 2
    BY <1>1, TelegramsAssumption, LenProperties
  <2>2. Len(All') \in Nat
    BY <1>1, <1>3, <1>5, TransmissionBytes, LenProperties DEF All, Transmission
  <2> QED BY <1>1, <2>1, <2>2 DEF Arrived
<1>9. NoisePaid(Len(frame), Arrived, Used, state, amount_of_crc_nibbles,
                deliveries)
  BY <1>4 DEF NoiseInv
<1>10. Used \in Nat BY DEF CountInv
<1>11. Progress(state) <= Used
  <2>1. Progress(state) <= Used + Expected(Len(frame), Arrived)
    BY <1>9, Zenon DEF NoisePaid
  <2>2. Expected(Len(frame), Arrived) = 0 BY <1>7 DEF Expected
  <2> QED BY <1>10, <2>1, <2>2 DEF Progress
<1>12. NoisePaid(Len(frame'), 0, Used, state, amount_of_crc_nibbles, 0)
  <2>1. Progress(state) \in Nat BY DEF Progress
  <2>2. /\ Expected(Len(frame'), 0) = 0 /\ Sent(Len(frame'), 0) = 0
        /\ ~(0 >= Len(frame'))
    BY <1>8 DEF Expected, Sent
  <2>3. state = WaitCrc => Progress(state) = 2
    BY StatesDiffer DEF Progress
  <2> QED BY <1>10, <1>11, <2>1, <2>2, <2>3 DEF NoisePaid
<1> QED BY <1>1, <1>3, <1>8, <1>12, Zenon DEF NoiseInv

(* At first nothing has been received. *)
LEMMA NoiseInit == LineInit => P1NoiseInv
<1> SUFFICES ASSUME LineInit PROVE P1NoiseInv
  OBVIOUS
<1>1. TypeInv /\ RestInv BY P1InvInit DEF P1Inv
<1>2. noise = MaxNoise /\ deliveries = 0 /\ state = WaitStart
  BY DEF LineInit, Init
<1>3. CountInv /\ Used = 0 BY <1>2, NoiseAssumption DEF CountInv, Used
<1>4. NoisePaid(Len(frame), Arrived, 0, WaitStart, amount_of_crc_nibbles, 0)
  <2>1. Expected(Len(frame), Arrived) \in Nat BY DEF Expected
  <2>2. Sent(Len(frame), Arrived) \in Nat BY DEF Sent
  <2> QED BY <2>1, <2>2, StatesDiffer DEF NoisePaid, Progress
<1> QED BY <1>1, <1>2, <1>3, <1>4, Zenon DEF P1NoiseInv, NoiseInv

(* Every step, and a step in which nothing happens. *)
LEMMA NoiseStep == P1NoiseInv /\ [LineNext]_allVars => P1NoiseInv'
<1> SUFFICES ASSUME P1NoiseInv, [LineNext]_allVars PROVE P1NoiseInv'
  OBVIOUS
<1>1. CASE LineNext
  <2>1. TypeInv' BY <1>1, LineType DEF P1NoiseInv
  <2>2. CountInv' /\ NoiseInv'
    BY <1>1, TransmitNoise, DisturbNoise, NextFrameNoise DEF LineNext
  <2>3. RestInv' BY <1>1, RestKept DEF P1NoiseInv
  <2> QED BY <2>1, <2>2, <2>3 DEF P1NoiseInv
<1>2. CASE UNCHANGED allVars
  <2>1. TypeInv' BY <1>2, StutterType DEF P1NoiseInv, allVars
  <2>2. UNCHANGED <<frame, rest, check_crc, noise, deliveries, state,
                    amount_of_crc_nibbles>>
    BY <1>2 DEF allVars, vars, lineVars
  <2>3. All' = All /\ Arrived' = Arrived /\ Used' = Used
    BY <2>2, Zenon DEF All, Transmission, Arrived, Used
  <2>4. RestInv' BY <2>2, <2>3, Zenon DEF P1NoiseInv, RestInv
  <2>5. CountInv' BY <2>2, <2>3, Zenon DEF P1NoiseInv, CountInv
  <2>6. NoiseInv' BY <2>2, <2>3, Zenon DEF P1NoiseInv, NoiseInv
  <2> QED BY <2>1, <2>4, <2>5, <2>6 DEF P1NoiseInv
<1> QED BY <1>1, <1>2

(* However noise falls, a frame yields at most one telegram, and one more  *)
(* for every two disturbances.                                             *)
THEOREM ExtraTelegramsCost == LineSpec => []ExtraTelegramsCostNoise
<1>1. P1NoiseInv => ExtraTelegramsCostNoise
  <2> SUFFICES ASSUME P1NoiseInv, check_crc
               PROVE  2 * (deliveries - 1) <= MaxNoise - noise
    BY DEF ExtraTelegramsCostNoise
  <2>1. deliveries \in Nat /\ Used \in Nat BY DEF P1NoiseInv, CountInv
  <2>2. 2 * deliveries + Progress(state) <= Used + Sent(Len(frame), Arrived)
    BY Zenon DEF P1NoiseInv, NoiseInv, NoisePaid
  <2>3. Progress(state) \in 0..2 /\ Sent(Len(frame), Arrived) \in 0..2
    BY DEF Progress, Sent
  <2>4. 2 * (deliveries - 1) <= Used BY <2>1, <2>2, <2>3
  <2> QED BY <2>4 DEF Used
<1> QED BY <1>1, NoiseInit, NoiseStep, PTL DEF LineSpec

(* While the line has been disturbed once at most, no frame yields a       *)
(* second telegram, whichever telegrams and checksums there are.           *)
THEOREM OneTelegramAFrame == LineSpec => [](Used <= 1 => OncePerFrame)
<1>1. CountInv /\ ExtraTelegramsCostNoise => (Used <= 1 => OncePerFrame)
  BY DEF CountInv, ExtraTelegramsCostNoise, OncePerFrame, Used
<1>2. P1NoiseInv => CountInv BY DEF P1NoiseInv
<1> QED BY <1>1, <1>2, NoiseInit, NoiseStep, ExtraTelegramsCost, PTL DEF LineSpec
=============================================================================
