-------------------------- MODULE DlmsPacketProofs --------------------------
(***************************************************************************)
(* The length checks of DlmsPacket::from_bytes, for every width of size_t, *)
(* every size of the span and every value of the length field; and what    *)
(* decrypt_inplace may do with what passes them, for every set of packets. *)
(***************************************************************************)
EXTENDS DlmsPacketDecryptor, TLAPS

SpanOK(b) == /\ b.size \in Nat /\ b.size < SizeLimit
             /\ b.total_length \in Nat /\ b.total_length < 65536

(* A field below 17 makes telegram_length wrap around, and expected_length *)
(* wraps back to a size that LongEnough has refused.                       *)
LEMMA ShortField ==
  ASSUME NEW b, SpanOK(b), b.total_length < 17
  PROVE  /\ telegram_length(b) = b.total_length - 17 + SizeLimit
         /\ expected_length(b) = b.total_length + 13
<1> DEFINE t == b.total_length
<1>1. t \in Nat /\ t < 17
  BY DEF SpanOK
<1>2. telegram_length(b) = SizeT(t - 5 - 12)
  BY DEF telegram_length, TagLength
<1>3. expected_length(b) = SizeT(18 + 12 + telegram_length(b))
  BY DEF expected_length, HeaderSize, TagLength
<1> HIDE DEF t
<1>4. SizeT(t - 5 - 12) = t - 17 + SizeLimit
  BY <1>1, SizeLimitAssumption DEF SizeT
<1>5. SizeT(18 + 12 + (t - 17 + SizeLimit)) = t + 13
  BY <1>1, SizeLimitAssumption DEF SizeT
<1> QED
  BY <1>2, <1>3, <1>4, <1>5 DEF t

(* A field of 17 and more is the length of the telegram and 17.            *)
LEMMA LongField ==
  ASSUME NEW b, SpanOK(b), b.total_length >= 17
  PROVE  /\ telegram_length(b) = b.total_length - 17
         /\ expected_length(b) = SizeT(b.total_length + 13)
<1> DEFINE t == b.total_length
<1>1. t \in Nat /\ t >= 17 /\ t < 65536
  BY DEF SpanOK
<1>2. telegram_length(b) = SizeT(t - 5 - 12)
  BY DEF telegram_length, TagLength
<1>3. expected_length(b) = SizeT(18 + 12 + telegram_length(b))
  BY DEF expected_length, HeaderSize, TagLength
<1> HIDE DEF t
<1>4. SizeT(t - 5 - 12) = t - 17
  BY <1>1, SizeLimitAssumption DEF SizeT
<1>5. 18 + 12 + (t - 17) = t + 13
  BY <1>1
<1> QED
  BY <1>2, <1>3, <1>4, <1>5 DEF t

(* The three checks of the lengths let through exactly the spans that are  *)
(* as long as the field says, with a telegram of ten bytes or more.        *)
LEMMA LengthCheck ==
  ASSUME NEW b, SpanOK(b)
  PROVE  (LongEnough(b) /\ LengthAgrees(b) /\ telegram_length(b) >= 10)
           <=> (b.total_length >= 27 /\ b.size = b.total_length + 13)
<1> DEFINE s == b.size
           t == b.total_length
<1>1. s \in Nat /\ s < SizeLimit /\ t \in Nat /\ t < 65536
  BY DEF SpanOK
<1>2. LongEnough(b) <=> s >= 30
  BY DEF LongEnough, HeaderSize, TagLength
<1>3. LengthAgrees(b) <=> expected_length(b) = s
  BY DEF LengthAgrees
<1>4. CASE t < 17
  <2>1. expected_length(b) = t + 13
    BY <1>4, ShortField
  <2> HIDE DEF s, t
  <2>2. ~(expected_length(b) = s /\ s >= 30)
    BY <2>1, <1>1, <1>4
  <2>3. ~(t >= 27)
    BY <1>1, <1>4
  <2> QED
    BY <2>2, <2>3, <1>2, <1>3 DEF s, t
<1>5. CASE t >= 17
  <2>1. telegram_length(b) = t - 17 /\ expected_length(b) = SizeT(t + 13)
    BY <1>5, LongField
  <2> HIDE DEF s, t
  <2>2. CASE t + 13 < SizeLimit
    <3>1. SizeT(t + 13) = t + 13
      BY <2>2, <1>1, SizeLimitAssumption DEF SizeT
    <3>2. (s >= 30 /\ SizeT(t + 13) = s /\ t - 17 >= 10)
            <=> (t >= 27 /\ s = t + 13)
      BY <3>1, <1>1, <1>5
    <3> QED
      BY <3>2, <2>1, <1>2, <1>3 DEF s, t
  <2>3. CASE t + 13 >= SizeLimit
    <3>1. SizeT(t + 13) = t + 13 - SizeLimit
      BY <2>3, <1>1, SizeLimitAssumption DEF SizeT
    <3>2. t + 13 - SizeLimit < 30 /\ s # t + 13
      BY <2>3, <1>1, SizeLimitAssumption
    <3>3. ~(s >= 30 /\ SizeT(t + 13) = s) /\ ~(s = t + 13)
      BY <3>1, <3>2, <1>1, SizeLimitAssumption
    <3> QED
      BY <3>3, <2>1, <1>2, <1>3 DEF s, t
  <2> QED
    BY <2>2, <2>3, <1>1, SizeLimitAssumption
<1> QED
  BY <1>1, <1>4, <1>5

(* The layout of a packet, said of its two lengths.                        *)
LEMMA Layout ==
  ASSUME NEW b, SpanOK(b)
  PROVE  WellFormed(b) <=> /\ b.total_length >= 27
                           /\ b.size = b.total_length + 13
                           /\ b.header_bytes_consistent
<1> DEFINE s == b.size
           t == b.total_length
<1>1. s \in Nat /\ t \in Nat
  BY DEF SpanOK
<1>2. WellFormed(b) <=> /\ \E n \in 10..s : s = 30 + n /\ t = 17 + n
                        /\ b.header_bytes_consistent
  <2>1. \A n \in 10..s : /\ 18 + n + 12 = 30 + n
                         /\ 5 + n + 12 = 17 + n
    BY <1>1
  <2> QED
    BY <2>1 DEF WellFormed, HeaderSize, TagLength
<1> HIDE DEF s, t
<1>3. (\E n \in 10..s : s = 30 + n /\ t = 17 + n) <=> (t >= 27 /\ s = t + 13)
  <2>1. ASSUME NEW n \in 10..s, s = 30 + n, t = 17 + n
        PROVE  t >= 27 /\ s = t + 13
    BY <2>1, <1>1
  <2>2. ASSUME t >= 27, s = t + 13
        PROVE  \E n \in 10..s : s = 30 + n /\ t = 17 + n
    <3>1. t - 17 \in 10..s /\ s = 30 + (t - 17) /\ t = 17 + (t - 17)
      BY <2>2, <1>1
    <3> QED
      BY <3>1
  <2> QED
    BY <2>1, <2>2
<1> QED
  BY <1>2, <1>3 DEF s, t

(* from_bytes returns a packet for exactly the spans laid out as one.      *)
THEOREM AcceptsWellFormed ==
  ASSUME NEW b, SpanOK(b)
  PROVE  Accepts(b) <=> WellFormed(b)
BY LengthCheck, Layout DEF Accepts

-----------------------------------------------------------------------------
(* Of the last call, the outcome agrees with what from_bytes answered.     *)
OutcomeInv == /\ packet \in Packets
              /\ outcome # "no call" => (outcome # "nullptr" <=> Accepts(packet))

(* Everything the line delivers is a span with the sizes it can have.      *)
LEMMA PacketsAreSpans ==
  ASSUME NEW p \in Packets
  PROVE  SpanOK(p)
BY PacketsAssumption DEF SpanOK

(* The outcome holds what from_bytes answered from the first state on.     *)
LEMMA OutcomeInit == Init => OutcomeInv
BY DEF Init, OutcomeInv

(* Every step keeps it so: the packet changes only with the outcome.       *)
LEMMA OutcomeStep == OutcomeInv /\ [Next]_vars => OutcomeInv'
<1> SUFFICES ASSUME OutcomeInv, [Next]_vars
             PROVE  OutcomeInv'
  OBVIOUS
<1>1. ASSUME packet' = packet, outcome' = outcome
      PROVE  OutcomeInv'
  <2>1. Accepts(packet)' <=> Accepts(packet)
    BY <1>1 DEF Accepts, LongEnough, LengthAgrees, expected_length, telegram_length
  <2> QED
    BY <1>1, <2>1, Zenon DEF OutcomeInv
<1>2. ASSUME packet' = packet, Accepts(packet), outcome' \notin {"no call", "nullptr"}
      PROVE  OutcomeInv'
  <2>1. Accepts(packet)'
    BY <1>2 DEF Accepts, LongEnough, LengthAgrees, expected_length, telegram_length
  <2> QED
    BY <1>2, <2>1, Zenon DEF OutcomeInv
<1>3. CASE Receive
  BY <1>3, Zenon DEF Receive, OutcomeInv
<1>4. ASSUME NEW k \in Keys, set_encryption_key(k)
      PROVE  OutcomeInv'
  BY <1>4, <1>1 DEF set_encryption_key
<1>5. CASE decrypt_inplace
  <2>1. packet' = packet
    BY <1>5 DEF decrypt_inplace
  <2>2. CASE RejectPacket
    <3>1. ~Accepts(packet)' /\ outcome' = "nullptr"
      BY <2>1, <2>2 DEF RejectPacket, Accepts, LongEnough, LengthAgrees,
                        expected_length, telegram_length
    <3> QED
      BY <2>1, <3>1, Zenon DEF OutcomeInv
  <2>3. CASE DecryptionFailed
    BY <2>1, <2>3, <1>2 DEF DecryptionFailed
  <2>4. CASE NoTelegram
    BY <2>1, <2>4, <1>2 DEF NoTelegram, Opened
  <2>5. CASE ReturnTelegram
    BY <2>1, <2>5, <1>2 DEF ReturnTelegram, Opened
  <2> QED
    BY <1>5, <2>2, <2>3, <2>4, <2>5 DEF decrypt_inplace
<1>6. CASE UNCHANGED vars
  BY <1>6, <1>1 DEF vars
<1> QED
  BY <1>3, <1>4, <1>5, <1>6 DEF Next

(* In every reachable state the outcome is that of the packet at hand.     *)
LEMMA OutcomeCorrect == Spec => []OutcomeInv
BY OutcomeInit, OutcomeStep, PTL DEF Spec

(* A span is decrypted exactly when it is laid out as a packet.            *)
THEOREM DecryptsExactlyPackets == Spec => []AcceptsExactlyPackets
<1>1. OutcomeInv => AcceptsExactlyPackets
  <2> SUFFICES ASSUME OutcomeInv
               PROVE  AcceptsExactlyPackets
    OBVIOUS
  <2>1. Accepts(packet) <=> WellFormed(packet)
    BY PacketsAreSpans, AcceptsWellFormed DEF OutcomeInv
  <2> QED
    BY <2>1, Zenon DEF OutcomeInv, AcceptsExactlyPackets
<1> QED
  BY <1>1, OutcomeCorrect, PTL

(* The ranges of a packet that is accepted lie in the span, one behind the *)
(* other, and the telegram has ten bytes or more.                          *)
LEMMA AcceptedRanges ==
  ASSUME NEW b, SpanOK(b), Accepts(b)
  PROVE  /\ encrypted_telegram(b).last >= encrypted_telegram(b).first + 10
         /\ encrypted_telegram(b).last = gcm_tag(b).first
         /\ gcm_tag(b).last = b.size
<1> DEFINE n == telegram_length(b)
           s == b.size
           t == b.total_length
<1>1. t \in Nat /\ s \in Nat /\ t >= 27 /\ s = t + 13
  BY LengthCheck DEF SpanOK, Accepts
<1>2. n = t - 17
  BY <1>1, LongField
<1>3. /\ encrypted_telegram(b).first = 18
      /\ encrypted_telegram(b).last = 18 + n
      /\ gcm_tag(b).first = 18 + n
      /\ gcm_tag(b).last = 18 + n + 12
  BY DEF encrypted_telegram, gcm_tag, HeaderSize, TagLength
<1> HIDE DEF n, s, t
<1>4. 18 + n >= 18 + 10 /\ 18 + n + 12 = s
  BY <1>1, <1>2
<1> QED
  BY <1>3, <1>4 DEF s

(* Whatever the decryptor is called with lies inside the caller's span.    *)
THEOREM DecryptorStaysInside == Spec => []RangesInsideSpan
<1>1. OutcomeInv => RangesInsideSpan
  <2> SUFFICES ASSUME OutcomeInv, outcome \notin {"no call", "nullptr"}
               PROVE  /\ encrypted_telegram(packet).last
                            >= encrypted_telegram(packet).first + 10
                      /\ encrypted_telegram(packet).last = gcm_tag(packet).first
                      /\ gcm_tag(packet).last = packet.size
    BY DEF RangesInsideSpan
  <2>1. Accepts(packet)
    BY Zenon DEF OutcomeInv
  <2> QED
    BY <2>1, PacketsAreSpans, AcceptedRanges DEF OutcomeInv
<1> QED
  BY <1>1, OutcomeCorrect, PTL

-----------------------------------------------------------------------------
(* What a returned view rests on: it was returned by the call that opened  *)
(* the packet, and nothing was done to the bytes since.                    *)
ViewInv == returned # 0 => /\ contents = "plain"
                           /\ packet.intact
                           /\ Accepts(packet)
                           /\ HasTelegram(packet)
                           /\ returned = ViewLength(packet)

(* No view has been returned at first.                                     *)
LEMMA ViewInit == Init => ViewInv
BY DEF Init, ViewInv

(* A step that touches the bytes takes the view back, unless it opened them.*)
LEMMA ViewStep == ViewInv /\ [Next]_vars => ViewInv'
<1> SUFFICES ASSUME ViewInv, [Next]_vars
             PROVE  ViewInv'
  OBVIOUS
<1>1. ASSUME returned' = 0
      PROVE  ViewInv'
  BY <1>1 DEF ViewInv
<1>2. ASSUME packet' = packet
      PROVE  /\ Accepts(packet)' <=> Accepts(packet)
             /\ HasTelegram(packet)' <=> HasTelegram(packet)
             /\ ViewLength(packet)' = ViewLength(packet)
  BY <1>2 DEF Accepts, LongEnough, LengthAgrees, expected_length,
              telegram_length, HasTelegram, ViewLength
<1>3. ASSUME packet' = packet, contents' = contents, returned' = returned
      PROVE  ViewInv'
  BY <1>2, <1>3, Zenon DEF ViewInv
<1>4. CASE Receive
  BY <1>1, <1>4 DEF Receive
<1>5. ASSUME NEW k \in Keys, set_encryption_key(k)
      PROVE  ViewInv'
  BY <1>3, <1>5 DEF set_encryption_key
<1>6. CASE decrypt_inplace
  <2>1. packet' = packet
    BY <1>6 DEF decrypt_inplace
  <2>2. CASE RejectPacket
    BY <1>1, <2>2 DEF RejectPacket
  <2>3. CASE DecryptionFailed
    BY <1>1, <2>3 DEF DecryptionFailed
  <2>4. CASE NoTelegram
    BY <1>1, <2>4 DEF NoTelegram
  <2>5. CASE ReturnTelegram
    <3>1. /\ contents' = "plain"
          /\ packet'.intact
          /\ Accepts(packet)
          /\ HasTelegram(packet)
          /\ returned' = ViewLength(packet)
      BY <2>1, <2>5 DEF ReturnTelegram, Opened, decryptor!Opens
    <3> QED
      BY <1>2, <2>1, <3>1, Zenon DEF ViewInv
  <2> QED
    BY <1>6, <2>2, <2>3, <2>4, <2>5 DEF decrypt_inplace
<1>7. CASE UNCHANGED vars
  BY <1>3, <1>7 DEF vars
<1> QED
  BY <1>4, <1>5, <1>6, <1>7 DEF Next

(* The '!' of a packet that is accepted lies in its telegram.              *)
LEMMA BangInside ==
  ASSUME NEW p \in Packets, Accepts(p)
  PROVE  HeaderSize + p.bang <= encrypted_telegram(p).last
<1> DEFINE n == telegram_length(p)
           t == p.total_length
           b == p.bang
<1>1. t \in Nat /\ t >= 27 /\ b \in Nat
  BY PacketsAreSpans, LengthCheck, PacketsAssumption DEF SpanOK, Accepts
<1>2. n = t - 17
  BY <1>1, PacketsAreSpans, LongField
<1>3. b <= t - 17
  BY PacketsAreSpans, AcceptsWellFormed, PacketsAssumption
<1>4. encrypted_telegram(p).last = 18 + n
  BY DEF encrypted_telegram, HeaderSize
<1> HIDE DEF n, t, b
<1>5. 18 + b <= 18 + n
  BY <1>1, <1>2, <1>3
<1> QED
  BY <1>4, <1>5 DEF HeaderSize, b

(* A view that is returned shows authenticated plaintext of the packet,    *)
(* and keeps showing it until the bytes are touched again.                 *)
THEOREM ViewsAreAuthenticated == Spec => []ViewIsAuthenticated
<1>1. Init => ViewInv
  BY ViewInit
<1>2. ViewInv /\ [Next]_vars => ViewInv'
  BY ViewStep
<1>3. OutcomeInv /\ ViewInv => ViewIsAuthenticated
  <2> SUFFICES ASSUME OutcomeInv, ViewInv, returned # 0
               PROVE  /\ contents = "plain"
                      /\ packet.intact
                      /\ packet.starts_with_slash
                      /\ returned = packet.bang
                      /\ HeaderSize + returned <= encrypted_telegram(packet).last
    BY DEF ViewIsAuthenticated
  <2>1. packet \in Packets
    BY DEF OutcomeInv
  <2>2. /\ contents = "plain" /\ packet.intact /\ Accepts(packet)
        /\ packet.starts_with_slash /\ returned = packet.bang
    BY DEF ViewInv, HasTelegram, ViewLength
  <2> QED
    BY <2>1, <2>2, BangInside
<1> QED
  BY <1>1, <1>2, <1>3, OutcomeCorrect, PTL DEF Spec
=============================================================================
